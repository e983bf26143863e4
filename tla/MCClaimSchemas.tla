---------------------------- MODULE MCClaimSchemas ----------------------------
(***************************************************************************)
(* Instance of ClaimSchemas for TLC: the SDK's own schemas, four CTypes    *)
(* (plain, nested, self-referring, malformed) and small schemas that       *)
(* exercise each group of keywords, with instances on both sides of every  *)
(* limit; and the comparison with JsonSchemaMeaning.                       *)
(***************************************************************************)
EXTENDS ClaimSchemas

\* The alphabet: strings, what their length is, what they match.
MCLength(s) == CASE s = "" -> 0 [] s = "a" -> 1 [] s = "ab" -> 2 [] OTHER -> 3
MCMatches(pattern, s) ==
    CASE pattern = "^.*$" -> TRUE
      [] pattern = "^a" -> s \in {"a", "ab"}
      [] OTHER -> s \in {"kilt:ctype:0x1", "kilt:ctype:0x2", "kilt:ctype:0x3", "kilt:ctype:0x4"}
MCHasFormat(format, s) ==
    CASE format = "uri" -> s \in {"kilt:ctype:0x1", "kilt:ctype:0x2", "kilt:ctype:0x3",
                                  "kilt:ctype:0x4", "http://kilt-protocol.org/draft-01/ctype#"}
      [] format = "date" -> s = "2022-02-02"
      [] format = "date-time" -> s = "2022-02-02T02:02:02Z"
      [] OTHER -> TRUE

Whole(n) == [number |-> 2 * n]
Half == [number |-> 1]
Null == [null |-> TRUE]
Flag == [boolean |-> TRUE]
List(items) == [array |-> items]
Obj(f) == [object |-> f]
Empty == Obj([k \in {} |-> Null])
Doc(name) == [id |-> Uri(name, <<>>)]

-----------------------------------------------------------------------------
(* CTypes and claims.                                                       *)

CType(id, properties) ==
    [id |-> Uri(id, <<>>), type |-> {"object"}, properties |-> properties]
To(id) == [ref |-> Uri(id, <<>>)]

Person == CType("kilt:ctype:0x1", [a |-> OfType("string"), b |-> OfType("integer")])
Driver == CType("kilt:ctype:0x2", [who |-> To("kilt:ctype:0x1"),
                                   since |-> [type |-> {"string"}, format |-> "date"]])
Parent == CType("kilt:ctype:0x3", [who |-> To("kilt:ctype:0x3"), n |-> OfType("number")])
Undecided == CType("kilt:ctype:0x4", [a |-> OfType("string") @@ To("kilt:ctype:0x1")])

MCCTypes == {Person, Driver, Parent, Undecided}

PropertyJson(p) ==
    Obj((IF Has(p, "type") THEN "type" :> Text(CHOOSE t \in p.type : TRUE) ELSE <<>>)
        @@ (IF Has(p, "ref") THEN "$ref" :> Text(p.ref.doc) ELSE <<>>)
        @@ (IF Has(p, "format") THEN "format" :> Text(p.format) ELSE <<>>))
MCCTypeJson(ct) ==
    Obj(("$id" :> Text(ct.id.doc)) @@ ("title" :> Text("a"))
        @@ ("$schema" :> Text("http://kilt-protocol.org/draft-01/ctype#"))
        @@ ("type" :> Text("object"))
        @@ ("properties" :> Obj([p \in DOMAIN ct.properties |-> PropertyJson(ct.properties[p])])))

Without(json, key) == Obj([k \in DOMAIN json.object \ {key} |-> json.object[k]])
With(json, key, v) == Obj((key :> v) @@ json.object)

Sound == Obj([a |-> Text("a"), b |-> Whole(1)])
Claims == {Empty, Sound, With(Sound, "b", Half), With(Sound, "who", Flag),
           Obj([who |-> Sound]), Obj([who |-> With(Sound, "b", Text("a"))]),
           Obj([who |-> Obj([n |-> Half]), n |-> Whole(1)]),
           Obj([who |-> Sound, since |-> Text("2022-02-02")]), Obj([since |-> Text("a")])}

-----------------------------------------------------------------------------
(* Schemas for the other keywords.                                          *)

Combined ==
    Doc("combined") @@
    [definitions |-> [small |-> [maximum |-> 4, anchor |-> "small"],
                      named |-> Doc("named") @@ [ref |-> Uri("", <<"definitions", "word">>),
                          definitions |-> [word |-> [type |-> {"string"}, minLength |-> 2]]]],
     anyOf |-> <<[ref |-> Uri("", <<"definitions", "small">>)], [ref |-> Uri("named", <<>>)],
                 OfType("object")>>,
     allOf |-> <<[not |-> [const |-> Whole(1)]], [minimum |-> 0, exclusiveMaximum |-> 4]>>,
     oneOf |-> <<[multipleOf |-> 2], [ref |-> Uri("", <<"small">>), minimum |-> 3],
                 [enum |-> {Text("ab"), Sound}], OfType("boolean")>>]

Choosing ==
    Doc("choosing") @@
    ("if" :> [properties |-> [a |-> [const |-> Flag]], required |-> {"a"}])
    @@ ("then" :> [required |-> {"b"}]) @@ ("else" :> [maxProperties |-> 1])
    @@ [propertyNames |-> [maxLength |-> 1],
        dependencies |-> [b |-> [keys |-> {"a"}], c |-> [minProperties |-> 2]],
        dependentRequired |-> [d |-> {"a"}],
        dependentSchemas |-> [d |-> [properties |-> [d |-> OfType("null")]]]]

Listing ==
    Doc("listing") @@
    [itemsList |-> <<OfType("integer"), [boolean |-> TRUE]>>,
     additionalItems |-> OfType("string"),
     contains |-> [minimum |-> 2], uniqueItems |-> TRUE, minItems |-> 1, maxItems |-> 3]

Prefixed ==
    Doc("prefixed") @@
    [prefixItems |-> <<OfType("integer")>>, items |-> [type |-> {"integer", "string"}],
     contains |-> OfType("integer"), minContains |-> 0, maxContains |-> 1]

\* What is evaluated decides: only the two modes are compared on these.
LeftOver ==
    Doc("leftover") @@
    [allOf |-> <<[properties |-> [a |-> Text("a") @@ [type |-> {"integer"}]]],
                 [patternProperties |-> ("^a" :> OfType("integer"))]>>,
     anyOf |-> <<[properties |-> [b |-> OfType("integer")]], [boolean |-> TRUE]>>,
     unevaluatedProperties |-> OfType("boolean")]
Tails == Doc("tails") @@ [prefixItems |-> <<OfType("integer")>>, contains |-> OfType("string"),
                          unevaluatedItems |-> OfType("boolean")]

\* Schemas read in a way of the validator's own.
Odd ==
    Doc("odd") @@
    ("if" :> [properties |-> [b |-> OfType("boolean"), a |-> [boolean |-> TRUE]]])
    @@ [unevaluatedProperties |-> OfType("null")]

\* A tree whose nodes are trees, as $recursiveRef says it.
Tree ==
    Doc("tree") @@
    [recursiveAnchor |-> TRUE, type |-> {"object"}, required |-> {"n"},
     properties |-> [n |-> OfType("integer"),
                     kids |-> [items |-> [recursiveRef |-> Uri("", <<>>)]]]]

Limits == Doc("limits") @@ [type |-> {"number"}, minimum |-> 2, exclusiveMinimum |-> TRUE,
                            maximum |-> 6]

MCDocuments ==
    {Person, Driver, CTypeModel, CTypeWrapperModel, MetadataModel, QuoteSchema,
     Combined, Choosing, Listing, Prefixed, LeftOver, Odd, Tails, Tree, Limits}
MCDrafts(s) == IF s = Limits THEN {"4"} ELSE {"7", "2019-09"}

Quote == Obj([attesterDid |-> Text("a"), cTypeHash |-> Text("a"), currency |-> Text("a"),
              cost |-> Obj([net |-> Half, gross |-> Whole(1), tax |-> Empty]),
              termsAndConditions |-> Text("a"), timeframe |-> Text("2022-02-02T02:02:02Z")])
Node(n, kids) == Obj([n |-> n, kids |-> List(kids)])
Leaf(n) == Obj([n |-> n])
Titled == Obj([default |-> Text("a"), fr |-> Text("ab")])
Metadata == Obj([ctypeHash |-> Text("a"),
                 metadata |-> Obj([title |-> Titled,
                                   properties |-> Obj([p |-> Obj([title |-> Titled])])])])

Subsets == {Obj([k \in ks |-> IF k = "a" THEN v ELSE Null]) :
                ks \in SUBSET {"a", "b", "c", "d"}, v \in {Flag, Whole(1)}}
Lists == UNION {[1 .. n -> {Whole(0), Whole(1), Half, Text("a")}] : n \in 0 .. 3}

MCInstances(s) ==
    CASE s \in MCCTypes -> Claims
      [] s = CTypeModel ->
            {MCCTypeJson(ct) : ct \in MCCTypes}
            \cup {Without(MCCTypeJson(Person), k) : k \in {"title", "$id", "type"}}
            \cup {With(MCCTypeJson(Person), "required", List(<<>>)),
                  With(MCCTypeJson(Person), "$id", Text("a"))}
      [] s = CTypeWrapperModel ->
            {Obj([schema |-> MCCTypeJson(ct), hash |-> h, owner |-> o]) :
                 ct \in {Person, Undecided}, h \in {Text("a"), Null}, o \in {Text("a"), Null, Flag}}
      [] s = MetadataModel ->
            {Metadata, With(Metadata, "ctypeHash", Text("")), With(Metadata, "a", Flag),
             With(Metadata, "metadata", Obj([title |-> Titled])),
             With(Metadata, "metadata", Obj([title |-> With(Titled, "fr", Flag),
                                             properties |-> Empty])),
             With(Metadata, "metadata", Obj([title |-> Titled,
                                             properties |-> Obj([p |-> Titled])]))}
      [] s = QuoteSchema ->
            {Quote, With(Quote, "timeframe", Text("a")), Without(Quote, "currency"),
             With(Quote, "cost", Obj([net |-> Half, gross |-> Text("a"), tax |-> Empty])),
             With(Quote, "cost", Obj([net |-> Half, gross |-> Half]))}
      [] s = Combined -> {Whole(n) : n \in 0 .. 3} \cup {Half, [number |-> 3], Text("ab"),
                                                       Text("a"), Sound, Empty, Flag}
      [] s = Choosing -> Subsets
      [] s \in {Listing, Prefixed} -> {List(l) : l \in Lists}
      [] s = Tails -> {List(l) : l \in UNION {[1 .. n -> {Whole(0), Flag, Text("a")}] : n \in 0 .. 3}}
      [] s = Odd -> Subsets
      [] s = LeftOver -> {Obj([k \in ks |-> IF k \in one THEN Whole(1) ELSE Flag]) :
                              ks \in SUBSET {"a", "ab", "b"}, one \in SUBSET {"a", "ab", "b"}}
      [] s = Tree -> {Leaf(Whole(1)), Leaf(Half), Node(Whole(1), <<Leaf(Whole(0)), Leaf(Half)>>),
                      Node(Whole(1), <<Node(Whole(0), <<Leaf(Whole(0))>>)>>),
                      Node(Whole(1), <<Node(Whole(0), <<Leaf(Half)>>)>>), Flag}
      [] OTHER -> {Half, Text("a")} \cup {Whole(n) : n \in 0 .. 4}
=============================================================================
