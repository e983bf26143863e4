----------------------------- MODULE JsonSchema -----------------------------
(***************************************************************************)
(* The JSON schema validator the SDK carries (packages/utils/src/          *)
(* json-schema): the walk that registers every subschema under its URI     *)
(* (dereference), and the recursive validation of one instance against one *)
(* schema (validate), with the short-circuit mode, the four drafts it      *)
(* accepts, and the record of which properties and items were evaluated.   *)
(*                                                                         *)
(* A JSON value is a record with one field that names its type:            *)
(*   [string |-> s], [number |-> n] (n counts halves, so that 3 is one and *)
(*   a half), [boolean |-> b], [null |-> TRUE], [array |-> a sequence] and *)
(*   [object |-> a function from its keys].                                *)
(* A schema is a record of its keywords, or [boolean |-> b] for the two    *)
(* boolean schemas. "type" is the set of the types it allows, "itemsList"  *)
(* the array form of "items", and a URI the pair of a document and a path. *)
(***************************************************************************)
EXTENDS Integers, SequencesExt, FiniteSetsExt

CONSTANTS
    NoSchema,         \* recursiveAnchor = null
    Length(_),        \* the number of characters of a string (ucs2length)
    Matches(_, _),    \* new RegExp(pattern).test(string)
    HasFormat(_, _)   \* fastFormat[format](string); TRUE for unknown formats

\* The iteration order of an object's keys: some order, always the same.
InOrder(keys) == FoldSet(LAMBDA k, l : Append(l, k), <<>>, keys)
Has(s, keyword) == keyword \in DOMAIN s
Uri(doc, path) == [doc |-> doc, path |-> path]

-----------------------------------------------------------------------------
(* dereference.ts *)

SchemaKeyword ==
    {"additionalItems", "unevaluatedItems", "items", "contains",
     "additionalProperties", "unevaluatedProperties", "propertyNames",
     "not", "if", "then", "else"}
SchemaArrayKeyword == {"prefixItems", "itemsList", "allOf", "anyOf", "oneOf"}
SchemaMapKeyword ==
    {"defs", "definitions", "properties", "patternProperties", "dependentSchemas"}
IgnoredKeyword ==
    {"id", "ref", "anchor", "enum", "const", "required", "type", "maximum",
     "minimum", "exclusiveMaximum", "exclusiveMinimum", "multipleOf",
     "maxLength", "minLength", "pattern", "format", "maxItems", "minItems",
     "uniqueItems", "maxProperties", "minProperties"}

\* dependencies is in no table: it is walked as if it were a schema, so a
\* dependency on a property named like an ignored keyword is skipped, and one
\* whose value lists property names holds no schema.
DependencyKeys(s) ==
    {k \in DOMAIN s.dependencies \ IgnoredKeyword : ~ Has(s.dependencies[k], "keys")}

\* The subschemas of s that dereference visits: their path below s.
ChildPaths(s) ==
    {<<k>> : k \in DOMAIN s \cap SchemaKeyword}
    \cup UNION {{<<k, ToString(i)>> : i \in DOMAIN s[k]} :
                    k \in DOMAIN s \cap SchemaArrayKeyword}
    \cup UNION {{<<k, p>> : p \in DOMAIN s[k]} : k \in DOMAIN s \cap SchemaMapKeyword}
    \cup (IF Has(s, "dependencies")
          THEN {<<"dependencies", p>> : p \in DependencyKeys(s)} ELSE {})

At(s, path) ==
    IF Len(path) = 1 THEN s[path[1]]
    ELSE IF path[1] \in SchemaArrayKeyword
         THEN s[path[1]][CHOOSE i \in DOMAIN s[path[1]] : ToString(i) = path[2]]
         ELSE s[path[1]][path[2]]

\* An $id without a fragment starts a document of its own.
BaseOf(s, base) == IF Has(s, "id") /\ s.id.path = <<>> THEN s.id.doc ELSE base
Resolve(ref, base) == IF ref.doc = "" THEN [ref EXCEPT !.doc = base] ELSE ref

\* __absolute_ref__ and __absolute_recursive_ref__, set on the schema object at
\* the first visit: the one under the closest $id.
RECURSIVE Annotate(_, _)
Annotate(s, base) ==
    IF Has(s, "boolean") THEN s
    ELSE LET b == BaseOf(s, base)
             visited == ChildPaths(s)
             Within(k) ==
                 IF <<k>> \in visited THEN Annotate(s[k], b)
                 ELSE IF k \in SchemaArrayKeyword
                 THEN [i \in DOMAIN s[k] |-> Annotate(s[k][i], b)]
                 ELSE IF k \in SchemaMapKeyword \cup {"dependencies"}
                 THEN [p \in DOMAIN s[k] |-> IF <<k, p>> \in visited
                                             THEN Annotate(s[k][p], b) ELSE s[k][p]]
                 ELSE IF k \in {"ref", "recursiveRef"} THEN Resolve(s[k], b)
                 ELSE s[k]
         IN  [k \in DOMAIN s |-> Within(k)]

\* What dereference registers, in order: the schema itself, the document an
\* embedded $id starts, its anchor, then its subschemas. Only the registration
\* of a schema's own URI is refused when the URI is taken.
RECURSIVE Entries(_, _, _)
Entries(s, base, path) ==
    LET embedded == path # <<>> /\ ~ Has(s, "boolean") /\ BaseOf(s, "") # ""
        b == IF path = <<>> /\ ~ Has(s, "boolean") THEN BaseOf(s, base) ELSE base
        Entry(uri, once) == [uri |-> uri, schema |-> s, once |-> once]
        children == InOrder(IF Has(s, "boolean") THEN {} ELSE ChildPaths(s))
    IN  (IF Has(s, "id") /\ s.id.path # <<>>
         THEN <<Entry(Resolve(s.id, base), FALSE)>> ELSE <<>>)
        \o (IF embedded THEN Entries(s, base, <<>>) ELSE <<>>)
        \o <<Entry(Uri(b, path), TRUE)>>
        \o (IF Has(s, "anchor") THEN <<Entry(Uri(b, <<s.anchor>>), FALSE)>> ELSE <<>>)
        \o FlattenSeq([i \in DOMAIN children |->
                           Entries(At(s, children[i]), b, path \o children[i])])

\* The lookup after the entries are registered, up to the first URI that is
\* taken: "Duplicate schema URI" is thrown there and the rest is not reached.
Register(lookup, entries) ==
    FoldLeft(LAMBDA l, e :
                 IF l.thrown \/ (e.once /\ e.uri \in DOMAIN l.lookup)
                 THEN [l EXCEPT !.thrown = TRUE]
                 ELSE [l EXCEPT !.lookup = [u \in DOMAIN @ \cup {e.uri} |->
                           IF u = e.uri THEN e.schema ELSE @[u]]],
             [lookup |-> lookup, thrown |-> FALSE], entries)

InitialBase == "https://github.com/cfworker"
Dereference(s, lookup) ==
    Register(lookup, Entries(Annotate(s, InitialBase), InitialBase, <<>>))

-----------------------------------------------------------------------------
(* deep-compare-strict.ts. Keys are compared by their count and by the      *)
(* values the other side has at them; and a value that is not an array is   *)
(* compared with an array as an object, whose keys are the array's indices. *)

TypeOf(v) == CHOOSE t \in {"string", "number", "boolean", "null", "array", "object"} :
                 t \in DOMAIN v

RECURSIVE DeepCompareStrict(_, _)
DeepCompareStrict(a, b) ==
    CASE Has(a, "array") /\ Has(b, "array") ->
            /\ Len(a.array) = Len(b.array)
            /\ \A i \in DOMAIN a.array : DeepCompareStrict(a.array[i], b.array[i])
      [] Has(a, "object") /\ Has(b, "object") ->
            /\ Cardinality(DOMAIN a.object) = Cardinality(DOMAIN b.object)
            /\ \A k \in DOMAIN a.object :
                  k \in DOMAIN b.object /\ DeepCompareStrict(a.object[k], b.object[k])
      [] Has(a, "object") /\ Has(b, "array") ->
            /\ Cardinality(DOMAIN a.object) = Len(b.array)
            /\ \A k \in DOMAIN a.object : \E i \in DOMAIN b.array :
                  ToString(i - 1) = k /\ DeepCompareStrict(a.object[k], b.array[i])
      [] OTHER -> a = b

-----------------------------------------------------------------------------
(* validate.ts. One operator per group of keywords, in the order of the     *)
(* code. Each takes the running result r and returns it: whether errors     *)
(* were pushed, whether validate threw, what is evaluated, and, inside the  *)
(* loops over properties and items, thisEvaluated, stop and the index i.    *)
(* c is the context the recursion hands down: draft, lookup, shortCircuit   *)
(* and recursiveAnchor.                                                     *)

RECURSIVE Validate(_, _, _, _)

Fresh(evaluated) == [errors |-> FALSE, thrown |-> FALSE, evaluated |-> evaluated,
                     own |-> {}, stop |-> FALSE, i |-> 1]
Fail(r, condition) == [r EXCEPT !.errors = @ \/ condition]
\* errors.push(...result.errors) of a subschema that shares evaluated, or not.
Merge(r, v) == [r EXCEPT !.errors = @ \/ v.errors, !.thrown = @ \/ v.thrown]
MergeEvaluated(r, v) == [Merge(r, v) EXCEPT !.evaluated = v.evaluated]

\* $recursiveRef: the schema itself is validated again once the anchor is known.
RecursiveRef(inst, s, c, r) ==
    IF ~ Has(s, "recursiveRef") THEN r
    ELSE IF c.anchor # NoSchema
         THEN MergeEvaluated(r, Validate(inst, c.anchor, c, r.evaluated))
         ELSE MergeEvaluated(r, Validate(inst, s,
                  [c EXCEPT !.anchor = c.lookup[s.recursiveRef]], r.evaluated))

Ref(inst, s, c, r) ==
    IF ~ Has(s, "ref") THEN r
    ELSE IF s.ref \notin DOMAIN c.lookup THEN [r EXCEPT !.thrown = TRUE]
    ELSE MergeEvaluated(r, Validate(inst, c.lookup[s.ref], c, r.evaluated))

IsType(inst, t) ==
    IF t = "integer" THEN Has(inst, "number") /\ inst.number % 2 = 0 ELSE Has(inst, t)
Type(inst, s, r) ==
    Fail(r, Has(s, "type") /\ ~ \E t \in s.type : IsType(inst, t))

\* const and enum: === on scalars, deepCompareStrict on objects and arrays.
ConstAndEnum(inst, s, r) ==
    Fail(r, \/ Has(s, "const") /\ ~ DeepCompareStrict(inst, s.const)
            \/ Has(s, "enum") /\ ~ \E v \in s.enum : DeepCompareStrict(inst, v))

Not(inst, s, c, r) ==
    IF ~ Has(s, "not") THEN r
    ELSE LET v == Validate(inst, s.not, c, {})
         IN  [Fail(r, ~ v.errors) EXCEPT !.thrown = @ \/ v.thrown]

\* anyOf, allOf, oneOf: every branch runs, each on a record of its own that
\* inherits what is evaluated so far; the valid ones' records are assigned to
\* it after the three. The anchor is handed down only by a schema that sets it.
Branches(inst, s, keyword, c, r) ==
    IF ~ Has(s, keyword) THEN <<>>
    ELSE [i \in DOMAIN s[keyword] |->
             Validate(inst, s[keyword][i],
                      IF Has(s, "recursiveAnchor") THEN c ELSE [c EXCEPT !.anchor = NoSchema],
                      r.evaluated)]
Valid(branches) == {i \in DOMAIN branches : ~ branches[i].errors}
Combinators(inst, s, c, r) ==
    LET any == Branches(inst, s, "anyOf", c, r)
        all == Branches(inst, s, "allOf", c, r)
        one == Branches(inst, s, "oneOf", c, r)
        run == any \o all \o one
    IN  [r EXCEPT
           !.errors = \/ @
                      \/ Has(s, "anyOf") /\ Valid(any) = {}
                      \/ Valid(all) # DOMAIN all
                      \/ Has(s, "oneOf") /\ Cardinality(Valid(one)) # 1,
           !.thrown = @ \/ \E i \in DOMAIN run : run[i].thrown,
           !.evaluated = @ \cup UNION {run[i].evaluated : i \in Valid(run)}]

\* if, then and else write to the same record, a failed condition's marks too.
Conditional(inst, s, c, r) ==
    IF ~ Has(s, "if") THEN r
    ELSE LET condition == Validate(inst, s.if, c, r.evaluated)
             met == [r EXCEPT !.thrown = @ \/ condition.thrown,
                              !.evaluated = condition.evaluated]
             branch == IF condition.errors THEN "else" ELSE "then"
         IN  IF Has(s, branch)
             THEN MergeEvaluated(met, Validate(inst, s[branch], c, met.evaluated))
             ELSE met

\* required, minProperties, maxProperties, propertyNames.
ObjectShape(inst, s, c, r) ==
    LET keys == DOMAIN inst.object
        sized == Fail(r, \/ Has(s, "required") /\ ~ s.required \subseteq keys
                         \/ Has(s, "minProperties") /\ Cardinality(keys) < s.minProperties
                         \/ Has(s, "maxProperties") /\ Cardinality(keys) > s.maxProperties)
    IN  IF ~ Has(s, "propertyNames") THEN sized
        ELSE FoldSet(LAMBDA k, acc :
                        Merge(acc, Validate([string |-> k], s.propertyNames, c, {})),
                     sized, keys)

\* dependentRequired, dependentSchemas and the older dependencies, whose
\* schemas leave no mark in evaluated.
Dependents(inst, s, c, r) ==
    LET keys == DOMAIN inst.object
        Present(keyword) == IF Has(s, keyword) THEN keys \cap DOMAIN s[keyword] ELSE {}
        listed == {k \in Present("dependencies") : Has(s.dependencies[k], "keys")}
        required ==
            Fail(r, \/ \E k \in Present("dependentRequired") :
                          ~ s.dependentRequired[k] \subseteq keys
                    \/ \E k \in listed : ~ s.dependencies[k].keys \subseteq keys)
        schemas == FoldSet(LAMBDA k, acc :
                       MergeEvaluated(acc, Validate(inst, s.dependentSchemas[k], c, acc.evaluated)),
                       required, Present("dependentSchemas"))
    IN  FoldSet(LAMBDA k, acc : Merge(acc, Validate(inst, s.dependencies[k], c, {})),
                schemas, Present("dependencies") \ listed)

(* Mutated: short circuit forgets to report what stopped it.               *)
VisitPropertySilent(r, inst, k, schema, c, mine) ==
    LET v == Validate(inst.object[k], schema, c, {})
    IN  [r EXCEPT !.stop = @ \/ (v.errors /\ c.shortCircuit),
                  !.errors = @ \/ (v.errors /\ ~ c.shortCircuit),
                  !.thrown = @ \/ v.thrown]

\* One property against one schema: a valid one is evaluated (and own, that is
\* thisEvaluated, where mine says so), an invalid one stops in short circuit.
VisitProperty(r, inst, k, schema, c, mine) ==
    LET v == Validate(inst.object[k], schema, c, {})
    IN  [Merge(r, v) EXCEPT
           !.evaluated = IF v.errors THEN @ ELSE @ \cup {k},
           !.own = IF v.errors \/ ~ mine THEN @ ELSE @ \cup {k},
           !.stop = IF v.errors THEN c.shortCircuit ELSE @]

Properties(inst, s, c, r) ==
    IF ~ Has(s, "properties") THEN r
    ELSE FoldLeft(LAMBDA acc, k : IF acc.stop THEN acc
                      ELSE VisitProperty(acc, inst, k, s.properties[k], c, TRUE),
                  r, InOrder(DOMAIN s.properties \cap DOMAIN inst.object))

PatternProperties(inst, s, c, r) ==
    IF r.stop \/ ~ Has(s, "patternProperties") THEN r
    ELSE FoldSet(LAMBDA p, acc :
                     FoldSet(LAMBDA k, acc2 :
                                 VisitProperty(acc2, inst, k, s.patternProperties[p], c, TRUE),
                             acc, {k \in DOMAIN inst.object : Matches(p, k)}),
                 r, DOMAIN s.patternProperties)

(* Mutated: additionalProperties sees every property.                      *)
RestPropertiesAll(inst, s, c, r) ==
    IF r.stop \/ ~ Has(s, "additionalProperties") THEN r
    ELSE FoldSet(LAMBDA k, acc :
                     VisitProperty(acc, inst, k, s.additionalProperties, c, FALSE),
                 r, DOMAIN inst.object)

\* additionalProperties sees what properties and patternProperties of this
\* schema left; only without it, unevaluatedProperties sees what is left of all.
RestProperties(inst, s, c, r) ==
    LET Rest(schema, keys) ==
            FoldSet(LAMBDA k, acc : VisitProperty(acc, inst, k, schema, c, FALSE), r, keys)
    IN  IF r.stop THEN r
        ELSE IF Has(s, "additionalProperties")
        THEN Rest(s.additionalProperties, DOMAIN inst.object \ r.own)
        ELSE IF Has(s, "unevaluatedProperties")
        THEN Rest(s.unevaluatedProperties, DOMAIN inst.object \ r.evaluated)
        ELSE r

ObjectKeywords(inst, s, c, r) ==
    RestProperties(inst, s, c, PatternProperties(inst, s, c, Properties(inst, s, c,
        Dependents(inst, s, c, ObjectShape(inst, s, c, r)))))

\* The loop over items r.i .. last: an item is evaluated whether it is valid or
\* not; with breaks, short circuit leaves the loop and i at the invalid item.
VisitItems(r, inst, last, SchemaAt(_), c, breaks) ==
    FoldLeft(LAMBDA acc, j :
                 IF breaks /\ acc.stop THEN acc
                 ELSE LET v == Validate(inst.array[j], SchemaAt(j), c, {})
                          stop == IF v.errors THEN c.shortCircuit ELSE acc.stop
                      IN  [Merge(acc, v) EXCEPT
                             !.evaluated = @ \cup {j}, !.stop = stop,
                             !.i = IF breaks /\ stop THEN j ELSE j + 1],
             r, [n \in 1 .. (IF last < r.i THEN 0 ELSE last - r.i + 1) |-> r.i + n - 1])

Shorter(a, b) == IF a < b THEN a ELSE b
PrefixItems(inst, s, c, r) ==
    IF ~ Has(s, "prefixItems") THEN r
    ELSE VisitItems(r, inst, Shorter(Len(s.prefixItems), Len(inst.array)),
                    LAMBDA j : s.prefixItems[j], c, TRUE)

\* The loop over items starts with its own break: stop of prefixItems is not
\* asked for, and its failed item is validated again.
Items(inst, s, c, r) ==
    LET again == [r EXCEPT !.stop = FALSE]
        Kept(v) == [v EXCEPT !.stop = @ \/ r.stop]
    IN  CASE Has(s, "itemsList") ->
               Kept(VisitItems(again, inst, Shorter(Len(s.itemsList), Len(inst.array)),
                               LAMBDA j : s.itemsList[j], c, TRUE))
          [] Has(s, "items") ->
               Kept(VisitItems(again, inst, Len(inst.array), LAMBDA j : s.items, c, TRUE))
          [] OTHER -> r

AdditionalItems(inst, s, c, r) ==
    IF r.stop \/ ~ Has(s, "additionalItems") \/ ~ (Has(s, "items") \/ Has(s, "itemsList"))
    THEN r
    ELSE VisitItems(r, inst, Len(inst.array), LAMBDA j : s.additionalItems, c, FALSE)

\* contains, minContains and maxContains: errors of the items that do not match
\* are kept only below minContains.
ContainsItems(inst, s, c, r) ==
    LET n == Len(inst.array)
        runs == [j \in 1 .. n |-> Validate(inst.array[j], s.contains, c, {})]
        matching == Valid(runs)
        count == Cardinality(matching)
    IN  IF ~ Has(s, "contains") THEN r
        ELSE IF n = 0 /\ ~ Has(s, "minContains") THEN Fail(r, TRUE)
        ELSE IF Has(s, "minContains") /\ n < s.minContains THEN Fail(r, TRUE)
        ELSE [r EXCEPT
                !.errors = \/ @
                           \/ ~ Has(s, "minContains") /\ ~ Has(s, "maxContains") /\ count = 0
                           \/ Has(s, "minContains") /\ count < s.minContains
                           \/ /\ Has(s, "maxContains") /\ count > s.maxContains
                              /\ Has(s, "minContains") => count >= s.minContains,
                !.thrown = @ \/ \E j \in 1 .. n : runs[j].thrown,
                !.evaluated = @ \cup matching]

UnevaluatedItems(inst, s, c, r) ==
    IF r.stop \/ ~ Has(s, "unevaluatedItems") THEN r
    ELSE FoldSet(LAMBDA j, acc :
                     Merge([acc EXCEPT !.evaluated = @ \cup {j}],
                           Validate(inst.array[j], s.unevaluatedItems, c, {})),
                 r, (r.i .. Len(inst.array)) \ r.evaluated)

UniqueItems(inst, s, r) ==
    Fail(r, /\ Has(s, "uniqueItems") /\ s.uniqueItems
            /\ \E j, k \in DOMAIN inst.array :
                  j # k /\ DeepCompareStrict(inst.array[j], inst.array[k]))

ArrayKeywords(inst, s, c, r) ==
    LET n == Len(inst.array)
        sized == Fail(r, \/ Has(s, "maxItems") /\ n > s.maxItems
                         \/ Has(s, "minItems") /\ n < s.minItems)
    IN  UniqueItems(inst, s, UnevaluatedItems(inst, s, c, ContainsItems(inst, s, c,
            AdditionalItems(inst, s, c, Items(inst, s, c, PrefixItems(inst, s, c, sized))))))

\* In draft 4 the exclusive limits are flags of minimum and maximum.
NumberKeywords(inst, s, c, r) ==
    LET n == inst.number
        Exclusive(keyword) == c.draft = "4" /\ Has(s, keyword) /\ s[keyword]
    IN  Fail(r, \/ /\ Has(s, "minimum")
                   /\ n < s.minimum \/ (Exclusive("exclusiveMinimum") /\ n = s.minimum)
                \/ /\ Has(s, "maximum")
                   /\ n > s.maximum \/ (Exclusive("exclusiveMaximum") /\ n = s.maximum)
                \/ c.draft # "4" /\ Has(s, "exclusiveMinimum") /\ n <= s.exclusiveMinimum
                \/ c.draft # "4" /\ Has(s, "exclusiveMaximum") /\ n >= s.exclusiveMaximum
                \/ Has(s, "multipleOf") /\ n % s.multipleOf # 0)

StringKeywords(inst, s, r) ==
    Fail(r, \/ Has(s, "minLength") /\ Length(inst.string) < s.minLength
            \/ Has(s, "maxLength") /\ Length(inst.string) > s.maxLength
            \/ Has(s, "pattern") /\ ~ Matches(s.pattern, inst.string)
            \/ Has(s, "format") /\ ~ HasFormat(s.format, inst.string))

Validate(inst, s, context, evaluated) ==
    IF Has(s, "boolean") THEN [Fresh(evaluated) EXCEPT !.errors = ~ s.boolean]
    ELSE LET c == IF context.anchor = NoSchema /\ Has(s, "recursiveAnchor")
                  THEN [context EXCEPT !.anchor = s] ELSE context
             referred == Ref(inst, s, c, RecursiveRef(inst, s, c, Fresh(evaluated)))
             anyType == Conditional(inst, s, c, Combinators(inst, s, c,
                            Not(inst, s, c, ConstAndEnum(inst, s, Type(inst, s, referred)))))
         IN  IF Has(s, "ref") /\ (referred.thrown \/ c.draft \in {"4", "7"}) THEN referred
             ELSE CASE Has(inst, "object") -> ObjectKeywords(inst, s, c, anyType)
                    [] Has(inst, "array") -> ArrayKeywords(inst, s, c, anyType)
                    [] Has(inst, "number") -> NumberKeywords(inst, s, c, anyType)
                    [] Has(inst, "string") -> StringKeywords(inst, s, anyType)
                    [] OTHER -> anyType

=============================================================================
