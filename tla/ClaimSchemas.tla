---------------------------- MODULE ClaimSchemas ----------------------------
(***************************************************************************)
(* The SDK's use of the JSON schema validator: the schemas it ships        *)
(* (CTypeModel, CTypeWrapperModel, MetadataModel, QuoteSchema), the checks *)
(* of a claim against its CType and the CTypes nested in it, and validator *)
(* objects that live on: constructed once, extended with further schemas,  *)
(* asked about several instances.                                          *)
(***************************************************************************)
EXTENDS JsonSchema

CONSTANTS
    CTypes,       \* the CType schemas there are
    CTypeJson(_), \* a CType schema as the JSON value it is
    Documents,    \* the schemas a validator may be built from or extended with
    Drafts(_),    \* the drafts a schema is written for
    Instances(_), \* the instances tried against a schema
    MaxSchemas    \* bound: schemas in one validator

VARIABLES
    validator,  \* the validator object: schema, draft, shortCircuit, lookup;
                \* with the schemas it was given (docs) for the properties
    asked       \* the question asked last, and the answer

vars == <<validator, asked>>

-----------------------------------------------------------------------------
(* The schemas of the SDK. Titles and $schema constrain nothing and are     *)
(* left out.                                                                *)

OfType(t) == [type |-> {t}]
Object(properties, required) ==
    [type |-> {"object"}, properties |-> properties, required |-> required,
     additionalProperties |-> [boolean |-> FALSE]]
Map(schema) == [type |-> {"object"}, patternProperties |-> ("^.*$" :> schema)]
Text(s) == [string |-> s]
CTypeModelId == "http://kilt-protocol.org/draft-01/ctype"

CTypeProperty ==
    [type |-> {"object"},
     properties |->
        ("type" :> [type |-> {"string"},
                    enum |-> {Text("string"), Text("integer"), Text("number"), Text("boolean")}])
        @@ ("$ref" :> [type |-> {"string"}, format |-> "uri"])
        @@ ("format" :> [type |-> {"string"},
                         enum |-> {Text("date"), Text("time"), Text("uri")}]),
     additionalProperties |-> [boolean |-> FALSE],
     oneOf |-> <<[required |-> {"type"}], [required |-> {"$ref"}]>>]

CTypeModelProperties ==
    ("$id" :> [type |-> {"string"}, format |-> "uri", pattern |-> "^kilt:ctype:0x[0-9a-f]+$"])
    @@ ("$schema" :> [type |-> {"string"}, format |-> "uri",
                      const |-> Text("http://kilt-protocol.org/draft-01/ctype#")])
    @@ ("title" :> OfType("string"))
    @@ ("type" :> [type |-> {"string"}, const |-> Text("object")])
    @@ ("properties" :> Map(CTypeProperty))

CTypeModelRequired == {"$id", "title", "$schema", "properties", "type"}
CTypeModel ==
    Object(CTypeModelProperties, CTypeModelRequired) @@ [id |-> Uri(CTypeModelId, <<>>)]

CTypeWrapperModel ==
    Object([schema |-> [type |-> {"object"}, properties |-> CTypeModelProperties,
                        required |-> CTypeModelRequired],
            owner |-> [type |-> {"string", "null"}],
            hash |-> OfType("string")],
           {"schema", "hash"})
    @@ [id |-> Uri("http://kilt-protocol.org/draft-01/ctype-wrapper", <<>>)]

\* A text in several languages, one of them the default.
Multilingual ==
    Map(OfType("string")) @@ [properties |-> [default |-> OfType("string")],
                              required |-> {"default"}]

MetadataModel ==
    Object([metadata |->
                Object([title |-> Multilingual, description |-> Multilingual,
                        properties |->
                            Map(Object([title |-> Multilingual, description |-> Multilingual],
                                       {"title"}))],
                       {"title", "properties"}),
            ctypeHash |-> [type |-> {"string"}, minLength |-> 1]],
           {"metadata", "ctypeHash"})
    @@ [id |-> Uri("http://kilt-protocol.org/draft-01/ctype-metadata", <<>>)]

QuoteSchema ==
    [id |-> Uri("kilt:quote:v1", <<>>), type |-> {"object"},
     properties |->
        [attesterDid |-> OfType("string"), cTypeHash |-> OfType("string"),
         cost |-> [type |-> {"object"}, required |-> {"net", "gross", "tax"},
                   properties |-> [net |-> OfType("number"), gross |-> OfType("number"),
                                   tax |-> OfType("object")]],
         currency |-> OfType("string"), termsAndConditions |-> OfType("string"),
         timeframe |-> [type |-> {"string"}, format |-> "date-time"]],
     required |-> {"attesterDid", "cTypeHash", "cost", "currency",
                   "termsAndConditions", "timeframe"}]

-----------------------------------------------------------------------------
(* validator.ts and the checks built on it.                                 *)

NoLookup == [u \in {} |-> NoSchema]

NewValidator(s, draft, shortCircuit) ==
    LET d == Dereference(s, NoLookup)
    IN  [schema |-> Annotate(s, InitialBase), draft |-> draft,
         shortCircuit |-> shortCircuit, lookup |-> d.lookup, thrown |-> d.thrown,
         docs |-> <<s>>]

Extended(v, s) ==
    LET d == Dereference(s, v.lookup)
    IN  [v EXCEPT !.lookup = d.lookup, !.thrown = d.thrown,
                  !.docs = IF d.thrown THEN @ ELSE Append(@, s)]

(* Mutated: only the first of the schemas is added.                        *)
ExtendedWithFirst(v, schemas) ==
    IF v.thrown \/ schemas = <<>> THEN v ELSE Extended(v, Head(schemas))

\* Building a validator from several schemas: the first duplicate throws.
RECURSIVE ExtendedWith(_, _)
ExtendedWith(v, schemas) ==
    IF v.thrown \/ schemas = <<>> THEN v
    ELSE ExtendedWith(Extended(v, Head(schemas)), Tail(schemas))

Verdict(v, inst) ==
    LET r == Validate(inst, v.schema,
                      [draft |-> v.draft, lookup |-> v.lookup,
                       shortCircuit |-> v.shortCircuit, anchor |-> NoSchema], {})
    IN  IF r.thrown THEN "throws" ELSE IF r.errors THEN "invalid" ELSE "valid"

VerdictOf(v, inst) == IF v.thrown THEN "throws" ELSE Verdict(v, inst)

VerifySchema(object, schema) ==
    VerdictOf(ExtendedWith(NewValidator(schema, "7", FALSE),
                           IF schema.id.doc = CTypeModelId THEN <<>> ELSE <<CTypeModel>>),
              object)

VerifyClaimStructure(contents, ctype) ==
    LET model == VerifySchema(CTypeJson(ctype), CTypeModel)
    IN  IF model = "valid" THEN VerifySchema(contents, ctype) ELSE "ERROR_OBJECT_MALFORMED"

ValidateNestedSchemas(ctype, nested, contents) ==
    VerdictOf(ExtendedWith(NewValidator(ctype, "7", FALSE), nested \o <<CTypeModel>>), contents)

\* Claim.fromClaim and fromCTypeAndClaimContents.
FromCTypeAndClaimContents(ctype, contents) ==
    LET verdict == VerifyClaimStructure(contents, ctype)
    IN  IF verdict = "valid" THEN "claim"
        ELSE IF verdict = "invalid" THEN "ERROR_CLAIM_UNVERIFIABLE" ELSE verdict

FromNestedCTypeClaim(ctype, nested, contents) ==
    LET verdict == ValidateNestedSchemas(ctype, nested, contents)
    IN  IF verdict = "valid" THEN "claim"
        ELSE IF verdict = "invalid" THEN "ERROR_NESTED_CLAIM_UNVERIFIABLE" ELSE verdict

-----------------------------------------------------------------------------

Nothing == [kind |-> "nothing"]

Init ==
    /\ \E s \in Documents : \E draft \in Drafts(s), short \in BOOLEAN :
          validator = NewValidator(s, draft, short)
    /\ ~ validator.thrown   \* a constructor that throws leaves no object
    /\ asked = Nothing

AddSchema(s) ==
    /\ asked = Nothing
    /\ Len(validator.docs) < MaxSchemas
    /\ validator' = Extended(validator, s)
    /\ UNCHANGED asked

\* Asking changes no validator: whatever follows a question follows without it,
\* so that a behaviour ends with the question.
Ask(question) ==
    /\ asked = Nothing
    /\ asked' = question
    /\ UNCHANGED validator

ValidateInstance(inst) ==
    Ask([kind |-> "instance", instance |-> inst, verdict |-> Verdict(validator, inst)])

ClaimFromCType(ctype, contents) ==
    Ask([kind |-> "claim", ctype |-> ctype, nested |-> <<>>, contents |-> contents,
         result |-> FromCTypeAndClaimContents(ctype, contents)])

ClaimFromNested(ctype, nested, contents) ==
    Ask([kind |-> "claim", ctype |-> ctype, nested |-> nested, contents |-> contents,
         result |-> FromNestedCTypeClaim(ctype, nested, contents)])

\* A claim makes a validator of its own; it is asked for beside a plain one.
Plain ==
    /\ validator.docs = <<QuoteSchema>> /\ validator.draft = "7" /\ ~ validator.shortCircuit
NestedLists == {<<>>} \cup {<<a>> : a \in CTypes} \cup {<<a, b>> : a, b \in CTypes}

Next ==
    \/ \E s \in Documents : AddSchema(s)
    \/ \E inst \in Instances(validator.docs[1]) : ValidateInstance(inst)
    \/ \E ct \in CTypes : Plain /\ \E contents \in Instances(ct) :
          ClaimFromCType(ct, contents)
    \/ \E ct \in CTypes : Plain /\ \E contents \in Instances(ct), nested \in NestedLists :
          ClaimFromNested(ct, nested, contents)

Spec == Init /\ [][Next]_vars

-----------------------------------------------------------------------------
(* Properties.                                                              *)

Meaning == INSTANCE JsonSchemaMeaning
Means(inst, s, draft, docs) == Meaning!Satisfies(inst, s, InitialBase, draft, docs)

\* The subschemas of the documents, and what they refer to.
RECURSIVE Within(_)
Within(s) ==
    {s} \cup (IF Has(s, "boolean") THEN {} ELSE UNION {Within(At(s, p)) : p \in ChildPaths(s)})
AllWithin(docs) == UNION {Within(s) : s \in docs}
Uses(docs, keyword) == \E t \in AllWithin(docs) : Has(t, keyword)
Evaluating(docs) == Uses(docs, "unevaluatedProperties") \/ Uses(docs, "unevaluatedItems")

\* Where the validator is known to read a schema otherwise: maxContains alone
\* allows no match at all, and an object equals the array with its keys.
Peculiar(docs) ==
    \E t \in AllWithin(docs) :
        \/ Has(t, "maxContains") /\ ~ Has(t, "minContains")
        \/ Has(t, "const") /\ Has(t.const, "array")
        \/ Has(t, "enum") /\ \E v \in t.enum : Has(v, "array")
Comparable(docs) == ~ Evaluating(docs) /\ ~ Uses(docs, "recursiveRef") /\ ~ Peculiar(docs)
Known(docs) == UNION {Meaning!DocumentsIn(s) : s \in docs}
Dangling(docs) ==
    \E t \in AllWithin(docs) :
        Has(t, "ref") /\ t.ref.doc # "" /\ Uri(t.ref.doc, <<>>) \notin {d.id : d \in Known(docs)}

\* The verdict the SDK acts on is what the schema means, in any order the
\* schemas were added and in either mode; and validation throws only where a
\* reference leads to a document nobody added.
Agrees ==
    asked.kind = "instance" /\ Comparable(ToSet(validator.docs)) =>
        LET docs == ToSet(validator.docs) IN
        CASE asked.verdict = "throws" -> Dangling(docs)
          [] OTHER -> (asked.verdict = "valid")
                      <=> Means(asked.instance, validator.docs[1], validator.draft, docs)

\* A claim is made only of contents its CType, with the CTypes nested in it,
\* allows, and refused as unverifiable only when they do not; the order of the
\* nested CTypes does not matter.
ClaimSatisfies ==
    asked.kind = "claim" =>
        LET docs == {asked.ctype} \cup ToSet(asked.nested)
            allowed == Means(asked.contents, asked.ctype, "7", docs)
        IN  CASE asked.result = "claim" -> allowed
              [] asked.result \in {"ERROR_CLAIM_UNVERIFIABLE", "ERROR_NESTED_CLAIM_UNVERIFIABLE"}
                    -> ~ allowed
              [] asked.result = "throws" ->
                    \/ Dangling(docs)
                    \/ Len(asked.nested) # Cardinality(docs) - 1
              [] OTHER -> TRUE

\* Short circuit (the default, which quotes and credentials use) and the full
\* run (which claims use) give one verdict. Only a schema that asks what is
\* left unevaluated after an "if" can tell them apart: a failed condition keeps
\* the marks it made before it was cut short.
ModeBlind ==
    asked.kind = "instance"
    /\ ~ (Evaluating(ToSet(validator.docs)) /\ Uses(ToSet(validator.docs), "if")) =>
        asked.verdict = Verdict([validator EXCEPT !.shortCircuit = ~ @], asked.instance)
=============================================================================
