-------------------------- MODULE JsonSchemaMeaning --------------------------
(***************************************************************************)
(* What a JSON schema means, keyword by keyword, as a predicate on values: *)
(* the reference the validator is compared with. There is no order, no     *)
(* early exit and no lookup table: a reference is followed into the        *)
(* documents. Evaluation-dependent keywords have no meaning here.          *)
(***************************************************************************)
EXTENDS JsonSchema

\* The documents: the given schemas and, inside them, those with an $id.
RECURSIVE DocumentsIn(_)
DocumentsIn(s) ==
    IF Has(s, "boolean") THEN {}
    ELSE (IF Has(s, "id") THEN {s} ELSE {})
         \cup UNION {DocumentsIn(At(s, p)) : p \in ChildPaths(s)}

RECURSIVE Navigate(_, _)
Navigate(s, path) ==
    IF path = <<>> THEN s
    ELSE LET n == IF <<path[1]>> \in ChildPaths(s) THEN 1 ELSE 2
         IN  Navigate(At(s, SubSeq(path, 1, n)), SubSeq(path, n + 1, Len(path)))

RECURSIVE Anchored(_, _)
Anchored(s, name) ==
    IF Has(s, "boolean") THEN {}
    ELSE (IF Has(s, "anchor") /\ s.anchor = name THEN {s} ELSE {})
         \cup UNION {Anchored(At(s, p), name) : p \in ChildPaths(s)}

\* The schemas a resolved reference names: one, or none when it dangles.
Targets(uri, docs) ==
    LET roots == {d \in UNION {DocumentsIn(s) : s \in docs} : d.id = Uri(uri.doc, <<>>)}
    IN  IF Len(uri.path) = 1 THEN UNION {Anchored(d, uri.path[1]) : d \in roots}
        ELSE {Navigate(d, uri.path) : d \in roots}

SameValue(a, b) == DeepCompareStrict(a, b) /\ DeepCompareStrict(b, a)

RECURSIVE Satisfies(_, _, _, _, _)
Satisfies(v, s, base, draft, docs) ==
    LET b == BaseOf(s, base)
        Sub(w, t) == Satisfies(w, t, b, draft, docs)
        keys == DOMAIN v.object
        covered == (IF Has(s, "properties") THEN DOMAIN s.properties ELSE {})
                   \cup (IF Has(s, "patternProperties")
                         THEN {k \in keys : \E p \in DOMAIN s.patternProperties : Matches(p, k)}
                         ELSE {})
        followed == \E t \in Targets(Resolve(s.ref, b), docs) :
                        Satisfies(v, t, Resolve(s.ref, b).doc, draft, docs)
        general ==
            /\ Has(s, "type") => \E t \in s.type : IsType(v, t)
            /\ Has(s, "const") => SameValue(v, s.const)
            /\ Has(s, "enum") => \E w \in s.enum : SameValue(v, w)
            /\ Has(s, "not") => ~ Sub(v, s.not)
            /\ Has(s, "anyOf") => \E i \in DOMAIN s.anyOf : Sub(v, s.anyOf[i])
            /\ Has(s, "allOf") => \A i \in DOMAIN s.allOf : Sub(v, s.allOf[i])
            /\ Has(s, "oneOf") => \E i \in DOMAIN s.oneOf : \A j \in DOMAIN s.oneOf :
                                      Sub(v, s.oneOf[j]) <=> i = j
            /\ Has(s, "if") => IF Sub(v, s.if) THEN Has(s, "then") => Sub(v, s.then)
                               ELSE Has(s, "else") => Sub(v, s.else)
        object ==
            /\ Has(s, "required") => s.required \subseteq keys
            /\ Has(s, "minProperties") => Cardinality(keys) >= s.minProperties
            /\ Has(s, "maxProperties") => Cardinality(keys) <= s.maxProperties
            /\ Has(s, "propertyNames") => \A k \in keys : Sub([string |-> k], s.propertyNames)
            /\ Has(s, "dependentRequired") =>
                  \A k \in keys \cap DOMAIN s.dependentRequired :
                      s.dependentRequired[k] \subseteq keys
            /\ Has(s, "dependentSchemas") =>
                  \A k \in keys \cap DOMAIN s.dependentSchemas : Sub(v, s.dependentSchemas[k])
            /\ Has(s, "dependencies") =>
                  \A k \in keys \cap DOMAIN s.dependencies :
                      IF Has(s.dependencies[k], "keys") THEN s.dependencies[k].keys \subseteq keys
                      ELSE Sub(v, s.dependencies[k])
            /\ Has(s, "properties") =>
                  \A k \in keys \cap DOMAIN s.properties : Sub(v.object[k], s.properties[k])
            /\ Has(s, "patternProperties") =>
                  \A p \in DOMAIN s.patternProperties, k \in keys :
                      Matches(p, k) => Sub(v.object[k], s.patternProperties[p])
            /\ Has(s, "additionalProperties") =>
                  \A k \in keys \ covered : Sub(v.object[k], s.additionalProperties)
        prefix == IF Has(s, "prefixItems") THEN s.prefixItems
                  ELSE IF Has(s, "itemsList") THEN s.itemsList ELSE <<>>
        rest == IF Has(s, "items") THEN "items" ELSE "additionalItems"
        array ==
            /\ Has(s, "maxItems") => Len(v.array) <= s.maxItems
            /\ Has(s, "minItems") => Len(v.array) >= s.minItems
            /\ \A i \in DOMAIN v.array :
                  IF i <= Len(prefix) THEN Sub(v.array[i], prefix[i])
                  ELSE Has(s, rest) /\ (rest = "items" \/ Has(s, "itemsList"))
                           => Sub(v.array[i], s[rest])
            /\ Has(s, "contains") =>
                  LET count == Cardinality({i \in DOMAIN v.array : Sub(v.array[i], s.contains)})
                  IN  /\ count >= (IF Has(s, "minContains") THEN s.minContains ELSE 1)
                      /\ Has(s, "maxContains") => count <= s.maxContains
            /\ Has(s, "uniqueItems") /\ s.uniqueItems =>
                  \A i, j \in DOMAIN v.array : SameValue(v.array[i], v.array[j]) => i = j
        number ==
            /\ Has(s, "minimum") => v.number >= s.minimum
            /\ Has(s, "maximum") => v.number <= s.maximum
            /\ Has(s, "exclusiveMinimum") =>
                  IF draft = "4" THEN s.exclusiveMinimum => v.number # s.minimum
                  ELSE v.number > s.exclusiveMinimum
            /\ Has(s, "exclusiveMaximum") =>
                  IF draft = "4" THEN s.exclusiveMaximum => v.number # s.maximum
                  ELSE v.number < s.exclusiveMaximum
            /\ Has(s, "multipleOf") => \E n \in -20 .. 20 : v.number = n * s.multipleOf
        string ==
            /\ Has(s, "minLength") => Length(v.string) >= s.minLength
            /\ Has(s, "maxLength") => Length(v.string) <= s.maxLength
            /\ Has(s, "pattern") => Matches(s.pattern, v.string)
            /\ Has(s, "format") => HasFormat(s.format, v.string)
    IN  IF Has(s, "boolean") THEN s.boolean
        ELSE IF Has(s, "ref") /\ draft \in {"4", "7"} THEN followed
        ELSE /\ Has(s, "ref") => followed
             /\ general
             /\ CASE Has(v, "object") -> object [] Has(v, "array") -> array
                  [] Has(v, "number") -> number [] Has(v, "string") -> string
                  [] OTHER -> TRUE
=============================================================================
