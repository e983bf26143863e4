-------------------------------- MODULE JsonAbc --------------------------------
(***************************************************************************)
(* The sorting of JSON values before they are compressed                   *)
(* (utils/src/jsonabc.cjs). A value is a record: an array [kind, items], an *)
(* object [kind, members], a sequence of [key, value] in the order they are *)
(* written in, or a scalar [kind, text]. No key is a number: those every    *)
(* engine keeps in their own order.                                         *)
(***************************************************************************)
EXTENDS Integers, Sequences, FiniteSets

CONSTANTS
    Json,                \* the values that contents are made of
    KeyPrecedes(_, _),   \* order of keys, in lower case
    TextPrecedes(_, _)   \* order of the JSON texts of sorted values

\* Array.prototype.sort, that leaves the order of what is alike: precedes[i, j] says
\* that the comparison puts the i-th before the j-th.
Sort(s, precedes) ==
    LET Before(i, j) == precedes[i, j] \/ (i < j /\ ~ precedes[j, i])
        Place(i) == 1 + Cardinality({j \in DOMAIN s : Before(j, i)})
    IN  [k \in DOMAIN s |-> s[CHOOSE i \in DOMAIN s : Place(i) = k]]

\* An array is sorted by its items' texts, once they are sorted themselves (that it
\* is sorted before too makes no difference: what has one text is the same); the
\* members of an object by their keys.
SortObj[v \in Json] ==
    CASE v.kind = "array" ->
            LET items == [i \in DOMAIN v.items |-> SortObj[v.items[i]]]
            IN  [v EXCEPT !.items =
                    Sort(items, [i, j \in DOMAIN items |-> TextPrecedes(items[i], items[j])])]
      [] v.kind = "object" ->
            LET members == [i \in DOMAIN v.members |->
                               [v.members[i] EXCEPT !.value = SortObj[@]]]
            IN  [v EXCEPT !.members =
                    Sort(members, [i, j \in DOMAIN members |->
                                      KeyPrecedes(members[i].key, members[j].key)])]
      [] OTHER -> v

\* What sortObj leaves of the value it was given: of objects it makes new ones,
\* but arrays it sorts where they are, with all that is in them.
SortedInPlace[v \in Json] ==
    CASE v.kind = "array" -> SortObj[v]
      [] v.kind = "object" ->
            [v EXCEPT !.members =
                [i \in DOMAIN @ |-> [@[i] EXCEPT !.value = SortedInPlace[@]]]]
      [] OTHER -> v

=============================================================================
