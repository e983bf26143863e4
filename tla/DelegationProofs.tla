-------------------------- MODULE DelegationProofs --------------------------
(***************************************************************************)
(* Proofs about delegations: the bounds a walk over a tree of them comes   *)
(* to, for trees of any size and any changes to them (Delegation), and     *)
(* what stands behind each that verify answers true for, or that the chain *)
(* takes, for any keys and any order of the extrinsics (DelegationStore).  *)
(* The two have no variable in common, and neither part uses the other.    *)
(***************************************************************************)
EXTENDS Delegation, DelegationStore, FiniteSetTheorems, SequenceTheorems, TLAPS

-----------------------------------------------------------------------------
(* Walks.                                                                   *)

(* What the pallet keeps of the tree: ancestors are ordered, no node is its *)
(* own ancestor, and where a node is, its ancestors are.                    *)
TreeOK ==
    /\ \A m \in born :
        \/ parent[m] = NoNode /\ above[m] = {}
        \/ parent[m] \in born /\ above[m] = Lineage(parent[m])
    /\ \A m \in born : above[m] \subseteq born /\ m \notin above[m]
    /\ \A m \in born : \A a \in above[m] : above[a] \subseteq above[m]
    /\ \A m \in born : \A a, b \in above[m] : a = b \/ a \in above[b] \/ b \in above[a]
    /\ \A m \in born : \A a \in above[m] : \E c \in Lineage(m) : parent[c] = a
    /\ \A m \in present : above[m] \subseteq present

(* The climb stands at an ancestor, and has left none of the DID behind.    *)
Climbed ==
    /\ at \in Lineage(target)
    /\ \A a \in Lineage(target) : at \in above[a] => owner[a] # ThisDid
    /\ steps = Cardinality(above[target]) - Cardinality(above[at])
                 + IF op = "attestation" THEN 1 ELSE 0

ClimbInv ==
    /\ target \in born
    /\ phase \in {"asking", "climbing", "unauthorized"} => op \in {"revoke", "attestation"}
    /\ phase = "asking" => op = "attestation"
    /\ target \in present /\ op # "remove" =>
        /\ phase = "climbing" => Climbed /\ owner[at] # ThisDid /\ parent[at] # NoNode
        /\ phase \in {"counting", "built"} => Climbed /\ owner[at] = ThisDid
        /\ phase = "unauthorized" => ~Authorised

(* The nodes that have been counted.                                        *)
Counted == {m \in Node \ {target} : visit[m] # "none"}

(* What is cached was on the chain since the target was queried.            *)
CacheInv ==
    /\ lost \subseteq born
    /\ phase = "none" => \A n \in Node : cached[n] = {}
    /\ \A n \in Node : \A m \in cached[n] :
        m \in born /\ m \in present \union lost /\ parent[m] = n

(* The count goes down from the target, siblings wait for one another, and  *)
(* whoever waits, waits for a sibling that is being queried.                *)
VisitInv ==
    /\ phase \notin {"counting", "built", "failed"} => \A n \in Node : visit[n] = "none"
    /\ visit[target] \in {"none", "refreshing", "counted"}
    /\ count = Cardinality(Counted)
    /\ \A m \in Counted :
        /\ parent[m] \in Node
        /\ visit[parent[m]] = "counted"
        /\ m \in cached[parent[m]]
        /\ target \in above[m]
    /\ \A m \in Node : visit[m] \in {"fetching", "fetched"} =>
        \A k \in Siblings(m) : visit[k] \in {"fetching", "fetched"}
    /\ \A m \in Node : visit[m] = "fetched" => \E k \in Siblings(m) : visit[k] = "fetching"
    /\ phase = "built" => ~Outstanding(visit)

(* Whatever is below the target is counted, or below a node whose children  *)
(* are still to be asked for.                                               *)
CoverInv ==
    /\ phase \in {"counting", "built"} /\ op # "attestation" /\ ~grown /\ target \in present =>
        \A m \in Below(target) :
            \/ visit[m] # "none"
            \/ \E a \in above[m] : visit[a] \in {"fetching", "fetched", "refreshing"}
    /\ phase = "failed" => \E m \in lost : target \in above[m]

WalkInv == WalkTypeOK /\ TreeOK /\ ClimbInv /\ CacheInv /\ VisitInv /\ CoverInv

-----------------------------------------------------------------------------
LEMMA TypeInit == WalkInit => WalkTypeOK
<1> SUFFICES ASSUME WalkInit PROVE WalkTypeOK
  OBVIOUS
<1> USE DelegationAssumption DEF WalkInit
<1>1. born \subseteq Node /\ present \subseteq born /\ lost \subseteq born
  OBVIOUS
<1>2. /\ parent \in [Node -> Node \union {NoNode}]
      /\ above \in [Node -> SUBSET Node] /\ cached \in [Node -> SUBSET Node]
  OBVIOUS
<1>3. visit \in [Node -> Visit]
  BY DEF Visit
<1> QED BY <1>1, <1>2, <1>3 DEF WalkTypeOK, Op, Phase

(* Types are right at the start and stay so.                                *)
LEMMA TypeStep == WalkTypeOK /\ [WalkNext]_walkVars => WalkTypeOK'
<1> SUFFICES ASSUME WalkTypeOK, [WalkNext]_walkVars PROVE WalkTypeOK'
  OBVIOUS
<1> USE DelegationAssumption DEF WalkTypeOK
<1>1. CASE UNCHANGED walkVars
  BY <1>1 DEF walkVars, tree, walk
<1>2. ASSUME NEW n \in Node, NEW p \in Node, AddDelegation(n, p) PROVE WalkTypeOK'
  BY <1>2 DEF AddDelegation, walk
<1>3. ASSUME NEW n \in Node, RemoveSubtree(n) PROVE WalkTypeOK'
  BY <1>3 DEF RemoveSubtree, Below, walk
<1>4. ASSUME NEW n \in Node, Query(n) PROVE WalkTypeOK'
  BY <1>4 DEF Query, Children, tree, Phase
<1>5. ASSUME NEW n \in Node, CountNodeDepth(n) PROVE WalkTypeOK'
  BY <1>5 DEF CountNodeDepth, Started, tree, Phase, Op
<1>6. CASE GetRevokeTx
  BY <1>6 DEF GetRevokeTx, Reach, StartCount, Started, tree, Phase, Op, Visit
<1>7. CASE GetRemoveTx
  BY <1>7 DEF GetRemoveTx, StartCount, Started, tree, Phase, Op, Visit
<1>8. CASE DelegationArrives
  BY <1>8 DEF DelegationArrives, Reach, StartCount, tree, Phase, Visit
<1>9. CASE ParentArrives
  BY <1>9 DEF ParentArrives, Reach, StartCount, tree, Phase, Visit
<1>10. ASSUME NEW n \in Node, NodeArrives(n) PROVE WalkTypeOK'
  <2> DEFINE children == IF n \in present THEN Children(n) ELSE cached[n]
  <2>1. children \subseteq Node
    BY DEF Children
  <2>2. Cardinality(children) \in Nat
    BY <2>1, FS_Subset, FS_CardinalityType
  <2> HIDE DEF children
  <2>3. Refresh(n, children) /\ count' = count + Cardinality(children)
        /\ UNCHANGED <<tree, op, target, at, steps, grown, lost>>
    BY <1>10 DEF NodeArrives, children
  <2> QED BY <2>1, <2>2, <2>3 DEF Refresh, Resume, tree, Phase, Visit
<1>11. ASSUME NEW n \in Node, ChildArrives(n) PROVE WalkTypeOK'
  BY <1>11 DEF ChildArrives, Children, tree, Visit
<1>12. ASSUME NEW n \in Node, ChildMissing(n) PROVE WalkTypeOK'
  BY <1>12 DEF ChildMissing, tree, Phase
<1> QED
  BY <1>1, <1>2, <1>3, <1>4, <1>5, <1>6, <1>7, <1>8, <1>9, <1>10, <1>11, <1>12 DEF WalkNext

(* Every value keeps its type: what a walk stands at is always a node.      *)
THEOREM WalkTypeCorrect == WalkSpec => []WalkTypeOK
<1> QED BY TypeInit, TypeStep, PTL DEF WalkSpec

-----------------------------------------------------------------------------
(* A walk changes nothing of the tree.                                      *)
LEMMA WalkStep ==
    ASSUME [WalkNext]_walkVars
    PROVE  \/ UNCHANGED tree
           \/ \E n, p \in Node : AddDelegation(n, p)
           \/ \E n \in Node : RemoveSubtree(n)
  BY DEF WalkNext, walkVars, Query, CountNodeDepth, GetRevokeTx, GetRemoveTx, DelegationArrives,
         ParentArrives, NodeArrives, ChildArrives, ChildMissing

LEMMA TreeStep == WalkTypeOK /\ TreeOK /\ [WalkNext]_walkVars => TreeOK'
<1> SUFFICES ASSUME WalkTypeOK, TreeOK, [WalkNext]_walkVars PROVE TreeOK'
  OBVIOUS
<1>1. CASE UNCHANGED tree
  BY <1>1 DEF TreeOK, Lineage, tree
<1>2. ASSUME NEW n \in Node, NEW p \in Node, AddDelegation(n, p) PROVE TreeOK'
  <2>1. n \notin born /\ p \in born /\ p \in present
    BY <1>2 DEF AddDelegation, WalkTypeOK
  <2>2. born' = born \union {n} /\ present' = present \union {n}
    BY <1>2 DEF AddDelegation
  <2>3. parent'[n] = p /\ above'[n] = above[p] \union {p}
    BY <1>2 DEF AddDelegation, WalkTypeOK
  <2>4. \A m \in born : parent'[m] = parent[m] /\ above'[m] = above[m]
    BY <1>2, <2>1 DEF AddDelegation, WalkTypeOK
  <2>5. \A m \in born : above[m] \subseteq born /\ m \notin above[m]
    BY DEF TreeOK
  <2>6. \A m \in born' : above'[m] \subseteq born' /\ m \notin above'[m]
    BY <2>1, <2>2, <2>3, <2>4, <2>5
  <2>7. \A m \in born' : \/ parent'[m] = NoNode /\ above'[m] = {}
                         \/ parent'[m] \in born' /\ above'[m] = above'[parent'[m]] \union {parent'[m]}
    BY <2>1, <2>2, <2>3, <2>4 DEF TreeOK, Lineage
  <2>8. \A m \in born' : \A a \in above'[m] : above'[a] \subseteq above'[m]
    BY <2>1, <2>2, <2>3, <2>4, <2>5 DEF TreeOK
  <2>9. \A m \in born' : \A a, b \in above'[m] : a = b \/ a \in above'[b] \/ b \in above'[a]
    BY <2>1, <2>2, <2>3, <2>4, <2>5 DEF TreeOK
  <2>10. \A m \in born' : \A a \in above'[m] :
            \E c \in above'[m] \union {m} : parent'[c] = a
    <3>1. \A m \in born : \A a \in above[m] : \E c \in above[m] \union {m} : parent[c] = a
      BY DEF TreeOK, Lineage
    <3>2. ASSUME NEW m \in born, NEW a \in above'[m]
          PROVE \E c \in above'[m] \union {m} : parent'[c] = a
      BY <2>4, <2>5, <3>1
    <3>3. ASSUME NEW a \in above'[n] PROVE \E c \in above'[n] \union {n} : parent'[c] = a
      BY <2>1, <2>3, <2>4, <2>5, <3>1
    <3> QED BY <2>2, <3>2, <3>3
  <2>11. \A m \in present' : above'[m] \subseteq present'
    BY <2>1, <2>2, <2>3, <2>4 DEF TreeOK, WalkTypeOK
  <2> QED BY <2>6, <2>7, <2>8, <2>9, <2>10, <2>11 DEF TreeOK, Lineage
<1>3. ASSUME NEW n \in Node, RemoveSubtree(n) PROVE TreeOK'
  <2>1. UNCHANGED <<born, parent, above>> /\ present' = present \ (Below(n) \union {n})
    BY <1>3 DEF RemoveSubtree
  <2>2. \A m \in present' : above[m] \subseteq present'
    BY <2>1 DEF TreeOK, WalkTypeOK, Below
  <2> QED BY <2>1, <2>2 DEF TreeOK, Lineage
<1> QED BY <1>1, <1>2, <1>3, WalkStep

(* No step moves a node that was ever added, or brings a removed one back.  *)
LEMMA TreeStable ==
    ASSUME WalkTypeOK, [WalkNext]_walkVars
    PROVE  /\ born \subseteq born' /\ owner' = owner
           /\ \A m \in born : parent'[m] = parent[m] /\ above'[m] = above[m]
           /\ \A m \in born : m \in present' => m \in present
<1>1. CASE UNCHANGED tree
  BY <1>1 DEF tree
<1>2. ASSUME NEW n \in Node, NEW p \in Node, AddDelegation(n, p)
      PROVE  /\ born \subseteq born' /\ owner' = owner
             /\ \A m \in born : parent'[m] = parent[m] /\ above'[m] = above[m]
             /\ \A m \in born : m \in present' => m \in present
  BY <1>2 DEF AddDelegation, WalkTypeOK
<1>3. ASSUME NEW n \in Node, RemoveSubtree(n)
      PROVE  /\ born \subseteq born' /\ owner' = owner
             /\ \A m \in born : parent'[m] = parent[m] /\ above'[m] = above[m]
             /\ \A m \in born : m \in present' => m \in present
  BY <1>3 DEF RemoveSubtree
<1> QED BY <1>1, <1>2, <1>3, WalkStep

(* Of two nodes on one way up, one is above the other.                      *)
LEMMA Comparable ==
    ASSUME TreeOK, NEW m \in born, NEW a \in Lineage(m), NEW b \in Lineage(m)
    PROVE  a = b \/ a \in above[b] \/ b \in above[a]
  BY DEF TreeOK, Lineage

(* What a call of findAncestorOwnedBy makes of a node it has come to.       *)
LEMMA ReachClimbs ==
    ASSUME WalkTypeOK, TreeOK, UNCHANGED tree, target' = target, target \in born,
           NEW n \in Node, NEW s \in Nat, NEW operation \in {"revoke", "attestation"}, op' = operation,
           Reach(n, s, operation),
           target \in present =>
               /\ n \in Lineage(target)
               /\ \A a \in Lineage(target) : n \in above[a] => owner[a] # ThisDid
               /\ s = Cardinality(above[target]) - Cardinality(above[n])
                        + IF operation = "attestation" THEN 1 ELSE 0
    PROVE  ClimbInv'
<1> USE DEF tree
<1>1. at' = n /\ steps' = s
  BY DEF Reach
<1>2. target \in present => Climbed'
  BY <1>1 DEF Climbed, Lineage
<1>3. CASE owner[n] = ThisDid
  <2>1. phase' \in {"counting", "built"}
    BY <1>3 DEF Reach, StartCount
  <2> QED BY <1>1, <1>2, <1>3, <2>1 DEF ClimbInv
<1>4. CASE owner[n] # ThisDid /\ parent[n] # NoNode
  <2>1. phase' = "climbing"
    BY <1>4 DEF Reach
  <2> QED BY <1>1, <1>2, <1>4, <2>1 DEF ClimbInv
<1>5. CASE owner[n] # ThisDid /\ parent[n] = NoNode
  <2>1. phase' = "unauthorized"
    BY <1>5 DEF Reach
  <2>2. ASSUME target \in present, NEW a \in Lineage(target) PROVE owner[a] # ThisDid
    <3>1. n \in born
      BY <2>2 DEF Lineage, TreeOK
    <3>2. above[n] = {}
      BY <1>5, <3>1, DelegationAssumption DEF TreeOK, WalkTypeOK
    <3>3. a = n \/ n \in above[a]
      BY <2>2, <3>2, Comparable
    <3> QED BY <1>5, <2>2, <3>3
  <2>3. target \in present => ~Authorised'
    BY <2>2 DEF Authorised, Lineage
  <2> QED BY <2>1, <2>3 DEF ClimbInv
<1> QED BY <1>3, <1>4, <1>5

LEMMA ClimbStep == WalkTypeOK /\ TreeOK /\ ClimbInv /\ [WalkNext]_walkVars => ClimbInv'
<1> SUFFICES ASSUME WalkTypeOK, TreeOK, ClimbInv, [WalkNext]_walkVars PROVE ClimbInv'
  OBVIOUS
<1>a. target \in born
  BY DEF ClimbInv
<1>b. Lineage(target) \subseteq born
  BY <1>a DEF Lineage, TreeOK
<1>1. CASE UNCHANGED walk
  <2>1. \A m \in Lineage(target) :
            parent'[m] = parent[m] /\ above'[m] = above[m] /\ owner'[m] = owner[m]
    BY <1>b, TreeStable
  <2>2. Lineage(target)' = Lineage(target) /\ above'[target] = above[target]
    BY <1>1, <1>a, TreeStable DEF Lineage, walk
  <2>3. target \in born' /\ (target \in present' => target \in present)
    BY <1>a, TreeStable
  <2>4. Climbed => Climbed' /\ owner'[at] = owner[at] /\ parent'[at] = parent[at]
    BY <1>1, <2>1, <2>2 DEF Climbed, walk
  <2>5. Authorised' = Authorised
    BY <1>1, <2>1, <2>2 DEF Authorised, walk
  <2> QED BY <1>1, <2>3, <2>4, <2>5 DEF ClimbInv, walk
<1>2. ASSUME NEW n \in Node, Query(n) PROVE ClimbInv'
  BY <1>2 DEF Query, tree, ClimbInv, WalkTypeOK
<1>3. ASSUME NEW n \in Node, CountNodeDepth(n) PROVE ClimbInv'
  BY <1>3 DEF CountNodeDepth, tree, ClimbInv
<1>4. CASE GetRevokeTx
  <2>1. Reach(target, 0, "revoke") /\ UNCHANGED tree /\ target' = target /\ op' = "revoke"
    BY <1>4 DEF GetRevokeTx
  <2>2. \A a \in Lineage(target) : target \notin above[a]
    BY <1>a DEF Lineage, TreeOK
  <2>3. Cardinality(above[target]) \in Nat
    BY <1>a, FS_Subset, FS_CardinalityType, DelegationAssumption DEF WalkTypeOK
  <2>4. target \in Lineage(target)
    BY DEF Lineage
  <2> QED BY <1>a, <2>1, <2>2, <2>3, <2>4, ReachClimbs DEF Op, WalkTypeOK
<1>5. CASE GetRemoveTx
  BY <1>5 DEF GetRemoveTx, StartCount, tree, ClimbInv
<1>6. CASE DelegationArrives
  <2>1. phase = "asking" /\ op = "attestation" /\ UNCHANGED <<tree, op, target>>
    BY <1>6 DEF DelegationArrives, ClimbInv
  <2>2. CASE target \in present
    <3>1. Reach(target, 1, "attestation")
      BY <1>6, <2>1, <2>2 DEF DelegationArrives
    <3>2. \A a \in Lineage(target) : target \notin above[a]
      BY <1>a DEF Lineage, TreeOK
    <3>3. Cardinality(above[target]) \in Nat
      BY <1>a, FS_Subset, FS_CardinalityType, DelegationAssumption DEF WalkTypeOK
    <3>4. target \in Lineage(target)
      BY DEF Lineage
    <3> QED BY <1>a, <2>1, <3>1, <3>2, <3>3, <3>4, ReachClimbs DEF Op, WalkTypeOK
  <2>3. CASE target \notin present
    BY <1>6, <2>1, <2>3 DEF DelegationArrives, ClimbInv, tree
  <2> QED BY <2>2, <2>3
<1>7. CASE ParentArrives
  <2>1. phase = "climbing" /\ op \in {"revoke", "attestation"} /\ UNCHANGED <<tree, op, target>>
    BY <1>7 DEF ParentArrives, ClimbInv
  <2> DEFINE p == parent[at]
  <2>2. ASSUME target \in present
        PROVE  /\ p \in born /\ p \in present /\ at \in born
               /\ above[at] = above[p] \union {p} /\ p \notin above[p]
               /\ p \in above[target] /\ owner[at] # ThisDid
    <3>1. Climbed /\ owner[at] # ThisDid /\ parent[at] # NoNode
      BY <2>1, <2>2 DEF ClimbInv
    <3>2. at \in born
      BY <1>b, <3>1 DEF Climbed
    <3>3. p \in born /\ above[at] = above[p] \union {p}
      BY <3>1, <3>2 DEF TreeOK, Lineage
    <3>4. p \in above[target]
      BY <1>a, <3>1, <3>3 DEF Climbed, Lineage, TreeOK
    <3>5. p \in present
      BY <2>2, <3>4 DEF TreeOK
    <3> QED BY <3>1, <3>2, <3>3, <3>4, <3>5 DEF TreeOK
  <2>3. CASE p \in present
    <3>1. Reach(p, steps + 1, op)
      BY <1>7, <2>3 DEF ParentArrives
    <3>2. ASSUME target \in present, NEW a \in Lineage(target), p \in above[a]
          PROVE  owner[a] # ThisDid
      <4>1. Climbed
        BY <2>1, <3>2 DEF ClimbInv
      <4>2. a = at \/ at \in above[a] \/ a \in above[at]
        BY <1>a, <4>1, Comparable DEF Climbed
      <4>3. a \notin above[at]
        BY <2>2, <3>2 DEF TreeOK
      <4> QED BY <2>2, <3>2, <4>1, <4>2, <4>3 DEF Climbed
    <3>3. ASSUME target \in present
          PROVE  steps + 1 = Cardinality(above[target]) - Cardinality(above[p])
                               + IF op = "attestation" THEN 1 ELSE 0
      <4>1. IsFiniteSet(above[p]) /\ IsFiniteSet(above[target])
        BY <1>a, <2>2, <3>3, FS_Subset, DelegationAssumption DEF WalkTypeOK
      <4>2. Cardinality(above[at]) = Cardinality(above[p]) + 1
        BY <2>2, <3>3, <4>1, FS_AddElement
      <4>3. Cardinality(above[p]) \in Nat /\ Cardinality(above[target]) \in Nat
        BY <4>1, FS_CardinalityType
      <4>4. Climbed
        BY <2>1, <3>3 DEF ClimbInv
      <4> QED BY <4>2, <4>3, <4>4 DEF Climbed, WalkTypeOK
    <3>4. target \in present => p \in Lineage(target)
      BY <2>2 DEF Lineage
    <3>5. p \in Node /\ steps + 1 \in Nat
      BY <2>3 DEF WalkTypeOK
    <3> HIDE DEF p
    <3>6. op \in {"revoke", "attestation"} /\ UNCHANGED tree /\ target' = target /\ op' = op
      BY <2>1 DEF WalkTypeOK
    <3> QED BY <1>a, <3>1, <3>2, <3>3, <3>4, <3>5, <3>6, ReachClimbs
  <2>4. CASE p \notin present
    <3>1. target \notin present
      BY <2>2, <2>4
    <3> QED BY <1>7, <1>a, <2>1, <2>4, <3>1 DEF ParentArrives, ClimbInv, tree
  <2> QED BY <2>3, <2>4
<1>8. ASSUME NEW n \in Node, NodeArrives(n) \/ ChildArrives(n) \/ ChildMissing(n)
      PROVE  ClimbInv'
  <2>1. UNCHANGED <<tree, op, target, at, steps>> /\ phase = "counting"
    BY <1>8 DEF NodeArrives, ChildArrives, ChildMissing
  <2>2. phase' \in {"counting", "built", "failed"}
    BY <1>8, <2>1 DEF NodeArrives, ChildArrives, ChildMissing, Refresh, Resume
  <2>3. Climbed' = Climbed
    BY <2>1 DEF Climbed, Lineage, tree
  <2> QED BY <2>1, <2>2, <2>3 DEF ClimbInv, tree
<1> QED
  <2>1. CASE UNCHANGED walkVars
    BY <1>1, <2>1 DEF walkVars
  <2>2. ASSUME NEW n \in Node, NEW p \in Node, AddDelegation(n, p) PROVE ClimbInv'
    BY <1>1, <2>2 DEF AddDelegation
  <2>3. ASSUME NEW n \in Node, RemoveSubtree(n) PROVE ClimbInv'
    BY <1>1, <2>3 DEF RemoveSubtree
  <2> QED BY <1>2, <1>3, <1>4, <1>5, <1>6, <1>7, <1>8, <2>1, <2>2, <2>3 DEF WalkNext

-----------------------------------------------------------------------------
(* What was there since the target was queried stays in sight, and a new    *)
(* query forgets it.                                                        *)
LEMMA LostStep ==
    ASSUME WalkTypeOK, [WalkNext]_walkVars
    PROVE  \/ lost \subseteq lost' /\ present \union lost \subseteq present' \union lost'
           \/ \E n \in Node : Query(n)
<1>1. CASE UNCHANGED walkVars
  BY <1>1 DEF walkVars, tree
<1>2. ASSUME NEW n \in Node, NEW p \in Node, AddDelegation(n, p)
      PROVE  lost \subseteq lost' /\ present \union lost \subseteq present' \union lost'
  BY <1>2 DEF AddDelegation
<1>3. ASSUME NEW n \in Node, RemoveSubtree(n)
      PROVE  lost \subseteq lost' /\ present \union lost \subseteq present' \union lost'
  BY <1>3 DEF RemoveSubtree
<1>4. ASSUME NEW n \in Node,
             CountNodeDepth(n) \/ NodeArrives(n) \/ ChildArrives(n) \/ ChildMissing(n)
      PROVE  lost \subseteq lost' /\ present \union lost \subseteq present' \union lost'
  BY <1>4 DEF CountNodeDepth, NodeArrives, ChildArrives, ChildMissing, Started, tree
<1>5. CASE GetRevokeTx \/ GetRemoveTx \/ DelegationArrives \/ ParentArrives
  BY <1>5 DEF GetRevokeTx, GetRemoveTx, DelegationArrives, ParentArrives, Started, tree
<1> QED BY <1>1, <1>2, <1>3, <1>4, <1>5 DEF WalkNext

LEMMA CacheStep == WalkTypeOK /\ CacheInv /\ [WalkNext]_walkVars => CacheInv'
<1> SUFFICES ASSUME WalkTypeOK, CacheInv, [WalkNext]_walkVars PROVE CacheInv'
  OBVIOUS
<1>1. CASE UNCHANGED walk
  <2>1. lost' \subseteq born'
    <3>1. CASE UNCHANGED walkVars
      BY <3>1 DEF walkVars, tree, CacheInv
    <3>2. ASSUME NEW n \in Node, NEW p \in Node, AddDelegation(n, p) PROVE lost' \subseteq born'
      BY <3>2 DEF AddDelegation, CacheInv
    <3>3. ASSUME NEW n \in Node, RemoveSubtree(n) PROVE lost' \subseteq born'
      BY <3>3 DEF RemoveSubtree, CacheInv, Below, WalkTypeOK
    <3> QED BY <3>1, <3>2, <3>3, TypeStep DEF WalkTypeOK
  <2>2. ASSUME NEW n \in Node, Query(n) PROVE CacheInv'
    BY <1>1, <2>2 DEF Query, walk
  <2>3. CASE present \union lost \subseteq present' \union lost'
    BY <1>1, <2>1, <2>3, TreeStable DEF CacheInv, walk
  <2> QED BY <2>2, <2>3, LostStep
<1>2. ASSUME NEW n \in Node, Query(n) PROVE CacheInv'
  <2>1. UNCHANGED tree /\ lost' = {} /\ phase' = "loaded"
    BY <1>2 DEF Query
  <2>2. \A k \in Node : cached'[k] = IF k = n THEN Children(n) ELSE {}
    BY <1>2 DEF Query, CacheInv, WalkTypeOK
  <2>3. \A m \in Children(n) : m \in born /\ m \in present /\ parent[m] = n
    BY DEF Children, WalkTypeOK
  <2>4. \A k \in Node : \A m \in cached'[k] : m \in born /\ m \in present /\ parent[m] = k
    BY <2>2, <2>3
  <2> QED BY <2>1, <2>4 DEF CacheInv, tree
<1>3. CASE UNCHANGED <<tree, cached, lost>> /\ phase' # "none"
  BY <1>3 DEF CacheInv, tree
<1>4. ASSUME NEW n \in Node, NodeArrives(n) PROVE CacheInv'
  <2> DEFINE children == IF n \in present THEN Children(n) ELSE cached[n]
  <2>1. \A m \in children : m \in born /\ m \in present \union lost /\ parent[m] = n
    BY DEF Children, CacheInv, WalkTypeOK
  <2>2. UNCHANGED <<tree, lost>> /\ Refresh(n, children)
    BY <1>4 DEF NodeArrives
  <2> HIDE DEF children
  <2>3. phase' # "none" /\ \A k \in Node : cached'[k] = IF k = n THEN children ELSE cached[k]
    BY <2>2 DEF Refresh, Resume, WalkTypeOK
  <2> QED BY <2>1, <2>2, <2>3 DEF CacheInv, tree
<1>5. ASSUME NEW n \in Node, ChildArrives(n) PROVE CacheInv'
  <2>1. UNCHANGED <<tree, lost, phase>> /\ phase = "counting"
    BY <1>5 DEF ChildArrives
  <2>2. \A k \in Node : cached'[k] = IF k = n THEN Children(n) ELSE cached[k]
    BY <1>5 DEF ChildArrives, WalkTypeOK
  <2>3. \A m \in Children(n) : m \in born /\ m \in present /\ parent[m] = n
    BY DEF Children, WalkTypeOK
  <2>4. \A k \in Node : \A m \in cached'[k] :
            m \in born /\ m \in present \union lost /\ parent[m] = k
    BY <2>2, <2>3 DEF CacheInv
  <2> QED BY <2>1, <2>4 DEF CacheInv, tree
<1> QED
  <2>1. CASE UNCHANGED walkVars
    BY <1>1, <2>1 DEF walkVars
  <2>2. ASSUME NEW n \in Node, NEW p \in Node, AddDelegation(n, p) PROVE CacheInv'
    BY <1>1, <2>2 DEF AddDelegation
  <2>3. ASSUME NEW n \in Node, RemoveSubtree(n) PROVE CacheInv'
    BY <1>1, <2>3 DEF RemoveSubtree
  <2>4. ASSUME NEW n \in Node, CountNodeDepth(n) PROVE CacheInv'
    BY <1>3, <2>4 DEF CountNodeDepth, Started
  <2>5. CASE GetRevokeTx \/ GetRemoveTx
    BY <1>3, <2>5 DEF GetRevokeTx, GetRemoveTx, Reach, StartCount, Started
  <2>6. CASE DelegationArrives \/ ParentArrives
    BY <1>3, <2>6 DEF DelegationArrives, ParentArrives, Reach, StartCount
  <2>7. ASSUME NEW n \in Node, ChildMissing(n) PROVE CacheInv'
    BY <1>3, <2>7 DEF ChildMissing
  <2> QED BY <1>2, <1>4, <1>5, <2>1, <2>2, <2>3, <2>4, <2>5, <2>6, <2>7 DEF WalkNext

-----------------------------------------------------------------------------
(* Who is being fetched is counted, and so on the chain's record.           *)
LEMMA CountedFacts ==
    ASSUME WalkTypeOK, TreeOK, ClimbInv, CacheInv, VisitInv
    PROVE  /\ IsFiniteSet(Counted)
           /\ \A m \in Counted : m \in born /\ m \in present \union lost
           /\ \A m \in Node : visit[m] \in {"fetching", "fetched"} => m \in Counted
           /\ \A m \in Node : visit[m] # "none" => m \in born /\ target \in Lineage(m)
<1>1. IsFiniteSet(Counted)
  BY FS_Subset, DelegationAssumption DEF Counted
<1>2. \A m \in Counted : m \in born /\ m \in present \union lost
  BY DEF CacheInv, VisitInv, Counted
<1>3. \A m \in Node : visit[m] \in {"fetching", "fetched"} => m \in Counted
  BY DEF VisitInv, Counted
<1>4. \A m \in Node : visit[m] # "none" => m \in born /\ target \in Lineage(m)
  BY <1>2 DEF VisitInv, Counted, ClimbInv, Lineage
<1> QED BY <1>1, <1>2, <1>3, <1>4

LEMMA VisitTree ==
    ASSUME WalkTypeOK, TreeOK, ClimbInv, CacheInv, VisitInv, [WalkNext]_walkVars,
           UNCHANGED <<visit, target, cached, count, phase>>
    PROVE  VisitInv'
<1>1. \A m \in born : parent'[m] = parent[m] /\ above'[m] = above[m]
  BY TreeStable
<1>2. Counted' = Counted
  BY DEF Counted
<1>3. \A m \in Counted : parent'[m] = parent[m] /\ above'[m] = above[m] /\ Siblings(m)' = Siblings(m)
  BY <1>1, CountedFacts DEF Siblings
<1>4. \A m \in Node : visit[m] \in {"fetching", "fetched"} => Siblings(m)' = Siblings(m)
  BY <1>3, CountedFacts
<1> QED BY <1>2, <1>3, <1>4 DEF VisitInv, Outstanding

(* Before the count nothing is counted, and the first to be refreshed is    *)
(* the target.                                                              *)
LEMMA VisitStart ==
    ASSUME WalkTypeOK, VisitInv, target \in Node, target' \in Node, count' = count,
           \A n \in Node : visit[n] = "none",
           \/ visit' = visit /\ phase' # "failed"
           \/ StartCount /\ target' = target
    PROVE  VisitInv'
<1>1. Counted = {} /\ count = 0
  BY FS_EmptySet DEF Counted, VisitInv
<1>2. CASE visit' = visit /\ phase' # "failed"
  <2>1. Counted' = {}
    BY <1>2 DEF Counted
  <2> QED BY <1>1, <1>2, <2>1, FS_EmptySet DEF VisitInv, Outstanding
<1>3. CASE StartCount /\ target' = target
  <2>1. phase' = "counting" /\ \A n \in Node : visit'[n] = IF n = target THEN "refreshing" ELSE "none"
    BY <1>3 DEF StartCount, WalkTypeOK
  <2>2. Counted' = {}
    BY <1>3, <2>1 DEF Counted
  <2> QED BY <1>1, <1>3, <2>1, <2>2, FS_EmptySet DEF VisitInv
<1> QED BY <1>2, <1>3

(* The children of a node that is refreshed are new to the count.           *)
LEMMA VisitNode ==
    ASSUME WalkTypeOK, TreeOK, ClimbInv, CacheInv, VisitInv, NEW n \in Node, NodeArrives(n)
    PROVE  VisitInv'
<1> DEFINE children == IF n \in present THEN Children(n) ELSE cached[n]
<1>1. /\ visit[n] = "refreshing" /\ phase = "counting"
      /\ Refresh(n, children) /\ count' = count + Cardinality(children)
      /\ UNCHANGED <<tree, target>>
  BY DEF NodeArrives
<1>2. n \in born /\ target \in Lineage(n)
  BY <1>1, CountedFacts
<1>3. \A m \in children : m \in born /\ parent[m] = n
  BY DEF Children, CacheInv, WalkTypeOK
<1>4. \A m \in children : above[m] = Lineage(n) /\ target \in above[m]
  BY <1>2, <1>3, DelegationAssumption DEF TreeOK
<1>5. \A m \in children : m # target /\ m # n
  BY <1>3, <1>4 DEF TreeOK, Lineage
<1>6. \A m \in children : visit[m] = "none"
  BY <1>1, <1>3, <1>5 DEF VisitInv, Counted, WalkTypeOK
<1> HIDE DEF children
<1>7. \A m \in Node : visit'[m] = IF m = n THEN "counted"
                                  ELSE IF m \in children THEN "fetching" ELSE visit[m]
  BY <1>1 DEF Refresh, Resume
<1>8. \A k \in Node : cached'[k] = IF k = n THEN children ELSE cached[k]
  BY <1>1 DEF Refresh, WalkTypeOK
<1>9. Counted' = Counted \union children /\ Counted \intersect children = {}
  BY <1>1, <1>3, <1>5, <1>6, <1>7 DEF Counted, WalkTypeOK
<1>10. count' = Cardinality(Counted')
  <2>1. IsFiniteSet(children)
    BY <1>3, FS_Subset, DelegationAssumption DEF WalkTypeOK
  <2>2. IsFiniteSet(Counted)
    BY CountedFacts
  <2>3. Cardinality(Counted \union children) = Cardinality(Counted) + Cardinality(children) - 0
    BY <1>9, <2>1, <2>2, FS_Union, FS_EmptySet
  <2>4. Cardinality(Counted) \in Nat /\ Cardinality(children) \in Nat
    BY <2>1, <2>2, FS_CardinalityType
  <2> QED BY <1>1, <1>9, <2>3, <2>4 DEF VisitInv
<1>11. \A m \in Counted' : /\ parent'[m] \in Node /\ visit'[parent'[m]] = "counted"
                           /\ m \in cached'[parent'[m]] /\ target' \in above'[m]
  <2>1. ASSUME NEW m \in Counted
        PROVE  /\ parent[m] \in Node /\ visit'[parent[m]] = "counted"
               /\ m \in cached'[parent[m]] /\ target \in above[m]
    <3>1. parent[m] \in Node /\ visit[parent[m]] = "counted" /\ m \in cached[parent[m]]
          /\ target \in above[m]
      BY DEF VisitInv
    <3>2. parent[m] # n
      BY <1>1, <3>1
    <3> QED BY <1>6, <1>7, <1>8, <3>1, <3>2
  <2>2. ASSUME NEW m \in children
        PROVE  /\ parent[m] \in Node /\ visit'[parent[m]] = "counted"
               /\ m \in cached'[parent[m]] /\ target \in above[m]
    BY <1>3, <1>4, <1>7, <1>8
  <2> QED BY <1>1, <1>9, <2>1, <2>2 DEF tree
<1>12. \A m \in Node : visit'[m] \in {"fetching", "fetched"} =>
           \/ m \in children /\ Siblings(m)' = children
           \/ /\ visit'[m] = visit[m] /\ Siblings(m)' = Siblings(m)
              /\ \A k \in Siblings(m) : k \in Node /\ visit'[k] = visit[k]
  <2> SUFFICES ASSUME NEW m \in Node, visit'[m] \in {"fetching", "fetched"}, m \notin children
               PROVE  /\ visit'[m] = visit[m] /\ Siblings(m)' = Siblings(m)
                      /\ \A k \in Siblings(m) : k \in Node /\ visit'[k] = visit[k]
    BY <1>1, <1>3, <1>8 DEF Siblings, tree
  <2>1. visit'[m] = visit[m] /\ m \in Counted
    BY <1>7, CountedFacts
  <2>2. parent[m] \in Node /\ parent[m] # n
    BY <1>1, <2>1 DEF VisitInv
  <2>3. \A k \in Siblings(m) : k \in Node /\ visit[k] \in {"fetching", "fetched"}
    BY <2>1, <2>2 DEF VisitInv, Siblings, WalkTypeOK
  <2> QED BY <1>1, <1>6, <1>7, <1>8, <2>1, <2>2, <2>3 DEF Siblings, tree
<1>13. \A m \in Node : visit'[m] \in {"fetching", "fetched"} =>
           \A k \in Siblings(m)' : visit'[k] \in {"fetching", "fetched"}
  BY <1>3, <1>5, <1>7, <1>12 DEF VisitInv, WalkTypeOK
<1>14. \A m \in Node : visit'[m] = "fetched" => \E k \in Siblings(m)' : visit'[k] = "fetching"
  BY <1>5, <1>7, <1>12 DEF VisitInv
<1>15. phase' \in {"counting", "built"} /\ (phase' = "built" => ~Outstanding(visit'))
  BY <1>1 DEF Refresh, Resume
<1>16. visit'[target'] \in {"none", "refreshing", "counted"}
  BY <1>1, <1>5, <1>7 DEF VisitInv, WalkTypeOK
<1> QED BY <1>10, <1>11, <1>13, <1>14, <1>15, <1>16 DEF VisitInv, Outstanding

(* The last of the siblings sets all of them going; the others wait.        *)
LEMMA VisitChild ==
    ASSUME WalkTypeOK, TreeOK, ClimbInv, CacheInv, VisitInv, NEW n \in Node, ChildArrives(n)
    PROVE  VisitInv'
<1>1. /\ visit[n] = "fetching" /\ phase = "counting"
      /\ UNCHANGED <<tree, target, phase, count>>
  BY DEF ChildArrives
<1>2. \A k \in Node : k # n => cached'[k] = cached[k]
  BY DEF ChildArrives, WalkTypeOK
<1>3. n \in Counted
  BY <1>1, CountedFacts
<1>4. \A m \in Counted :
          /\ parent[m] \in Node /\ parent[m] # n /\ visit[parent[m]] = "counted"
          /\ m \in Siblings(m) /\ target \in above[m]
          /\ Siblings(m)' = Siblings(m)
  BY <1>1, <1>2 DEF VisitInv, Siblings, tree
<1>5. \A m \in Counted : \A k \in Siblings(m) : k \in Node /\ parent[k] = parent[m]
  BY <1>4 DEF CacheInv, Siblings, WalkTypeOK
<1>6. \A k \in Siblings(n) : visit[k] \in {"fetching", "fetched"} /\ k \in Counted
  BY <1>1, <1>3, <1>5, CountedFacts DEF VisitInv
<1>7. \A m \in Counted : \A k \in Siblings(m) : k \in Siblings(n) => m \in Siblings(n)
  BY <1>3, <1>4, <1>5 DEF Siblings
<1>8. target \in Node /\ target \notin Siblings(n) /\ target # n
  BY <1>3, <1>6 DEF Counted, WalkTypeOK
<1>9. CASE \A k \in Siblings(n) \ {n} : visit[k] = "fetched"
  <2>1. \A m \in Node : visit'[m] = IF m \in Siblings(n) THEN "refreshing" ELSE visit[m]
    BY <1>9 DEF ChildArrives
  <2>2. Counted' = Counted
    BY <1>1, <1>6, <2>1 DEF Counted
  <2>3. \A m \in Counted : visit'[parent[m]] = "counted"
    BY <1>4, <1>6, <2>1
  <2>4. \A m \in Node : visit'[m] \in {"fetching", "fetched"} =>
            /\ m \in Counted /\ visit'[m] = visit[m]
            /\ \A k \in Siblings(m) : visit'[k] = visit[k]
    BY <1>5, <1>7, <2>1, CountedFacts
  <2>5. \A m \in Node : visit'[m] \in {"fetching", "fetched"} =>
            \A k \in Siblings(m)' : visit'[k] \in {"fetching", "fetched"}
    BY <1>4, <2>4 DEF VisitInv
  <2>6. \A m \in Node : visit'[m] = "fetched" => \E k \in Siblings(m)' : visit'[k] = "fetching"
    BY <1>4, <2>4 DEF VisitInv
  <2>7. \A m \in Counted' : /\ parent'[m] \in Node /\ visit'[parent'[m]] = "counted"
                            /\ m \in cached'[parent'[m]] /\ target' \in above'[m]
    BY <1>1, <1>4, <2>2, <2>3 DEF Siblings, tree
  <2>8. visit'[target'] \in {"none", "refreshing", "counted"}
    BY <1>1, <1>8, <2>1 DEF VisitInv
  <2> QED BY <1>1, <2>2, <2>5, <2>6, <2>7, <2>8 DEF VisitInv
<1>10. CASE \E k \in Siblings(n) \ {n} : visit[k] # "fetched"
  <2>1. \A m \in Node : visit'[m] = IF m = n THEN "fetched" ELSE visit[m]
    BY <1>10 DEF ChildArrives, WalkTypeOK
  <2>2. Counted' = Counted
    BY <1>1, <2>1 DEF Counted
  <2>3. PICK k \in Siblings(n) : k # n /\ visit[k] = "fetching"
    BY <1>6, <1>10
  <2>4. \A m \in Node : visit'[m] \in {"fetching", "fetched"} =>
            m \in Counted /\ visit[m] \in {"fetching", "fetched"}
    BY <1>1, <2>1, CountedFacts
  <2>5. \A m \in Node : visit'[m] \in {"fetching", "fetched"} =>
            \A j \in Siblings(m)' : visit'[j] \in {"fetching", "fetched"}
    BY <1>4, <1>5, <2>1, <2>4 DEF VisitInv
  <2>6. ASSUME NEW m \in Node, visit'[m] = "fetched"
        PROVE  \E j \in Siblings(m)' : visit'[j] = "fetching"
    <3>1. m \in Counted /\ Siblings(m)' = Siblings(m)
      BY <1>4, <2>4, <2>6
    <3>2. CASE m \in Siblings(n)
      <4>1. Siblings(m) = Siblings(n)
        BY <1>3, <1>5, <3>2 DEF Siblings
      <4>2. k \in Node
        BY <1>6, <2>3 DEF Counted
      <4> QED BY <2>1, <2>3, <3>1, <4>1, <4>2
    <3>3. CASE m \notin Siblings(n)
      <4>1. m # n /\ visit[m] = "fetched"
        BY <1>3, <1>4, <2>1, <2>6, <3>3
      <4>2. PICK j \in Siblings(m) : visit[j] = "fetching"
        BY <4>1 DEF VisitInv
      <4>3. j # n /\ j \in Node
        BY <1>3, <1>4, <1>5, <1>7, <3>1, <3>3
      <4> QED BY <2>1, <3>1, <4>2, <4>3
    <3> QED BY <3>2, <3>3
  <2>7. \A m \in Counted' : /\ parent'[m] \in Node /\ visit'[parent'[m]] = "counted"
                            /\ m \in cached'[parent'[m]] /\ target' \in above'[m]
    BY <1>1, <1>4, <2>1, <2>2 DEF Siblings, tree
  <2>8. visit'[target'] \in {"none", "refreshing", "counted"}
    BY <1>1, <1>8, <2>1 DEF VisitInv
  <2> QED BY <1>1, <2>2, <2>5, <2>6, <2>7, <2>8 DEF VisitInv
<1> QED BY <1>9, <1>10

LEMMA VisitStep ==
    WalkTypeOK /\ TreeOK /\ ClimbInv /\ CacheInv /\ VisitInv /\ [WalkNext]_walkVars => VisitInv'
<1> SUFFICES ASSUME WalkTypeOK, TreeOK, ClimbInv, CacheInv, VisitInv, [WalkNext]_walkVars
             PROVE  VisitInv'
  OBVIOUS
<1>0. target' \in Node /\ target \in Node
  BY TypeStep DEF WalkTypeOK
<1>1. CASE UNCHANGED walk
  BY <1>1, VisitTree DEF walk
<1>2. ASSUME phase \notin {"counting", "built", "failed"}
      PROVE  \A n \in Node : visit[n] = "none"
  BY <1>2 DEF VisitInv
<1>3. ASSUME NEW n \in Node, Query(n) \/ CountNodeDepth(n) PROVE VisitInv'
  <2>1. phase = "none" /\ visit' = visit /\ count' = count /\ phase' \in {"loaded", "asking"}
    BY <1>3 DEF Query, CountNodeDepth
  <2> QED BY <1>0, <1>2, <2>1, VisitStart
<1>4. CASE GetRevokeTx \/ GetRemoveTx
  <2>1. phase = "loaded" /\ count' = count /\ target' = target
    BY <1>4 DEF GetRevokeTx, GetRemoveTx
  <2>2. StartCount \/ (visit' = visit /\ phase' # "failed")
    BY <1>4 DEF GetRevokeTx, GetRemoveTx, Reach
  <2>3. \A n \in Node : visit[n] = "none"
    BY <1>2, <2>1
  <2>4. (visit' = visit /\ phase' # "failed") \/ (StartCount /\ target' = target)
    BY <2>1, <2>2
  <2> QED BY <1>0, <2>1, <2>3, <2>4, VisitStart
<1>5. CASE DelegationArrives \/ ParentArrives
  <2>1. phase \in {"asking", "climbing"} /\ count' = count /\ target' = target
    BY <1>5 DEF DelegationArrives, ParentArrives
  <2>2. StartCount \/ (visit' = visit /\ phase' # "failed")
    BY <1>5 DEF DelegationArrives, ParentArrives, Reach
  <2>3. \A n \in Node : visit[n] = "none"
    BY <1>2, <2>1
  <2>4. (visit' = visit /\ phase' # "failed") \/ (StartCount /\ target' = target)
    BY <2>1, <2>2
  <2> QED BY <1>0, <2>1, <2>3, <2>4, VisitStart
<1>6. ASSUME NEW n \in Node, ChildMissing(n) PROVE VisitInv'
  <2>1. Counted' = Counted /\ UNCHANGED <<tree, target, visit, cached, count>> /\ phase' = "failed"
    BY <1>6 DEF ChildMissing, Counted
  <2> QED BY <2>1 DEF VisitInv, Siblings, tree
<1> QED
  <2>1. CASE UNCHANGED walkVars
    BY <1>1, <2>1 DEF walkVars
  <2>2. ASSUME NEW n \in Node, NEW p \in Node, AddDelegation(n, p) PROVE VisitInv'
    BY <1>1, <2>2 DEF AddDelegation
  <2>3. ASSUME NEW n \in Node, RemoveSubtree(n) PROVE VisitInv'
    BY <1>1, <2>3 DEF RemoveSubtree
  <2> QED BY <1>3, <1>4, <1>5, <1>6, <2>1, <2>2, <2>3, VisitNode, VisitChild DEF WalkNext

-----------------------------------------------------------------------------
LEMMA CoverTree ==
    ASSUME WalkTypeOK, TreeOK, ClimbInv, CacheInv, CoverInv, UNCHANGED walk,
           \/ UNCHANGED walkVars
           \/ \E n, p \in Node : AddDelegation(n, p)
           \/ \E n \in Node : RemoveSubtree(n)
    PROVE  CoverInv'
<1>1. /\ \A m \in born : above'[m] = above[m] /\ (m \in present' => m \in present)
      /\ target \in born /\ lost \subseteq born
  BY TreeStable DEF WalkNext, ClimbInv, CacheInv
<1>2. lost \subseteq lost' /\ (~grown' => ~grown)
  <2>1. ASSUME NEW n \in Node, NEW p \in Node, AddDelegation(n, p)
        PROVE  lost \subseteq lost' /\ (~grown' => ~grown)
    BY <2>1 DEF AddDelegation
  <2>2. ASSUME NEW n \in Node, RemoveSubtree(n)
        PROVE  lost \subseteq lost' /\ (~grown' => ~grown)
    BY <2>2 DEF RemoveSubtree
  <2> QED BY <2>1, <2>2 DEF walkVars
<1>3. ASSUME ~grown' PROVE Below(target)' \subseteq Below(target)
  <2>1. CASE UNCHANGED walkVars
    BY <2>1 DEF walkVars, tree, walk, Below
  <2>2. ASSUME NEW n \in Node, NEW p \in Node, AddDelegation(n, p)
        PROVE  Below(target)' \subseteq Below(target)
    <3>1. target \notin above'[n] /\ present' = present \union {n}
      BY <1>3, <2>2 DEF AddDelegation, WalkTypeOK
    <3> QED BY <1>1, <3>1 DEF Below, walk, WalkTypeOK
  <2>3. ASSUME NEW n \in Node, RemoveSubtree(n)
        PROVE  Below(target)' \subseteq Below(target)
    BY <2>3 DEF RemoveSubtree, Below, walk
  <2> QED BY <2>1, <2>2, <2>3
<1>4. \A m \in Below(target) : above'[m] = above[m]
  BY <1>1 DEF Below, WalkTypeOK
<1>5. phase' = "failed" => \E m \in lost' : target' \in above'[m]
  BY <1>1, <1>2 DEF CoverInv, walk
<1>6. ASSUME phase' \in {"counting", "built"}, op' # "attestation", ~grown', target' \in present',
             NEW m \in Below(target)'
      PROVE  \/ visit'[m] # "none"
             \/ \E a \in above'[m] : visit'[a] \in {"fetching", "fetched", "refreshing"}
  BY <1>1, <1>2, <1>3, <1>4, <1>6 DEF CoverInv, walk
<1> QED BY <1>5, <1>6 DEF CoverInv, walk

(* A walk that starts to count has everything still ahead of it.            *)
LEMMA CoverStart ==
    ASSUME WalkTypeOK, UNCHANGED tree, target' = target, phase' # "failed",
           StartCount \/ phase' \notin {"counting", "built"} \/ op' = "attestation"
    PROVE  CoverInv'
<1>1. CASE StartCount
  <2>1. visit'[target] = "refreshing"
    BY <1>1 DEF StartCount, WalkTypeOK
  <2>2. \A m \in Below(target)' : target \in above'[m]
    BY DEF Below
  <2> QED BY <2>1, <2>2 DEF CoverInv
<1>2. CASE phase' \notin {"counting", "built"} \/ op' = "attestation"
  BY <1>2 DEF CoverInv
<1> QED BY <1>1, <1>2

(* What was to be found through a node is found through one of its children.*)
LEMMA CoverNode ==
    ASSUME WalkTypeOK, TreeOK, CoverInv, NEW n \in Node, NodeArrives(n)
    PROVE  CoverInv'
<1> DEFINE children == IF n \in present THEN Children(n) ELSE cached[n]
<1>1. phase = "counting" /\ Refresh(n, children) /\ UNCHANGED <<tree, op, target, grown, lost>>
  BY DEF NodeArrives
<1>2. phase' \in {"counting", "built"}
  BY <1>1 DEF Refresh, Resume
<1>3. \A m \in Node : visit'[m] = IF m = n THEN "counted"
                                  ELSE IF m \in children THEN "fetching" ELSE visit[m]
  BY <1>1 DEF Refresh, Resume
<1>4. ASSUME op # "attestation", ~grown, target \in present, NEW m \in Below(target)
      PROVE  \/ visit'[m] # "none"
             \/ \E a \in above[m] : visit'[a] \in {"fetching", "fetched", "refreshing"}
  <2>1. m \in Node /\ m \in born /\ above[m] \subseteq Node /\ Lineage(m) \subseteq present
    BY DEF Below, WalkTypeOK, TreeOK, Lineage
  <2>2. CASE visit[m] # "none"
    BY <1>3, <2>1, <2>2
  <2>3. ASSUME NEW a \in above[m], a # n, visit[a] \in {"fetching", "fetched", "refreshing"}
        PROVE  \E b \in above[m] : visit'[b] \in {"fetching", "fetched", "refreshing"}
    BY <1>3, <2>1, <2>3
  <2>4. CASE n \in above[m]
    <3>1. PICK c \in Lineage(m) : parent[c] = n
      BY <2>1, <2>4 DEF TreeOK
    <3>2. n \in present /\ c \in present /\ c \in Node
      BY <2>1, <2>4 DEF Lineage, WalkTypeOK
    <3>3. c \in children
      BY <3>1, <3>2 DEF Children
    <3>4. c # n
      BY <3>1, <3>2, DelegationAssumption DEF TreeOK, Lineage, WalkTypeOK
    <3>5. visit'[c] = "fetching"
      BY <1>3, <3>2, <3>3, <3>4
    <3> QED BY <3>5 DEF Lineage
  <2> QED BY <1>1, <1>4, <2>2, <2>3, <2>4 DEF CoverInv
<1>5. Below(target)' = Below(target)
  BY <1>1 DEF Below, tree
<1> QED BY <1>1, <1>2, <1>4, <1>5 DEF CoverInv, tree

LEMMA CoverChild ==
    ASSUME WalkTypeOK, CoverInv, NEW n \in Node, ChildArrives(n)
    PROVE  CoverInv'
<1>1. phase = "counting" /\ visit[n] = "fetching"
      /\ UNCHANGED <<tree, op, target, phase, grown, lost>>
  BY DEF ChildArrives
<1>2. \A m \in Node : visit'[m] = visit[m] \/ visit'[m] \in {"fetched", "refreshing"}
  BY DEF ChildArrives, WalkTypeOK
<1>3. \A m \in Below(target) : m \in Node /\ above[m] \subseteq Node
  BY DEF Below, WalkTypeOK
<1>4. Below(target)' = Below(target)
  BY <1>1 DEF Below, tree
<1> QED BY <1>1, <1>2, <1>3, <1>4 DEF CoverInv, tree

LEMMA CoverStep ==
    WalkTypeOK /\ TreeOK /\ ClimbInv /\ CacheInv /\ VisitInv /\ CoverInv /\ [WalkNext]_walkVars => CoverInv'
<1> SUFFICES ASSUME WalkTypeOK, TreeOK, ClimbInv, CacheInv, VisitInv, CoverInv, [WalkNext]_walkVars
             PROVE  CoverInv'
  OBVIOUS
<1>1. CASE \/ UNCHANGED walkVars
           \/ \E n, p \in Node : AddDelegation(n, p)
           \/ \E n \in Node : RemoveSubtree(n)
  <2>1. UNCHANGED walk
    BY <1>1 DEF walkVars, AddDelegation, RemoveSubtree
  <2> QED BY <1>1, <2>1, CoverTree
<1>2. ASSUME NEW n \in Node, Query(n) \/ CountNodeDepth(n) PROVE CoverInv'
  <2>1. phase' \in {"loaded", "asking"}
    BY <1>2 DEF Query, CountNodeDepth
  <2> QED BY <2>1 DEF CoverInv
<1>3. CASE GetRevokeTx
  BY <1>3, CoverStart DEF GetRevokeTx, Reach, StartCount
<1>4. CASE GetRemoveTx
  BY <1>4, CoverStart DEF GetRemoveTx, StartCount
<1>5. CASE DelegationArrives
  <2>1. op' = "attestation" /\ UNCHANGED tree /\ target' = target
    BY <1>5 DEF DelegationArrives, ClimbInv
  <2>2. phase' # "failed"
    BY <1>5 DEF DelegationArrives, Reach, StartCount
  <2> QED BY <2>1, <2>2, CoverStart
<1>6. CASE ParentArrives
  <2>1. op \in {"revoke", "attestation"} /\ op' = op /\ UNCHANGED tree /\ target' = target
    BY <1>6 DEF ParentArrives, ClimbInv
  <2>2. StartCount \/ phase' \in {"climbing", "unauthorized"} \/ (phase' = "built" /\ op # "revoke")
    BY <1>6 DEF ParentArrives, Reach
  <2>3. phase' # "failed"
    BY <2>2 DEF StartCount
  <2> QED BY <2>1, <2>2, <2>3, CoverStart
<1>7. ASSUME NEW n \in Node, ChildMissing(n) PROVE CoverInv'
  <2>1. visit[n] = "fetching" /\ n \notin present /\ phase' = "failed"
        /\ UNCHANGED <<tree, target, lost>>
    BY <1>7 DEF ChildMissing
  <2>2. n \in lost /\ target \in above[n]
    BY <2>1, CountedFacts DEF VisitInv
  <2> QED BY <2>1, <2>2 DEF CoverInv, tree
<1> QED BY <1>1, <1>2, <1>3, <1>4, <1>5, <1>6, <1>7, CoverNode, CoverChild DEF WalkNext

-----------------------------------------------------------------------------
LEMMA WalkInvInit == WalkInit => WalkInv
<1> SUFFICES ASSUME WalkInit PROVE WalkInv
  OBVIOUS
<1>0. WalkTypeOK
  BY TypeInit
<1>1. /\ born = {Root} /\ present = {Root} /\ Root \in Node /\ target = Root
      /\ parent[Root] = NoNode /\ above[Root] = {} /\ phase = "none" /\ count = 0
      /\ lost = {} /\ \A n \in Node : visit[n] = "none" /\ cached[n] = {}
  BY DelegationAssumption DEF WalkInit
<1>2. TreeOK
  BY <1>1 DEF TreeOK, Lineage
<1>3. ClimbInv
  BY <1>1 DEF ClimbInv
<1>4. CacheInv
  BY <1>1 DEF CacheInv
<1>5. Counted = {}
  BY <1>1 DEF Counted
<1>6. VisitInv
  BY <1>1, <1>5, FS_EmptySet DEF VisitInv
<1>7. CoverInv
  BY <1>1 DEF CoverInv
<1> QED BY <1>0, <1>2, <1>3, <1>4, <1>6, <1>7 DEF WalkInv

LEMMA InvInductive == WalkSpec => []WalkInv
<1>1. WalkInv /\ [WalkNext]_walkVars => WalkInv'
  BY TypeStep, TreeStep, ClimbStep, CacheStep, VisitStep, CoverStep DEF WalkInv
<1> QED BY WalkInvInit, <1>1, PTL DEF WalkSpec

(* The depth bound is exact, however the tree changes during the climb.     *)
THEOREM DepthExact == WalkSpec => []NearestFound
<1>1. WalkInv => NearestFound
  BY DEF WalkInv, ClimbInv, Climbed, NearestFound
<1> QED BY InvInductive, <1>1, PTL

(* No node is counted twice, and none that was not below the target.        *)
THEOREM NoneCountedTwice == WalkSpec => []CountedOnce
<1>1. WalkInv => CountedOnce
  <2> SUFFICES ASSUME WalkInv
               PROVE  count <= Cardinality({m \in present \union lost : target \in above[m]})
    BY DEF CountedOnce
  <2> DEFINE known == {m \in present \union lost : target \in above[m]}
  <2>1. Counted \subseteq known
    BY CountedFacts DEF WalkInv, VisitInv
  <2>2. known \subseteq Node
    BY DEF WalkInv, WalkTypeOK
  <2>3. Cardinality(Counted) <= Cardinality(known)
    BY <2>1, <2>2, FS_Subset, DelegationAssumption
  <2> QED BY <2>3 DEF WalkInv, VisitInv
<1> QED BY InvInductive, <1>1, PTL

(* The bound on the nodes below covers them all, unless some were added     *)
(* after the walk began.                                                    *)
THEOREM CountSuffices == WalkSpec => []CountCovers
<1>1. WalkInv => CountCovers
  <2> SUFFICES ASSUME WalkInv, phase = "built", op # "attestation", ~grown, target \in present
               PROVE  Cardinality(Below(target)) <= count
    BY DEF CountCovers
  <2>1. ~Outstanding(visit)
    BY DEF WalkInv, VisitInv
  <2>2. \A a \in Node : visit[a] \notin {"fetching", "refreshing"}
    BY <2>1 DEF Outstanding
  <2>3. \A a \in Node : visit[a] # "fetched"
    <3> SUFFICES ASSUME NEW a \in Node, visit[a] = "fetched" PROVE FALSE
      OBVIOUS
    <3>1. PICK k \in Siblings(a) : visit[k] = "fetching"
      BY DEF WalkInv, VisitInv
    <3>2. a \in Counted
      BY CountedFacts DEF WalkInv
    <3>3. k \in Node
      BY <3>1, <3>2 DEF WalkInv, VisitInv, Siblings, WalkTypeOK
    <3> QED BY <2>2, <3>1, <3>3
  <2>4. \A m \in Below(target) : m \in Node /\ m # target /\ above[m] \subseteq Node
    BY DEF WalkInv, WalkTypeOK, TreeOK, Below
  <2>5. Below(target) \subseteq Counted
    BY <2>2, <2>3, <2>4 DEF WalkInv, CoverInv, Counted
  <2>6. Cardinality(Below(target)) <= Cardinality(Counted)
    BY <2>5, CountedFacts, FS_Subset DEF WalkInv
  <2> QED BY <2>6 DEF WalkInv, VisitInv
<1> QED BY InvInductive, <1>1, PTL

(* Nobody among the delegators is turned away while the node is there, and  *)
(* no count fails unless something below the node was removed.              *)
THEOREM RefusalHonest == WalkSpec => []HonestRefusal
<1>1. WalkInv => HonestRefusal
  <2> SUFFICES ASSUME WalkInv
               PROVE  /\ phase = "unauthorized" => ~Authorised \/ target \notin present
                      /\ phase = "failed" => \E m \in lost : target \in above[m]
    BY DEF HonestRefusal
  <2>1. phase = "failed" => \E m \in lost : target \in above[m]
    BY DEF WalkInv, CoverInv
  <2>2. phase = "unauthorized" => ~Authorised \/ target \notin present
    BY DEF WalkInv, ClimbInv
  <2> QED BY <2>1, <2>2
<1> QED BY InvInductive, <1>1, PTL
-----------------------------------------------------------------------------
(* From the making of a delegation to the chain.                            *)

Permissions == Seq({ATTEST, DELEGATE})

Once(permissions) == IsInjective(permissions)

(* The callers name each permission at most once.  Permissions are summed,  *)
(* so that twice ATTEST would be DELEGATE: without this the properties below *)
(* do not hold.                                                             *)
NamedOnce ==
    /\ \A input \in RootInput : Once(input.permissions)
    /\ \A input \in NodeInput : Once(input.permissions)

-----------------------------------------------------------------------------
(* Permissions to bits and back.                                            *)

LEMMA TimesOnce ==
    ASSUME NEW s \in Permissions, Once(s), NEW p
    PROVE  Times(p, s) = IF p \in ToSet(s) THEN 1 ELSE 0
<1> DEFINE At == {k \in DOMAIN s : s[k] = p}
<1>1. CASE p \in ToSet(s)
  <2>1. PICK k \in DOMAIN s : s[k] = p
    BY <1>1 DEF ToSet
  <2>2. At = {k}
    BY <2>1 DEF Once, IsInjective
  <2>3. Cardinality({k}) = 1
    BY FS_Singleton, Zenon
  <2> QED
    BY <1>1, <2>2, <2>3 DEF Times
<1>2. CASE p \notin ToSet(s)
  <2>1. At = {}
    BY <1>2 DEF ToSet
  <2> QED
    BY <1>2, <2>1, FS_EmptySet DEF Times
<1> QED
  BY <1>1, <1>2

(* The bits of a list are those of the set of its members.                  *)
BitsOf(S) == (IF ATTEST \in S THEN 1 ELSE 0) + (IF DELEGATE \in S THEN 2 ELSE 0)

LEMMA BitsOfMembers ==
    ASSUME NEW s \in Permissions, Once(s)
    PROVE  PermissionsAsBitset(s) = BitsOf(ToSet(s))
<1>1. /\ Times(ATTEST, s) = IF ATTEST \in ToSet(s) THEN 1 ELSE 0
      /\ Times(DELEGATE, s) = IF DELEGATE \in ToSet(s) THEN 1 ELSE 0
  BY TimesOnce
<1> QED
  BY <1>1 DEF PermissionsAsBitset, BitsOf, ATTEST, DELEGATE

LEMMA MembersArePermissions ==
    ASSUME NEW s \in Permissions
    PROVE  ToSet(s) \subseteq {ATTEST, DELEGATE}
BY DEF Permissions, ToSet

LEMMA TwoInARow ==
    ASSUME NEW a \in Nat, NEW b \in Nat
    PROVE  <<a>> \o <<b>> = <<a, b>>
<1> DEFINE s == <<a>>
           t == <<b>>
           both == <<a, b>>
<1>1. /\ s \in Seq(Nat) /\ Len(s) = 1 /\ s[1] = a
      /\ t \in Seq(Nat) /\ Len(t) = 1 /\ t[1] = b
      /\ both \in Seq(Nat) /\ Len(both) = 2 /\ both[1] = a /\ both[2] = b
  OBVIOUS
<1> HIDE DEF s, t, both
<1>2. /\ s \o t \in Seq(Nat)
      /\ Len(s \o t) = Len(s) + Len(t)
      /\ \A k \in 1 .. Len(s) + Len(t) :
            (s \o t)[k] = IF k <= Len(s) THEN s[k] ELSE t[k - Len(s)]
  BY <1>1, ConcatProperties
<1>3. Len(s \o t) = 2 /\ \A k \in 1..2 : (s \o t)[k] = both[k]
  BY <1>1, <1>2
<1>4. s \o t = both
  BY <1>1, <1>2, <1>3, SeqEqual
<1> QED
  BY <1>4 DEF s, t, both

LEMMA Concatenated ==
    /\ <<>> \o <<>> = <<>>
    /\ <<ATTEST>> \o <<>> = <<ATTEST>>
    /\ <<>> \o <<DELEGATE>> = <<DELEGATE>>
    /\ <<ATTEST>> \o <<DELEGATE>> = <<ATTEST, DELEGATE>>
<1>1. <<>> \in Seq(Nat) /\ <<ATTEST>> \in Seq(Nat) /\ <<DELEGATE>> \in Seq(Nat)
  BY DEF ATTEST, DELEGATE
<1>2. <<ATTEST>> \o <<DELEGATE>> = <<ATTEST, DELEGATE>>
  BY TwoInARow DEF ATTEST, DELEGATE
<1> QED
  BY <1>1, <1>2, ConcatEmptySeq

LEMMA Decoding ==
    /\ DecodePermissions(0) = <<>>
    /\ DecodePermissions(1) = <<ATTEST>>
    /\ DecodePermissions(2) = <<DELEGATE>>
    /\ DecodePermissions(3) = <<ATTEST, DELEGATE>>
<1>1. /\ 0 % 2 = 0 /\ 1 % 2 = 1 /\ 2 % 2 = 0 /\ 3 % 2 = 1
      /\ 0 \div 2 = 0 /\ 1 \div 2 = 0 /\ 2 \div 2 = 1 /\ 3 \div 2 = 1
      /\ 0 # 1
  OBVIOUS
<1>2. /\ DecodePermissions(0) = <<>> \o <<>>
      /\ DecodePermissions(1) = <<ATTEST>> \o <<>>
      /\ DecodePermissions(2) = <<>> \o <<DELEGATE>>
      /\ DecodePermissions(3) = <<ATTEST>> \o <<DELEGATE>>
  BY <1>1, Zenon DEF DecodePermissions
<1> QED
  BY <1>2, Concatenated, Zenon

LEMMA Lists ==
    /\ <<>> \in Permissions /\ Once(<<>>) /\ ToSet(<<>>) = {}
    /\ <<ATTEST>> \in Permissions /\ Once(<<ATTEST>>) /\ ToSet(<<ATTEST>>) = {ATTEST}
    /\ <<DELEGATE>> \in Permissions /\ Once(<<DELEGATE>>) /\ ToSet(<<DELEGATE>>) = {DELEGATE}
    /\ <<ATTEST, DELEGATE>> \in Permissions /\ Once(<<ATTEST, DELEGATE>>)
    /\ ToSet(<<ATTEST, DELEGATE>>) = {ATTEST, DELEGATE}
BY DEF ToSet, Once, IsInjective, Permissions, ATTEST, DELEGATE

(* What is decoded from the bits of a set has its members, each once.       *)
LEMMA DecodeMembers ==
    ASSUME NEW S \in SUBSET {ATTEST, DELEGATE}
    PROVE  /\ BitsOf(S) \in 0..255
           /\ DecodePermissions(BitsOf(S)) \in Permissions
           /\ Once(DecodePermissions(BitsOf(S)))
           /\ ToSet(DecodePermissions(BitsOf(S))) = S
<1>0. /\ 0 \in 0..255 /\ 1 \in 0..255 /\ 2 \in 0..255 /\ 3 \in 0..255
  OBVIOUS
<1>1. CASE S = {}
  <2>1. BitsOf(S) = 0
    BY <1>1 DEF BitsOf
  <2> QED
    BY <1>0, <1>1, <2>1, Decoding, Lists, Zenon
<1>2. CASE S = {ATTEST}
  <2>1. BitsOf(S) = 1
    BY <1>2 DEF BitsOf, ATTEST, DELEGATE
  <2> QED
    BY <1>0, <1>2, <2>1, Decoding, Lists, Zenon
<1>3. CASE S = {DELEGATE}
  <2>1. BitsOf(S) = 2
    BY <1>3 DEF BitsOf, ATTEST, DELEGATE
  <2> QED
    BY <1>0, <1>3, <2>1, Decoding, Lists, Zenon
<1>4. CASE S = {ATTEST, DELEGATE}
  <2>1. BitsOf(S) = 3
    BY <1>4 DEF BitsOf, ATTEST, DELEGATE
  <2> QED
    BY <1>0, <1>4, <2>1, Decoding, Lists, Zenon
<1> QED
  BY <1>1, <1>2, <1>3, <1>4

LEMMA RoundTrip ==
    ASSUME NEW s \in Permissions, Once(s)
    PROVE  /\ PermissionsAsBitset(s) \in 0..255
           /\ DecodePermissions(PermissionsAsBitset(s)) \in Permissions
           /\ Once(DecodePermissions(PermissionsAsBitset(s)))
           /\ ToSet(DecodePermissions(PermissionsAsBitset(s))) = ToSet(s)
BY BitsOfMembers, MembersArePermissions, DecodeMembers, Zenon

(* Nothing is decoded twice, whatever the bits.                             *)
LEMMA DecodedOnce ==
    ASSUME NEW bits
    PROVE  DecodePermissions(bits) \in Permissions /\ Once(DecodePermissions(bits))
<1>1. /\ <<>> \o <<>> = <<>>
      /\ <<ATTEST>> \o <<>> = <<ATTEST>>
      /\ <<>> \o <<DELEGATE>> = <<DELEGATE>>
      /\ <<ATTEST>> \o <<DELEGATE>> = <<ATTEST, DELEGATE>>
  BY Concatenated
<1> QED
  BY <1>1, Lists, Zenon DEF DecodePermissions

-----------------------------------------------------------------------------
(* Each list of permissions has each permission once.                       *)
ListedOnce ==
    \A i \in Id : /\ node[i] # None => Once(node[i].permissions)
                  /\ made[i] # None => Once(made[i].permissions)

IsDelegation(i) == made[i] # None /\ made[i].parent # NoId

MadeBits(i) == PermissionsAsBitset(made[i].permissions)

(* What the owner of a delegation agrees to.                                *)
Agreed(i) ==
    [did |-> made[i].account, id |-> i, hierarchy |-> made[i].hierarchy,
     parent |-> made[i].parent, permissions |-> ToSet(made[i].permissions)]

(* A root is its own hierarchy, and only a root has a CType of its own.     *)
MadeWell ==
    \A i \in Id : made[i] # None =>
        /\ made[i].parent = NoId => made[i].hierarchy = i
        /\ IsDelegation(i) => made[i].cType = NoCType

(* The object at hand is the one made, but for the order of the permissions *)
(* and for what is fetched; a root, once read, may be the DID's that stored *)
(* it.                                                                      *)
NodeKept ==
    \A i \in Id : node[i] # None =>
        /\ made[i] # None
        /\ node[i].hierarchy = made[i].hierarchy /\ node[i].parent = made[i].parent
        /\ IsDelegation(i) =>
              /\ node[i].account = made[i].account
              /\ ToSet(node[i].permissions) = ToSet(made[i].permissions)

CTypeKept ==
    \A i \in Id : node[i] # None /\ node[i].cType # NoCType =>
        /\ made[node[i].hierarchy] # None
        /\ node[i].cType = made[node[i].hierarchy].cType

(* A signature of a delegation is one of what was made, whenever signed and *)
(* by whomever; the owner's is consent.                                     *)
Consented(i, s) ==
    /\ s.of = <<i, made[i].hierarchy, made[i].parent, MadeBits(i)>>
    /\ s.did = made[i].account => Agreed(i) \in consents

SignatureKept ==
    \A i \in Id : signature[i] # None =>
        /\ made[i] # None
        /\ IsDelegation(i) => Consented(i, signature[i])

(* An extrinsic carries what was made.                                      *)
TxKept ==
    \A t \in txs :
        /\ made[t.id] # None
        /\ t.call = "createHierarchy" =>
              made[t.id].parent = NoId /\ t.cType = made[t.id].cType
        /\ t.call = "addDelegation" =>
              /\ made[t.id].parent # NoId
              /\ t.parent = made[t.id].parent /\ t.account = made[t.id].account
              /\ t.bits = MadeBits(t.id)
              /\ Consented(t.id, t.signature)

(* So does the chain, and of a delegation with its owner's agreement.       *)
StoredKept ==
    \A i \in Id : stored[i] # None =>
        /\ made[i] # None
        /\ stored[i].hierarchy = made[i].hierarchy /\ stored[i].parent = made[i].parent
        /\ IsDelegation(i) =>
              /\ stored[i].account = made[i].account /\ stored[i].bits = MadeBits(i)
              /\ Agreed(i) \in consents

HierarchyKept ==
    \A h \in Id : hierarchies[h] # NoCType =>
        made[h] # None /\ hierarchies[h] = made[h].cType

(* The answer outlives what is stored: a node may be removed after it.      *)
VerifiedKept ==
    \A i \in verified :
        /\ node[i] # None
        /\ IsDelegation(i) => Agreed(i) \in consents

Inv ==
    /\ TypeOK /\ ListedOnce /\ MadeWell /\ NodeKept /\ CTypeKept /\ SignatureKept
    /\ TxKept /\ StoredKept /\ HierarchyKept /\ VerifiedKept /\ RightfulIsStored

-----------------------------------------------------------------------------
LEMMA NotNone == None \notin DelegationNode /\ None \notin Entry /\ None \notin Signature
BY DEF None, DelegationNode, Entry, Signature

(* The bits of the object at hand are those of what was made.               *)
LEMMA BitsKept ==
    ASSUME Inv, NEW i \in Id, node[i] # None, IsDelegation(i)
    PROVE  PermissionsAsBitset(node[i].permissions) = MadeBits(i)
<1>1. /\ node[i].permissions \in Permissions /\ Once(node[i].permissions)
      /\ made[i].permissions \in Permissions /\ Once(made[i].permissions)
  BY DEF Inv, TypeOK, ListedOnce, DelegationNode, IsDelegation, Permissions
<1>2. ToSet(node[i].permissions) = ToSet(made[i].permissions)
  BY DEF Inv, NodeKept
<1> QED
  BY <1>1, <1>2, BitsOfMembers DEF MadeBits

LEMMA BitsInRange ==
    ASSUME Inv, NEW i \in Id, node[i] # None
    PROVE  PermissionsAsBitset(node[i].permissions) \in 0..255
<1>1. node[i].permissions \in Permissions /\ Once(node[i].permissions)
  BY DEF Inv, TypeOK, ListedOnce, DelegationNode, Permissions
<1> QED
  BY <1>1, RoundTrip

(* What is hashed of a node.                                                *)
LEMMA Hashed ==
    ASSUME Inv, NEW i \in Id, node[i] # None
    PROVE  /\ GenerateHash(i, node[i]) \in
                 (Id \X Id \X (0..255)) \union (Id \X Id \X Id \X (0..255))
           /\ IsDelegation(i) => GenerateHash(i, node[i]) =
                 <<i, made[i].hierarchy, made[i].parent, MadeBits(i)>>
<1>1. node[i].hierarchy \in Id /\ node[i].parent \in Id \union {NoId}
  BY DEF Inv, TypeOK, DelegationNode
<1>2. PermissionsAsBitset(node[i].permissions) \in 0..255
  BY BitsInRange
<1>3. IsDelegation(i) => PermissionsAsBitset(node[i].permissions) = MadeBits(i)
  BY BitsKept
<1>4. node[i].hierarchy = made[i].hierarchy /\ node[i].parent = made[i].parent
  BY DEF Inv, NodeKept
<1> QED
  BY <1>1, <1>2, <1>3, <1>4 DEF GenerateHash, IsDelegation

LEMMA InvInit == Init => Inv
<1> SUFFICES ASSUME Init PROVE Inv
  OBVIOUS
<1>1. TypeOK
  <2>1. key \in [Did -> 0..MaxKey]
    <3>1. 0 \in 0..MaxKey
      BY DelegationStoreAssumption
    <3> QED
      BY <3>1 DEF Init
  <2> QED
    BY <2>1, Zenon DEF Init, TypeOK
<1> QED
  BY <1>1 DEF Init, Inv, ListedOnce, MadeWell, NodeKept, CTypeKept, SignatureKept, TxKept,
              StoredKept, HierarchyKept, VerifiedKept, RightfulIsStored

(* A node is made once, so that what holds of what was made still does.     *)
LEMMA MakeStep ==
    ASSUME Inv, NEW i \in Id, NEW n \in DelegationNode, Make(i, n),
           Once(n.permissions),
           n.parent = NoId => n.hierarchy = i,
           n.parent # NoId => n.cType = NoCType
    PROVE  Inv'
<1>1. /\ made[i] = None /\ n # None
      /\ made' = [made EXCEPT ![i] = n] /\ node' = [node EXCEPT ![i] = n]
      /\ UNCHANGED <<signature, consents, txs, verified, stored, hierarchies, key, baffled>>
  BY NotNone DEF Make, chain
<1>2. TypeOK'
  BY <1>1 DEF Inv, TypeOK
<1>3. /\ made'[i] = n /\ node'[i] = n
      /\ \A j \in Id \ {i} : made'[j] = made[j] /\ node'[j] = node[j]
  BY <1>1 DEF Inv, TypeOK
<1>4. \A j \in Id : made[j] # None =>
        /\ made'[j] = made[j] /\ (IsDelegation(j) <=> IsDelegation(j)')
        /\ MadeBits(j)' = MadeBits(j) /\ Agreed(j)' = Agreed(j)
  BY <1>1, <1>3 DEF IsDelegation, MadeBits, Agreed
<1>5. \A j \in Id : \A s : made[j] # None => (Consented(j, s) <=> Consented(j, s)')
  BY <1>1, <1>4 DEF Consented
<1>6. ListedOnce'
  BY <1>3 DEF Inv, ListedOnce
<1>7. MadeWell'
  BY <1>3, <1>4 DEF Inv, MadeWell, IsDelegation
<1>8. NodeKept'
  BY <1>3, <1>4 DEF Inv, NodeKept, IsDelegation
<1>9. CTypeKept'
  BY <1>1, <1>3 DEF Inv, CTypeKept
<1>10. SignatureKept'
  BY <1>1, <1>4, <1>5 DEF Inv, SignatureKept
<1>11. TxKept'
  <2>1. \A t \in txs : t.id \in Id
    BY DEF Inv, TypeOK, HierarchyTx, DelegationTx
  <2> QED
    BY <1>1, <1>4, <1>5, <2>1 DEF Inv, TxKept
<1>12. StoredKept' /\ HierarchyKept'
  BY <1>1, <1>4 DEF Inv, StoredKept, HierarchyKept
<1>13. VerifiedKept'
  BY <1>1, <1>3, <1>4 DEF Inv, VerifiedKept, TypeOK, NodeKept
<1> QED
  BY <1>1, <1>2, <1>6, <1>7, <1>8, <1>9, <1>10, <1>11, <1>12, <1>13
  DEF Inv, RightfulIsStored

LEMMA NewRootStep ==
    ASSUME Inv, NamedOnce, NEW input \in RootInput, NewRoot(input)
    PROVE  Inv'
<1> DEFINE n == [hierarchy |-> input.id, parent |-> NoId, account |-> input.account,
                 permissions |-> input.permissions, cType |-> input.cType]
<1>1. input.id \in Id /\ n \in DelegationNode /\ n.parent = NoId /\ n.hierarchy = input.id
  BY DelegationStoreAssumption DEF DelegationNode
<1>2. Once(n.permissions)
  BY DEF NamedOnce
<1>3. Make(input.id, n)
  BY DEF NewRoot
<1> HIDE DEF n
<1> QED
  BY <1>1, <1>2, <1>3, MakeStep

LEMMA NewNodeStep ==
    ASSUME Inv, NamedOnce, NEW input \in NodeInput, NewNode(input)
    PROVE  Inv'
<1> DEFINE n == [hierarchy |-> input.hierarchy, parent |-> input.parent,
                 account |-> input.account, permissions |-> input.permissions,
                 cType |-> NoCType]
<1>1. Make(input.id, n)
  BY DEF NewNode
<1>2. n.hierarchy # NoId
  BY <1>1 DEF Make, ErrorCheck
<1>3. input.id \in Id /\ n \in DelegationNode /\ n.parent # NoId /\ n.cType = NoCType
  BY <1>2, DelegationStoreAssumption DEF DelegationNode
<1>4. Once(n.permissions)
  BY DEF NamedOnce
<1> HIDE DEF n
<1> QED
  BY <1>1, <1>3, <1>4, MakeStep

-----------------------------------------------------------------------------
LEMMA DelegeeSignStep ==
    ASSUME Inv, NEW i \in Id, NEW d \in Did, NEW k \in 0..key[d], DelegeeSign(i, d, k)
    PROVE  Inv'
<1> DEFINE s == [did |-> d, key |-> k, of |-> GenerateHash(i, node[i])]
           consent == [did |-> d, id |-> i, hierarchy |-> node[i].hierarchy,
                       parent |-> node[i].parent, permissions |-> ToSet(node[i].permissions)]
<1>1. /\ node[i] # None
      /\ signature' = [signature EXCEPT ![i] = s] /\ consents' = consents \union {consent}
      /\ UNCHANGED <<node, made, txs, verified, stored, hierarchies, key, baffled>>
  BY DEF DelegeeSign, chain
<1>2. k \in 0..MaxKey
  <2>1. key[d] \in 0..MaxKey
    BY DEF Inv, TypeOK
  <2> QED
    BY <2>1, DelegationStoreAssumption
<1>3. s \in Signature
  BY <1>1, <1>2, Hashed DEF Signature
<1>4. TypeOK'
  BY <1>1, <1>3 DEF Inv, TypeOK
<1>5. \A j : IsDelegation(j)' = IsDelegation(j) /\ Agreed(j)' = Agreed(j) /\ MadeBits(j)' = MadeBits(j)
  BY <1>1 DEF IsDelegation, Agreed, MadeBits
<1>6. \A j, r : Consented(j, r) => Consented(j, r)'
  BY <1>1, <1>5 DEF Consented
<1>7. made[i] # None /\ signature'[i] = s
  BY <1>1 DEF Inv, NodeKept, TypeOK
<1>8. IsDelegation(i) => Consented(i, signature[i])'
  <2> SUFFICES ASSUME IsDelegation(i) PROVE Consented(i, signature[i])'
    OBVIOUS
  <2>1. s.of = <<i, made[i].hierarchy, made[i].parent, MadeBits(i)>>
    BY <1>1, Hashed
  <2>2. d = made[i].account => consent = Agreed(i)
    BY <1>1 DEF Inv, NodeKept, Agreed
  <2> QED
    BY <1>1, <1>5, <1>7, <2>1, <2>2 DEF Consented
<1> HIDE DEF s, consent
<1>9. SignatureKept'
  <2> SUFFICES ASSUME NEW j \in Id, signature'[j] # None
               PROVE  made'[j] # None /\ (IsDelegation(j)' => Consented(j, signature[j])')
    BY Zenon DEF SignatureKept
  <2>1. CASE j = i
    BY <1>1, <1>5, <1>7, <1>8, <2>1
  <2>2. CASE j # i
    <3>1. signature'[j] = signature[j]
      BY <1>1, <2>2 DEF Inv, TypeOK
    <3>2. made[j] # None /\ (IsDelegation(j) => Consented(j, signature[j]))
      BY <3>1 DEF Inv, SignatureKept
    <3> QED
      BY <1>1, <1>5, <3>1, <3>2 DEF Consented
  <2> QED
    BY <2>1, <2>2
<1>10. TxKept'
  BY <1>1, <1>5, <1>6 DEF Inv, TxKept
<1>11. StoredKept' /\ VerifiedKept'
  BY <1>1, <1>5 DEF Inv, StoredKept, VerifiedKept
<1>12. /\ ListedOnce' /\ MadeWell' /\ NodeKept' /\ CTypeKept' /\ HierarchyKept'
       /\ RightfulIsStored'
  BY <1>1 DEF Inv, ListedOnce, MadeWell, IsDelegation, NodeKept, CTypeKept, HierarchyKept,
              RightfulIsStored
<1> QED
  BY <1>4, <1>9, <1>10, <1>11, <1>12 DEF Inv

(* Where only the objects at hand and the answers of verify change.         *)
LEMMA ObjectStep ==
    ASSUME Inv, TypeOK', ListedOnce', NodeKept', CTypeKept', VerifiedKept',
           UNCHANGED <<made, signature, consents, txs, chain>>
    PROVE  Inv'
<1>1. UNCHANGED <<made, signature, consents, txs, stored, hierarchies, key, baffled>>
  BY DEF chain
<1>2. \A j : IsDelegation(j)' = IsDelegation(j) /\ Agreed(j)' = Agreed(j) /\ MadeBits(j)' = MadeBits(j)
  BY <1>1 DEF IsDelegation, Agreed, MadeBits
<1>3. \A j, r : Consented(j, r)' <=> Consented(j, r)
  BY <1>1, <1>2 DEF Consented
<1> QED
  BY <1>1, <1>2, <1>3 DEF Inv, MadeWell, SignatureKept, TxKept, StoredKept, HierarchyKept,
                          RightfulIsStored

LEMMA GetLatestStateStep ==
    ASSUME Inv, NEW i \in Id, GetLatestState(i)
    PROVE  Inv'
<1> DEFINE n == Decoded(i)
<1>1. /\ made[i] # None /\ stored[i] # None /\ node' = [node EXCEPT ![i] = n]
      /\ UNCHANGED <<made, signature, consents, txs, verified, chain>>
  BY DEF GetLatestState, Readable
<1>2. /\ n.hierarchy = stored[i].hierarchy /\ n.parent = stored[i].parent
      /\ n.account = stored[i].account /\ n.cType = NoCType
      /\ n.permissions = DecodePermissions(stored[i].bits)
  BY DEF Decoded
<1>3. n \in DelegationNode /\ Once(n.permissions)
  <2>1. stored[i] \in Entry
    BY <1>1 DEF Inv, TypeOK
  <2>2. n.permissions \in Permissions /\ Once(n.permissions)
    BY <1>2, DecodedOnce
  <2> QED
    BY <2>1, <2>2 DEF Decoded, DelegationNode, Entry, Permissions
<1>4. /\ n.hierarchy = made[i].hierarchy /\ n.parent = made[i].parent
      /\ IsDelegation(i) => /\ n.account = made[i].account
                            /\ ToSet(n.permissions) = ToSet(made[i].permissions)
  <2>1. made[i].permissions \in Permissions /\ Once(made[i].permissions)
    BY <1>1 DEF Inv, TypeOK, ListedOnce, DelegationNode, Permissions
  <2>2. IsDelegation(i) => stored[i].bits = PermissionsAsBitset(made[i].permissions)
    BY <1>1 DEF Inv, StoredKept, MadeBits
  <2>3. IsDelegation(i) => ToSet(n.permissions) = ToSet(made[i].permissions)
    BY <1>2, <2>1, <2>2, RoundTrip
  <2> QED
    BY <1>1, <1>2, <2>3 DEF Inv, StoredKept
<1> HIDE DEF n
<1>5. n # None /\ node'[i] = n /\ \A j \in Id \ {i} : node'[j] = node[j]
  BY <1>1, <1>3, NotNone DEF Inv, TypeOK
<1>6. UNCHANGED <<made, consents, verified, signature, txs, stored, hierarchies, key, baffled>>
  BY <1>1 DEF chain
<1>7. TypeOK'
  BY <1>1, <1>3, <1>6 DEF Inv, TypeOK
<1>8. ListedOnce'
  BY <1>3, <1>5, <1>6 DEF Inv, ListedOnce
<1>9. NodeKept'
  BY <1>1, <1>4, <1>5, <1>6 DEF Inv, NodeKept, IsDelegation
<1>10. CTypeKept'
  BY <1>2, <1>5, <1>6 DEF Inv, CTypeKept
<1>11. VerifiedKept'
  BY <1>5, <1>6 DEF Inv, TypeOK, VerifiedKept, IsDelegation, Agreed
<1> QED
  BY <1>1, <1>7, <1>8, <1>9, <1>10, <1>11, ObjectStep

LEMMA VerifyStep ==
    ASSUME Inv, NEW i \in Id, Verify(i)
    PROVE  Inv'
<1>1. UNCHANGED <<node, made, signature, consents, txs, chain>>
  BY DEF Verify
<1>2. \A j \in verified' : j \in verified \/ (j = i /\ node[i] # None /\ stored[i] # None)
  BY DEF Verify, Readable
<1>3. UNCHANGED <<stored, hierarchies, key, baffled>>
  BY <1>1 DEF chain
<1>4. TypeOK'
  BY <1>1, <1>2, <1>3 DEF Inv, TypeOK
<1>5. ListedOnce' /\ NodeKept' /\ CTypeKept'
  BY <1>1 DEF Inv, ListedOnce, NodeKept, CTypeKept, IsDelegation
<1>6. VerifiedKept'
  BY <1>1, <1>2 DEF Inv, VerifiedKept, StoredKept, IsDelegation, Agreed
<1> QED
  BY <1>1, <1>4, <1>5, <1>6, ObjectStep

(* What the details say is the CType that the hierarchy was made for.       *)
LEMMA DetailsKept ==
    ASSUME Inv, NEW i \in Id, node[i] # None, Details(i) # NoCType
    PROVE  /\ Details(i) \in CType
           /\ made[node[i].hierarchy] # None
           /\ Details(i) = made[node[i].hierarchy].cType
<1>1. node[i] \in DelegationNode /\ node[i].hierarchy \in Id
  BY DEF Inv, TypeOK, DelegationNode
<1>2. Details(i) \in CType
  BY <1>1 DEF Details, Inv, TypeOK, DelegationNode
<1>3. CASE node[i].cType # NoCType
  BY <1>2, <1>3 DEF Details, Inv, CTypeKept
<1>4. CASE node[i].cType = NoCType
  BY <1>1, <1>2, <1>4 DEF Details, Inv, HierarchyKept
<1> QED
  BY <1>3, <1>4

(* Keeping it in the object at hand changes nothing else of it.             *)
LEMMA KeepDetails ==
    ASSUME Inv, NEW i \in Id, node[i] # None, Details(i) # NoCType,
           node' = [node EXCEPT ![i].cType = Details(i)],
           UNCHANGED <<made, consents, verified>>
    PROVE  /\ node' \in [Id -> DelegationNode \union {None}]
           /\ ListedOnce' /\ NodeKept' /\ CTypeKept' /\ VerifiedKept'
<1> DEFINE n == [node[i] EXCEPT !.cType = Details(i)]
<1>1. node[i] \in DelegationNode
  BY DEF Inv, TypeOK
<1>2. /\ n \in DelegationNode /\ n.cType = Details(i)
      /\ n.hierarchy = node[i].hierarchy /\ n.parent = node[i].parent
      /\ n.account = node[i].account /\ n.permissions = node[i].permissions
  BY <1>1, DetailsKept DEF DelegationNode
<1>3. node' = [node EXCEPT ![i] = n]
  BY DEF Inv, TypeOK
<1> HIDE DEF n
<1>4. n # None /\ node'[i] = n /\ \A j \in Id \ {i} : node'[j] = node[j]
  BY <1>2, <1>3, NotNone DEF Inv, TypeOK
<1>5. node' \in [Id -> DelegationNode \union {None}]
  BY <1>2, <1>3 DEF Inv, TypeOK
<1>6. ListedOnce'
  BY <1>2, <1>4 DEF Inv, ListedOnce
<1>7. NodeKept'
  BY <1>2, <1>4 DEF Inv, NodeKept, IsDelegation
<1>8. CTypeKept'
  BY <1>2, <1>4, DetailsKept DEF Inv, CTypeKept
<1>9. VerifiedKept'
  BY <1>4 DEF Inv, TypeOK, VerifiedKept, IsDelegation, Agreed
<1> QED
  BY <1>5, <1>6, <1>7, <1>8, <1>9

LEMMA GetHierarchyDetailsStep ==
    ASSUME Inv, NEW i \in Id, GetHierarchyDetails(i)
    PROVE  Inv'
<1>1. /\ node[i] # None /\ Details(i) # NoCType
      /\ node' = [node EXCEPT ![i].cType = Details(i)]
      /\ UNCHANGED <<made, signature, consents, txs, verified, chain>>
  BY DEF GetHierarchyDetails
<1>2. /\ node' \in [Id -> DelegationNode \union {None}]
      /\ ListedOnce' /\ NodeKept' /\ CTypeKept' /\ VerifiedKept'
  BY <1>1, KeepDetails
<1>3. TypeOK'
  BY <1>1, <1>2 DEF Inv, TypeOK, chain
<1> QED
  BY <1>1, <1>2, <1>3, ObjectStep

LEMMA StoreAsRootStep ==
    ASSUME Inv, NEW i \in Id, node[i] # None, IsRoot(i), StoreAsRoot(i)
    PROVE  Inv'
<1> DEFINE tx == [call |-> "createHierarchy", id |-> i, cType |-> Details(i)]
<1>1. /\ Details(i) # NoCType /\ node' = [node EXCEPT ![i].cType = Details(i)]
      /\ txs' = txs \union {tx}
      /\ UNCHANGED <<made, signature, consents, verified, stored, hierarchies, key, baffled>>
  BY DEF StoreAsRoot, chain
<1>2. /\ node' \in [Id -> DelegationNode \union {None}]
      /\ ListedOnce' /\ NodeKept' /\ CTypeKept' /\ VerifiedKept'
  BY <1>1, KeepDetails
<1>3. tx \in HierarchyTx
  BY <1>1, DetailsKept DEF HierarchyTx
<1>4. TypeOK'
  BY <1>1, <1>2, <1>3 DEF Inv, TypeOK
<1>5. made[i] # None /\ made[i].parent = NoId /\ tx.cType = made[i].cType
  BY <1>1, DetailsKept DEF Inv, NodeKept, IsRoot
<1>6. tx.id = i /\ tx.call # "addDelegation"
  OBVIOUS
<1> HIDE DEF tx
<1>7. \A j : IsDelegation(j)' = IsDelegation(j) /\ Agreed(j)' = Agreed(j) /\ MadeBits(j)' = MadeBits(j)
  BY <1>1 DEF IsDelegation, Agreed, MadeBits
<1>8. \A j, r : Consented(j, r)' <=> Consented(j, r)
  BY <1>1, <1>7 DEF Consented
<1>9. TxKept'
  BY <1>1, <1>5, <1>6, <1>7, <1>8 DEF Inv, TxKept
<1> QED
  BY <1>1, <1>2, <1>4, <1>7, <1>8, <1>9
  DEF Inv, MadeWell, SignatureKept, StoredKept, HierarchyKept, RightfulIsStored

LEMMA StoreAsDelegationStep ==
    ASSUME Inv, NEW i \in Id, node[i] # None, ~IsRoot(i), StoreAsDelegation(i)
    PROVE  Inv'
<1> DEFINE tx == [call |-> "addDelegation", id |-> i, parent |-> node[i].parent,
                  account |-> node[i].account,
                  bits |-> PermissionsAsBitset(node[i].permissions),
                  signature |-> signature[i]]
<1>1. /\ signature[i] # None /\ txs' = txs \union {tx}
      /\ UNCHANGED <<node, made, signature, consents, verified,
                     stored, hierarchies, key, baffled>>
  BY DEF StoreAsDelegation, chain
<1>2. made[i] # None /\ made[i].parent # NoId /\ IsDelegation(i)
  BY DEF Inv, NodeKept, MadeWell, IsRoot, IsDelegation
<1>3. tx \in DelegationTx
  <2>1. node[i] \in DelegationNode /\ signature[i] \in Signature
    BY <1>1 DEF Inv, TypeOK
  <2> QED
    BY <2>1, BitsInRange DEF DelegationTx, DelegationNode
<1>4. TypeOK'
  BY <1>1, <1>3 DEF Inv, TypeOK
<1>5. /\ tx.id = i /\ tx.call # "createHierarchy"
      /\ tx.parent = made[i].parent /\ tx.account = made[i].account
      /\ tx.bits = MadeBits(i) /\ tx.signature = signature[i]
  BY <1>2, BitsKept DEF Inv, NodeKept
<1>6. Consented(i, signature[i])
  BY <1>1, <1>2 DEF Inv, SignatureKept
<1> HIDE DEF tx
<1>7. \A j : IsDelegation(j)' = IsDelegation(j) /\ Agreed(j)' = Agreed(j) /\ MadeBits(j)' = MadeBits(j)
  BY <1>1 DEF IsDelegation, Agreed, MadeBits
<1>8. \A j, r : Consented(j, r)' <=> Consented(j, r)
  BY <1>1, <1>7 DEF Consented
<1>9. TxKept'
  BY <1>1, <1>2, <1>5, <1>6, <1>7, <1>8 DEF Inv, TxKept
<1> QED
  BY <1>1, <1>4, <1>7, <1>8, <1>9
  DEF Inv, ListedOnce, MadeWell, NodeKept, CTypeKept, SignatureKept, StoredKept,
      HierarchyKept, VerifiedKept, RightfulIsStored

LEMMA GetStoreTxStep ==
    ASSUME Inv, NEW i \in Id, GetStoreTx(i)
    PROVE  Inv'
BY StoreAsRootStep, StoreAsDelegationStep DEF GetStoreTx

-----------------------------------------------------------------------------
(* Where only the chain changes, and extrinsics are included or lost.       *)
LEMMA ChainStep ==
    ASSUME Inv, TypeOK', StoredKept', HierarchyKept', RightfulIsStored',
           UNCHANGED <<node, made, signature, consents, verified>>,
           txs' \subseteq txs
    PROVE  Inv'
<1>1. \A j : IsDelegation(j)' = IsDelegation(j) /\ Agreed(j)' = Agreed(j) /\ MadeBits(j)' = MadeBits(j)
  BY DEF IsDelegation, Agreed, MadeBits
<1>2. \A j, r : Consented(j, r)' <=> Consented(j, r)
  BY <1>1 DEF Consented
<1>3. TxKept' /\ SignatureKept'
  BY <1>1, <1>2 DEF Inv, TxKept, SignatureKept
<1> QED
  BY <1>1, <1>3 DEF Inv, ListedOnce, MadeWell, NodeKept, CTypeKept, VerifiedKept

LEMMA IncludeHierarchyStep ==
    ASSUME Inv, NEW t \in txs, NEW d \in Did, IncludeHierarchy(t, d)
    PROVE  Inv'
<1> DEFINE root == [hierarchy |-> t.id, parent |-> NoId, account |-> d,
                    bits |-> ATTEST + DELEGATE, revoked |-> FALSE, above |-> {}]
<1>1. /\ t.call = "createHierarchy" /\ txs' = txs \ {t}
      /\ UNCHANGED <<node, made, signature, consents, verified, key, baffled>>
  BY DEF IncludeHierarchy
<1>2. t \in HierarchyTx
  BY <1>1 DEF Inv, TypeOK, DelegationTx
<1>3. t.id \in Id /\ t.cType \in CType
  BY <1>2 DEF HierarchyTx
<1>4. /\ made[t.id] # None /\ made[t.id].parent = NoId /\ t.cType = made[t.id].cType
      /\ made[t.id].hierarchy = t.id
  BY <1>1, <1>3 DEF Inv, TxKept, MadeWell
<1>5. CASE stored[t.id] # None
  <2>1. UNCHANGED <<stored, hierarchies>>
    BY <1>5 DEF IncludeHierarchy
  <2>2. TypeOK'
    BY <1>1, <2>1 DEF Inv, TypeOK
  <2>3. StoredKept' /\ HierarchyKept' /\ RightfulIsStored'
    BY <1>1, <2>1 DEF Inv, StoredKept, HierarchyKept, RightfulIsStored, IsDelegation, Agreed,
                      MadeBits
  <2> QED
    BY <1>1, <2>2, <2>3, ChainStep
<1>6. CASE stored[t.id] = None
  <2>1. /\ hierarchies' = [hierarchies EXCEPT ![t.id] = t.cType]
        /\ stored' = [stored EXCEPT ![t.id] = root]
    BY <1>6 DEF IncludeHierarchy
  <2>2. ATTEST + DELEGATE \in 0..255
    BY DEF ATTEST, DELEGATE
  <2>3. root \in Entry
    BY <1>3, <2>2 DEF Entry
  <2>4. root.hierarchy = t.id /\ root.parent = NoId
    OBVIOUS
  <2> HIDE DEF root
  <2>5. TypeOK'
    BY <1>1, <1>3, <2>1, <2>3 DEF Inv, TypeOK
  <2>6. StoredKept'
    BY <1>1, <1>3, <1>4, <2>1, <2>4 DEF Inv, TypeOK, StoredKept, IsDelegation, Agreed, MadeBits
  <2>7. HierarchyKept' /\ RightfulIsStored'
    BY <1>1, <1>3, <1>4, <2>1 DEF Inv, TypeOK, HierarchyKept, RightfulIsStored
  <2> QED
    BY <1>1, <2>5, <2>6, <2>7, ChainStep
<1> QED
  BY <1>5, <1>6

(* What has no cause to be refused is admitted.                             *)
LEMMA RightfulAdmitted ==
    ASSUME Inv, NEW t \in txs, t.call = "addDelegation", Rightful(t)
    PROVE  Admits(t)
<1>1. /\ t.parent = made[t.id].parent /\ t.account = made[t.id].account
      /\ t.bits = MadeBits(t.id)
      /\ t.signature.of = <<t.id, made[t.id].hierarchy, made[t.id].parent, MadeBits(t.id)>>
  BY DEF Inv, TxKept, Consented
<1> QED
  BY <1>1 DEF Rightful, Admits, Current

LEMMA IncludeDelegationStep ==
    ASSUME Inv, NEW t \in txs, IncludeDelegation(t)
    PROVE  Inv'
<1> DEFINE entry == [hierarchy |-> stored[t.parent].hierarchy, parent |-> t.parent,
                     account |-> t.account, bits |-> t.bits, revoked |-> FALSE,
                     above |-> stored[t.parent].above \union {t.parent}]
<1>1. /\ t.call = "addDelegation" /\ txs' = txs \ {t}
      /\ UNCHANGED <<node, made, signature, consents, verified, hierarchies, key>>
  BY DEF IncludeDelegation
<1>2. t \in DelegationTx
  BY <1>1 DEF Inv, TypeOK, HierarchyTx
<1>3. /\ made[t.id] # None /\ made[t.id].parent # NoId
      /\ t.parent = made[t.id].parent /\ t.account = made[t.id].account
      /\ t.bits = MadeBits(t.id) /\ Consented(t.id, t.signature)
  BY <1>1 DEF Inv, TxKept
<1>4. /\ t.id \in Id /\ t.parent \in Id /\ t.account \in Did /\ t.bits \in 0..255
  BY <1>2, <1>3 DEF DelegationTx
<1>5. CASE ~Admits(t)
  <2>1. UNCHANGED stored /\ baffled' = (baffled \/ Rightful(t))
    BY <1>5 DEF IncludeDelegation
  <2>2. ~Rightful(t)
    BY <1>1, <1>5, RightfulAdmitted
  <2>3. RightfulIsStored' /\ baffled' \in BOOLEAN
    BY <2>1, <2>2 DEF Inv, RightfulIsStored
  <2>4. TypeOK'
    BY <1>1, <2>1, <2>3 DEF Inv, TypeOK
  <2>5. StoredKept' /\ HierarchyKept'
    BY <1>1, <2>1 DEF Inv, StoredKept, HierarchyKept, IsDelegation, Agreed, MadeBits
  <2> QED
    BY <1>1, <2>3, <2>4, <2>5, ChainStep
<1>6. CASE Admits(t)
  <2>1. stored' = [stored EXCEPT ![t.id] = entry] /\ UNCHANGED baffled
    BY <1>6 DEF IncludeDelegation
  <2>2. stored[t.parent] \in Entry
    BY <1>4, <1>6 DEF Admits, Inv, TypeOK
  <2>3. entry \in Entry
    BY <1>4, <2>2 DEF Entry
  <2>4. stored[t.parent].hierarchy = made[t.id].hierarchy
    BY <1>3, <1>6 DEF Admits, Consented
  <2>5. Agreed(t.id) \in consents
    BY <1>3, <1>6 DEF Admits, Current, Consented
  <2>6. /\ entry.hierarchy = made[t.id].hierarchy /\ entry.parent = made[t.id].parent
        /\ entry.account = made[t.id].account /\ entry.bits = MadeBits(t.id)
    BY <1>3, <2>4
  <2> HIDE DEF entry
  <2>7. TypeOK'
    BY <1>1, <1>4, <2>1, <2>3 DEF Inv, TypeOK
  <2>8. StoredKept'
    <3>1. \A j \in Id \ {t.id} : stored'[j] = stored[j]
      BY <2>1 DEF Inv, TypeOK
    <3>2. stored'[t.id] = entry
      BY <1>4, <2>1 DEF Inv, TypeOK
    <3>3. \A j : IsDelegation(j)' = IsDelegation(j) /\ Agreed(j)' = Agreed(j) /\ MadeBits(j)' = MadeBits(j)
      BY <1>1 DEF IsDelegation, Agreed, MadeBits
    <3> QED
      BY <1>1, <1>3, <2>5, <2>6, <3>1, <3>2, <3>3 DEF Inv, StoredKept
  <2>9. HierarchyKept' /\ RightfulIsStored'
    BY <1>1, <2>1 DEF Inv, HierarchyKept, RightfulIsStored
  <2> QED
    BY <1>1, <2>7, <2>8, <2>9, ChainStep
<1> QED
  BY <1>5, <1>6

LEMMA LoseStep ==
    ASSUME Inv, NEW t \in txs, Lose(t)
    PROVE  Inv'
<1>1. /\ txs' \subseteq txs
      /\ UNCHANGED <<node, made, signature, consents, verified, stored, hierarchies, key, baffled>>
  BY DEF Lose, chain
<1>2. TypeOK'
  BY <1>1 DEF Inv, TypeOK
<1>3. StoredKept' /\ HierarchyKept' /\ RightfulIsStored'
  BY <1>1 DEF Inv, StoredKept, HierarchyKept, RightfulIsStored, IsDelegation, Agreed, MadeBits
<1> QED
  BY <1>1, <1>2, <1>3, ChainStep

LEMMA RevokeDelegationStep ==
    ASSUME Inv, NEW i \in Id, RevokeDelegation(i)
    PROVE  Inv'
<1>1. /\ stored' = [j \in Id |-> IF j \in Tree(i) THEN [stored[j] EXCEPT !.revoked = TRUE]
                                 ELSE stored[j]]
      /\ UNCHANGED <<node, made, signature, consents, txs, verified, hierarchies, key, baffled>>
  BY DEF RevokeDelegation, objects
<1>2. ASSUME NEW j \in Id, stored'[j] # stored[j]
      PROVE  /\ stored[j] # None /\ stored'[j] \in Entry
             /\ stored'[j].hierarchy = stored[j].hierarchy
             /\ stored'[j].parent = stored[j].parent
             /\ stored'[j].account = stored[j].account
             /\ stored'[j].bits = stored[j].bits
  <2>1. j \in Tree(i) /\ stored'[j] = [stored[j] EXCEPT !.revoked = TRUE]
    BY <1>1, <1>2
  <2>2. stored[j] \in Entry /\ stored[j] # None
    BY <2>1 DEF Tree, Inv, TypeOK
  <2> QED
    BY <2>1, <2>2 DEF Entry
<1>3. stored' \in [Id -> Entry \union {None}]
  <2>1. \A j \in Id : stored'[j] \in Entry \union {None}
    BY <1>2 DEF Inv, TypeOK
  <2> QED
    BY <1>1, <2>1
<1>4. TypeOK'
  BY <1>1, <1>3 DEF Inv, TypeOK
<1>5. StoredKept'
  <2>1. \A j : IsDelegation(j)' = IsDelegation(j) /\ Agreed(j)' = Agreed(j) /\ MadeBits(j)' = MadeBits(j)
    BY <1>1 DEF IsDelegation, Agreed, MadeBits
  <2> QED
    BY <1>1, <1>2, <2>1 DEF Inv, StoredKept
<1>6. HierarchyKept' /\ RightfulIsStored'
  BY <1>1 DEF Inv, HierarchyKept, RightfulIsStored
<1> QED
  BY <1>1, <1>4, <1>5, <1>6, ChainStep

LEMMA RemoveDelegationStep ==
    ASSUME Inv, NEW i \in Id, RemoveDelegation(i)
    PROVE  Inv'
<1>1. /\ stored' = [j \in Id |-> IF j \in Tree(i) THEN None ELSE stored[j]]
      /\ hierarchies' = [hierarchies EXCEPT ![i] = NoCType]
      /\ UNCHANGED <<node, made, signature, consents, txs, verified, key, baffled>>
  BY DEF RemoveDelegation, objects
<1>2. \A j \in Id : stored'[j] = None \/ stored'[j] = stored[j]
  BY <1>1
<1>3. TypeOK'
  BY <1>1 DEF Inv, TypeOK
<1>4. StoredKept'
  <2>1. \A j : IsDelegation(j)' = IsDelegation(j) /\ Agreed(j)' = Agreed(j) /\ MadeBits(j)' = MadeBits(j)
    BY <1>1 DEF IsDelegation, Agreed, MadeBits
  <2> QED
    BY <1>1, <1>2, <2>1 DEF Inv, StoredKept
<1>5. HierarchyKept' /\ RightfulIsStored'
  BY <1>1 DEF Inv, TypeOK, HierarchyKept, RightfulIsStored
<1> QED
  BY <1>1, <1>3, <1>4, <1>5, ChainStep

LEMMA ChangeKeyStep ==
    ASSUME Inv, NEW d \in Did, ChangeKey(d)
    PROVE  Inv'
<1>1. /\ key[d] < MaxKey /\ key' = [key EXCEPT ![d] = key[d] + 1]
      /\ UNCHANGED <<node, made, signature, consents, txs, verified, stored, hierarchies, baffled>>
  BY DEF ChangeKey, objects
<1>2. key' \in [Did -> 0..MaxKey]
  <2>1. key \in [Did -> 0..MaxKey]
    BY DEF Inv, TypeOK
  <2>2. key[d] + 1 \in 0..MaxKey
    BY <1>1, <2>1, DelegationStoreAssumption
  <2> QED
    BY <1>1, <2>1, <2>2
<1>3. TypeOK'
  BY <1>1, <1>2 DEF Inv, TypeOK
<1>4. StoredKept' /\ HierarchyKept' /\ RightfulIsStored'
  BY <1>1 DEF Inv, StoredKept, HierarchyKept, RightfulIsStored, IsDelegation, Agreed, MadeBits
<1> QED
  BY <1>1, <1>3, <1>4, ChainStep

-----------------------------------------------------------------------------
LEMMA InvNext == ASSUME NamedOnce, Inv, [Next]_vars PROVE Inv'
<1>1. CASE UNCHANGED vars
  <2>1. UNCHANGED <<node, made, signature, consents, txs, verified,
                    stored, hierarchies, key, baffled>>
    BY <1>1 DEF vars, objects, chain
  <2> QED
    BY <2>1 DEF Inv, TypeOK, ListedOnce, MadeWell, NodeKept, CTypeKept, SignatureKept, TxKept,
                StoredKept, HierarchyKept, VerifiedKept, RightfulIsStored, IsDelegation, Agreed,
                MadeBits, Consented
<1>2. ASSUME NEW input \in RootInput, NewRoot(input) PROVE Inv'
  BY <1>2, NewRootStep
<1>3. ASSUME NEW input \in NodeInput, NewNode(input) PROVE Inv'
  BY <1>3, NewNodeStep
<1>4. ASSUME NEW i \in Id, NEW d \in Did, NEW k \in 0..key[d], DelegeeSign(i, d, k) PROVE Inv'
  BY <1>4, DelegeeSignStep
<1>5. ASSUME NEW i \in Id,
             GetLatestState(i) \/ Verify(i) \/ GetHierarchyDetails(i) \/ GetStoreTx(i)
      PROVE  Inv'
  BY <1>5, GetLatestStateStep, VerifyStep, GetHierarchyDetailsStep, GetStoreTxStep
<1>6. ASSUME NEW t \in txs, NEW d \in Did, IncludeHierarchy(t, d) PROVE Inv'
  BY <1>6, IncludeHierarchyStep
<1>7. ASSUME NEW t \in txs, IncludeDelegation(t) \/ Lose(t) PROVE Inv'
  BY <1>7, IncludeDelegationStep, LoseStep
<1>8. ASSUME NEW i \in Id, RevokeDelegation(i) \/ RemoveDelegation(i) PROVE Inv'
  BY <1>8, RevokeDelegationStep, RemoveDelegationStep
<1>9. ASSUME NEW d \in Did, ChangeKey(d) PROVE Inv'
  BY <1>9, ChangeKeyStep
<1> QED
  BY <1>1, <1>2, <1>3, <1>4, <1>5, <1>6, <1>7, <1>8, <1>9 DEF Next

LEMMA InvAgrees == Inv => VerifiedIsAgreed
<1> SUFFICES ASSUME Inv, NEW i \in verified
             PROVE  /\ node[i].parent # NoId =>
                          [did |-> node[i].account, id |-> i, hierarchy |-> node[i].hierarchy,
                           parent |-> node[i].parent,
                           permissions |-> ToSet(node[i].permissions)] \in consents
                    /\ node[i].cType # NoCType =>
                          node[i].cType = made[node[i].hierarchy].cType
  BY DEF VerifiedIsAgreed
<1>1. i \in Id /\ node[i] # None
  BY DEF Inv, TypeOK, VerifiedKept
<1>2. ASSUME node[i].parent # NoId
      PROVE  [did |-> node[i].account, id |-> i, hierarchy |-> node[i].hierarchy,
              parent |-> node[i].parent, permissions |-> ToSet(node[i].permissions)] \in consents
  <2>1. IsDelegation(i)
    BY <1>1, <1>2 DEF Inv, NodeKept, IsDelegation
  <2>2. Agreed(i) \in consents
    BY <2>1 DEF Inv, VerifiedKept
  <2> QED
    BY <1>1, <2>1, <2>2 DEF Inv, NodeKept, Agreed
<1>3. node[i].cType # NoCType => node[i].cType = made[node[i].hierarchy].cType
  BY <1>1 DEF Inv, CTypeKept
<1> QED
  BY <1>2, <1>3

LEMMA Invariant == ASSUME NamedOnce PROVE Spec => []Inv
<1>1. Init => Inv
  BY InvInit
<1>2. Inv /\ [Next]_vars => Inv'
  BY InvNext
<1> QED
  BY <1>1, <1>2, PTL DEF Spec

(* Objects, signatures, extrinsics and the chain keep their types.          *)
THEOREM TypeCorrect == ASSUME NamedOnce PROVE Spec => []TypeOK
<1>1. Inv => TypeOK
  BY DEF Inv
<1> QED
  BY <1>1, Invariant, PTL

(* Whoever's node verify answers true for has agreed to the place and the   *)
(* permissions the object shows, and its CType is the hierarchy's, whatever *)
(* was signed, read, revoked, removed or stored again in between.           *)
THEOREM AgreedBehindVerify == ASSUME NamedOnce PROVE Spec => []VerifiedIsAgreed
BY InvAgrees, Invariant, PTL

(* No delegation is refused that was made for its parent's hierarchy and    *)
(* signed by its owner with the key it still has.                           *)
THEOREM NothingRightfulRefused == ASSUME NamedOnce PROVE Spec => []RightfulIsStored
<1>1. Inv => RightfulIsStored
  BY DEF Inv
<1> QED
  BY <1>1, Invariant, PTL

=============================================================================
