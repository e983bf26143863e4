------------------------------ MODULE Delegation ------------------------------
(***************************************************************************)
(* Walks over a tree of delegations that lives on the chain and changes    *)
(* meanwhile: findAncestorOwnedBy and subtreeNodeCount of                  *)
(* core/src/delegation/DelegationNode.ts, as getRevokeTx, getRemoveTx,     *)
(* getReclaimDepositTx and countNodeDepth use them.                        *)
(*                                                                         *)
(* One walk is modelled, from the query of the node it starts at to the    *)
(* bounds it puts into an extrinsic; walks share nothing.  Every query is  *)
(* answered and resumed in one action: what follows an answer depends on   *)
(* nothing but the answer, and what is asked next is asked of the chain as *)
(* it is then.  The tree is external (the delegation pallet): identifiers  *)
(* are never used twice, parents and owners never change, a node can only  *)
(* be added below one that is there, and is removed with all below it.     *)
(***************************************************************************)
EXTENDS Naturals, FiniteSets

CONSTANTS
    Node,       \* identifiers of delegation nodes
    Root,       \* the node of the hierarchy itself
    NoNode,     \* null, and the parentId of the root
    OwnerDid,   \* the DIDs that own nodes
    ThisDid     \* the DID the walk is made for

ASSUME DelegationAssumption ==
    /\ IsFiniteSet(Node)
    /\ Root \in Node /\ NoNode \notin Node
    /\ ThisDid \in OwnerDid

VARIABLES
    born,       \* the nodes that were ever added
    present,    \* those that are there now
    parent,     \* per node that was added: its parent,
    owner,      \* its account
    above,      \* and all its ancestors
    op,         \* what the walk is for
    target,     \* the node it is about
    phase,      \* where it stands
    at,         \* the node whose parent is being queried
    steps,      \* maxParentChecks so far
    visit,      \* per node: what subtreeNodeCount has come to there
    cached,     \* childrenIdentifiers of the DelegationNode objects at hand
    count,      \* maxRevocations so far
    grown,      \* history: whether a node was added below the target since the
                \* walk began
    lost        \* history: the nodes removed since the target was queried

tree == <<born, present, parent, owner, above>>
walk == <<op, target, phase, at, steps, visit, cached, count>>
walkVars == <<tree, walk, grown, lost>>

Op == {"none", "revoke", "remove", "attestation"}
Phase == {"none", "loaded", "asking", "climbing", "counting",
          "built", "failed", "unauthorized"}
Visit == {"none", "fetching", "fetched", "refreshing", "counted"}

WalkTypeOK ==
    /\ born \subseteq Node
    /\ present \subseteq born
    /\ parent \in [Node -> Node \union {NoNode}]
    /\ owner \in [Node -> OwnerDid]
    /\ above \in [Node -> SUBSET Node]
    /\ op \in Op
    /\ target \in Node
    /\ phase \in Phase
    /\ at \in Node
    /\ steps \in Nat
    /\ visit \in [Node -> Visit]
    /\ cached \in [Node -> SUBSET Node]
    /\ count \in Nat
    /\ grown \in BOOLEAN
    /\ lost \subseteq born

WalkInit ==
    /\ born = {Root}
    /\ present = {Root}
    /\ parent = [n \in Node |-> NoNode]
    /\ owner \in [Node -> OwnerDid]
    /\ above = [n \in Node |-> {}]
    /\ op = "none"
    /\ target = Root
    /\ phase = "none"
    /\ at = Root
    /\ steps = 0
    /\ visit = [n \in Node |-> "none"]
    /\ cached = [n \in Node |-> {}]
    /\ count = 0
    /\ grown = FALSE
    /\ lost = {}

-----------------------------------------------------------------------------
(* The tree (external).  Who will own a node is settled from the start.     *)

Children(n) == {m \in present : parent[m] = n}
Below(n) == {m \in present : n \in above[m]}

AddDelegation(n, p) ==
    /\ n \notin born
    /\ p \in present
    /\ born' = born \union {n}
    /\ present' = present \union {n}
    /\ parent' = [parent EXCEPT ![n] = p]
    /\ above' = [above EXCEPT ![n] = above[p] \union {p}]
    /\ grown' = (grown \/ target \in above[p] \union {p})
    /\ UNCHANGED <<owner, walk, lost>>

RemoveSubtree(n) ==
    /\ n \in present
    /\ present' = present \ (Below(n) \union {n})
    /\ lost' = lost \union Below(n) \union {n}
    /\ UNCHANGED <<born, parent, owner, above, walk, grown>>

-----------------------------------------------------------------------------
(* The way up.                                                              *)

(* DelegationNode.query: a node is fetched, and used at some later time.    *)
Query(n) ==
    /\ phase = "none"
    /\ n \in present
    /\ phase' = "loaded"
    /\ target' = n
    /\ cached' = [cached EXCEPT ![n] = Children(n)]
    /\ lost' = {}
    /\ UNCHANGED <<tree, op, at, steps, visit, count, grown>>

(* subtreeNodeCount of the target begins: getChildren queries it again.     *)
StartCount ==
    /\ phase' = "counting"
    /\ visit' = [visit EXCEPT ![target] = "refreshing"]

(* findAncestorOwnedBy has come to node n after s steps: its owner is asked *)
(* for, or its parent, if it has one.                                       *)
Reach(n, s, operation) ==
    /\ at' = n
    /\ steps' = s
    /\ IF owner[n] = ThisDid
       THEN IF operation = "revoke" THEN StartCount
            ELSE phase' = "built" /\ UNCHANGED visit
       ELSE /\ phase' = IF parent[n] = NoNode THEN "unauthorized" ELSE "climbing"
            /\ UNCHANGED visit

Started == grown' = FALSE /\ UNCHANGED lost

(* Mutated: the search begins with the parent.                              *)
GetRevokeTxFromParent ==
    /\ phase = "loaded"
    /\ op' = "revoke"
    /\ phase' = IF parent[target] = NoNode THEN "unauthorized" ELSE "climbing"
    /\ at' = target
    /\ Started
    /\ UNCHANGED <<tree, target, steps, visit, cached, count>>

(* getRevokeTx, up to its first await.                                      *)
GetRevokeTx ==
    /\ phase = "loaded"
    /\ op' = "revoke"
    /\ Reach(target, 0, "revoke")
    /\ Started
    /\ UNCHANGED <<tree, target, cached, count>>

(* getRemoveTx, and getReclaimDepositTx, which counts as it does.           *)
GetRemoveTx ==
    /\ phase = "loaded"
    /\ op' = "remove"
    /\ StartCount
    /\ Started
    /\ UNCHANGED <<tree, target, at, steps, cached, count>>

(* countNodeDepth of an attestation made under delegation n by another DID: *)
(* the node is queried.                                                     *)
CountNodeDepth(n) ==
    /\ phase = "none"
    /\ n \in born
    /\ op' = "attestation"
    /\ target' = n
    /\ phase' = "asking"
    /\ Started
    /\ UNCHANGED <<tree, at, steps, visit, cached, count>>

(* It counts one step to that node.  If the node is gone nobody is asked    *)
(* for.                                                                     *)
DelegationArrives ==
    /\ phase = "asking"
    /\ IF target \in present THEN Reach(target, 1, op)
       ELSE /\ phase' = "built"
            /\ steps' = 1
            /\ UNCHANGED <<at, visit>>
    /\ UNCHANGED <<tree, op, target, cached, count, grown, lost>>

(* Mutated: steps are counted only where the search goes on.                *)
ParentArrivesUncounted ==
    /\ phase = "climbing"
    /\ IF parent[at] \in present
       THEN Reach(parent[at], IF owner[parent[at]] = ThisDid THEN steps ELSE steps + 1, op)
       ELSE phase' = "unauthorized" /\ UNCHANGED <<at, steps, visit>>
    /\ UNCHANGED <<tree, op, target, cached, count, grown, lost>>

(* The parent queried is there, or it is null and the search ends.          *)
ParentArrives ==
    /\ phase = "climbing"
    /\ IF parent[at] \in present THEN Reach(parent[at], steps + 1, op)
       ELSE phase' = "unauthorized" /\ UNCHANGED <<at, steps, visit>>
    /\ UNCHANGED <<tree, op, target, cached, count, grown, lost>>

-----------------------------------------------------------------------------
(* The way down.  Every node is queried twice: by its parent's getChildren  *)
(* (fetching) and, once all its siblings are there, by its own (refreshing).*)

Outstanding(v) == \E n \in Node : v[n] \in {"fetching", "refreshing"}

Resume(v) ==
    /\ visit' = v
    /\ phase' = IF Outstanding(v) THEN "counting" ELSE "built"

Refresh(n, children) ==
    /\ cached' = [cached EXCEPT ![n] = children]
    /\ Resume([m \in Node |-> IF m = n THEN "counted"
                              ELSE IF m \in children THEN "fetching" ELSE visit[m]])

(* Mutated: the children known already are not asked for again.             *)
NodeArrivesStale(n) ==
    /\ phase = "counting" /\ visit[n] = "refreshing"
    /\ Refresh(n, cached[n])
    /\ count' = count + Cardinality(cached[n])
    /\ UNCHANGED <<tree, op, target, at, steps, grown, lost>>

(* Mutated: the node itself is counted too.                                 *)
NodeArrivesCountsItself(n) ==
    /\ phase = "counting" /\ visit[n] = "refreshing"
    /\ LET children == IF n \in present THEN Children(n) ELSE cached[n] IN
        /\ Refresh(n, children)
        /\ count' = count + 1 + Cardinality(children)
    /\ UNCHANGED <<tree, op, target, at, steps, grown, lost>>

(* getChildren has the node's latest details, or null and keeps those it    *)
(* has; the children are counted and queried.                               *)
NodeArrives(n) ==
    /\ phase = "counting" /\ visit[n] = "refreshing"
    /\ LET children == IF n \in present THEN Children(n) ELSE cached[n] IN
        /\ Refresh(n, children)
        /\ count' = count + Cardinality(children)
    /\ UNCHANGED <<tree, op, target, at, steps, grown, lost>>

Siblings(n) == cached[parent[n]]

(* A child is there; with the last of its siblings, subtreeNodeCount goes   *)
(* on to all of them.                                                       *)
ChildArrives(n) ==
    /\ phase = "counting" /\ visit[n] = "fetching"
    /\ n \in present
    /\ cached' = [cached EXCEPT ![n] = Children(n)]
    /\ visit' = IF \A m \in Siblings(n) \ {n} : visit[m] = "fetched"
                THEN [m \in Node |-> IF m \in Siblings(n) THEN "refreshing" ELSE visit[m]]
                ELSE [visit EXCEPT ![n] = "fetched"]
    /\ UNCHANGED <<tree, op, target, phase, at, steps, count, grown, lost>>

(* A child is gone: getChildren throws, and with it the whole walk.         *)
ChildMissing(n) ==
    /\ phase = "counting" /\ visit[n] = "fetching"
    /\ n \notin present
    /\ phase' = "failed"
    /\ UNCHANGED <<tree, op, target, at, steps, visit, cached, count, grown, lost>>

-----------------------------------------------------------------------------
WalkNext ==
    \/ \E n, p \in Node : AddDelegation(n, p)
    \/ \E n \in Node : RemoveSubtree(n) \/ Query(n) \/ CountNodeDepth(n)
    \/ GetRevokeTx
    \/ GetRemoveTx
    \/ DelegationArrives
    \/ ParentArrives
    \/ \E n \in Node : NodeArrives(n) \/ ChildArrives(n) \/ ChildMissing(n)

WalkSpec == WalkInit /\ [][WalkNext]_walkVars

-----------------------------------------------------------------------------
Lineage(n) == above[n] \union {n}
Authorised == \E a \in Lineage(target) : owner[a] = ThisDid

(* The depth bound of a revocation is exact whatever happens to the tree:   *)
(* it is the way from the target to the nearest ancestor of the DID, which  *)
(* nobody can lengthen or shorten; one more for an attestation.             *)
NearestFound ==
    phase \in {"counting", "built"} /\ op # "remove" /\ target \in present =>
        /\ at \in Lineage(target) /\ owner[at] = ThisDid
        /\ \A a \in Lineage(target) : at \in above[a] => owner[a] # ThisDid
        /\ steps = Cardinality(above[target]) - Cardinality(above[at])
                     + IF op = "attestation" THEN 1 ELSE 0

(* "number of children nodes that will be revoked" (DelegationNode.chain.ts *)
(* :108): the bound covers every node below the target, as long as none has *)
(* been added since the walk began, however many were added before, since   *)
(* the node at hand was queried, or are removed during it.                  *)
CountCovers ==
    phase = "built" /\ op # "attestation" /\ ~grown /\ target \in present =>
        Cardinality(Below(target)) <= count

(* The bound is not larger than it need be: it counts no node twice, and    *)
(* none that was not below the target at some time of the walk.             *)
CountedOnce ==
    phase \in {"counting", "built"} =>
        count <= Cardinality({m \in present \union lost : target \in above[m]})

(* getRevokeTx says "The DID is not among the delegators" (DelegationNode.ts*)
(* :407) only if it is not, or the node is gone; and a count fails only if  *)
(* a node below the target was removed since the target was queried.        *)
HonestRefusal ==
    /\ phase = "unauthorized" => ~Authorised \/ target \notin present
    /\ phase = "failed" => \E m \in lost : target \in above[m]

=============================================================================
