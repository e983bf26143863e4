---------------------------- MODULE DelegationStore ----------------------------
(***************************************************************************)
(* A delegation from its making to the chain and back:                     *)
(* DelegationNode.newRoot and newNode, delegeeSign, getStoreTx, query,     *)
(* getHierarchyDetails and verify (core/src/delegation).                   *)
(*                                                                         *)
(* The program has one DelegationNode object per identifier, which a query *)
(* replaces.  Extrinsics are on their way for any time, overtake each      *)
(* other, and may be lost.  Meanwhile DIDs change their keys, and nodes    *)
(* are revoked and removed.  The chain is external: of the delegation      *)
(* pallet, it has what the SDK counts on, above all that the delegee's     *)
(* signature is checked against the node as the chain would store it.      *)
(***************************************************************************)
EXTENDS Naturals, Sequences, FiniteSets, SequencesExt

CONSTANTS
    Id, NoId,   \* identifiers, and undefined
    Did,
    CType, NoCType,
    RootInput,  \* what newRoot may be called with,
    NodeInput,  \* and newNode
    EcdsaKey,   \* the authentication keys, by DID and number, that are ECDSA
    MaxKey      \* bound: how often a DID changes its authentication key

ATTEST == 1
DELEGATE == 2

ASSUME DelegationStoreAssumption ==
    /\ NoId \notin Id /\ NoCType \notin CType
    /\ RootInput \subseteq [id : Id, account : Did, cType : CType,
                            permissions : Seq({ATTEST, DELEGATE})]
    /\ NodeInput \subseteq [id : Id, hierarchy : Id \union {NoId}, parent : Id,
                            account : Did, permissions : Seq({ATTEST, DELEGATE})]
    /\ MaxKey \in Nat
    /\ EcdsaKey \subseteq Did \X (0..MaxKey)

VARIABLES
    node,       \* per identifier: the object at hand
    made,       \* history: what it was made with
    signature,  \* per identifier: the delegee's signature at hand
    consents,   \* history: who has signed what
    txs,        \* the extrinsics built
    verified,   \* the nodes that verify has last answered true for
    stored,     \* chain: the nodes,
    hierarchies,\* the CTypes of the hierarchies,
    key,        \* and per DID the number of its authentication key
    baffled     \* history: whether a delegation was refused without cause

objects == <<node, made, signature, consents, txs, verified>>
chain == <<stored, hierarchies, key, baffled>>
vars == <<objects, chain>>

None == [none |-> TRUE]

(* The object, and what the chain has of it.                                *)
DelegationNode ==
    [hierarchy: Id, parent: Id \union {NoId}, account: Did,
     permissions: Seq({ATTEST, DELEGATE}), cType: CType \union {NoCType}]

Entry == [hierarchy: Id, parent: Id \union {NoId}, account: Did, bits: 0..255,
          revoked: BOOLEAN, above: SUBSET Id]

(* What a delegee signs, the hash abstracted to what is hashed.             *)
Signature == [did: Did, key: 0..MaxKey,
              of: (Id \X Id \X (0..255)) \union (Id \X Id \X Id \X (0..255))]

(* The extrinsics of getStoreTx.                                            *)
HierarchyTx == [call: {"createHierarchy"}, id: Id, cType: CType]

DelegationTx == [call: {"addDelegation"}, id: Id, parent: Id \union {NoId}, account: Did,
                 bits: 0..255, signature: Signature]

TypeOK ==
    /\ node \in [Id -> DelegationNode \union {None}]
    /\ made \in [Id -> DelegationNode \union {None}]
    /\ signature \in [Id -> Signature \union {None}]
    /\ txs \subseteq HierarchyTx \union DelegationTx
    /\ verified \subseteq Id
    /\ stored \in [Id -> Entry \union {None}]
    /\ hierarchies \in [Id -> CType \union {NoCType}]
    /\ key \in [Did -> 0..MaxKey]
    /\ baffled \in BOOLEAN

-----------------------------------------------------------------------------
(* Mutated: the last permission overwrites the others.                      *)
LastPermissionAsBitset(permissions) == Last(permissions)

(* Permissions.  The enum values are summed, into one byte of four.         *)
Times(p, permissions) == Cardinality({k \in DOMAIN permissions : permissions[k] = p})

PermissionsAsBitset(permissions) ==
    (ATTEST * Times(ATTEST, permissions) + DELEGATE * Times(DELEGATE, permissions)) % 256

DecodePermissions(bits) ==
    (IF bits % 2 = 1 THEN <<ATTEST>> ELSE <<>>)
        \o (IF (bits \div 2) % 2 = 1 THEN <<DELEGATE>> ELSE <<>>)

(* What the constructor accepts.                                            *)
ErrorCheck(n) == Len(n.permissions) \in 1..3 /\ n.hierarchy # NoId

(* Mutated: the hierarchy is left out.                                      *)
HashWithoutHierarchy(i, n) ==
    IF n.parent = NoId THEN <<i, PermissionsAsBitset(n.permissions)>>
    ELSE <<i, n.parent, PermissionsAsBitset(n.permissions)>>

GenerateHash(i, n) ==
    IF n.parent = NoId THEN <<i, n.hierarchy, PermissionsAsBitset(n.permissions)>>
    ELSE <<i, n.hierarchy, n.parent, PermissionsAsBitset(n.permissions)>>

IsRoot(i) == i = node[i].hierarchy /\ node[i].parent = NoId

-----------------------------------------------------------------------------
Init ==
    /\ node = [i \in Id |-> None]
    /\ made = [i \in Id |-> None]
    /\ signature = [i \in Id |-> None]
    /\ consents = {}
    /\ txs = {}
    /\ verified = {}
    /\ stored = [i \in Id |-> None]
    /\ hierarchies = [i \in Id |-> NoCType]
    /\ key = [d \in Did |-> 0]
    /\ baffled = FALSE

(* Identifiers are drawn at random and never drawn twice.                   *)
Make(i, n) ==
    /\ made[i] = None
    /\ ErrorCheck(n)
    /\ node' = [node EXCEPT ![i] = n]
    /\ made' = [made EXCEPT ![i] = n]
    /\ UNCHANGED <<signature, consents, txs, verified, chain>>

NewRoot(input) ==
    Make(input.id, [hierarchy |-> input.id, parent |-> NoId, account |-> input.account,
                    permissions |-> input.permissions, cType |-> input.cType])

NewNode(input) ==
    Make(input.id, [hierarchy |-> input.hierarchy, parent |-> input.parent,
                    account |-> input.account, permissions |-> input.permissions,
                    cType |-> NoCType])

(* delegeeSign, with the details of a DID as they are or once were, which   *)
(* nothing compares with the account of the node.  The hash is of the node  *)
(* at hand.                                                                 *)
DelegeeSign(i, d, k) ==
    /\ node[i] # None
    /\ signature' = [signature EXCEPT ![i] =
           [did |-> d, key |-> k, of |-> GenerateHash(i, node[i])]]
    /\ consents' = consents \union
           {[did |-> d, id |-> i, hierarchy |-> node[i].hierarchy,
             parent |-> node[i].parent, permissions |-> ToSet(node[i].permissions)]}
    /\ UNCHANGED <<node, made, txs, verified, chain>>

-----------------------------------------------------------------------------
(* query: null, a node whose permissions are decoded, or what the           *)
(* constructor throws.                                                      *)
Decoded(i) ==
    [hierarchy |-> stored[i].hierarchy, parent |-> stored[i].parent,
     account |-> stored[i].account,
     permissions |-> DecodePermissions(stored[i].bits), cType |-> NoCType]

Readable(i) == stored[i] # None /\ ErrorCheck(Decoded(i))

(* getLatestState, and DelegationNode.query of a node once made.  Without   *)
(* an answer the object at hand stays.                                      *)
GetLatestState(i) ==
    /\ made[i] # None
    /\ Readable(i)
    /\ node' = [node EXCEPT ![i] = Decoded(i)]
    /\ UNCHANGED <<made, signature, consents, txs, verified, chain>>

(* verify looks at the identifier and nothing else.                         *)
Verify(i) ==
    /\ node[i] # None
    /\ verified' = IF Readable(i) /\ ~stored[i].revoked
                   THEN verified \union {i} ELSE verified \ {i}
    /\ UNCHANGED <<node, made, signature, consents, txs, chain>>

(* What getHierarchyDetails finds: in the node, or else on the chain.       *)
Details(i) ==
    IF node[i].cType # NoCType THEN node[i].cType ELSE hierarchies[node[i].hierarchy]

(* getHierarchyDetails keeps what it finds for good, and throws if there is *)
(* nothing.                                                                 *)
GetHierarchyDetails(i) ==
    /\ node[i] # None
    /\ Details(i) # NoCType
    /\ node' = [node EXCEPT ![i].cType = Details(i)]
    /\ UNCHANGED <<made, signature, consents, txs, verified, chain>>

(* getStoreAsRootTx: the CType and the identifier, nothing else.            *)
StoreAsRoot(i) ==
    /\ Details(i) # NoCType
    /\ node' = [node EXCEPT ![i].cType = Details(i)]
    /\ txs' = txs \union {[call |-> "createHierarchy", id |-> i, cType |-> Details(i)]}
    /\ UNCHANGED <<made, signature, consents, verified, chain>>

(* encodeDidSignature names a signature by its algorithm, where the chain's *)
(* type, as submitDidCall uses it, has the type of the key.  The two names  *)
(* differ for ECDSA.                                                        *)
Encodable(s) == <<s.did, s.key>> \notin EcdsaKey

(* getStoreAsDelegationTx: not without a signature, nor with one that       *)
(* cannot be encoded.                                                       *)
StoreAsDelegation(i) ==
    /\ signature[i] # None /\ Encodable(signature[i])
    /\ txs' = txs \union
           {[call |-> "addDelegation", id |-> i, parent |-> node[i].parent,
             account |-> node[i].account,
             bits |-> PermissionsAsBitset(node[i].permissions),
             signature |-> signature[i]]}
    /\ UNCHANGED <<node, made, signature, consents, verified, chain>>

GetStoreTx(i) ==
    /\ node[i] # None
    /\ IF IsRoot(i) THEN StoreAsRoot(i) ELSE StoreAsDelegation(i)

-----------------------------------------------------------------------------
(* The chain (external).                                                    *)

(* The root belongs to the DID that authorises the extrinsic.               *)
IncludeHierarchy(t, d) ==
    /\ t \in txs /\ t.call = "createHierarchy"
    /\ txs' = txs \ {t}
    /\ IF stored[t.id] = None
       THEN /\ hierarchies' = [hierarchies EXCEPT ![t.id] = t.cType]
            /\ stored' = [stored EXCEPT ![t.id] =
                   [hierarchy |-> t.id, parent |-> NoId, account |-> d,
                    bits |-> ATTEST + DELEGATE, revoked |-> FALSE,
                    above |-> {}]]
       ELSE UNCHANGED <<hierarchies, stored>>
    /\ UNCHANGED <<node, made, signature, consents, verified, key, baffled>>

Current(t) == t.signature.did = t.account /\ t.signature.key = key[t.account]

Admits(t) ==
    /\ stored[t.id] = None
    /\ stored[t.parent] # None
    /\ Current(t)
    /\ t.signature.of = <<t.id, stored[t.parent].hierarchy, t.parent, t.bits>>

(* No cause to refuse: the node was made for a hierarchy its parent is in,  *)
(* and its owner has signed with the key it still has.                      *)
Rightful(t) ==
    /\ stored[t.id] = None
    /\ stored[t.parent] # None
    /\ stored[t.parent].hierarchy = made[t.id].hierarchy
    /\ t.signature.did = made[t.id].account
    /\ t.signature.key = key[made[t.id].account]

IncludeDelegation(t) ==
    /\ t \in txs /\ t.call = "addDelegation"
    /\ txs' = txs \ {t}
    /\ IF Admits(t)
       THEN /\ stored' = [stored EXCEPT ![t.id] =
                   [hierarchy |-> stored[t.parent].hierarchy, parent |-> t.parent,
                    account |-> t.account, bits |-> t.bits, revoked |-> FALSE,
                    above |-> stored[t.parent].above \union {t.parent}]]
            /\ UNCHANGED baffled
       ELSE /\ baffled' = (baffled \/ Rightful(t))
            /\ UNCHANGED stored
    /\ UNCHANGED <<node, made, signature, consents, verified, hierarchies, key>>

(* Lost, or refused for who authorised it.                                  *)
Lose(t) ==
    /\ t \in txs
    /\ txs' = txs \ {t}
    /\ UNCHANGED <<node, made, signature, consents, verified, chain>>

Tree(i) == {j \in Id : stored[j] # None /\ i \in stored[j].above \union {j}}

RevokeDelegation(i) ==
    /\ stored[i] # None
    /\ stored' = [j \in Id |-> IF j \in Tree(i) THEN [stored[j] EXCEPT !.revoked = TRUE]
                               ELSE stored[j]]
    /\ UNCHANGED <<objects, hierarchies, key, baffled>>

RemoveDelegation(i) ==
    /\ stored[i] # None
    /\ stored' = [j \in Id |-> IF j \in Tree(i) THEN None ELSE stored[j]]
    /\ hierarchies' = [hierarchies EXCEPT ![i] = NoCType]
    /\ UNCHANGED <<objects, key, baffled>>

ChangeKey(d) ==
    /\ key[d] < MaxKey
    /\ key' = [key EXCEPT ![d] = @ + 1]
    /\ UNCHANGED <<objects, stored, hierarchies, baffled>>

-----------------------------------------------------------------------------
Next ==
    \/ \E input \in RootInput : NewRoot(input)
    \/ \E input \in NodeInput : NewNode(input)
    \/ \E i \in Id, d \in Did : \E k \in 0..key[d] : DelegeeSign(i, d, k)
    \/ \E i \in Id : GetLatestState(i) \/ Verify(i) \/ GetHierarchyDetails(i)
                     \/ GetStoreTx(i)
    \/ \E t \in txs, d \in Did : IncludeHierarchy(t, d)
    \/ \E t \in txs : IncludeDelegation(t) \/ Lose(t)
    \/ \E i \in Id : RevokeDelegation(i) \/ RemoveDelegation(i)
    \/ \E d \in Did : ChangeKey(d)

Spec == Init /\ [][Next]_vars

-----------------------------------------------------------------------------
(* "This hash is signed by the delegate and later stored along with the     *)
(* delegation to make sure delegation data (such as permissions) has not    *)
(* been tampered with" (DelegationNode.ts:246): where verify says true of a *)
(* delegation, which looks at nothing but its identifier, the owner of the  *)
(* node at hand has agreed to the place and the permissions it shows,       *)
(* whether it was made here or read from the chain; and the CType its       *)
(* details tell, whenever they were fetched, is the one its hierarchy was   *)
(* made for.                                                                *)
VerifiedIsAgreed ==
    \A i \in verified : LET n == node[i] IN
        /\ n.parent # NoId =>
              [did |-> n.account, id |-> i, hierarchy |-> n.hierarchy,
               parent |-> n.parent, permissions |-> ToSet(n.permissions)] \in consents
        /\ n.cType # NoCType => n.cType = made[n.hierarchy].cType

(* What generateHash has signed is what the chain makes of the extrinsic of *)
(* getStoreTx: a delegation made for the hierarchy its parent is in and     *)
(* signed with the key its owner has is not refused, whatever was removed,  *)
(* read again or signed anew before.                                        *)
RightfulIsStored == ~baffled

=============================================================================
