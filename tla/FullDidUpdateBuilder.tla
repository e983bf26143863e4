-------------------------- MODULE FullDidUpdateBuilder --------------------------
(***************************************************************************)
(* Updates of a full DID: did/src/DidBatcher/FullDidUpdateBuilder.ts.      *)
(*                                                                         *)
(* The builder starts from the DID's details, checks every operation       *)
(* against them and against what is marked already, and appends it to a    *)
(* batch.  build takes the batch as it stands, awaits the DID's counter,   *)
(* starts the signature and only then consumes the builder.  Calls of      *)
(* build and of the other methods interleave at that await.  The chain is  *)
(* external; nobody else changes the DID.                                  *)
(***************************************************************************)
EXTENDS FullDidBuilder, SequencesExt

CONSTANTS MaxOps       \* how many operations a batch holds at most

VARIABLES
    old,                    \* the details the builder was constructed with
    newAuthenticationKey,
    keyAgreementKeysToDelete, serviceEndpointsToDelete,
    batch,
    stage,                  \* per call of build: where it stands
    tx,                     \* per call: the operations in its transaction
    signingKey,             \* per call: the key its transaction is signed with
    txCounter,              \* per call: the counter it read, plus one
    did,                    \* the DID on the chain
    lastTxCounter           \* its counter there

toDelete == <<keyAgreementKeysToDelete, serviceEndpointsToDelete>>
buildVars == <<stage, tx, signingKey, txCounter>>
chainVars == <<did, lastTxCounter>>
vars == <<marks, consumed, old, newAuthenticationKey, toDelete, batch, buildVars, chainVars>>

Details ==
    [authentication : VerificationKey,
     assertion : VerificationKey \union {NoKey},
     delegation : VerificationKey \union {NoKey},
     keys : SUBSET EncryptionKey,
     services : SUBSET Endpoint]

Op(kind, arg) == [kind |-> kind, arg |-> arg]

Operation ==
    [kind : {"setAuthenticationKey", "setAttestationKey", "setDelegationKey"},
     arg : VerificationKey]
    \union [kind : {"removeAttestationKey", "removeDelegationKey"}, arg : {NoKey}]
    \union [kind : {"addKeyAgreementKey", "removeKeyAgreementKey"}, arg : EncryptionKey]
    \union [kind : {"addServiceEndpoint", "removeServiceEndpoint"}, arg : Endpoint]

Stage == {"idle", "querying", "replied", "signing", "built", "done", "failed"}

TypeOK ==
    /\ MarksOK
    /\ old \in Details
    /\ newAuthenticationKey \in VerificationKey \union {NoKey}
    /\ keyAgreementKeysToDelete \subseteq old.keys
    /\ serviceEndpointsToDelete \subseteq old.services
    /\ batch \in Seq(Operation)
    /\ stage \in [Caller -> Stage]
    /\ tx \in [Caller -> Seq(Operation)]
    /\ signingKey \in [Caller -> VerificationKey \union {NoKey}]
    /\ txCounter \in [Caller -> 0..Cardinality(Caller)]
    /\ did \in Details
    /\ lastTxCounter \in 0..Cardinality(Caller)

Init ==
    /\ old \in Details
    /\ IsFiniteSet(old.keys) /\ IsFiniteSet(old.services)
    /\ newKeyAgreementKeys = {}
    /\ newServiceEndpoints = {}
    /\ newAssertionKey = Ignore
    /\ newDelegationKey = Ignore
    /\ consumed = FALSE
    /\ newAuthenticationKey = NoKey
    /\ keyAgreementKeysToDelete = {}
    /\ serviceEndpointsToDelete = {}
    /\ batch = << >>
    /\ stage = [c \in Caller |-> "idle"]
    /\ tx = [c \in Caller |-> << >>]
    /\ signingKey = [c \in Caller |-> NoKey]
    /\ txCounter = [c \in Caller |-> 0]
    /\ did = old
    /\ lastTxCounter = 0

-----------------------------------------------------------------------------
(* The operations.  MaxOps bounds them; every one is refused once the       *)
(* builder is consumed, those that mark something new by the base class.    *)

Push(ops) ==
    /\ Len(batch) + Len(ops) <= MaxOps
    /\ batch' = batch \o ops
    /\ UNCHANGED <<old, buildVars, chainVars>>

SetAuthenticationKey(key) ==
    /\ ~consumed
    /\ newAuthenticationKey = NoKey
    /\ newAuthenticationKey' = key
    /\ Push(<<Op("setAuthenticationKey", key)>>)
    /\ UNCHANGED <<marks, consumed, toDelete>>

AddEncryptionKey(key) ==
    /\ key \notin old.keys
    /\ key \notin keyAgreementKeysToDelete
    /\ MarkEncryptionKey(key)
    /\ Push(<<Op("addKeyAgreementKey", key)>>)
    /\ UNCHANGED <<newAuthenticationKey, toDelete>>

RemovableKey(key) ==
    /\ key \in old.keys
    /\ key \notin newKeyAgreementKeys
    /\ key \notin keyAgreementKeysToDelete

(* removeEncryptionKey of the keys, one by one.                             *)
RemoveKeys(keys) ==
    /\ ~consumed
    /\ keyAgreementKeysToDelete' = keyAgreementKeysToDelete \union ToSet(keys)
    /\ Push([i \in DOMAIN keys |-> Op("removeKeyAgreementKey", keys[i])])
    /\ UNCHANGED <<marks, consumed, newAuthenticationKey, serviceEndpointsToDelete>>

RemoveEncryptionKey(key) == RemovableKey(key) /\ RemoveKeys(<<key>>)

(* s up to the first element that P refuses, where forEach throws.          *)
UpTo(s, P(_)) == SubSeq(s, 1, CHOOSE n \in 0..Len(s) :
                    /\ \A i \in 1..n : P(s[i])
                    /\ n = Len(s) \/ ~P(s[n + 1]))

RemoveAllEncryptionKeys == RemoveKeys(UpTo(SetToSeq(old.keys), RemovableKey))

(* Mutated: the operation is batched before the base class may refuse it.   *)
SetAttestationKeyEarly(key) ==
    /\ newAssertionKey.action # "delete"
    /\ IF consumed \/ newAssertionKey.action = "update"
       THEN UNCHANGED <<marks, consumed>>
       ELSE MarkAttestationKey(key)
    /\ Push(<<Op("setAttestationKey", key)>>)
    /\ UNCHANGED <<newAuthenticationKey, toDelete>>

SetAttestationKey(key) ==
    /\ newAssertionKey.action # "delete"
    /\ MarkAttestationKey(key)
    /\ Push(<<Op("setAttestationKey", key)>>)
    /\ UNCHANGED <<newAuthenticationKey, toDelete>>

RemoveAttestationKey ==
    /\ ~consumed
    /\ old.assertion # NoKey
    /\ newAssertionKey = Ignore
    /\ newAssertionKey' = Delete
    /\ Push(<<Op("removeAttestationKey", NoKey)>>)
    /\ UNCHANGED <<newKeyAgreementKeys, newServiceEndpoints, newDelegationKey, consumed,
                   newAuthenticationKey, toDelete>>

SetDelegationKey(key) ==
    /\ newDelegationKey.action # "delete"
    /\ MarkDelegationKey(key)
    /\ Push(<<Op("setDelegationKey", key)>>)
    /\ UNCHANGED <<newAuthenticationKey, toDelete>>

RemoveDelegationKey ==
    /\ ~consumed
    /\ old.delegation # NoKey
    /\ newDelegationKey = Ignore
    /\ newDelegationKey' = Delete
    /\ Push(<<Op("removeDelegationKey", NoKey)>>)
    /\ UNCHANGED <<newKeyAgreementKeys, newServiceEndpoints, newAssertionKey, consumed,
                   newAuthenticationKey, toDelete>>

AddServiceEndpoint(endpoint) ==
    /\ endpoint \notin old.services
    /\ MarkServiceEndpoint(endpoint)
    /\ Push(<<Op("addServiceEndpoint", endpoint)>>)
    /\ UNCHANGED <<newAuthenticationKey, toDelete>>

RemovableEndpoint(endpoint) ==
    endpoint \in old.services /\ endpoint \notin serviceEndpointsToDelete

(* removeServiceEndpoint of the endpoints, one by one.                      *)
RemoveEndpoints(endpoints) ==
    /\ ~consumed
    /\ serviceEndpointsToDelete' = serviceEndpointsToDelete \union ToSet(endpoints)
    /\ Push([i \in DOMAIN endpoints |-> Op("removeServiceEndpoint", endpoints[i])])
    /\ UNCHANGED <<marks, consumed, newAuthenticationKey, keyAgreementKeysToDelete>>

RemoveServiceEndpoint(endpoint) == RemovableEndpoint(endpoint) /\ RemoveEndpoints(<<endpoint>>)

RemoveAllServiceEndpoints ==
    RemoveEndpoints(UpTo(SetToSeq(old.services), RemovableEndpoint))

-----------------------------------------------------------------------------
(* build                                                                    *)

builderVars == <<marks, old, newAuthenticationKey, toDelete, batch>>

(* Mutated: the first of several operations is left out.                    *)
BuildRest(c) ==
    /\ stage[c] = "idle"
    /\ ~consumed
    /\ batch # << >>
    /\ tx' = [tx EXCEPT ![c] = IF Len(batch) > 1 THEN Tail(batch) ELSE batch]
    /\ stage' = [stage EXCEPT ![c] = "querying"]
    /\ UNCHANGED <<builderVars, consumed, signingKey, txCounter, chainVars>>

Build(c) ==
    /\ stage[c] = "idle"
    /\ ~consumed
    /\ batch # << >>
    /\ tx' = [tx EXCEPT ![c] = batch]
    /\ stage' = [stage EXCEPT ![c] = "querying"]
    /\ UNCHANGED <<builderVars, consumed, signingKey, txCounter, chainVars>>

(* External: the node answers queryNonce.                                   *)
ChainAnswers(c) ==
    /\ stage[c] = "querying"
    /\ txCounter' = [txCounter EXCEPT ![c] = lastTxCounter + 1]
    /\ stage' = [stage EXCEPT ![c] = "replied"]
    /\ UNCHANGED <<builderVars, consumed, tx, signingKey, chainVars>>

(* Mutated: the new authentication key signs its own introduction.          *)
AuthorisingKeyNew == IF newAuthenticationKey # NoKey THEN newAuthenticationKey
                                                     ELSE old.authentication

AuthorisingKey == old.authentication

(* build resumes: the signature is started, not awaited.                    *)
BuildResumes(c) ==
    /\ stage[c] = "replied"
    /\ signingKey' = [signingKey EXCEPT ![c] = AuthorisingKey]
    /\ consumed' = TRUE
    /\ stage' = [stage EXCEPT ![c] = "signing"]
    /\ UNCHANGED <<builderVars, tx, txCounter, chainVars>>

SignerAnswers(c) ==
    /\ stage[c] = "signing"
    /\ stage' = [stage EXCEPT ![c] = "built"]
    /\ UNCHANGED <<builderVars, consumed, tx, signingKey, txCounter, chainVars>>

(* The node does not answer and the builder can be used again, or the       *)
(* signer throws and it cannot.                                             *)
BuildThrows(c) ==
    /\ stage[c] \in {"querying", "signing"}
    /\ stage' = [stage EXCEPT ![c] = "failed"]
    /\ UNCHANGED <<builderVars, consumed, tx, signingKey, txCounter, chainVars>>

-----------------------------------------------------------------------------
(* The chain (external): an operation that finds what it adds, or does not  *)
(* find what it removes, fails.                                             *)

Dispatch(d, op) ==
    CASE op.kind = "setAuthenticationKey" -> [ok |-> TRUE, d |-> [d EXCEPT !.authentication = op.arg]]
      [] op.kind = "setAttestationKey" -> [ok |-> TRUE, d |-> [d EXCEPT !.assertion = op.arg]]
      [] op.kind = "removeAttestationKey" ->
            [ok |-> d.assertion # NoKey, d |-> [d EXCEPT !.assertion = NoKey]]
      [] op.kind = "setDelegationKey" -> [ok |-> TRUE, d |-> [d EXCEPT !.delegation = op.arg]]
      [] op.kind = "removeDelegationKey" ->
            [ok |-> d.delegation # NoKey, d |-> [d EXCEPT !.delegation = NoKey]]
      [] op.kind = "addKeyAgreementKey" ->
            [ok |-> op.arg \notin d.keys, d |-> [d EXCEPT !.keys = @ \union {op.arg}]]
      [] op.kind = "removeKeyAgreementKey" ->
            [ok |-> op.arg \in d.keys, d |-> [d EXCEPT !.keys = @ \ {op.arg}]]
      [] op.kind = "addServiceEndpoint" ->
            [ok |-> op.arg \notin d.services, d |-> [d EXCEPT !.services = @ \union {op.arg}]]
      [] op.kind = "removeServiceEndpoint" ->
            [ok |-> op.arg \in d.services, d |-> [d EXCEPT !.services = @ \ {op.arg}]]

(* One more operation, unless one before it has failed.                     *)
Then(st, op) ==
    LET step == Dispatch(st.d, op) IN
    IF st.ok /\ step.ok THEN step ELSE [ok |-> FALSE, d |-> st.d]

(* The operations one after the other, and where they stand after each.     *)
Runs(d, ops) ==
    LET after[n \in 0..Len(ops)] ==
            IF n = 0 THEN [ok |-> TRUE, d |-> d] ELSE Then(after[n - 1], ops[n])
    IN  after

Run(d, ops) == Runs(d, ops)[Len(ops)]

(* A transaction with another counter or a wrong key is refused.  A batch   *)
(* that is atomic leaves the DID alone if one of its operations fails.      *)
ChainExecutes(c) ==
    /\ stage[c] = "built"
    /\ stage' = [stage EXCEPT ![c] = "done"]
    /\ IF txCounter[c] = lastTxCounter + 1 /\ signingKey[c] = did.authentication
       THEN LET run == Run(did, tx[c]) IN
            /\ lastTxCounter' = txCounter[c]
            /\ did' \in IF run.ok THEN {run.d} ELSE {did, run.d}
       ELSE UNCHANGED chainVars
    /\ UNCHANGED <<builderVars, consumed, tx, signingKey, txCounter>>

Next ==
    \/ \E key \in VerificationKey :
          SetAuthenticationKey(key) \/ SetAttestationKey(key) \/ SetDelegationKey(key)
    \/ \E key \in EncryptionKey : AddEncryptionKey(key) \/ RemoveEncryptionKey(key)
    \/ \E endpoint \in Endpoint : AddServiceEndpoint(endpoint) \/ RemoveServiceEndpoint(endpoint)
    \/ RemoveAllEncryptionKeys
    \/ RemoveAllServiceEndpoints
    \/ RemoveAttestationKey
    \/ RemoveDelegationKey
    \/ \E c \in Caller : Build(c) \/ ChainAnswers(c) \/ BuildResumes(c) \/ SignerAnswers(c)
                            \/ BuildThrows(c) \/ ChainExecutes(c)

Spec == Init /\ [][Next]_vars

-----------------------------------------------------------------------------
(* What the marks say the DID will be.                                      *)
Marked ==
    [authentication |-> IF newAuthenticationKey = NoKey THEN old.authentication
                                                        ELSE newAuthenticationKey,
     assertion |-> Apply(newAssertionKey, old.assertion),
     delegation |-> Apply(newDelegationKey, old.delegation),
     keys |-> (old.keys \ keyAgreementKeysToDelete) \union newKeyAgreementKeys,
     services |-> (old.services \ serviceEndpointsToDelete) \union newServiceEndpoints]

(* The batch and the marks agree: on the DID the builder started from, no   *)
(* operation of the batch fails, whatever was called in whatever order and  *)
(* whatever was refused, and together they make the DID the marked one.     *)
BatchMakesMarked == Run(old, batch) = [ok |-> TRUE, d |-> Marked]

(* However many transactions the builder has given out, and in whatever     *)
(* order they execute, the DID is the one it was, with the first operations *)
(* of the batch applied, in their order.                                    *)
DidFollowsBatch ==
    \E n \in 0..Len(batch) : did = Run(old, SubSeq(batch, 1, n)).d

(* A transaction built is one the chain can execute: signed by the DID's    *)
(* authentication key on the chain, unless another transaction of this      *)
(* builder executed first.                                                  *)
FirstIsAuthorised ==
    \A c \in Caller : stage[c] = "built" /\ lastTxCounter = 0 =>
        signingKey[c] = did.authentication /\ txCounter[c] = 1

(* A consumed builder accepts nothing: its batch and marks stay as they are *)
(* and no further transaction is started.                                   *)
FrozenOnceConsumed ==
    [][consumed => /\ UNCHANGED <<builderVars, consumed>>
                   /\ \A c \in Caller : stage[c] = "idle" => stage'[c] = "idle"]_vars

=============================================================================
