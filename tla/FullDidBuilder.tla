----------------------------- MODULE FullDidBuilder -----------------------------
(***************************************************************************)
(* What the builders of a DID's creation and of its updates share:         *)
(* did/src/DidBatcher/FullDidBuilder.ts.  A builder marks what the next    *)
(* DID operation is to set and is consumed by building it.                 *)
(*                                                                         *)
(* A method that throws leaves the builder as it was: it is an action that *)
(* is not enabled.  Keys and endpoints are known by their identifier.      *)
(***************************************************************************)
EXTENDS Naturals, FiniteSets, Sequences

CONSTANTS
    EncryptionKey,     \* key agreement keys
    VerificationKey,   \* keys that sign
    Endpoint,          \* service endpoints
    Caller,            \* the calls of build
    NoKey              \* no key

ASSUME KeyAssumption == NoKey \notin VerificationKey

VARIABLES
    newKeyAgreementKeys, newServiceEndpoints, newAssertionKey, newDelegationKey,
    consumed

marks == <<newKeyAgreementKeys, newServiceEndpoints, newAssertionKey, newDelegationKey>>

Ignore == [action |-> "ignore", newKey |-> NoKey]
Delete == [action |-> "delete", newKey |-> NoKey]
Update(key) == [action |-> "update", newKey |-> key]

KeyAction == {Ignore, Delete} \union {Update(key) : key \in VerificationKey}

MarksOK ==
    /\ newKeyAgreementKeys \subseteq EncryptionKey
    /\ newServiceEndpoints \subseteq Endpoint
    /\ newAssertionKey \in KeyAction
    /\ newDelegationKey \in KeyAction
    /\ consumed \in BOOLEAN

MarkEncryptionKey(key) ==
    /\ ~consumed
    /\ key \notin newKeyAgreementKeys
    /\ newKeyAgreementKeys' = newKeyAgreementKeys \union {key}
    /\ UNCHANGED <<newServiceEndpoints, newAssertionKey, newDelegationKey, consumed>>

(* Mutated: a later key replaces the one already marked.                    *)
MarkAttestationKeyAgain(key) ==
    /\ ~consumed
    /\ newAssertionKey' = Update(key)
    /\ UNCHANGED <<newKeyAgreementKeys, newServiceEndpoints, newDelegationKey, consumed>>

MarkAttestationKey(key) ==
    /\ ~consumed
    /\ newAssertionKey.action # "update"
    /\ newAssertionKey' = Update(key)
    /\ UNCHANGED <<newKeyAgreementKeys, newServiceEndpoints, newDelegationKey, consumed>>

MarkDelegationKey(key) ==
    /\ ~consumed
    /\ newDelegationKey.action # "update"
    /\ newDelegationKey' = Update(key)
    /\ UNCHANGED <<newKeyAgreementKeys, newServiceEndpoints, newAssertionKey, consumed>>

MarkServiceEndpoint(endpoint) ==
    /\ ~consumed
    /\ endpoint \notin newServiceEndpoints
    /\ newServiceEndpoints' = newServiceEndpoints \union {endpoint}
    /\ UNCHANGED <<newKeyAgreementKeys, newAssertionKey, newDelegationKey, consumed>>

(* A key is replaced or removed as marked, or kept.                         *)
Apply(keyAction, key) == IF keyAction.action = "ignore" THEN key ELSE keyAction.newKey

=============================================================================
