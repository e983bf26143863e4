------------------------- MODULE FullDidCreationBuilder -------------------------
(***************************************************************************)
(* The creation of a full DID: did/src/DidBatcher/FullDidCreationBuilder.ts*)
(* build consumes the builder before it gives up control: the details of   *)
(* the new DID are taken and the builder is consumed in one step, and only *)
(* the signature, which may fail, comes later.                             *)
(***************************************************************************)
EXTENDS FullDidBuilder

VARIABLES
    stage,      \* per caller: "idle", "signing", "created" or "failed"
    details,    \* per caller: the creation details it builds from
    accepted    \* history: the calls the builder accepted, light DID included

vars == <<marks, consumed, stage, details, accepted>>

Op(kind, arg) == [kind |-> kind, arg |-> arg]

NoDetails == [keyAgreementKeys |-> {}, serviceEndpoints |-> {},
              assertionKey |-> NoKey, delegationKey |-> NoKey]

Details ==
    [keyAgreementKeys : SUBSET EncryptionKey,
     serviceEndpoints : SUBSET Endpoint,
     assertionKey : VerificationKey \union {NoKey},
     delegationKey : VerificationKey \union {NoKey}]

TypeOK ==
    /\ MarksOK
    /\ stage \in [Caller -> {"idle", "signing", "created", "failed"}]
    /\ details \in [Caller -> Details]

(* The constructor, or fromLightDidDetails: a light DID has at most one     *)
(* encryption key.                                                          *)
Init ==
    /\ newKeyAgreementKeys \in {{}} \union {{key} : key \in EncryptionKey}
    /\ newServiceEndpoints \in SUBSET Endpoint /\ IsFiniteSet(newServiceEndpoints)
    /\ newAssertionKey = Ignore
    /\ newDelegationKey = Ignore
    /\ consumed = FALSE
    /\ stage = [c \in Caller |-> "idle"]
    /\ details = [c \in Caller |-> NoDetails]
    /\ accepted = {Op("encryption", key) : key \in newKeyAgreementKeys}
                    \union {Op("service", endpoint) : endpoint \in newServiceEndpoints}

Accept(kind, arg) ==
    /\ accepted' = accepted \union {Op(kind, arg)}
    /\ UNCHANGED <<stage, details>>

AddEncryptionKey(key) == MarkEncryptionKey(key) /\ Accept("encryption", key)
AddServiceEndpoint(endpoint) == MarkServiceEndpoint(endpoint) /\ Accept("service", endpoint)
SetAttestationKey(key) == MarkAttestationKey(key) /\ Accept("attestation", key)
SetDelegationKey(key) == MarkDelegationKey(key) /\ Accept("delegation", key)

(* Mutated: the marks themselves are taken for keys.                        *)
CreationDetailsMarks ==
    [keyAgreementKeys |-> newKeyAgreementKeys,
     serviceEndpoints |-> newServiceEndpoints,
     assertionKey |-> newAssertionKey,
     delegationKey |-> newDelegationKey]

CreationDetails ==
    [keyAgreementKeys |-> newKeyAgreementKeys,
     serviceEndpoints |-> newServiceEndpoints,
     assertionKey |-> newAssertionKey.newKey,
     delegationKey |-> newDelegationKey.newKey]

(* Mutated: the builder is only consumed once the signature is there.       *)
BuildConsumesLate(c) ==
    /\ stage[c] = "idle"
    /\ ~consumed
    /\ details' = [details EXCEPT ![c] = CreationDetails]
    /\ stage' = [stage EXCEPT ![c] = "signing"]
    /\ UNCHANGED <<marks, consumed, accepted>>

Build(c) ==
    /\ stage[c] = "idle"
    /\ ~consumed
    /\ details' = [details EXCEPT ![c] = CreationDetails]
    /\ stage' = [stage EXCEPT ![c] = "signing"]
    /\ consumed' = TRUE
    /\ UNCHANGED <<marks, accepted>>

(* The signer, or the connection that encodes the details, answers or       *)
(* throws; the builder stays consumed.                                      *)
SignerAnswers(c) ==
    /\ stage[c] = "signing"
    /\ \E result \in {"created", "failed"} : stage' = [stage EXCEPT ![c] = result]
    /\ UNCHANGED <<marks, consumed, details, accepted>>

Next ==
    \/ \E key \in EncryptionKey : AddEncryptionKey(key)
    \/ \E endpoint \in Endpoint : AddServiceEndpoint(endpoint)
    \/ \E key \in VerificationKey : SetAttestationKey(key) \/ SetDelegationKey(key)
    \/ \E c \in Caller : Build(c) \/ SignerAnswers(c)

Spec == Init /\ [][Next]_vars

-----------------------------------------------------------------------------
Carried(d) ==
    {Op("encryption", key) : key \in d.keyAgreementKeys}
        \union {Op("service", endpoint) : endpoint \in d.serviceEndpoints}
        \union {Op("attestation", key) : key \in {d.assertionKey} \ {NoKey}}
        \union {Op("delegation", key) : key \in {d.delegationKey} \ {NoKey}}

(* What a creation carries is what the builder accepted, to the last call:  *)
(* nothing is lost of what was accepted while the signer was awaited, and   *)
(* no key was silently replaced.                                            *)
CreationCarriesAll ==
    \A c \in Caller : stage[c] \in {"signing", "created"} => Carried(details[c]) = accepted

(* A DID is created from the builder at most once, however many calls of    *)
(* build there are and whenever the signer answers them.                    *)
OneCreation ==
    \A c, d \in Caller : stage[c] = "created" /\ stage[d] = "created" => c = d

=============================================================================
