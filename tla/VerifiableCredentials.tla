------------------------ MODULE VerifiableCredentials ------------------------
(***************************************************************************)
(* Credentials exported as W3C verifiable credentials, presentations of    *)
(* them, and the verification of their proofs (vc-export/src).             *)
(*                                                                         *)
(* A verifiable credential is [id, credentialSubject, legitimationIds,     *)
(* delegationId, issuer, proof, credentialSchema], proof a sequence of     *)
(* records with the field type; contexts, dates and wording are left out.  *)
(***************************************************************************)
EXTENDS Credentials

ToCredentialIRI(rootHash) ==
    IF IsHex(rootHash) THEN [iri |-> rootHash] ELSE Error("not hex")
FromCredentialIRI(id) == IF IsHex(id.iri) THEN id.iri ELSE Error("not hex")

FromCredential(credential, ctype) ==
    LET request == credential.request
        signature == request.claimerSignature
        selfSigned ==
            IF signature = Absent THEN <<>>
            ELSE << [type |-> "KILTSelfSigned2020", verificationMethod |-> signature.keyUri,
                     signature |-> [by |-> signature.by, over |-> signature.over],
                     challenge |-> signature.challenge] >>
        attested == [type |-> "KILTAttestation2020", attester |-> credential.attestation.owner]
        digest == [type |-> "KILTCredentialDigest2020", nonces |-> request.claimNonceMap,
                   claimHashes |-> request.claimHashes]
    IN  [id |-> ToCredentialIRI(request.rootHash),
         credentialSubject |-> CredentialSubject(request.claim),
         legitimationIds |-> [i \in DOMAIN request.legitimations |->
                                 request.legitimations[i].request.rootHash],
         delegationId |-> request.delegationId,
         issuer |-> credential.attestation.owner,
         proof |-> selfSigned \o <<attested, digest>>,
         credentialSchema |->
             IF ctype = Absent THEN Absent
             ELSE [id |-> ctype.schema["$id"], schema |-> ctype.schema, author |-> ctype.owner]]

-----------------------------------------------------------------------------
(* Presentations. *)

\* What jsonld makes of the subject with an empty context.
StatementsOf(subject) ==
    {<< <<subject.vocabulary, a>>, subject.properties[a] >> : a \in DOMAIN subject.properties}
    \cup (IF subject.id = Absent THEN {} ELSE {<< <<"@id">>, subject.id >>})

UpdateCredentialDigestProof(vc, proof) ==
    LET digests == Digests(StatementsOf(vc.credentialSubject))
    IN  IF digests = {} \/ ~ digests \subseteq DOMAIN proof.nonces THEN Error("Error")
        ELSE [proof EXCEPT !.nonces = [d \in digests |-> proof.nonces[d]]]

PropertyNames(vc) == {"@id", "@context"} \cup DOMAIN vc.credentialSubject.properties

\* What begins with an @ stays.
RemoveProperties(vc, whitelist) ==
    LET kept == DOMAIN vc.credentialSubject.properties \cap whitelist
        copied == [vc EXCEPT !.credentialSubject.properties =
                      [a \in kept |-> vc.credentialSubject.properties[a]]]
        old == {i \in DOMAIN vc.proof : vc.proof[i].type = "KILTCredentialDigest2020"}
        at == CHOOSE i \in old : TRUE
        others == [i \in 1..Len(vc.proof) - 1 |-> vc.proof[IF i < at THEN i ELSE i + 1]]
        new == UpdateCredentialDigestProof(copied, vc.proof[at])
    IN  IF ~ whitelist \subseteq PropertyNames(vc) THEN Error("Error")
        ELSE IF Cardinality(old) # 1 THEN Error("Error")
        ELSE Then(new, [copied EXCEPT !.proof = Append(others, new)])

MakePresentation(vc, showProperties) ==
    LET copied == IF showProperties = Absent THEN vc ELSE RemoveProperties(vc, showProperties)
    IN  Then(copied, [verifiableCredential |-> copied, holder |-> copied.credentialSubject.id])

-----------------------------------------------------------------------------
(* The proofs. The key is the document that was loaded for the verification *)
(* method; that it is the subject's is tested, but the test never fails.    *)

VerifySelfSignedProof(vc, proof, key) ==
    /\ proof.type = "KILTSelfSigned2020"
    /\ key # Absent /\ key.type \in VerificationKeyType
    /\ proof.signature.by = key.publicKey
    /\ proof.signature.over = [rootHash |-> FromCredentialIRI(vc.id), challenge |-> Absent]

AttestationStatus(vc, proof, onChain) ==
    IF proof.type # "KILTAttestation2020" \/ proof.attester # vc.issuer THEN "unknown"
    ELSE IF onChain = Absent THEN "invalid"
    ELSE IF onChain.owner # proof.attester \/ onChain.delegationId # vc.delegationId THEN "invalid"
    ELSE IF onChain.revoked THEN "revoked"
    ELSE "valid"

VerifyAttestedProof(vc, proof, onChain) == AttestationStatus(vc, proof, onChain) = "valid"

VerifyCredentialDigestProof(vc, proof) ==
    /\ proof.type = "KILTCredentialDigest2020"
    /\ FromCredentialIRI(vc.id) = [claimHashes |-> proof.claimHashes,
                                   legitimations |-> vc.legitimationIds,
                                   delegationId |-> vc.delegationId]
    /\ \A d \in Digests(StatementsOf(vc.credentialSubject)) :
          d \in DOMAIN proof.nonces /\ SaltedHash(d, proof.nonces[d]) \in proof.claimHashes

\* The suites give each proof to the verification of its type, and vc-js wants
\* them all verified.
SuiteVerifies(vc, proof, key, onChain) ==
    CASE proof.type = "KILTSelfSigned2020" -> VerifySelfSignedProof(vc, proof, key)
      [] proof.type = "KILTAttestation2020" -> VerifyAttestedProof(vc, proof, onChain)
      [] OTHER -> VerifyCredentialDigestProof(vc, proof)

=============================================================================
