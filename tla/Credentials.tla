----------------------------- MODULE Credentials -----------------------------
(***************************************************************************)
(* Requests for attestation, attestations and the credentials made of      *)
(* both: core/src/requestforattestation, core/src/attestation and          *)
(* core/src/credential.                                                    *)
(*                                                                         *)
(* A request is [claim, claimNonceMap, claimHashes, claimerSignature,      *)
(* rootHash, legitimations, delegationId]: the hashes are a set, the       *)
(* legitimations a sequence of credentials. An attestation is [claimHash,  *)
(* cTypeHash, delegationId, owner, revoked], a credential [request,        *)
(* attestation].                                                           *)
(***************************************************************************)
EXTENDS Claims

CONSTANT
    Legitimation   \* the credentials that can be legitimations of a request

-----------------------------------------------------------------------------
(* Attestations. *)

AttestationErrorCheck(a) ==
    IF a.cTypeHash = Absent THEN Error("ERROR_CTYPE_HASH_NOT_PROVIDED")
    ELSE Then(ValidateHash(a.cTypeHash),
         IF a.claimHash = Absent THEN Error("ERROR_CLAIM_HASH_NOT_PROVIDED")
         ELSE Then(ValidateHash(a.claimHash),
              IF a.owner = Absent THEN Error("ERROR_OWNER_NOT_PROVIDED")
              ELSE Then(ValidateKiltDidUri(a.owner, FALSE),
                   IF a.revoked \in BOOLEAN THEN Valid
                   ELSE Error("ERROR_REVOCATION_BIT_MISSING"))))

NewAttestation(attestation) == Then(AttestationErrorCheck(attestation), attestation)

AttestationFromRequestAndDid(req, attesterDid) ==
    NewAttestation([claimHash |-> req.rootHash, cTypeHash |-> req.claim.cTypeHash,
                    delegationId |-> req.delegationId, owner |-> attesterDid,
                    revoked |-> FALSE])

CompressAttestation(a) ==
    Then(AttestationErrorCheck(a),
         Array(<<a.claimHash, a.cTypeHash, a.owner, a.revoked, a.delegationId>>))

DecompressAttestation(c) ==
    Decompress(c, 5, [claimHash |-> At(c, 1), cTypeHash |-> At(c, 2), owner |-> At(c, 3),
                      revoked |-> At(c, 4), delegationId |-> At(c, 5)])

\* Attestation.chain.ts: getStoreTx, and the decoding of what the chain holds.
StoreTx(a) ==
    [claimHash |-> a.claimHash, ctypeHash |-> a.cTypeHash, delegationId |-> a.delegationId]

DecodeAttestation(record, claimHash) ==
    IF record = Absent THEN Absent
    ELSE NewAttestation(
           [claimHash |-> claimHash, cTypeHash |-> record.ctypeHash,
            owner |-> GetKiltDidFromIdentifier(record.attester, "full", Absent),
            delegationId |-> record.delegationId, revoked |-> record.revoked])

(* Mutated: a revoked attestation is as good as any other.                 *)
CheckValidityRevoked(attestation, onChain) ==
    onChain # Absent /\ onChain.owner = attestation.owner

CheckValidity(attestation, onChain) ==
    onChain # Absent /\ onChain.owner = attestation.owner /\ ~ onChain.revoked

-----------------------------------------------------------------------------
(* Requests. The parameters are called req and cred, as request and         *)
(* credential are what the claimer has in Exchange.                         *)

\* The data a claimer signs: the root hash, with the challenge after it.
MakeSigningData(req, challenge) == [rootHash |-> req.rootHash, challenge |-> challenge]

\* getHashLeaves and getHashRoot
CalculateRootHash(req) ==
    [claimHashes |-> req.claimHashes,
     legitimations |-> [i \in DOMAIN req.legitimations |->
                           req.legitimations[i].attestation.claimHash],
     delegationId |-> req.delegationId]

Attests(attestation, req) ==
    /\ req.claim.cTypeHash = attestation.cTypeHash
    /\ req.rootHash = attestation.claimHash

(* Mutated: the statements are not compared with the hashes.               *)
RequestDataVerifiedByRoot(req, results) ==
    IF req.rootHash # CalculateRootHash(req) THEN Error("ERROR_ROOT_HASH_UNVERIFIABLE")
    ELSE Then(All(results),
              IF \E r \in results : ~ r.valid THEN Error("ERROR_LEGITIMATIONS_UNVERIFIABLE")
              ELSE Valid)

\* verifyData, once the legitimations have been verified with these results.
RequestDataVerified(req, results) ==
    IF req.rootHash # CalculateRootHash(req) THEN Error("ERROR_ROOT_HASH_UNVERIFIABLE")
    ELSE Then(VerifyDisclosedAttributes(req.claim, req.claimNonceMap, req.claimHashes),
         Then(All(results),
              IF \E r \in results : ~ r.valid THEN Error("ERROR_LEGITIMATIONS_UNVERIFIABLE")
              ELSE Valid))

CredentialDataVerified(cred, results) ==
    IF ~ Attests(cred.attestation, cred.request) THEN [valid |-> FALSE]
    ELSE RequestDataVerified(cred.request, results)

Held(req) == {req.legitimations[i] : i \in DOMAIN req.legitimations}

\* Legitimations with the contents of their claims, and of those they hold, as a
\* sorting makes, or leaves, them.
Holding(req, claim, legitimations) ==
    [req EXCEPT !.claim = claim, !.legitimations = legitimations]
RearrangedWith(order, cred, legitimations) ==
    [cred EXCEPT !.request = Holding(@, ClaimIn(order, @.claim), legitimations)]
LegitimationsIn(order) ==
    LET rearranged[c \in Legitimation] ==
            RearrangedWith(order, c, [i \in DOMAIN c.request.legitimations |->
                                         rearranged[c.request.legitimations[i]]])
    IN  rearranged
SortedLegitimation == LegitimationsIn(SortObj)
LeftLegitimation == LegitimationsIn(SortedInPlace)

CredentialsIn(order, credentials) ==
    [i \in DOMAIN credentials |-> LegitimationsIn(order)[credentials[i]]]
RequestIn(order, req) ==
    Holding(req, ClaimIn(order, req.claim), CredentialsIn(order, req.legitimations))

\* What requests can come to hold.
HeldCredential ==
    Legitimation \cup {SortedLegitimation[l] : l \in Legitimation}
                 \cup {LeftLegitimation[l] : l \in Legitimation}

\* A request holds credentials, its legitimations, and they hold requests.
LegitimationVerifyData[c \in HeldCredential] ==
    CredentialDataVerified(c, {LegitimationVerifyData[l] : l \in Held(c.request)})

RequestVerifyData(req) ==
    RequestDataVerified(req, {LegitimationVerifyData[l] : l \in Held(req)})
CredentialVerifyData(cred) ==
    CredentialDataVerified(cred, {LegitimationVerifyData[l] : l \in Held(cred.request)})

RequestErrorCheck(req) ==
    IF req.claim = Absent THEN Error("ERROR_CLAIM_NOT_PROVIDED")
    ELSE Then(ClaimErrorCheck(req.claim),
         IF req.claim.owner = Absent THEN Error("ERROR_OWNER_NOT_PROVIDED")
         ELSE IF req.legitimations = Absent THEN Error("ERROR_LEGITIMATIONS_NOT_PROVIDED")
         ELSE IF req.claimNonceMap = Absent THEN Error("ERROR_CLAIM_NONCE_MAP_NOT_PROVIDED")
         ELSE IF \E d \in DOMAIN req.claimNonceMap : req.claimNonceMap[d] = Absent
         THEN Error("ERROR_CLAIM_NONCE_MAP_MALFORMED")
         ELSE Then(IF req.claimerSignature = Absent THEN Valid
                   ELSE ValidateDidSignature(req.claimerSignature),
                   RequestVerifyData(req)))

\* It ends with verifyData, and has verified the data of the request before.
CredentialErrorCheck(cred) ==
    IF cred.attestation = Absent THEN Error("ERROR_ATTESTATION_NOT_PROVIDED")
    ELSE Then(AttestationErrorCheck(cred.attestation),
         IF cred.request = Absent THEN Error("ERROR_RFA_NOT_PROVIDED")
         ELSE Then(RequestErrorCheck(cred.request),
              IF Attests(cred.attestation, cred.request) THEN Valid
              ELSE Error("ERROR_CREDENTIAL_UNVERIFIABLE")))

\* A legitimation was made before what it is a legitimation of, as a credential.
ASSUME LegitimationAssumption ==
    /\ \A c \in Legitimation :
          /\ c = [request |-> c.request, attestation |-> c.attestation]
          /\ c.request =
                [claim |-> c.request.claim, claimNonceMap |-> c.request.claimNonceMap,
                 claimHashes |-> c.request.claimHashes,
                 claimerSignature |-> c.request.claimerSignature,
                 rootHash |-> c.request.rootHash, legitimations |-> c.request.legitimations,
                 delegationId |-> c.request.delegationId]
          /\ c.request.claim =
                [cTypeHash |-> c.request.claim.cTypeHash, owner |-> c.request.claim.owner,
                 contents |-> c.request.claim.contents]
          /\ c.attestation =
                [claimHash |-> c.attestation.claimHash, cTypeHash |-> c.attestation.cTypeHash,
                 delegationId |-> c.attestation.delegationId, owner |-> c.attestation.owner,
                 revoked |-> c.attestation.revoked]
          /\ c.request.legitimations \in Seq(Legitimation)
          /\ CredentialErrorCheck(c) = Valid
    /\ \A made \in (SUBSET Legitimation) \ {{}} : \E c \in made : Held(c.request) \cap made = {}

\* The constructor, fromRequest: its legitimations are made credentials too.
NewRequest(req) ==
    LET legitimations == req.legitimations
    IN  Then(RequestErrorCheck(req),
        Then(All({Check(CredentialErrorCheck(legitimations[i])) : i \in DOMAIN legitimations}),
             req))

RequestFromClaim(claim, legitimations, delegationId, salt) ==
    LET hashed == HashClaimContents(claim, NewNonces(claim, salt))
        req == [claim |-> claim, claimNonceMap |-> hashed.nonceMap,
                claimHashes |-> hashed.hashes, claimerSignature |-> Absent, rootHash |-> Absent,
                legitimations |-> legitimations, delegationId |-> delegationId]
    IN  Then(hashed, NewRequest([req EXCEPT !.rootHash = CalculateRootHash(req)]))

(* Mutated: the nonces of what is removed stay in the request.             *)
RemoveClaimPropertiesOnly(req, properties) ==
    LET contents == [a \in AttributesOf(req.claim) \ properties |-> req.claim.contents[a]]
    IN  [req EXCEPT !.claim.contents = contents]

\* Of the contents and of the nonces; hashes and root hash stay.
RemoveClaimProperties(req, properties) ==
    LET contents == [a \in AttributesOf(req.claim) \ properties |-> req.claim.contents[a]]
        claim == [req.claim EXCEPT !.contents = contents]
        hashed == HashClaimContents(claim, req.claimNonceMap)
    IN  Then(hashed, [req EXCEPT !.claim = claim, !.claimNonceMap = hashed.nonceMap])

\* addSignature: signature, key and challenge at once.
AddSignature(req, signature, challenge) ==
    [req EXCEPT !.claimerSignature =
        [by |-> signature.by, over |-> signature.over, hex |-> signature.hex,
         keyUri |-> signature.keyUri, challenge |-> challenge]]

\* verifySignature up to the resolution, and the rest of it.
SignatureRefused(req, challenge) ==
    \/ req.claimerSignature = Absent
    \/ challenge # Absent /\ challenge # req.claimerSignature.challenge

VerifySignature(req, doc) ==
    VerifyDidSignature(MakeSigningData(req, req.claimerSignature.challenge),
                       req.claimerSignature, "authentication", doc)

-----------------------------------------------------------------------------
(* Credentials. *)

\* The constructor, fromCredential, fromRequestAndAttestation.
NewCredential(req, attestation) ==
    LET cred == [request |-> req, attestation |-> attestation]
    IN  Then(CredentialErrorCheck(cred), Then(NewRequest(req), cred))

\* createPresentation up to its first await: a copy of the credential without
\* the attributes that are not selected.
PresentationOf(cred, selected) ==
    LET excluded == IF selected = Absent THEN {}
                    ELSE AttributesOf(cred.request.claim) \ selected
        req == RemoveClaimProperties(cred.request, excluded)
    IN  Then(CredentialErrorCheck(cred),
        Then(req, [cred EXCEPT !.request = req]))

-----------------------------------------------------------------------------
(* Compression, once the legitimations are compressed, and back.            *)

CompressRequestWith(req, legitimations) ==
    Then(RequestErrorCheck(req),
         ArrayOf(<<CompressClaim(req.claim), req.claimNonceMap, req.claimerSignature,
                   req.claimHashes, req.rootHash, Collect(legitimations), req.delegationId>>,
                 {6}))

CompressCredentialWith(cred, legitimations) ==
    Then(CredentialErrorCheck(cred),
         ArrayOf(<<CompressRequestWith(cred.request, legitimations),
                   CompressAttestation(cred.attestation)>>, {1}))

CompressedLegitimation[c \in Legitimation] ==
    CompressCredentialWith(c, [i \in DOMAIN c.request.legitimations |->
                                  CompressedLegitimation[c.request.legitimations[i]]])

CompressLegitimations(req) ==
    [i \in DOMAIN req.legitimations |-> CompressedLegitimation[req.legitimations[i]]]
CompressRequest(req) == CompressRequestWith(req, CompressLegitimations(req))
CompressCredential(cred) ==
    CompressCredentialWith(cred, CompressLegitimations(cred.request))

DecompressRequestWith(c, legitimations) ==
    Decompress(c, 7,
        Then(DecompressClaim(At(c, 1)),
             [claim |-> DecompressClaim(At(c, 1)), claimNonceMap |-> At(c, 2),
              claimerSignature |-> At(c, 3), claimHashes |-> At(c, 4), rootHash |-> At(c, 5),
              legitimations |-> legitimations, delegationId |-> At(c, 7)]))

DecompressCredentialWith(c, legitimations) ==
    LET req == DecompressRequestWith(At(c, 1), legitimations)
        attestation == DecompressAttestation(At(c, 2))
    IN  Decompress(c, 2, Then(req, Then(attestation,
            [request |-> req, attestation |-> attestation])))

CompactLegitimation == {CompressedLegitimation[l] : l \in Legitimation}
DecompressedLegitimation[c \in CompactLegitimation] ==
    DecompressCredentialWith(c, [i \in DOMAIN At(At(c, 1), 6).array |->
                                    DecompressedLegitimation[At(At(c, 1), 6).array[i]]])

DecompressLegitimations(c) ==
    [i \in DOMAIN At(c, 6).array |-> DecompressedLegitimation[At(c, 6).array[i]]]
DecompressRequest(c) == DecompressRequestWith(c, DecompressLegitimations(c))
DecompressCredential(c) == DecompressCredentialWith(c, DecompressLegitimations(At(c, 1)))

=============================================================================
