------------------------------- MODULE Messages -------------------------------
(***************************************************************************)
(* Messages: their bodies, the checks of them, their compressed form, and  *)
(* encryption (messaging/src). A message is [body, sender, receiver], a    *)
(* body [type, content]; ids, times and references are left out. What the  *)
(* code keeps in an array is a record with the field array.                *)
(***************************************************************************)
EXTENDS Quotes

MessageBodyType ==
    {"error", "reject", "request-terms", "submit-terms", "reject-terms",
     "request-attestation", "submit-attestation", "reject-attestation",
     "request-payment", "confirm-payment", "request-credential", "submit-credential",
     "accept-credential", "reject-credential", "request-accept-delegation",
     "submit-accept-delegation", "reject-accept-delegation", "inform-create-delegation"}

Each(items, result(_)) == All({Check(result(items[i])) : i \in DOMAIN items})
IfGiven(value, result) == IF value = Absent THEN Valid ELSE result
Optional(value, result) == IF value = Absent THEN Absent ELSE result
PartOf(value, i) == IF value = Absent THEN {} ELSE {i}

-----------------------------------------------------------------------------
(* The checks. A quote is validated, and no use is made of the result.      *)

ErrorCheckDelegationData(data) ==
    IF ~ IsHex(data.id) THEN Error("ERROR_DELEGATION_ID")
    ELSE IF data.account = Absent THEN Error("ERROR_OWNER_NOT_PROVIDED")
    ELSE Then(ValidateKiltDidUri(data.account, FALSE),
         CASE data.isPCR \notin BOOLEAN -> Error("TypeError")
           [] Cardinality(data.permissions) \notin 1..3 -> Error("ERROR_UNAUTHORIZED")
           [] data.parentId = Malformed -> Error("ERROR_DELEGATION_ID_TYPE")
           [] OTHER -> Valid)

ErrorCheckTrusted(did) == ValidateKiltDidUri(did, FALSE)
ErrorCheckRequestedCType(c) ==
    Then(ValidateHash(c.cTypeHash),
         IfGiven(c.trustedAttesters, Each(c.trustedAttesters, ErrorCheckTrusted)))

ErrorCheckMessageBody(body) ==
    LET c == body.content
    IN  CASE body.type = "request-terms" -> ClaimErrorCheck(c)
          [] body.type = "submit-terms" ->
                Then(ClaimErrorCheck(c.claim),
                Then(Each(c.legitimations, CredentialErrorCheck),
                Then(IfGiven(c.delegationId, ValidateHash(c.delegationId)),
                     IfGiven(c.cTypes, Each(c.cTypes, CTypeErrorCheck)))))
          [] body.type = "reject-terms" ->
                Then(ClaimErrorCheck(c.claim),
                Then(IfGiven(c.delegationId, ValidateHash(c.delegationId)),
                     Each(c.legitimations, CredentialErrorCheck)))
          [] body.type = "request-attestation" -> RequestErrorCheck(c.requestForAttestation)
          [] body.type = "submit-attestation" -> AttestationErrorCheck(c.attestation)
          [] body.type = "reject-attestation" ->
                IF IsHex(c) THEN Valid ELSE Error("ERROR_HASH_MALFORMED")
          [] body.type = "request-credential" -> Each(c.cTypes, ErrorCheckRequestedCType)
          [] body.type = "submit-credential" -> Each(c.array, CredentialErrorCheck)
          [] body.type \in {"accept-credential", "reject-credential"} ->
                Each(c.array, ValidateHash)
          [] body.type = "request-accept-delegation" ->
                Then(ErrorCheckDelegationData(c.delegationData),
                Then(ValidateDidSignature(c.signatures.inviter),
                     IF c.metaData = Malformed THEN Error("ERROR_OBJECT_MALFORMED") ELSE Valid))
          [] body.type = "submit-accept-delegation" ->
                Then(ErrorCheckDelegationData(c.delegationData),
                Then(ValidateDidSignature(c.signatures.inviter),
                     ValidateDidSignature(c.signatures.invitee)))
          [] body.type = "reject-accept-delegation" -> ErrorCheckDelegationData(c)
          [] body.type = "inform-create-delegation" -> ValidateHash(c.delegationId)
          [] OTHER -> Error("ERROR_MESSAGE_BODY_MALFORMED")

ErrorCheckMessage(message) ==
    Then(ValidateKiltDidUri(message.receiver, FALSE),
    Then(ValidateKiltDidUri(message.sender, FALSE), ErrorCheckMessageBody(message.body)))

(* Mutated: the texts of the two DIDs are compared.                        *)
EnsureOwnerIsSenderExactly(body, sender) ==
    IF \/ body.type = "request-attestation"
            /\ body.content.requestForAttestation.claim.owner # sender
       \/ body.type = "submit-attestation" /\ body.content.attestation.owner # sender
       \/ body.type = "submit-credential"
            /\ \E i \in DOMAIN body.content.array :
                  body.content.array[i].request.claim.owner # sender
    THEN Error("ERROR_IDENTITY_MISMATCH") ELSE Valid

EnsureOwnerIsSender(body, sender) ==
    LET c == body.content
        owners == CASE body.type = "request-attestation" ->
                            {c.requestForAttestation.claim.owner}
                    [] body.type = "submit-attestation" -> {c.attestation.owner}
                    [] body.type = "submit-credential" ->
                            {c.array[i].request.claim.owner : i \in DOMAIN c.array}
                    [] OTHER -> {}
    IN  IF \E owner \in owners : ~ IsSameSubject(owner, sender)
        THEN Error("ERROR_IDENTITY_MISMATCH") ELSE Valid

-----------------------------------------------------------------------------
(* Compression. Some types have no compressed form.                         *)

CompressDelegationData(d) == Array(<<d.account, d.id, d.parentId, d.permissions, d.isPCR>>)
DecompressDelegationData(c) ==
    [account |-> At(c, 1), id |-> At(c, 2), parentId |-> At(c, 3), permissions |-> At(c, 4),
     isPCR |-> At(c, 5)]

\* What is an array is compressed already.
CompressedCredential(credential) ==
    IF IsArray(credential) THEN credential ELSE CompressCredential(credential)
DecompressedCredential(c) == IF IsArray(c) THEN DecompressCredential(c) ELSE c
CompressEach(items, Compressed(_)) == Collect([i \in DOMAIN items |-> Compressed(items[i])])
DecompressEach(c, Decompressed(_)) == [i \in DOMAIN c.array |-> Decompressed(c.array[i])]

CompressContent(type, c) ==
    CASE type = "request-terms" -> CompressClaim(c)
      [] type = "submit-terms" ->
            ArrayOf(<<CompressClaim(c.claim),
                      CompressEach(c.legitimations, CompressedCredential), c.delegationId,
                      Optional(c.quote, CompressAttesterSignedQuote(c.quote)),
                      Optional(c.cTypes, CompressEach(c.cTypes, CompressCType))>>,
                    {1, 2} \cup PartOf(c.quote, 4) \cup PartOf(c.cTypes, 5))
      [] type = "reject-terms" ->
            ArrayOf(<<CompressClaim(c.claim), CompressEach(c.legitimations, CompressCredential),
                      c.delegationId>>, {1, 2})
      [] type = "request-attestation" ->
            ArrayOf(<<CompressRequest(c.requestForAttestation),
                      Optional(c.quote, CompressQuoteAgreement(c.quote))>>,
                    {1} \cup PartOf(c.quote, 2))
      [] type = "submit-attestation" -> CompressAttestation(c.attestation)
      [] type = "request-credential" ->
            LET Compressed(t) == Array(<<t.cTypeHash, t.trustedAttesters, t.requiredProperties>>)
            IN  Array(<<CompressEach(c.cTypes, Compressed), c.challenge>>)
      [] type = "submit-credential" -> CompressEach(c.array, CompressedCredential)
      [] type = "request-accept-delegation" ->
            Array(<<CompressDelegationData(c.delegationData),
                    CompressSignature(c.signatures.inviter), c.metaData>>)
      [] type = "submit-accept-delegation" ->
            Array(<<CompressDelegationData(c.delegationData),
                    CompressSignature(c.signatures.inviter),
                    CompressSignature(c.signatures.invitee)>>)
      [] type = "reject-accept-delegation" -> CompressDelegationData(c)
      [] type = "inform-create-delegation" -> Array(<<c.delegationId, c.isPCR>>)
      [] OTHER -> Error("ERROR_MESSAGE_BODY_MALFORMED")

(* The content with its claims as a sorting makes, or leaves, them.         *)
ContentIn(order, type, c) ==
    CASE type = "request-terms" -> ClaimIn(order, c)
      [] type \in {"submit-terms", "reject-terms"} ->
            Holding(c, ClaimIn(order, c.claim), CredentialsIn(order, c.legitimations))
      [] type = "request-attestation" ->
            [c EXCEPT !.requestForAttestation = RequestIn(order, @)]
      [] type = "submit-credential" -> Array(CredentialsIn(order, c.array))
      [] OTHER -> c

(* What is checked before anything is sorted.                               *)
CheckedFirst(type, c) ==
    CASE type = "request-terms" -> ClaimErrorCheck(c)
      [] type \in {"submit-terms", "reject-terms"} -> ClaimErrorCheck(c.claim)
      [] type = "request-attestation" -> RequestErrorCheck(c.requestForAttestation)
      [] OTHER -> Valid

(* What compression leaves of the content: its arrays are sorted in place,  *)
(* also if it fails after that. Credentials are whole, and objects of their *)
(* own, so that none of them fails.                                         *)
LeftContent(type, c) ==
    IF IsError(CheckedFirst(type, c)) THEN c ELSE ContentIn(SortedInPlace, type, c)

CompressMessage(body) ==
    ArrayOf(<<body.type, CompressContent(body.type, body.content)>>, {2})

DecompressContent(type, c) ==
    CASE type = "request-terms" -> DecompressClaim(c)
      [] type = "submit-terms" ->
            [claim |-> DecompressClaim(At(c, 1)),
             legitimations |-> DecompressEach(At(c, 2), DecompressedCredential),
             delegationId |-> At(c, 3),
             quote |-> Optional(At(c, 4), DecompressAttesterSignedQuote(At(c, 4))),
             cTypes |-> Optional(At(c, 5), DecompressEach(At(c, 5), DecompressCType))]
      [] type = "reject-terms" ->
            [claim |-> DecompressClaim(At(c, 1)),
             legitimations |-> DecompressEach(At(c, 2), DecompressCredential),
             delegationId |-> At(c, 3)]
      [] type = "request-attestation" ->
            [requestForAttestation |-> DecompressRequest(At(c, 1)),
             quote |-> Optional(At(c, 2), DecompressQuoteAgreement(At(c, 2)))]
      [] type = "submit-attestation" -> [attestation |-> DecompressAttestation(c)]
      [] type = "request-credential" ->
            LET Decompressed(t) == [cTypeHash |-> At(t, 1), trustedAttesters |-> At(t, 2),
                                    requiredProperties |-> At(t, 3)]
            IN  [cTypes |-> DecompressEach(At(c, 1), Decompressed), challenge |-> At(c, 2)]
      [] type = "submit-credential" -> Array(DecompressEach(c, DecompressedCredential))
      [] type = "request-accept-delegation" ->
            [delegationData |-> DecompressDelegationData(At(c, 1)),
             signatures |-> [inviter |-> DecompressSignature(At(c, 2))],
             metaData |-> At(c, 3)]
      [] type = "submit-accept-delegation" ->
            [delegationData |-> DecompressDelegationData(At(c, 1)),
             signatures |-> [inviter |-> DecompressSignature(At(c, 2)),
                             invitee |-> DecompressSignature(At(c, 3))]]
      [] type = "reject-accept-delegation" -> DecompressDelegationData(c)
      [] type = "inform-create-delegation" -> [delegationId |-> At(c, 1), isPCR |-> At(c, 2)]
      [] OTHER -> Error("ERROR_MESSAGE_BODY_MALFORMED")

BodyOf(type, content) == Then(content, [type |-> type, content |-> content])
DecompressMessage(c) == BodyOf(At(c, 1), DecompressContent(At(c, 1), At(c, 2)))

-----------------------------------------------------------------------------
(* The class Message: its constructor, encrypt and decrypt. The key of the  *)
(* other side is the one the resolver answered.                             *)

NewMessage(body, sender, receiver) ==
    [body |-> IF IsArray(body) THEN DecompressMessage(body) ELSE body,
     sender |-> sender, receiver |-> receiver]

NaclBox == "x25519-xsalsa20-poly1305"

Envelope(senderKeyUri, receiverKeyUri, box) ==
    Then(box, [senderKeyUri |-> senderKeyUri, receiverKeyUri |-> receiverKeyUri,
               ciphertext |-> box])

Encrypt(message, senderKeyId, senderDetails, store, receiverKey) ==
    LET senderKey == GetKey(senderDetails, senderKeyId)
    IN  CASE receiverKey = Absent -> Error("ERROR_DID_ERROR")
          [] message.receiver # receiverKey.controller -> Error("ERROR_IDENTITY_MISMATCH")
          [] message.sender # senderDetails.uri -> Error("ERROR_IDENTITY_MISMATCH")
          [] senderKey = Absent \/ ~ IsEncryptionKey(senderKey) -> Error("ERROR_DID_ERROR")
          [] EncryptionAlgorithmFor[senderKey.type] # NaclBox -> Error("ERROR_KEYSTORE_ERROR")
          [] OTHER -> Envelope(AssembleKeyUri(senderDetails.uri, senderKeyId), receiverKey.uri,
                               SealBox(store, senderKey.publicKey, NaclBox,
                                       receiverKey.publicKey, message))

Parsed(opened, senderKey) ==
    IF IsError(opened) THEN Error("ERROR_DECODING_MESSAGE")
    ELSE LET message == opened.data
         IN  IF \/ message.sender # senderKey.controller
                \/ IsError(ErrorCheckMessage(message))
                \/ IsError(EnsureOwnerIsSender(message.body, message.sender))
             THEN Error("ERROR_PARSING_MESSAGE") ELSE message

Decrypt(encrypted, senderKey, store, receiverDetails) ==
    LET key == GetKey(receiverDetails, encrypted.receiverKeyUri.fragment)
    IN  CASE senderKey = Absent -> Error("ERROR_DID_ERROR")
          [] encrypted.receiverKeyUri.fragment = Absent -> Error("ERROR_DID_ERROR")
          [] key = Absent \/ ~ IsEncryptionKey(key) -> Error("ERROR_DID_ERROR")
          [] EncryptionAlgorithmFor[key.type] # NaclBox -> Error("ERROR_KEYSTORE_ERROR")
          [] OTHER -> Parsed(OpenBox(store, key.publicKey, NaclBox, senderKey.publicKey,
                                     encrypted.ciphertext), senderKey)

=============================================================================
