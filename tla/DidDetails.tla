------------------------------ MODULE DidDetails ------------------------------
(***************************************************************************)
(* The details of a DID, light or full (did/src/DidDetails), the document  *)
(* exported from them, signatures made with and checked against them, and  *)
(* the extrinsics built for a DID (did/src/Did.chain.ts).                  *)
(*                                                                         *)
(* keys maps the id of a key to [publicKey, type], relationships a         *)
(* relationship to the set of the ids that serve it, endpoints the id of a *)
(* service to what it is.                                                  *)
(***************************************************************************)
EXTENDS DemoKeystore

CONSTANTS
    IsDidUri(_),   \* parseDidUri accepts the text, a service id
    KeyType(_),    \* the type of a key
    Size(_),       \* the lengths of an endpoint: id, types, urls, type, url
    Limits,        \* api.consts.did: the largest of those the chain takes
    MaxNewKeyAgreementKeys, MaxNumberOfServicesPerDid

-----------------------------------------------------------------------------
(* DidDetails.ts and DidDetails.utils.ts *)

CheckDidCreationDetails(d) ==
    LET references == UNION {d.relationships[r] : r \in DOMAIN d.relationships}
    IN  IF IsError(ValidateKiltDidUri(d.uri, FALSE)) THEN ValidateKiltDidUri(d.uri, FALSE)
        ELSE IF "authentication" \notin DOMAIN d.relationships THEN Error("Error")
        ELSE IF Cardinality(d.relationships["authentication"]) # 1 THEN Error("Error")
        ELSE IF ~ DOMAIN d.relationships \subseteq KeyRelationship \cup {"none"}
        THEN Error("Error")
        ELSE IF ~ references \subseteq DOMAIN d.keys THEN Error("ERROR_DID_ERROR")
        ELSE d

GetKey(d, id) ==
    IF id \in DOMAIN d.keys
    THEN [id |-> id, publicKey |-> d.keys[id].publicKey, type |-> d.keys[id].type] ELSE Absent

\* getVerificationKeys and getEncryptionKeys
GetKeysOf(d, relationship) ==
    IF relationship \in DOMAIN d.relationships
    THEN {GetKey(d, id) : id \in d.relationships[relationship]} ELSE {}

\* authenticationKey, encryptionKey, attestationKey, delegationKey: the first
FirstKey(d, relationship) ==
    LET keys == GetKeysOf(d, relationship)
    IN  IF keys # {} THEN CHOOSE key \in keys : TRUE
        ELSE IF relationship = "authentication" THEN Error("ERROR_DID_ERROR") ELSE Absent

GetEndpoint(d, id) == IF id \in DOMAIN d.endpoints THEN d.endpoints[id] ELSE Absent

SignPayload(store, d, payload, keyId) ==
    LET key == GetKey(d, keyId)
        signature == Sign(store, key.publicKey, SigningAlgorithmFor[key.type], payload)
    IN  IF key = Absent THEN Error("ERROR_DID_ERROR")
        ELSE IF ~ IsVerificationKey(key) THEN Error("ERROR_DID_ERROR")
        ELSE IF IsError(signature) THEN signature
        ELSE [keyUri |-> AssembleKeyUri(d.uri, keyId), hex |-> TRUE,
              by |-> signature.by, over |-> signature.over]

-----------------------------------------------------------------------------
(* LightDidDetails.ts and LightDidDetails.utils.ts *)

CheckLightDidCreationDetails(authenticationKey, encryptionKey, services) ==
    IF EncodingFor(authenticationKey.type) = Absent THEN Error("ERROR_UNSUPPORTED_KEY")
    ELSE IF encryptionKey # Absent /\ ~ IsEncryptionKey(encryptionKey)
    THEN Error("ERROR_DID_ERROR")
    ELSE IF \E id \in DOMAIN services : IsDidUri(id) \/ id \in {"authentication", "encryption"}
    THEN Error("ERROR_DID_ERROR")
    ELSE [valid |-> TRUE]

(* Mutated: services are only encoded where there is no encryption key.    *)
SerializeAndEncodeEither(encryptionKey, services) ==
    IF encryptionKey # Absent THEN [flag |-> 0, map |-> [f \in {"e"} |-> encryptionKey]]
    ELSE IF DOMAIN services = {} THEN Absent
    ELSE [flag |-> 0, map |-> [f \in {"s"} |-> services]]

Encoded(fields, encryptionKey, services) ==
    [flag |-> 0, map |-> [f \in fields |-> IF f = "e" THEN encryptionKey ELSE services]]

\* Nothing is encoded when there is nothing to encode; the flag tells how.
SerializeAndEncode(encryptionKey, services) ==
    LET fields == (IF encryptionKey # Absent THEN {"e"} ELSE {})
                      \cup (IF DOMAIN services # {} THEN {"s"} ELSE {})
    IN  IF fields = {} THEN Absent
        ELSE Encoded(fields, encryptionKey, services)

DecodeAndDeserialize(encoded) ==
    IF encoded.flag # 0 THEN Error("ERROR_DID_ERROR")
    ELSE [encryptionKey |-> IF "e" \in DOMAIN encoded.map THEN encoded.map.e ELSE Absent,
          services |-> IF "s" \in DOMAIN encoded.map THEN encoded.map.s ELSE <<>>]

\* LightDidDetails.fromDetails; a public key is the account it makes.
LightDidFromDetails(authenticationKey, encryptionKey, services) ==
    LET checked == CheckLightDidCreationDetails(authenticationKey, encryptionKey, services)
        hasKey == encryptionKey # Absent
        identifier == LightIdentifier(EncodingFor(authenticationKey.type),
                                      authenticationKey.publicKey)
    IN  IF IsError(checked) THEN checked
        ELSE CheckDidCreationDetails(
               [uri |-> GetKiltDidFromIdentifier(identifier, "light",
                            SerializeAndEncode(encryptionKey, services)),
                identifier |-> authenticationKey.publicKey,
                keys |-> [id \in {"authentication"} \cup (IF hasKey THEN {"encryption"} ELSE {}) |->
                             IF id = "encryption" THEN encryptionKey ELSE authenticationKey],
                relationships |->
                    [r \in {"authentication"} \cup (IF hasKey THEN {"keyAgreement"} ELSE {}) |->
                        IF r = "keyAgreement" THEN {"encryption"} ELSE {"authentication"}],
                endpoints |-> services])

LightDidFromUri(uri, failIfFragmentPresent) ==
    LET parsed == ParseDidUri(uri)
        keyType == KeyTypeForEncoding(uri.encoding)
        key == [publicKey |-> uri.account, type |-> keyType]
        decoded == DecodeAndDeserialize(parsed.encoded)
    IN  IF IsError(parsed) THEN parsed
        ELSE IF parsed.type # "light" \/ (parsed.fragment # Absent /\ failIfFragmentPresent)
        THEN Error("ERROR_DID_ERROR")
        ELSE IF keyType = Absent THEN Error("ERROR_DID_ERROR")
        ELSE IF parsed.encoded = Absent THEN LightDidFromDetails(key, Absent, <<>>)
        ELSE IF IsError(decoded) THEN decoded
        ELSE LightDidFromDetails(key, decoded.encryptionKey, decoded.services)

-----------------------------------------------------------------------------
(* Documents, as the resolver answers them, and the signatures checked      *)
(* against them (Did.utils.ts).                                             *)

Document(d, canonicalId, deactivated) ==
    [details |-> d, canonicalId |-> canonicalId, deactivated |-> deactivated]

VerifyDidSignatureFromDetails(message, signature, expected, d) ==
    LET key == GetKey(d, signature.keyUri.fragment)
    IN  /\ key # Absent
        /\ expected # Absent => key \in GetKeysOf(d, expected)
        /\ signature.by = key.publicKey /\ signature.over = message

\* verifyDidSignature, once the document of the key is resolved.
VerifyDidSignature(message, signature, expected, doc) ==
    /\ signature.keyUri.fragment # Absent
    /\ doc # Absent
    /\ ~ doc.deactivated /\ doc.canonicalId = Absent
    /\ VerifyDidSignatureFromDetails(message, signature, expected, doc.details)

-----------------------------------------------------------------------------
(* DidDocumentExporter.ts: the keys are listed once per relationship, in    *)
(* this order, those that serve none not at all.                            *)

ExportedRelationships ==
    {"authentication", "keyAgreement", "assertionMethod", "capabilityDelegation"}

\* exportToJsonDidDocument; as JSON-LD it has a context in addition.
ExportToDidDocument(d, mimeType) ==
    IF mimeType \notin {"application/json", "application/ld+json"}
    THEN Error("ERROR_DID_EXPORTER_ERROR")
    ELSE [id |-> d.uri,
          verificationMethod |->
              {[id |-> [d.uri EXCEPT !.fragment = key.id], controller |-> d.uri,
                type |-> key.type, publicKey |-> key.publicKey] :
                   key \in UNION {GetKeysOf(d, r) : r \in ExportedRelationships}},
          relationships |->
              [r \in {s \in ExportedRelationships : GetKeysOf(d, s) # {}} |->
                  {[d.uri EXCEPT !.fragment = key.id] : key \in GetKeysOf(d, r)}],
          service |-> {[id |-> [d.uri EXCEPT !.fragment = id], is |-> d.endpoints[id]] :
                           id \in DOMAIN d.endpoints},
          context |-> mimeType = "application/ld+json"]

-----------------------------------------------------------------------------
(* Did.chain.ts: decoding a record of the chain, and the extrinsics         *)

\* decodeDidChainRecord and fromChainInfo: keys are known by their hash, which
\* the model takes for the key itself.
DetailsOfRecord(uri, record, endpoints) ==
    LET ids == {record.authenticationKey} \cup record.keyAgreementKeys
                   \cup ({record.attestationKey, record.delegationKey} \ {Absent})
    IN  CheckDidCreationDetails(
          [uri |-> uri, identifier |-> uri.account,
           keys |-> [id \in ids |-> [publicKey |-> id, type |-> KeyType(id)]],
           relationships |->
               [r \in {"authentication", "keyAgreement"}
                      \cup (IF record.attestationKey # Absent THEN {"assertionMethod"} ELSE {})
                      \cup (IF record.delegationKey # Absent THEN {"capabilityDelegation"} ELSE {})
                  |-> CASE r = "authentication" -> {record.authenticationKey}
                        [] r = "keyAgreement" -> record.keyAgreementKeys
                        [] r = "assertionMethod" -> {record.attestationKey}
                        [] OTHER -> {record.delegationKey}],
           endpoints |-> endpoints])

\* resolveDoc and resolveKey, asked in one moment: DidLife checks that the
\* resolver answers so, whatever changes between its queries.
ResolveDoc(uri, record, deleted) ==
    LET full == GetKiltDidFromIdentifier(AccountOf(uri), "full", Absent)
    IN  IF uri.type = "full"
        THEN CASE record # Absent -> Document(DetailsOfRecord(full, record, <<>>), Absent, FALSE)
               [] deleted -> Document(Absent, Absent, TRUE)
               [] OTHER -> Absent
        ELSE CASE record # Absent -> Document(LightDidFromUri(uri, FALSE), full, FALSE)
               [] deleted -> Document(Absent, Absent, TRUE)
               [] OTHER -> Document(LightDidFromUri(uri, FALSE), Absent, FALSE)

ResolveKey(uri, record, deleted) ==
    LET KeyIn(doc) == IF doc = Absent \/ doc.details = Absent THEN Absent
                      ELSE GetKey(doc.details, uri.fragment)
        Resolved(key) == IF key = Absent THEN Absent
                         ELSE [controller |-> ParseDidUri(uri).did, uri |-> uri,
                               publicKey |-> key.publicKey, type |-> key.type]
    IN  Resolved(KeyIn(ResolveDoc(uri, record, deleted)))

\* checkServiceEndpointInput
FitsChain(endpoint) == \A part \in DOMAIN Limits : Size(endpoint)[part] <= Limits[part]

\* generateCreateTxFromCreationDetails, up to the signature. Every key
\* agreement key is written as x25519, whatever type it came with.
CreateTx(identifier, authenticationKey, creation) ==
    IF Cardinality(creation.keyAgreementKeys) > MaxNewKeyAgreementKeys
    THEN Error("ERROR_DID_ERROR")
    ELSE IF Cardinality(creation.serviceEndpoints) > MaxNumberOfServicesPerDid
    THEN Error("ERROR_DID_ERROR")
    ELSE IF \E endpoint \in creation.serviceEndpoints : ~ FitsChain(endpoint)
    THEN Error("ERROR_DID_ERROR")
    ELSE [call |-> "create", did |-> identifier, signedBy |-> authenticationKey,
          creation |-> creation]

SetKeyExtrinsic(relationship, key) ==
    IF relationship = "keyAgreement" THEN Error("ERROR_DID_ERROR")
    ELSE [call |-> "setKey", relationship |-> relationship, key |-> key]

RemoveKeyExtrinsic(relationship, keyId) ==
    IF relationship = "authentication" \/ (relationship = "keyAgreement" /\ keyId = Absent)
    THEN Error("ERROR_DID_ERROR")
    ELSE [call |-> "removeKey", relationship |-> relationship, key |-> keyId]

AddKeyExtrinsic(relationship, key) ==
    IF relationship # "keyAgreement" THEN Error("ERROR_DID_ERROR")
    ELSE [call |-> "addKey", relationship |-> relationship, key |-> key]

AddEndpointExtrinsic(endpoint) ==
    IF ~ FitsChain(endpoint) THEN Error("ERROR_DID_ERROR")
    ELSE [call |-> "addEndpoint", endpoint |-> endpoint]

RemoveEndpointExtrinsic(endpoint) ==
    IF Size(endpoint).id > Limits.id THEN Error("ERROR_DID_ERROR")
    ELSE [call |-> "removeEndpoint", endpoint |-> endpoint]

DeleteDidExtrinsic(endpointsCount) == [call |-> "delete", count |-> endpointsCount]
ReclaimDepositExtrinsic(identifier, endpointsCount) ==
    [call |-> "reclaimDeposit", did |-> identifier, count |-> endpointsCount]

=============================================================================
