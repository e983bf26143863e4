----------------------------- MODULE DidLifeProofs -----------------------------
(***************************************************************************)
(* Proofs about the life of a DID: the builder of its creation, and what   *)
(* is answered about it while it is created, changed and deleted.          *)
(***************************************************************************)
EXTENDS DidLife, FiniteSetTheorems, TLAPS

-----------------------------------------------------------------------------
(* Creation.                                                                *)

(* The marks are what was accepted, a call that has left its first stage    *)
(* has consumed the builder and taken them, and it is the only one.         *)
CreationInv ==
    /\ TypeOK
    /\ newAssertionKey # Delete /\ newDelegationKey # Delete
    /\ accepted = Carried(CreationDetails)
    /\ \A c \in Caller : stage[c] # "idle" => consumed /\ details[c] = CreationDetails
    /\ \A c, d \in Caller : stage[c] # "idle" /\ stage[d] # "idle" => c = d

Ops(kind, args) == {Op(kind, arg) : arg \in args}

(* Adding an argument adds its operation, and no key is no operation.       *)
LEMMA OpsOf ==
    ASSUME NEW kind
    PROVE  /\ \A args, arg : Ops(kind, args \union {arg}) = Ops(kind, args) \union {Op(kind, arg)}
           /\ Ops(kind, {NoKey} \ {NoKey}) = {}
           /\ \A key \in VerificationKey : Ops(kind, {key} \ {NoKey}) = {Op(kind, key)}
  <1>1. \A args, arg : Ops(kind, args \union {arg}) = Ops(kind, args) \union {Op(kind, arg)}
    BY DEF Ops
  <1>2. Ops(kind, {NoKey} \ {NoKey}) = {}
    BY DEF Ops
  <1>3. ASSUME NEW key \in VerificationKey PROVE Ops(kind, {key} \ {NoKey}) = {Op(kind, key)}
    <2>1. {key} \ {NoKey} = {key}
      BY KeyAssumption
    <2> QED BY <2>1 DEF Ops
  <1> QED BY <1>1, <1>2, <1>3

LEMMA CarriedOps ==
    ASSUME NEW d
    PROVE  Carried(d) = Ops("encryption", d.keyAgreementKeys)
                              \union Ops("service", d.serviceEndpoints)
                              \union Ops("attestation", {d.assertionKey} \ {NoKey})
                              \union Ops("delegation", {d.delegationKey} \ {NoKey})
  BY DEF Carried, Ops

(* What the marks stand for has the type of creation details.               *)
LEMMA DetailsTyped ==
    ASSUME MarksOK
    PROVE  /\ CreationDetails \in Details
           /\ newAssertionKey \notin {Ignore, Delete} => newAssertionKey.action = "update"
           /\ newDelegationKey \notin {Ignore, Delete} => newDelegationKey.action = "update"
  BY DEF MarksOK, KeyAction, Ignore, Delete, Update, CreationDetails, Details

LEMMA CreationInvInit == Init => CreationInv
  <1> SUFFICES ASSUME Init PROVE CreationInv
    OBVIOUS
  <1>1. TypeOK
    BY DEF Init, TypeOK, MarksOK, KeyAction, Ignore, Details, NoDetails
  <1>2. newAssertionKey # Delete /\ newDelegationKey # Delete
    BY DEF Init, Ignore, Delete
  <1>3. accepted = Carried(CreationDetails)
    BY DEF Init, Carried, CreationDetails, Ignore
  <1> QED BY <1>1, <1>2, <1>3 DEF CreationInv, Init

(* A call the builder accepts: it is not consumed, so no build has begun.   *)
LEMMA AcceptKeeps ==
    ASSUME CreationInv, ~consumed, MarksOK', UNCHANGED <<consumed, stage, details>>,
           newAssertionKey' # Delete, newDelegationKey' # Delete,
           accepted' = Carried(CreationDetails)'
    PROVE  CreationInv'
  BY DEF CreationInv, TypeOK

LEMMA CreationStep == CreationInv /\ [Next]_vars => CreationInv'
  <1> SUFFICES ASSUME CreationInv, [Next]_vars PROVE CreationInv'
    OBVIOUS
  <1> USE DEF CreationInv
  <1>0. CreationDetails \in Details
    BY DetailsTyped DEF TypeOK
  <1>1. ASSUME NEW key \in EncryptionKey, AddEncryptionKey(key) PROVE CreationInv'
    <2>1. /\ CreationDetails'.keyAgreementKeys = CreationDetails.keyAgreementKeys \union {key}
          /\ CreationDetails'.serviceEndpoints = CreationDetails.serviceEndpoints
          /\ CreationDetails'.assertionKey = CreationDetails.assertionKey
          /\ CreationDetails'.delegationKey = CreationDetails.delegationKey
      BY <1>1 DEF AddEncryptionKey, MarkEncryptionKey, CreationDetails
    <2>2. accepted' = Carried(CreationDetails)'
      <3>0. Ops("encryption", CreationDetails.keyAgreementKeys \union {key})
              = Ops("encryption", CreationDetails.keyAgreementKeys) \union {Op("encryption", key)}
        BY OpsOf
      <3>1. Carried(CreationDetails') = Carried(CreationDetails) \union {Op("encryption", key)}
        BY <2>1, <3>0, CarriedOps
      <3> QED BY <1>1, <3>1 DEF AddEncryptionKey, Accept, Carried
    <2>3. MarksOK'
      BY <1>1 DEF TypeOK, MarksOK, AddEncryptionKey, MarkEncryptionKey
    <2> QED BY <1>1, <2>2, <2>3, AcceptKeeps DEF AddEncryptionKey, MarkEncryptionKey,
       Accept
  <1>2. ASSUME NEW endpoint \in Endpoint, AddServiceEndpoint(endpoint) PROVE CreationInv'
    <2>1. /\ CreationDetails'.keyAgreementKeys = CreationDetails.keyAgreementKeys
          /\ CreationDetails'.serviceEndpoints = CreationDetails.serviceEndpoints \union {endpoint}
          /\ CreationDetails'.assertionKey = CreationDetails.assertionKey
          /\ CreationDetails'.delegationKey = CreationDetails.delegationKey
      BY <1>2 DEF AddServiceEndpoint, MarkServiceEndpoint, CreationDetails
    <2>2. accepted' = Carried(CreationDetails)'
      <3>0. Ops("service", CreationDetails.serviceEndpoints \union {endpoint})
              = Ops("service", CreationDetails.serviceEndpoints) \union {Op("service", endpoint)}
        BY OpsOf
      <3>1. Carried(CreationDetails') = Carried(CreationDetails) \union {Op("service", endpoint)}
        BY <2>1, <3>0, CarriedOps
      <3> QED BY <1>2, <3>1 DEF AddServiceEndpoint, Accept, Carried
    <2>3. MarksOK'
      BY <1>2 DEF TypeOK, MarksOK, AddServiceEndpoint, MarkServiceEndpoint
    <2> QED BY <1>2, <2>2, <2>3, AcceptKeeps DEF AddServiceEndpoint, MarkServiceEndpoint,
       Accept
  <1>3. ASSUME NEW key \in VerificationKey, SetAttestationKey(key) PROVE CreationInv'
    <2>1. newAssertionKey = Ignore
      BY <1>3, DetailsTyped DEF SetAttestationKey, MarkAttestationKey, TypeOK
    <2>2. /\ CreationDetails'.keyAgreementKeys = CreationDetails.keyAgreementKeys
          /\ CreationDetails'.serviceEndpoints = CreationDetails.serviceEndpoints
          /\ CreationDetails'.assertionKey = key
          /\ CreationDetails'.delegationKey = CreationDetails.delegationKey
          /\ CreationDetails.assertionKey = NoKey
      BY <1>3, <2>1 DEF SetAttestationKey, MarkAttestationKey, CreationDetails,
         Update, Ignore
    <2>4. accepted' = Carried(CreationDetails)'
      <3>1. Carried(CreationDetails') = Carried(CreationDetails) \union {Op("attestation", key)}
        BY <2>2, CarriedOps, OpsOf
      <3> QED BY <1>3, <3>1 DEF SetAttestationKey, Accept, Carried
    <2>5. MarksOK' /\ newAssertionKey' # Delete
      BY <1>3 DEF TypeOK, MarksOK, SetAttestationKey, MarkAttestationKey,
         KeyAction, Update, Delete
    <2> QED BY <1>3, <2>4, <2>5, AcceptKeeps DEF SetAttestationKey, MarkAttestationKey,
       Accept
  <1>4. ASSUME NEW key \in VerificationKey, SetDelegationKey(key) PROVE CreationInv'
    <2>1. newDelegationKey = Ignore
      BY <1>4, DetailsTyped DEF SetDelegationKey, MarkDelegationKey, TypeOK
    <2>2. /\ CreationDetails'.keyAgreementKeys = CreationDetails.keyAgreementKeys
          /\ CreationDetails'.serviceEndpoints = CreationDetails.serviceEndpoints
          /\ CreationDetails'.assertionKey = CreationDetails.assertionKey
          /\ CreationDetails'.delegationKey = key
          /\ CreationDetails.delegationKey = NoKey
      BY <1>4, <2>1 DEF SetDelegationKey, MarkDelegationKey, CreationDetails, Update,
         Ignore
    <2>4. accepted' = Carried(CreationDetails)'
      <3>1. Carried(CreationDetails') = Carried(CreationDetails) \union {Op("delegation", key)}
        BY <2>2, CarriedOps, OpsOf
      <3> QED BY <1>4, <3>1 DEF SetDelegationKey, Accept, Carried
    <2>5. MarksOK' /\ newDelegationKey' # Delete
      BY <1>4 DEF TypeOK, MarksOK, SetDelegationKey, MarkDelegationKey, KeyAction,
         Update, Delete
    <2> QED BY <1>4, <2>4, <2>5, AcceptKeeps DEF SetDelegationKey, MarkDelegationKey,
       Accept
  <1>5. ASSUME NEW c \in Caller, Build(c) PROVE CreationInv'
    <2>1. /\ TypeOK' /\ CreationDetails' = CreationDetails
          /\ Carried(CreationDetails)' = accepted'
      BY <1>0, <1>5 DEF Build, TypeOK, MarksOK, marks, CreationDetails, Carried
    <2>2. \A d \in Caller : stage'[d] # "idle" => consumed' /\ details'[d] = CreationDetails
      BY <1>5 DEF Build, TypeOK
    <2>3. \A d \in Caller : stage'[d] # "idle" => d = c
      BY <1>5 DEF Build, TypeOK
    <2> QED BY <1>5, <2>1, <2>2, <2>3 DEF Build, marks
  <1>6. ASSUME NEW c \in Caller, SignerAnswers(c) PROVE CreationInv'
    <2>1. /\ TypeOK' /\ CreationDetails' = CreationDetails
          /\ Carried(CreationDetails)' = accepted'
      BY <1>6 DEF SignerAnswers, TypeOK, MarksOK, marks, CreationDetails, Carried
    <2>2. \A d \in Caller : stage'[d] # "idle" => stage[d] # "idle"
      BY <1>6 DEF SignerAnswers, TypeOK
    <2> QED BY <1>6, <2>1, <2>2 DEF SignerAnswers, marks
  <1>7. CASE UNCHANGED vars
    BY <1>7 DEF vars, marks, TypeOK, MarksOK, CreationDetails, Carried
  <1> QED BY <1>1, <1>2, <1>3, <1>4, <1>5, <1>6, <1>7 DEF Next

LEMMA CreationInvHolds == Spec => []CreationInv
  BY CreationInvInit, CreationStep, PTL DEF Spec

(* The builder's marks and each call's details keep their types.            *)
THEOREM CreationTypeCorrect == Spec => []TypeOK
  <1>1. CreationInv => TypeOK
    BY DEF CreationInv
  <1> QED BY <1>1, CreationInvHolds, PTL

(* What a creation carries is all the builder ever accepted, while the      *)
(* signer is awaited and after.                                             *)
THEOREM CarriesAll == Spec => []CreationCarriesAll
  <1>1. CreationInv => CreationCarriesAll
    BY DEF CreationInv, CreationCarriesAll
  <1> QED BY <1>1, CreationInvHolds, PTL

(* Of any number of calls of build, at most one creates a DID.              *)
THEOREM CreatedOnce == Spec => []OneCreation
  <1>1. CreationInv => OneCreation
    BY DEF CreationInv, OneCreation
  <1> QED BY <1>1, CreationInvHolds, PTL

-----------------------------------------------------------------------------
(* What a light DID is.                                                     *)

EncryptionKeyPair == {Absent} \cup {KeyPair(key) : key \in EncryptionKey}
LightDidText(key, ids) ==
    [type |-> "light", account |-> Subject, encoding |-> EncodingFor(KeyType(Subject)),
     encoded |-> SerializeAndEncode(key, Services(ids)), fragment |-> Absent]

LightDidRecord(key, ids) ==
    LET hasKey == key # Absent
    IN  [uri |-> LightDidText(key, ids),
         identifier |-> Subject,
         keys |-> [id \in {"authentication"} \cup (IF hasKey THEN {"encryption"} ELSE {}) |->
                      IF id = "encryption" THEN key ELSE AuthenticationKey],
         relationships |->
             [r \in {"authentication"} \cup (IF hasKey THEN {"keyAgreement"} ELSE {}) |->
                 IF r = "keyAgreement" THEN {"encryption"} ELSE {"authentication"}],
         endpoints |-> Services(ids)]

LEMMA NoText ==
    \A text \in {"sr25519", "ed25519", "authentication", "assertionMethod"} : text # Absent
  BY AbsentAssumption DEF VerificationKeyType, KeyRelationship, VerificationRelationship

LEMMA Errors == \A v : ~ IsError([is |-> v]) /\ IsError(Error(v))
  BY DEF IsError, Error

LEMMA CheckedIs ==
    ASSUME NEW d, ~ IsError(CheckDidCreationDetails(d))
    PROVE  /\ CheckDidCreationDetails(d) = d
           /\ AccountOf(d.uri) \in Address
           /\ ~ IsError(ParseDidUri(d.uri))
  BY Errors DEF CheckDidCreationDetails, ValidateKiltDidUri

LEMMA LightDidIs ==
    ASSUME NEW key, NEW ids, ~ IsError(LightDid(key, ids))
    PROVE  /\ LightDid(key, ids) = LightDidRecord(key, ids)
           /\ Subject \in Address
           /\ KeyType(Subject) \in {"sr25519", "ed25519"}
  <1>1. EncodingFor(KeyType(Subject)) # Absent
    BY Errors DEF LightDid, LightDidFromDetails, CheckLightDidCreationDetails, AuthenticationKey,
       KeyPair
  <1>2. KeyType(Subject) \in {"sr25519", "ed25519"}
    BY <1>1 DEF EncodingFor
  <1>3. LightDid(key, ids) = CheckDidCreationDetails(LightDidRecord(key, ids))
    BY Errors DEF LightDid, LightDidFromDetails, CheckLightDidCreationDetails, AuthenticationKey,
       KeyPair, LightDidRecord, LightDidText, GetKiltDidFromIdentifier, LightIdentifier
  <1>4. AccountOf(LightDidText(key, ids)) = Subject
    BY DEF AccountOf, LightDidText, ParseDidUri, LightIdentifier
  <1>5. AccountOf(LightDidRecord(key, ids).uri) \in Address
    BY <1>3, CheckedIs
  <1>6. LightDidRecord(key, ids).uri = LightDidText(key, ids)
    BY DEF LightDidRecord
  <1> QED BY <1>2, <1>3, <1>4, <1>5, <1>6, CheckedIs

LEMMA NoServices == Services({}) = <<>>
  BY DEF Services

(* Nothing is lost on the way into the text of a light DID and back.        *)
LEMMA EncodedIsDecoded ==
    ASSUME NEW key \in EncryptionKeyPair, NEW ids \in SUBSET Endpoint
    PROVE  LET encoded == SerializeAndEncode(key, Services(ids))
           IN  IF encoded = Absent THEN key = Absent /\ ids = {}
               ELSE DecodeAndDeserialize(encoded)
                       = [encryptionKey |-> key, services |-> Services(ids)]
  <1> DEFINE fields == (IF key # Absent THEN {"e"} ELSE {}) \cup (IF ids # {} THEN {"s"} ELSE {})
             encoded == SerializeAndEncode(key, Services(ids))
  <1>1. DOMAIN Services(ids) = ids
    BY DEF Services
  <1>2. encoded = IF fields = {} THEN Absent ELSE Encoded(fields, key, Services(ids))
    BY <1>1 DEF SerializeAndEncode
  <1>3. fields \in SUBSET {"e", "s"}
    OBVIOUS
  <1>4. Encoded(fields, key, Services(ids)) # Absent
    BY <1>3, AbsentAssumption DEF EncryptionKeyPair
  <1>5. CASE encoded = Absent
    BY <1>2, <1>4, <1>5
  <1>6. CASE encoded # Absent
    <2>1. encoded = Encoded(fields, key, Services(ids))
      BY <1>2, <1>6
    <2>2. /\ encoded.flag = 0
          /\ DOMAIN encoded.map = fields
          /\ "e" \in fields => encoded.map["e"] = key
          /\ "s" \in fields => encoded.map["s"] = Services(ids)
      BY <2>1 DEF Encoded
    <2>3. DecodeAndDeserialize(encoded)
            = [encryptionKey |-> IF "e" \in fields THEN key ELSE Absent,
               services |-> IF "s" \in fields THEN Services(ids) ELSE <<>>]
      BY <2>2 DEF DecodeAndDeserialize
    <2>4. ("e" \notin fields => key = Absent) /\ ("s" \notin fields => ids = {})
      OBVIOUS
    <2> QED BY <1>6, <2>3, <2>4, NoServices
  <1> QED BY <1>5, <1>6

LEMMA RoundTrip ==
    ASSUME NEW key \in EncryptionKeyPair, NEW ids \in SUBSET Endpoint,
           ~ IsError(LightDid(key, ids)),
           NEW f, NEW strict \in BOOLEAN, strict => f = Absent
    PROVE  LightDidFromUri([LightDidText(key, ids) EXCEPT !.fragment = f], strict)
               = LightDid(key, ids)
  <1> DEFINE encoded == SerializeAndEncode(key, Services(ids))
             uri == [type |-> "light", account |-> Subject,
                     encoding |-> EncodingFor(KeyType(Subject)),
                     encoded |-> encoded, fragment |-> f]
             parsed == ParseDidUri(uri)
  <1>1. [LightDidText(key, ids) EXCEPT !.fragment = f] = uri
    BY DEF LightDidText
  <1>2. KeyTypeForEncoding(uri.encoding) = KeyType(Subject) /\ KeyType(Subject) # Absent
    <2>1. "sr25519" # Absent /\ "ed25519" # Absent
      BY NoText
    <2>2. KeyType(Subject) \in {"sr25519", "ed25519"}
      BY LightDidIs
    <2>3. KeyTypeForEncoding(EncodingFor(KeyType(Subject))) = KeyType(Subject)
      <3>1. EncodingFor("sr25519") = "00" /\ EncodingFor("ed25519") = "01"
        BY DEF EncodingFor
      <3>2. KeyTypeForEncoding("00") = "sr25519" /\ KeyTypeForEncoding("01") = "ed25519"
        BY DEF KeyTypeForEncoding
      <3> QED BY <2>2, <3>1, <3>2
    <2> QED BY <2>1, <2>2, <2>3
  <1>3. /\ ~ IsError(parsed)
        /\ parsed.type = "light" /\ parsed.fragment = f /\ parsed.encoded = encoded
    BY DEF ParseDidUri, IsError
  <1>4. LightDidFromUri(uri, strict)
           = IF encoded = Absent THEN LightDidFromDetails(AuthenticationKey, Absent, <<>>)
             ELSE IF IsError(DecodeAndDeserialize(encoded)) THEN DecodeAndDeserialize(encoded)
             ELSE LightDidFromDetails(AuthenticationKey,
                      DecodeAndDeserialize(encoded).encryptionKey,
                      DecodeAndDeserialize(encoded).services)
    BY <1>2, <1>3 DEF LightDidFromUri, AuthenticationKey, KeyPair
  <1>5. CASE encoded = Absent
    BY <1>1, <1>4, <1>5, EncodedIsDecoded, NoServices DEF LightDid
  <1>6. CASE encoded # Absent
    <2>1. DecodeAndDeserialize(encoded) = [encryptionKey |-> key, services |-> Services(ids)]
      BY <1>6, EncodedIsDecoded
    <2>2. ~ IsError(DecodeAndDeserialize(encoded))
      BY <2>1 DEF IsError
    <2> QED BY <1>1, <1>4, <1>6, <2>1, <2>2 DEF LightDid
  <1> QED BY <1>5, <1>6

-----------------------------------------------------------------------------
(* What a full DID is.                                                      *)

KeyIds(record) ==
    {record.authenticationKey} \cup record.keyAgreementKeys
        \cup ({record.attestationKey, record.delegationKey} \ {Absent})

Serves(record) ==
    [r \in {"authentication", "keyAgreement"}
           \cup (IF record.attestationKey # Absent THEN {"assertionMethod"} ELSE {})
           \cup (IF record.delegationKey # Absent THEN {"capabilityDelegation"} ELSE {})
       |-> CASE r = "authentication" -> {record.authenticationKey}
             [] r = "keyAgreement" -> record.keyAgreementKeys
             [] r = "assertionMethod" -> {record.attestationKey}
             [] OTHER -> {record.delegationKey}]

FullDidRecord(record, services) ==
    [uri |-> SubjectUri, identifier |-> Subject,
     keys |-> [id \in KeyIds(record) |-> KeyPair(id)],
     relationships |-> Serves(record),
     endpoints |-> services]

IdentifiedKey(id) == [id |-> id, publicKey |-> id, type |-> KeyType(id)]

LEMMA FullDidIs ==
    ASSUME NEW record \in Record, NEW services, Subject \in Address
    PROVE  DetailsOfRecord(SubjectUri, record, services) = FullDidRecord(record, services)
  <1> DEFINE d == FullDidRecord(record, services)
  <1>1. DetailsOfRecord(SubjectUri, record, services) = CheckDidCreationDetails(d)
    BY DEF DetailsOfRecord, FullDidRecord, KeyPair, KeyIds, Serves, SubjectUri,
       GetKiltDidFromIdentifier
  <1>2. ~ IsError(ValidateKiltDidUri(d.uri, FALSE))
    BY DEF FullDidRecord, SubjectUri, GetKiltDidFromIdentifier, ValidateKiltDidUri, ParseDidUri,
       AccountOf, IsError
  <1>3. /\ "authentication" \in DOMAIN d.relationships
        /\ d.relationships["authentication"] = {record.authenticationKey}
        /\ DOMAIN d.relationships \subseteq KeyRelationship \cup {"none"}
    BY DEF FullDidRecord, Serves, KeyRelationship, VerificationRelationship
  <1>4. Cardinality(d.relationships["authentication"]) = 1
    BY <1>3, FS_Singleton
  <1>5. UNION {d.relationships[r] : r \in DOMAIN d.relationships} \subseteq DOMAIN d.keys
    <2>1. ASSUME NEW r \in DOMAIN d.relationships PROVE d.relationships[r] \subseteq KeyIds(record)
      BY DEF FullDidRecord, Serves, KeyIds
    <2>2. DOMAIN d.keys = KeyIds(record)
      BY DEF FullDidRecord
    <2> QED BY <2>1, <2>2
  <1> QED BY <1>1, <1>2, <1>3, <1>4, <1>5 DEF CheckDidCreationDetails

LEMMA FullDidKeys ==
    ASSUME NEW record \in Record, NEW services, Subject \in Address
    PROVE  LET d == DetailsOfRecord(SubjectUri, record, services)
           IN  /\ \A id : GetKey(d, id) = IF id \in KeyIds(record) THEN IdentifiedKey(id) ELSE Absent
               /\ \A r : GetKeysOf(d, r) = IF r \in DOMAIN Serves(record)
                                           THEN {IdentifiedKey(id) : id \in Serves(record)[r]} ELSE {}
  <1> DEFINE d == FullDidRecord(record, services)
  <1>1. d = DetailsOfRecord(SubjectUri, record, services)
    BY FullDidIs
  <1>2. ASSUME NEW id
        PROVE  GetKey(d, id) = IF id \in KeyIds(record) THEN IdentifiedKey(id) ELSE Absent
    BY DEF FullDidRecord, GetKey, KeyPair, IdentifiedKey
  <1>3. ASSUME NEW r \in DOMAIN Serves(record)
        PROVE  Serves(record)[r] \subseteq KeyIds(record)
    BY DEF Serves, KeyIds
  <1>4. ASSUME NEW r
        PROVE  GetKeysOf(d, r) = IF r \in DOMAIN Serves(record)
                                 THEN {IdentifiedKey(id) : id \in Serves(record)[r]} ELSE {}
    <2>1. d.relationships = Serves(record)
      BY DEF FullDidRecord
    <2>2. CASE r \in DOMAIN Serves(record)
      <3>1. \A id \in Serves(record)[r] : GetKey(d, id) = IdentifiedKey(id)
        BY <1>2, <1>3, <2>2
      <3> HIDE DEF d
      <3> QED BY <2>1, <2>2, <3>1 DEF GetKeysOf
    <2>3. CASE r \notin DOMAIN Serves(record)
      BY <2>1, <2>3 DEF GetKeysOf
    <2> QED BY <2>2, <2>3
  <1> QED BY <1>1, <1>2, <1>4

-----------------------------------------------------------------------------
(* What is asked about: the light DID, which never changes, under one of    *)
(* its names.                                                               *)

LightOK ==
    \E key \in EncryptionKeyPair, ids \in SUBSET Endpoint :
        light = LightDid(key, ids) /\ ~ IsError(light)

LEMMA LightIs ==
    ASSUME LightOK
    PROVE  /\ FullUri = SubjectUri
           /\ Subject \in Address
           /\ light.identifier = Subject
           /\ light.uri.type = "light" /\ light.uri.account = Subject
           /\ light.uri.fragment = Absent
           /\ \A f : LightDidFromUri(WithFragment(light.uri, f), FALSE) = light
           /\ LightDidFromUri(light.uri, FALSE) = light
           /\ LightDidFromUri(light.uri, TRUE) = light
           /\ ~ IsError(light)
           /\ Absent # light
           /\ Absent # Document(light, Absent, FALSE)
  <1>1. PICK key \in EncryptionKeyPair, ids \in SUBSET Endpoint :
           light = LightDid(key, ids) /\ ~ IsError(LightDid(key, ids))
    BY DEF LightOK
  <1>2. light = LightDidRecord(key, ids) /\ Subject \in Address
    BY <1>1, LightDidIs
  <1>3. light.uri = LightDidText(key, ids) /\ light.identifier = Subject
    BY <1>2 DEF LightDidRecord
  <1>4. FullUri = SubjectUri
    BY <1>3 DEF FullUri, SubjectUri
  <1>5. \A f : LightDidFromUri(WithFragment(light.uri, f), FALSE) = light
    BY <1>1, <1>3, RoundTrip DEF WithFragment
  <1>6. LightDidText(key, ids) = [LightDidText(key, ids) EXCEPT !.fragment = Absent]
    BY DEF LightDidText
  <1>7. LightDidFromUri(light.uri, FALSE) = light /\ LightDidFromUri(light.uri, TRUE) = light
    <2>1. \A strict \in BOOLEAN :
             LightDidFromUri([LightDidText(key, ids) EXCEPT !.fragment = Absent], strict)
                 = LightDid(key, ids)
      BY <1>1, RoundTrip
    <2> QED BY <1>1, <1>3, <1>6, <2>1
  <1>8. Absent # light /\ Absent # Document(light, Absent, FALSE)
    BY <1>1, AbsentAssumption DEF EncryptionKeyPair
  <1>9. /\ light.uri.type = "light" /\ light.uri.account = Subject
        /\ light.uri.fragment = Absent
    BY <1>3 DEF LightDidText
  <1> QED BY <1>1, <1>2, <1>3, <1>4, <1>5, <1>7, <1>8, <1>9

(* A light DID has a key for authentication, perhaps one for encryption,    *)
(* and none to attest or delegate with.                                     *)
LEMMA LightKeys ==
    ASSUME LightOK
    PROVE  /\ GetKey(light, "authentication")
                 = [id |-> "authentication", publicKey |-> Subject, type |-> KeyType(Subject)]
           /\ GetKey(light, "authentication") # Absent
           /\ Subject # "authentication" => GetKey(light, Subject) = Absent
           /\ GetKeysOf(light, "assertionMethod") = {}
  <1>1. PICK key \in EncryptionKeyPair, ids \in SUBSET Endpoint :
           light = LightDid(key, ids) /\ ~ IsError(LightDid(key, ids))
    BY DEF LightOK
  <1>2. light = LightDidRecord(key, ids)
    BY <1>1, LightDidIs
  <1>3. Subject # "encryption"
    BY LifeAssumption
  <1>4. GetKey(light, "authentication")
            = [id |-> "authentication", publicKey |-> Subject, type |-> KeyType(Subject)]
    BY <1>2 DEF LightDidRecord, GetKey, AuthenticationKey, KeyPair
  <1>5. Subject # "authentication" => GetKey(light, Subject) = Absent
    BY <1>2, <1>3 DEF LightDidRecord, GetKey
  <1>6. GetKeysOf(light, "assertionMethod") = {}
    BY <1>2 DEF LightDidRecord, GetKeysOf
  <1> QED BY <1>4, <1>5, <1>6, AbsentAssumption

DocumentOps ==
    {"resolveDoc", "resolve", "resolveKey", "resolveServiceEndpoint", "verify", "migrate"}
Asked == Questions \cup {Asks("migrate", FullUri)}

UriOK(uri) ==
    /\ uri.type \in {"full", "light"}
    /\ AccountOf(uri) = Subject
    /\ uri.type = "light" =>
          LightDidFromUri(uri, FALSE) = light \/ IsError(LightDidFromUri(uri, FALSE))

LEMMA UrisOK ==
    ASSUME LightOK
    PROVE  /\ \A uri \in {FullUri, light.uri} :
                 UriOK(uri) /\ \A f : UriOK(WithFragment(uri, f)) /\ WithFragment(uri, f).fragment = f
           /\ UriOK([light.uri EXCEPT !.encoded = UnknownEncoding])
  <1>1. PICK key \in EncryptionKeyPair, ids \in SUBSET Endpoint :
           light = LightDid(key, ids) /\ ~ IsError(LightDid(key, ids))
    BY DEF LightOK
  <1>2. light.uri = LightDidText(key, ids)
    <2>1. light = LightDidRecord(key, ids)
      BY <1>1, LightDidIs
    <2> QED BY <2>1 DEF LightDidRecord
  <1>3. ASSUME NEW uri, uri.type \in {"full", "light"}, uri.account = Subject
        PROVE  AccountOf(uri) = Subject
    BY <1>3 DEF AccountOf, ParseDidUri, LightIdentifier
  <1>4. ASSUME NEW f
        PROVE  /\ UriOK(WithFragment(FullUri, f)) /\ WithFragment(FullUri, f).fragment = f
               /\ UriOK(FullUri)
    <2>0. FullUri = [type |-> "full", account |-> Subject, encoding |-> Absent,
                     encoded |-> Absent, fragment |-> Absent]
      BY LightIs DEF SubjectUri, GetKiltDidFromIdentifier
    <2>1. /\ WithFragment(FullUri, f).type = "full"
          /\ WithFragment(FullUri, f).account = Subject
          /\ WithFragment(FullUri, f).fragment = f
          /\ FullUri.type = "full" /\ FullUri.account = Subject
      BY <2>0 DEF WithFragment
    <2> QED BY <1>3, <2>1 DEF UriOK
  <1>5. ASSUME NEW f
        PROVE  /\ UriOK(WithFragment(light.uri, f)) /\ WithFragment(light.uri, f).fragment = f
               /\ UriOK(light.uri)
    <2>1. /\ WithFragment(light.uri, f).type = "light"
          /\ WithFragment(light.uri, f).account = Subject
          /\ WithFragment(light.uri, f).fragment = f
          /\ light.uri.type = "light" /\ light.uri.account = Subject
      BY <1>2 DEF WithFragment, LightDidText
    <2>2. /\ AccountOf(WithFragment(light.uri, f)) = Subject
          /\ AccountOf(light.uri) = Subject
      BY <1>3, <2>1
    <2>3. /\ LightDidFromUri(WithFragment(light.uri, f), FALSE) = light
          /\ LightDidFromUri(light.uri, FALSE) = light
      BY LightIs
    <2> QED BY <2>1, <2>2, <2>3 DEF UriOK
  <1>6. UriOK([light.uri EXCEPT !.encoded = UnknownEncoding])
    <2> DEFINE uri == [type |-> "light", account |-> Subject,
                       encoding |-> EncodingFor(KeyType(Subject)),
                       encoded |-> UnknownEncoding, fragment |-> Absent]
               parsed == ParseDidUri(uri)
    <2>1. [light.uri EXCEPT !.encoded = UnknownEncoding] = uri
      BY <1>2 DEF LightDidText
    <2>2. parsed.encoded = UnknownEncoding /\ UnknownEncoding # Absent
      <3>1. parsed.encoded = UnknownEncoding
        BY DEF ParseDidUri
      <3> HIDE DEF parsed
      <3>2. UnknownEncoding # Absent
        BY AbsentAssumption
      <3> QED BY <3>1, <3>2
    <2>3. IsError(DecodeAndDeserialize(parsed.encoded))
      <3>1. DecodeAndDeserialize(UnknownEncoding) = Error("ERROR_DID_ERROR")
        BY DEF DecodeAndDeserialize, UnknownEncoding
      <3> HIDE DEF parsed
      <3> QED BY <2>2, <3>1, Errors
    <2> HIDE DEF parsed
    <2>4. IsError(LightDidFromUri(uri, FALSE))
      BY <2>2, <2>3, Errors DEF LightDidFromUri, parsed
    <2>5. uri.type = "light" /\ AccountOf(uri) = Subject
      BY <1>3
    <2> HIDE DEF uri
    <2> QED BY <2>1, <2>4, <2>5 DEF UriOK
  <1> QED BY <1>4, <1>5, <1>6

LEMMA AskedIs ==
    ASSUME LightOK, NEW q \in Asked
    PROVE  /\ UriOK(q.uri)
           /\ q.op \in DocumentOps \cup {"queryWeb3Name", "delete", "authorizeLink"}
           /\ q.op = "migrate" => q.uri = SubjectUri
           /\ q.op = "authorizeLink" => q.typed \in BOOLEAN
           /\ q.op = "verify" => /\ q.uri.fragment \in {Subject, "authentication", Absent}
                                 /\ q.by \in VerificationKey
                                 /\ q.expected \in {Absent, "assertionMethod"}
  <1> USE UrisOK DEF Asks, DocumentOps
  <1>1. CASE q = Asks("migrate", FullUri)
    BY <1>1, LightIs
  <1>2. CASE q \in {Asks("resolveDoc", uri) :
                    uri \in {FullUri, light.uri, [light.uri EXCEPT !.encoded = UnknownEncoding]}}
    BY <1>2
  <1>3. CASE q \in {Asks(op, uri) : op \in {"resolve", "resolveKey", "resolveServiceEndpoint"},
                                   uri \in Uris}
    BY <1>3 DEF Uris
  <1>4. CASE q \in {[op |-> "verify", uri |-> WithFragment(uri, f), by |-> k, expected |-> r] :
                       uri \in {FullUri, light.uri}, f \in {Subject, "authentication", Absent},
                       k \in VerificationKey, r \in {Absent, "assertionMethod"}}
    BY <1>4
  <1>5. CASE q \in {Asks(op, FullUri) : op \in {"queryWeb3Name", "delete"}}
    BY <1>5
  <1>6. CASE q \in {[op |-> "authorizeLink", uri |-> FullUri, did |-> d, signedFor |-> e,
                     typed |-> t] : d \in OtherDid, e \in OtherDid, t \in BOOLEAN}
    BY <1>6
  <1> QED BY <1>1, <1>2, <1>3, <1>4, <1>5, <1>6 DEF Asked, Questions

(* The first query of a call is one its question calls for.                 *)
LEMMA FirstQueries ==
    ASSUME LightOK, NEW q \in Asked
    PROVE  \/ FirstQuery(q) = "link" /\ q.op = "queryWeb3Name"
           \/ FirstQuery(q) = "count" /\ q.op = "delete"
           \/ FirstQuery(q) = "block" /\ q.op = "authorizeLink"
           \/ FirstQuery(q) = "refused" /\ q.op = "verify" /\ q.uri.fragment = Absent
           \/ FirstQuery(q) = "error" /\ q.op # "authorizeLink"
           \/ /\ FirstQuery(q) = "key" /\ q.uri.type = "full"
              /\ q.op \in {"resolve", "resolveKey"}
           \/ /\ FirstQuery(q) = "endpoint" /\ q.uri.type = "full"
              /\ q.op = "resolveServiceEndpoint"
           \/ /\ FirstQuery(q) = "details" /\ q.op \in DocumentOps
              /\ q.op = "resolveKey" => q.uri.type = "light"
              /\ q.uri.type = "light" => LightDidFromUri(q.uri, FALSE) = light
  <1>1. /\ UriOK(q.uri)
        /\ q.op \in DocumentOps \cup {"queryWeb3Name", "delete", "authorizeLink"}
    BY AskedIs
  <1>2. CASE q.op \in {"queryWeb3Name", "delete", "authorizeLink"}
    BY <1>2 DEF FirstQuery
  <1>3. CASE q.op \in DocumentOps
    <2>1. FirstQuery(q) =
            IF q.uri.fragment = Absent /\ q.op = "verify" THEN "refused"
            ELSE IF q.uri.fragment = Absent /\ q.op \in {"resolveKey", "resolveServiceEndpoint"}
            THEN "error"
            ELSE IF q.uri.type = "light"
            THEN IF IsError(LightDidFromUri(q.uri, FALSE)) THEN "error" ELSE "details"
            ELSE IF ByKey(q) THEN "key"
            ELSE IF q.op = "resolveServiceEndpoint" THEN "endpoint" ELSE "details"
      BY <1>3 DEF FirstQuery, DocumentOps
    <2> QED BY <1>1, <1>3, <2>1 DEF ByKey, UriOK, DocumentOps
  <1> QED BY <1>1, <1>2, <1>3

-----------------------------------------------------------------------------
(* The invariant. What the chain holds of the DID is well formed, and until *)
(* somebody changes it, what the creation brought.                          *)

RecordOf(d) ==
    [authenticationKey |-> Subject, keyAgreementKeys |-> d.keyAgreementKeys,
     attestationKey |-> d.assertionKey, delegationKey |-> d.delegationKey]

MomentOK(m) ==
    /\ m.did \in Record \cup {Absent}
    /\ m.endpoints \in SUBSET Endpoint /\ IsFiniteSet(m.endpoints)
    /\ m.deleted => m.did = Absent

ChainOK ==
    /\ MomentOK(Moment)
    /\ untouched /\ did # Absent =>
          \E c \in Caller : /\ stage[c] = "created"
                            /\ did = RecordOf(details[c])
                            /\ endpoints = details[c].serviceEndpoints

(* A call has seen the present, and nothing that was deleted came back.     *)
SeenOK ==
    /\ \A m \in seen : MomentOK(m) /\ (m.deleted => deleted)
    /\ Reading => Moment \in seen

AskingOK ==
    /\ call # Idle => /\ call = [q |-> call.q, read |-> call.read, pc |-> call.pc,
                                 answer |-> call.answer]
                      /\ call.q \in Asked
    /\ call.pc \in {"details", "endpoints", "deleted"} =>
          /\ call.q.op \in DocumentOps
          /\ call.q.op = "resolveKey" => call.q.uri.type = "light"
          /\ call.q.uri.type = "light" => LightDidFromUri(call.q.uri, FALSE) = light
    /\ call.pc = "key" => call.q.uri.type = "full" /\ call.q.op \in {"resolve", "resolveKey"}
    /\ call.pc = "endpoint" => call.q.op = "resolveServiceEndpoint"
    /\ call.pc \in {"link", "name"} => call.q.op = "queryWeb3Name"
    /\ call.pc \in {"count", "delete"} => call.q.op = "delete"
    /\ call.pc \in {"block", "signing"} => call.q.op = "authorizeLink"

(* What a call has read was so at some moment of it, and is so still for a  *)
(* DID that nobody touched.                                                 *)
ReadOK ==
    /\ call.pc = "endpoints" =>
          /\ call.q.uri.type = "full" /\ call.read # Absent
          /\ \E m \in seen : m.did = call.read
          /\ untouched => did = call.read
    /\ call.pc = "deleted" => call.q.op # "migrate" /\ \E m \in seen : m.did = Absent
    /\ call.pc = "name" => \E m \in seen : m.linked # Absent /\ m.linked = call.read
    /\ call.pc = "delete" => \E m \in seen : Cardinality(m.endpoints) = call.read
    /\ call.pc = "signing" => call.read \in Nat

(* The document of a record and services, which may be of two moments.      *)
FullDocument(record, ids) ==
    Document(DetailsOfRecord(SubjectUri, record, Services(ids)), Absent, FALSE)

DocumentOf(m, n, uri) ==
    IF m.did # Absent
    THEN IF uri.type = "full" THEN FullDocument(m.did, n.endpoints)
         ELSE Document(light, SubjectUri, FALSE)
    ELSE IF m.deleted THEN Document(Absent, Absent, TRUE)
    ELSE IF uri.type = "full" THEN Absent ELSE Document(light, Absent, FALSE)

Understood(uri) == uri.type = "light" => LightDidFromUri(uri, FALSE) = light

AnswerOK ==
    /\ \A op \in {"resolveDoc", "verify"} :
          Answered(op) =>
              \E m, n \in seen : Answer = AnswerFrom(call.q, DocumentOf(m, n, call.q.uri))
    /\ Answered("resolveDoc") => Understood(call.q.uri)
    /\ Answered("resolveKey") /\ call.q.uri.type = "full" =>
          \E m \in seen : Answer = KeyAt(m.did, call.q.uri.fragment)
    /\ Answered("delete") /\ Answer = "refused" =>
          \E m, n \in seen :
              n.did = Absent \/ Cardinality(n.endpoints) > Cardinality(m.endpoints)
    /\ Answered("migrate") /\ untouched =>
          did # Absent /\ Answer = FullDocument(did, endpoints)
    /\ LinksOfAMoment

LifeInv ==
    /\ CreationInv /\ IsFiniteSet(newServiceEndpoints)
    /\ LightOK
    /\ ChainOK /\ SeenOK
    /\ AskingOK /\ ReadOK /\ AnswerOK

-----------------------------------------------------------------------------
(* The invariant holds when nobody has asked yet.                           *)

LEMMA FiniteStep ==
    IsFiniteSet(newServiceEndpoints) /\ [Next]_vars => IsFiniteSet(newServiceEndpoints')
  <1> SUFFICES ASSUME IsFiniteSet(newServiceEndpoints), [Next]_vars
               PROVE  IsFiniteSet(newServiceEndpoints')
    OBVIOUS
  <1>1. \/ newServiceEndpoints' = newServiceEndpoints
        \/ \E endpoint : newServiceEndpoints' = newServiceEndpoints \union {endpoint}
    BY DEF Next, vars, marks, AddEncryptionKey, AddServiceEndpoint, SetAttestationKey,
       SetDelegationKey, MarkEncryptionKey, MarkServiceEndpoint, MarkAttestationKey,
       MarkDelegationKey, Build, SignerAnswers
  <1> QED BY <1>1, FS_AddElement

LEMMA LifeInvInit == LifeInit => LifeInv
  <1> SUFFICES ASSUME LifeInit PROVE LifeInv
    OBVIOUS
  <1> USE DEF LifeInit
  <1>1. CreationInv /\ IsFiniteSet(newServiceEndpoints)
    BY CreationInvInit DEF Init
  <1>2. LightOK
    <2> DEFINE key == CHOOSE k \in newKeyAgreementKeys : TRUE
    <2>1. newServiceEndpoints \in SUBSET Endpoint /\ newKeyAgreementKeys \subseteq EncryptionKey
      BY <1>1 DEF CreationInv, TypeOK, MarksOK
    <2>2. newKeyAgreementKeys # {} => key \in EncryptionKey
      BY <2>1
    <2>3. (IF newKeyAgreementKeys = {} THEN Absent ELSE KeyPair(key)) \in EncryptionKeyPair
      BY <2>2 DEF EncryptionKeyPair
    <2> QED BY <2>1, <2>3 DEF LightOK
  <1>3. ChainOK
    BY FS_EmptySet DEF ChainOK, MomentOK, Moment
  <1>4. call.pc = "idle"
    BY DEF Idle
  <1>5. SeenOK /\ AskingOK /\ ReadOK
    BY <1>4 DEF SeenOK, Reading, AskingOK, ReadOK
  <1>6. AnswerOK
    BY <1>4 DEF AnswerOK, Answered, LinksOfAMoment
  <1> QED BY <1>1, <1>2, <1>3, <1>5, <1>6 DEF LifeInv

(* What is asked about is what it was.                                      *)
LEMMA LightKeeps ==
    ASSUME UNCHANGED light
    PROVE  LightOK' = LightOK /\ Asked' = Asked /\ FullUri' = FullUri
  <1>1. FullUri' = FullUri
    BY DEF FullUri
  <1>2. LightOK' = LightOK
    BY DEF LightOK
  <1>3. Questions' = Questions
    BY <1>1 DEF Questions, Uris
  <1> QED BY <1>1, <1>2, <1>3 DEF Asked

LEMMA CreationKeeps ==
    ASSUME CreationInv, IsFiniteSet(newServiceEndpoints), UNCHANGED vars
    PROVE  CreationInv' /\ IsFiniteSet(newServiceEndpoints')
  BY CreationStep, FiniteStep

(* The builder goes on before anybody asks, and the DID is not on the chain.*)
LEMMA BuildStep == LifeInv /\ BuildOn => LifeInv'
  <1> SUFFICES ASSUME LifeInv, BuildOn PROVE LifeInv'
    OBVIOUS
  <1>1. Next /\ UNCHANGED <<light, chain, call, seen>> /\ call = Idle /\ did = Absent
    BY DEF BuildOn, Next
  <1>2. CreationInv' /\ IsFiniteSet(newServiceEndpoints)'
    BY <1>1, CreationStep, FiniteStep DEF LifeInv
  <1>3. LightOK' /\ call'.pc = "idle" /\ call' = Idle
    BY <1>1, LightKeeps DEF LifeInv, Idle
  <1>4. ChainOK'
    BY <1>1 DEF LifeInv, ChainOK, MomentOK, Moment, chain
  <1>5. SeenOK' /\ AskingOK' /\ ReadOK'
    BY <1>1, <1>3 DEF LifeInv, SeenOK, Reading, AskingOK, ReadOK, chain
  <1>6. AnswerOK'
    BY <1>3 DEF AnswerOK, Answered, LinksOfAMoment
  <1> QED BY <1>2, <1>3, <1>4, <1>5, <1>6 DEF LifeInv

-----------------------------------------------------------------------------
(* What the chain does while a call is on its way, or after it.             *)

LEMMA ChainKeeps ==
    ASSUME LifeInv, UNCHANGED <<vars, light, call>>, Observe, ChainOK',
           deleted => deleted',
           untouched' => untouched /\ (did = Absent \/ UNCHANGED <<did, endpoints>>)
    PROVE  LifeInv'
  <1> USE DEF LifeInv
  <1>1. CreationInv' /\ IsFiniteSet(newServiceEndpoints)' /\ LightOK' /\ Asked' = Asked
    BY CreationKeeps, LightKeeps
  <1>2. Reading' = Reading
    BY DEF Reading
  <1>3. SeenOK'
    <2>1. ASSUME NEW m \in seen PROVE MomentOK(m)' /\ (m.deleted => deleted')
      BY DEF SeenOK, MomentOK
    <2>2. MomentOK(Moment)' /\ (Moment'.deleted => deleted')
      BY DEF ChainOK, Moment
    <2> HIDE DEF LifeInv
    <2>3. \A m \in seen' : m \in seen \/ m = Moment'
      BY DEF Observe
    <2>4. \A m \in seen' : MomentOK(m)' /\ (m.deleted => deleted')
      BY <2>1, <2>2, <2>3 DEF MomentOK
    <2>5. Reading' => Moment' \in seen'
      BY <1>2 DEF Observe
    <2> QED BY <2>4, <2>5 DEF SeenOK
  <1>4. AskingOK'
    BY <1>1 DEF AskingOK
  <1>5. seen \subseteq seen' /\ (call.pc = "done" => seen' = seen)
    BY DEF Observe, Reading
  <1>6. ReadOK'
    BY <1>5 DEF ReadOK
  <1>7. AnswerOK'
    <2>1. CASE call.pc # "done"
      BY <2>1 DEF AnswerOK, Answered, LinksOfAMoment
    <2>2. CASE call.pc = "done"
      <3>1. seen' = seen /\ call' = call /\ light' = light
        BY <1>5, <2>2
      <3>2. /\ Answer' = Answer
            /\ \A op : Answered(op)' = Answered(op)
        BY <3>1 DEF Answer, Answered
      <3>3. \A m, n, uri : DocumentOf(m, n, uri)' = DocumentOf(m, n, uri)
        BY <3>1 DEF DocumentOf
      <3>4. \A m, id : KeyAt(m, id)' = KeyAt(m, id)
        BY <3>1 DEF KeyAt, FullUri
      <3>5. LinksOfAMoment'
        BY <3>1, <3>2 DEF AnswerOK, LinksOfAMoment
      <3>6. \A uri : Understood(uri)' = Understood(uri)
        BY <3>1 DEF Understood
      <3> QED BY <3>1, <3>2, <3>3, <3>4, <3>5, <3>6 DEF AnswerOK
    <2> QED BY <2>1, <2>2
  <1> QED BY <1>1, <1>3, <1>4, <1>6, <1>7

LEMMA CreationStepOK ==
    ASSUME LifeInv, NEW c \in Caller, CreationExecutes(c)
    PROVE  LifeInv'
  <1> USE DEF CreationExecutes
  <1>1. /\ details[c] = CreationDetails /\ CreationDetails \in Details
        /\ IsFiniteSet(details[c].serviceEndpoints)
    BY DetailsTyped DEF LifeInv, CreationInv, TypeOK, CreationDetails
  <1>2. did' \in Record /\ did' = RecordOf(details[c])'
    BY <1>1, LifeAssumption DEF Details, Record, RecordOf, vars
  <1>3. endpoints' \in SUBSET Endpoint /\ IsFiniteSet(endpoints')
    BY <1>1 DEF Details
  <1>4. ChainOK'
    BY <1>2, <1>3 DEF ChainOK, MomentOK, Moment, vars
  <1> QED BY <1>4, ChainKeeps

(* The chain keeps a record a record, whatever extrinsic it takes.          *)
LEMMA ExtrinsicKeeps ==
    ASSUME did \in Record, NEW tx \in Extrinsics, ~ IsError(tx)
    PROVE  /\ AfterExtrinsic(tx) \in Record
           /\ tx.call = "addEndpoint" => tx.endpoint \in Endpoint
  <1>0. \A r \in KeyRelationship : r \in {"authentication", "assertionMethod",
                                          "capabilityDelegation", "keyAgreement"}
    BY DEF KeyRelationship, VerificationRelationship
  <1>1. ASSUME NEW r \in KeyRelationship, NEW k \in VerificationKey, tx = SetKeyExtrinsic(r, k)
        PROVE  AfterExtrinsic(tx) \in Record /\ tx.call # "addEndpoint"
    <2>1. tx = [call |-> "setKey", relationship |-> r, key |-> k] /\ r # "keyAgreement"
      BY <1>1, Errors DEF SetKeyExtrinsic
    <2>2. AfterExtrinsic(tx) = [did EXCEPT ![FieldOf(r)] = k]
      BY <2>1 DEF AfterExtrinsic
    <2>3. FieldOf(r) \in {"authenticationKey", "attestationKey", "delegationKey"}
      BY <1>0, <2>1 DEF FieldOf
    <2> QED BY <2>1, <2>2, <2>3 DEF Record
  <1>2. ASSUME NEW r \in KeyRelationship, NEW k \in EncryptionKey, tx = RemoveKeyExtrinsic(r, k)
        PROVE  AfterExtrinsic(tx) \in Record /\ tx.call # "addEndpoint"
    <2>1. tx = [call |-> "removeKey", relationship |-> r, key |-> k] /\ r # "authentication"
      BY <1>2, Errors DEF RemoveKeyExtrinsic
    <2>2. CASE r = "keyAgreement"
      <3>1. AfterExtrinsic(tx) = [did EXCEPT !.keyAgreementKeys = @ \ {k}]
        BY <2>1, <2>2 DEF AfterExtrinsic
      <3>2. did.keyAgreementKeys \ {k} \in SUBSET EncryptionKey
        BY DEF Record
      <3> QED BY <2>1, <3>1, <3>2 DEF Record
    <2>3. CASE r # "keyAgreement"
      <3>1. AfterExtrinsic(tx) = [did EXCEPT ![FieldOf(r)] = Absent]
        BY <2>1, <2>3 DEF AfterExtrinsic
      <3>2. FieldOf(r) \in {"attestationKey", "delegationKey"}
        BY <1>0, <2>1, <2>3 DEF FieldOf
      <3> QED BY <2>1, <3>1, <3>2 DEF Record
    <2> QED BY <2>2, <2>3
  <1>3. ASSUME NEW r \in KeyRelationship, NEW k \in EncryptionKey, tx = AddKeyExtrinsic(r, k)
        PROVE  AfterExtrinsic(tx) \in Record /\ tx.call # "addEndpoint"
    <2>1. tx = [call |-> "addKey", relationship |-> r, key |-> k]
      BY <1>3, Errors DEF AddKeyExtrinsic
    <2> QED BY <2>1 DEF AfterExtrinsic, Record
  <1>4. ASSUME NEW e \in Endpoint, tx = AddEndpointExtrinsic(e) \/ tx = RemoveEndpointExtrinsic(e)
        PROVE  /\ AfterExtrinsic(tx) \in Record
               /\ tx.call = "addEndpoint" => tx.endpoint \in Endpoint
    <2>1. \/ tx = [call |-> "addEndpoint", endpoint |-> e]
          \/ tx = [call |-> "removeEndpoint", endpoint |-> e]
      BY <1>4, Errors DEF AddEndpointExtrinsic, RemoveEndpointExtrinsic
    <2> QED BY <2>1 DEF AfterExtrinsic
  <1> QED BY <1>1, <1>2, <1>3, <1>4 DEF Extrinsics

LEMMA ChangeStepOK == LifeInv /\ DidChanges => LifeInv'
  <1> SUFFICES ASSUME LifeInv, DidChanges PROVE LifeInv'
    OBVIOUS
  <1>1. PICK tx \in Extrinsics :
           /\ ~ IsError(tx)
           /\ did' = AfterExtrinsic(tx)
           /\ endpoints' = CASE tx.call = "addEndpoint" -> endpoints \cup {tx.endpoint}
                             [] tx.call = "removeEndpoint" -> endpoints \ {tx.endpoint}
                             [] OTHER -> endpoints
    BY DEF DidChanges
  <1>2. /\ did \in Record /\ ~ deleted /\ endpoints \in SUBSET Endpoint /\ IsFiniteSet(endpoints)
    BY DEF DidChanges, LifeInv, ChainOK, MomentOK, Moment
  <1>3. did' \in Record /\ (tx.call = "addEndpoint" => tx.endpoint \in Endpoint)
    BY <1>1, <1>2, ExtrinsicKeeps
  <1>4. \/ endpoints' = endpoints
        \/ tx.endpoint \in Endpoint /\ endpoints' = endpoints \cup {tx.endpoint}
        \/ endpoints' = endpoints \ {tx.endpoint}
    BY <1>1, <1>3
  <1>5. endpoints' \in SUBSET Endpoint /\ IsFiniteSet(endpoints')
    BY <1>2, <1>4, FS_AddElement, FS_RemoveElement
  <1>6. UNCHANGED <<vars, light, call, deleted>> /\ Observe /\ untouched' = FALSE
    BY DEF DidChanges, Transaction
  <1>7. ChainOK'
    BY <1>2, <1>3, <1>5, <1>6 DEF ChainOK, MomentOK, Moment
  <1> QED BY <1>6, <1>7, ChainKeeps

LEMMA DeletedOK == DidDeleted => ChainOK' /\ deleted' /\ untouched' = FALSE
  BY FS_EmptySet DEF DidDeleted, ChainOK, MomentOK, Moment

LEMMA OtherStepsOK ==
    ASSUME LifeInv, SomebodyDeletes \/ LinkChanges \/ NameChanges
    PROVE  LifeInv'
  <1>1. UNCHANGED <<vars, light, call>> /\ Observe
    BY DEF SomebodyDeletes, LinkChanges, NameChanges, Transaction
  <1>2. CASE SomebodyDeletes
    BY <1>1, <1>2, DeletedOK, ChainKeeps DEF SomebodyDeletes
  <1>3. CASE LinkChanges \/ NameChanges
    <2>1. UNCHANGED <<did, endpoints, deleted, untouched, stage, details>>
      BY <1>1, <1>3 DEF LinkChanges, NameChanges, vars
    <2>2. ChainOK'
      BY <2>1 DEF LifeInv, ChainOK, MomentOK, Moment, RecordOf
    <2> QED BY <1>1, <2>1, <2>2, ChainKeeps
  <1> QED BY <1>2, <1>3

-----------------------------------------------------------------------------
(* What a step of a call does to it.                                        *)

LEMMA CallKeeps ==
    ASSUME LifeInv, UNCHANGED <<vars, light, chain, seen>>, Reading,
           AskingOK', ReadOK', AnswerOK'
    PROVE  LifeInv'
  <1>1. CreationInv' /\ IsFiniteSet(newServiceEndpoints)' /\ LightOK'
    BY CreationKeeps, LightKeeps DEF LifeInv
  <1>2. ChainOK' /\ Moment' = Moment
    BY DEF LifeInv, ChainOK, MomentOK, Moment, chain, vars, RecordOf
  <1>3. SeenOK'
    BY <1>2 DEF LifeInv, SeenOK, MomentOK, chain
  <1> QED BY <1>1, <1>2, <1>3 DEF LifeInv

LEMMA CallIs ==
    ASSUME LifeInv, Reading
    PROVE  /\ call = [q |-> call.q, read |-> call.read, pc |-> call.pc, answer |-> call.answer]
           /\ call.q \in Asked /\ LightOK
           /\ Moment \in seen
  BY DEF LifeInv, AskingOK, SeenOK, Reading, Idle

LEMMA GoesOn ==
    ASSUME LifeInv, UNCHANGED <<vars, light, chain, seen>>, Reading,
           NEW value, NEW next, Fetched(value, next), next # "done",
           call' = [q |-> call.q, read |-> value, pc |-> next, answer |-> call.answer] =>
               AskingOK' /\ ReadOK'
    PROVE  LifeInv'
  <1>1. call' = [q |-> call.q, read |-> value, pc |-> next, answer |-> call.answer]
    BY CallIs DEF Fetched
  <1>2. AnswerOK'
    BY <1>1 DEF AnswerOK, Answered, LinksOfAMoment
  <1> QED BY <1>1, <1>2, CallKeeps

LEMMA Ends ==
    ASSUME LifeInv, Reading, NEW answer,
           call' = [call EXCEPT !.pc = "done", !.answer = answer], UNCHANGED light
    PROVE  /\ call' = [q |-> call.q, read |-> call.read, pc |-> "done", answer |-> answer]
           /\ AskingOK' /\ ReadOK'
  <1>1. call' = [q |-> call.q, read |-> call.read, pc |-> "done", answer |-> answer]
    BY CallIs
  <1>2. Asked' = Asked
    BY LightKeeps
  <1> QED BY <1>1, <1>2, CallIs DEF AskingOK, ReadOK

LEMMA EndsWithError ==
    ASSUME LifeInv, UNCHANGED <<vars, light, chain, seen>>, Reading,
           NEW code, Throws(code), call.q.op # "authorizeLink"
    PROVE  LifeInv'
  <1>1. /\ call' = [q |-> call.q, read |-> call.read, pc |-> "done", answer |-> Error(code)]
        /\ AskingOK' /\ ReadOK'
    BY Ends DEF Throws
  <1>2. \A op : ~ Answered(op)'
    BY <1>1, Errors DEF Answered
  <1>3. AnswerOK'
    BY <1>1, <1>2 DEF AnswerOK, LinksOfAMoment
  <1> QED BY <1>1, <1>3, CallKeeps

LEMMA AnswersIs ==
    ASSUME LifeInv, Reading, NEW value, Answers(value), UNCHANGED light
    PROVE  /\ call' = [q |-> call.q, read |-> call.read, pc |-> "done",
                       answer |-> [is |-> value]]
           /\ Answer' = value
           /\ \A op : Answered(op)' <=> call.q.op = op
           /\ ~ IsError(call'.answer)
           /\ AskingOK' /\ ReadOK'
  <1>1. /\ call' = [q |-> call.q, read |-> call.read, pc |-> "done", answer |-> [is |-> value]]
        /\ AskingOK' /\ ReadOK'
    BY Ends DEF Answers
  <1>2. ~ IsError(call'.answer) /\ Answer' = value
    BY <1>1, Errors DEF Answer
  <1> QED BY <1>1, <1>2 DEF Answered

(* A call ends with what it makes of a document.                            *)
LEMMA EndsWithDocument ==
    ASSUME LifeInv, UNCHANGED <<vars, light, chain, seen>>,
           call.pc \in {"details", "endpoints", "deleted"},
           NEW doc, AnswersWith(doc),
           NEW m \in seen, NEW n \in seen, doc = DocumentOf(m, n, call.q.uri),
           call.q.op = "migrate" /\ untouched =>
               did # Absent /\ doc = FullDocument(did, endpoints)
    PROVE  LifeInv'
  <1>1. Reading
    BY DEF Reading
  <1>2. /\ call'.q = call.q
        /\ Answer' = AnswerFrom(call.q, doc)
        /\ \A op : Answered(op)' <=> call.q.op = op
        /\ ~ IsError(call'.answer)
        /\ AskingOK' /\ ReadOK'
    BY <1>1, AnswersIs DEF AnswersWith
  <1>3. call.q.op \in DocumentOps /\ (call.q.op = "resolveKey" => call.q.uri.type = "light")
    BY DEF LifeInv, AskingOK
  <1>4. UriOK(call.q.uri)
    BY <1>1, CallIs, AskedIs
  <1>5. call.q.op = "migrate" => AnswerFrom(call.q, doc) = doc
    BY DEF AnswerFrom, ByKey
  <1>6. /\ DocumentOf(m, n, call.q.uri)' = DocumentOf(m, n, call.q.uri)
        /\ AnswerFrom(call.q, doc)' = AnswerFrom(call.q, doc)
    BY <1>2 DEF DocumentOf, AnswerFrom, ByKey
  <1>7. LinksOfAMoment'
    BY <1>2, <1>3 DEF LinksOfAMoment, DocumentOps
  <1>8. AnswerOK'
    <2>1. ASSUME NEW op \in {"resolveDoc", "verify"}, Answered(op)'
          PROVE  \E a, b \in seen' :
                     Answer' = AnswerFrom(call.q, DocumentOf(a, b, call.q.uri))'
      BY <1>2, <1>6
    <2>2. ~ (Answered("resolveKey")' /\ call'.q.uri.type = "full")
      BY <1>2, <1>3
    <2>5. Understood(call.q.uri)'
      BY <1>2 DEF LifeInv, AskingOK, Understood
    <2>3. ~ Answered("delete")'
      BY <1>2, <1>3 DEF DocumentOps
    <2>4. Answered("migrate")' /\ untouched' =>
              did' # Absent /\ Answer' = FullDocument(did, endpoints)'
      BY <1>2, <1>5 DEF chain, FullDocument
    <2> QED BY <1>2, <1>7, <2>1, <2>2, <2>3, <2>4, <2>5 DEF AnswerOK
  <1> QED BY <1>1, <1>2, <1>8, CallKeeps

-----------------------------------------------------------------------------
(* The steps of a call, one by one.                                         *)

LEMMA AskStep ==
    ASSUME LifeInv, NEW q \in Asked, Begin(q)
    PROVE  LifeInv'
  <1> USE DEF Begin
  <1>1. CreationInv' /\ IsFiniteSet(newServiceEndpoints)' /\ LightOK' /\ Asked' = Asked
    BY CreationKeeps, LightKeeps DEF LifeInv
  <1>2. ChainOK' /\ Moment' = Moment
    BY DEF LifeInv, ChainOK, MomentOK, Moment, chain, vars, RecordOf
  <1>3. seen' = {Moment'} /\ MomentOK(Moment') /\ (Moment'.deleted => deleted')
    BY <1>2 DEF ChainOK, MomentOK, Moment
  <1>4. SeenOK'
    BY <1>3 DEF SeenOK, MomentOK
  <1>5. /\ call'.q = q /\ LightOK /\ light' = light
        /\ call' = [q |-> q, read |-> Absent, pc |-> call'.pc, answer |-> call'.answer]
        /\ call'.pc = IF FirstQuery(q) \in {"error", "refused"} THEN "done" ELSE FirstQuery(q)
        /\ call'.answer = IF FirstQuery(q) = "error" THEN Error("ERROR_INVALID_DID_FORMAT")
                          ELSE [is |-> FALSE]
    BY DEF LifeInv
  <1>6. AskingOK'
    BY <1>1, <1>5, FirstQueries DEF AskingOK
  <1>7. ReadOK'
    BY <1>5, FirstQueries DEF ReadOK
  <1>8. AnswerOK'
    <2>1. CASE FirstQuery(q) \notin {"error", "refused"}
      <3>1. call'.pc # "done"
        BY <1>5, <2>1, FirstQueries
      <3> QED BY <3>1 DEF AnswerOK, Answered, LinksOfAMoment
    <2>2. CASE FirstQuery(q) = "error"
      <3>1. IsError(call'.answer) /\ call'.q.op # "authorizeLink"
        BY <1>5, <2>2, FirstQueries, Errors
      <3> QED BY <3>1 DEF AnswerOK, Answered, LinksOfAMoment
    <2>3. CASE FirstQuery(q) = "refused"
      <3>1. q.op = "verify" /\ q.uri.fragment = Absent /\ Answer' = FALSE
        BY <1>5, <2>3, FirstQueries DEF Answer
      <3>2. ASSUME NEW doc PROVE AnswerFrom(q, doc) = FALSE
        <4> DEFINE signature == [keyUri |-> q.uri, by |-> q.by, over |-> "message"]
        <4>1. AnswerFrom(q, doc) = VerifyDidSignature("message", signature, q.expected, doc)
          BY <3>1 DEF AnswerFrom, ByKey
        <4>2. ~ VerifyDidSignature("message", signature, q.expected, doc)
          BY <3>1 DEF VerifyDidSignature
        <4>3. VerifyDidSignature("message", signature, q.expected, doc) \in BOOLEAN
          BY DEF VerifyDidSignature
        <4> QED BY <4>1, <4>2, <4>3
      <3>3. AnswerFrom(call.q, DocumentOf(Moment, Moment, call.q.uri))' = FALSE
        BY <1>5, <3>2 DEF AnswerFrom, ByKey
      <3>4. ASSUME NEW op \in {"resolveDoc", "verify"}
            PROVE  \E m, n \in seen' :
                       Answer' = AnswerFrom(call.q, DocumentOf(m, n, call.q.uri))'
        BY <1>3, <3>1, <3>3
      <3>5. call'.q.op = "verify" /\ ~ IsError(call'.answer)
        BY <1>5, <2>3, <3>1, Errors
      <3> QED BY <3>4, <3>5 DEF AnswerOK, Answered, LinksOfAMoment
    <2> QED BY <2>1, <2>2, <2>3
  <1> QED BY <1>1, <1>2, <1>4, <1>6, <1>7, <1>8 DEF LifeInv

LEMMA DetailsStep == LifeInv /\ QueryDetails => LifeInv'
  <1> SUFFICES ASSUME LifeInv, QueryDetails PROVE LifeInv'
    OBVIOUS
  <1>1. /\ call.pc = "details" /\ UNCHANGED <<vars, light, chain, seen>> /\ Reading
    BY DEF QueryDetails, Step, Reading
  <1>2. /\ call.q.op \in DocumentOps
        /\ call.q.op = "resolveKey" => call.q.uri.type = "light"
        /\ call.q.uri.type = "light" => LightDidFromUri(call.q.uri, FALSE) = light
    BY <1>1 DEF LifeInv, AskingOK
  <1>3. Moment \in seen /\ UriOK(call.q.uri) /\ FullUri = SubjectUri /\ Asked' = Asked
        /\ call.q \in Asked
    BY <1>1, CallIs, AskedIs, LightIs, LightKeeps
  <1>4. call.q.op = "migrate" => call.q.uri.type = "full"
    BY <1>3, AskedIs, CallIs, <1>1 DEF SubjectUri, GetKiltDidFromIdentifier
  <1>5. CASE did = Absent /\ call.q.op = "migrate"
    BY <1>1, <1>5, EndsWithError DEF QueryDetails
  <1>6. CASE did = Absent /\ call.q.op # "migrate"
    <2>1. Fetched(Absent, "deleted")
      BY <1>6 DEF QueryDetails
    <2>2. ASSUME call' = [q |-> call.q, read |-> Absent, pc |-> "deleted", answer |-> call.answer]
          PROVE  AskingOK' /\ ReadOK'
      BY <1>1, <1>2, <1>3, <1>6, <2>2 DEF AskingOK, ReadOK, Moment
    <2> QED BY <1>1, <2>1, <2>2, GoesOn
  <1>7. CASE did # Absent /\ call.q.uri.type = "full"
    <2>1. Fetched(did, "endpoints")
      BY <1>7 DEF QueryDetails
    <2>2. ASSUME call' = [q |-> call.q, read |-> did, pc |-> "endpoints", answer |-> call.answer]
          PROVE  AskingOK' /\ ReadOK'
      BY <1>1, <1>2, <1>3, <1>7, <2>2 DEF AskingOK, ReadOK, Moment, chain
    <2> QED BY <1>1, <2>1, <2>2, GoesOn
  <1>8. CASE did # Absent /\ call.q.uri.type # "full"
    <2> DEFINE doc == Document(LightDidFromUri(call.q.uri, FALSE), FullUri, FALSE)
    <2>1. AnswersWith(doc)
      BY <1>8 DEF QueryDetails
    <2>2. doc = DocumentOf(Moment, Moment, call.q.uri)
      BY <1>2, <1>3, <1>8 DEF DocumentOf, Moment, UriOK
    <2> QED BY <1>1, <1>3, <1>4, <1>8, <2>1, <2>2, EndsWithDocument
  <1> QED BY <1>5, <1>6, <1>7, <1>8

LEMMA EndpointsStep == LifeInv /\ QueryServiceEndpoints => LifeInv'
  <1> SUFFICES ASSUME LifeInv, QueryServiceEndpoints PROVE LifeInv'
    OBVIOUS
  <1> DEFINE doc == Document(DetailsOfRecord(FullUri, call.read, Services(endpoints)), Absent, FALSE)
  <1>1. /\ call.pc = "endpoints" /\ UNCHANGED <<vars, light, chain, seen>> /\ Reading
        /\ AnswersWith(doc)
    BY DEF QueryServiceEndpoints, Step, Reading
  <1>2. Moment \in seen /\ FullUri = SubjectUri
    BY <1>1, CallIs, LightIs
  <1>3. PICK m \in seen : m.did = call.read /\ call.read # Absent
    BY <1>1 DEF LifeInv, ReadOK
  <1>4. call.q.uri.type = "full" /\ (untouched => did = call.read)
    BY <1>1 DEF LifeInv, ReadOK
  <1>5. doc = DocumentOf(m, Moment, call.q.uri)
    BY <1>2, <1>3, <1>4 DEF DocumentOf, FullDocument, Moment
  <1>6. untouched => did # Absent /\ doc = FullDocument(did, endpoints)
    BY <1>2, <1>3, <1>4 DEF FullDocument
  <1> QED BY <1>1, <1>2, <1>5, <1>6, EndsWithDocument

LEMMA DeletedStep == LifeInv /\ QueryDidDeletionStatus => LifeInv'
  <1> SUFFICES ASSUME LifeInv, QueryDidDeletionStatus PROVE LifeInv'
    OBVIOUS
  <1> DEFINE doc == IF deleted THEN Document(Absent, Absent, TRUE)
                    ELSE IF call.q.uri.type = "full" THEN Absent
                    ELSE Document(LightDidFromUri(call.q.uri, FALSE), Absent, FALSE)
  <1>1. /\ call.pc = "deleted" /\ UNCHANGED <<vars, light, chain, seen>> /\ Reading
        /\ AnswersWith(doc)
    BY DEF QueryDidDeletionStatus, Step, Reading
  <1>2. Moment \in seen /\ UriOK(call.q.uri)
    BY <1>1, CallIs, AskedIs
  <1>3. /\ call.q.uri.type = "light" => LightDidFromUri(call.q.uri, FALSE) = light
        /\ call.q.op # "migrate"
    BY <1>1 DEF LifeInv, AskingOK, ReadOK
  <1>4. PICK m \in seen : m.did = Absent
    BY <1>1 DEF LifeInv, ReadOK
  <1>5. (m.deleted => deleted) /\ (deleted => did = Absent)
    BY DEF LifeInv, SeenOK, ChainOK, MomentOK, Moment
  <1>6. CASE deleted
    <2>1. doc = DocumentOf(Moment, Moment, call.q.uri)
      BY <1>5, <1>6 DEF DocumentOf, Moment
    <2> QED BY <1>1, <1>2, <1>3, <2>1, EndsWithDocument
  <1>7. CASE ~ deleted
    <2>1. doc = DocumentOf(m, m, call.q.uri)
      BY <1>2, <1>3, <1>4, <1>5, <1>7 DEF DocumentOf, UriOK
    <2> QED BY <1>1, <1>3, <2>1, EndsWithDocument
  <1> QED BY <1>6, <1>7

LEMMA KeyStep == LifeInv /\ QueryKey => LifeInv'
  <1> SUFFICES ASSUME LifeInv, QueryKey PROVE LifeInv'
    OBVIOUS
  <1>1. /\ call.pc = "key" /\ UNCHANGED <<vars, light, chain, seen>> /\ Reading
        /\ Answers(KeyAt(did, call.q.uri.fragment))
    BY DEF QueryKey, Step, Reading
  <1>2. call.q.op \in {"resolve", "resolveKey"} /\ Moment \in seen
    BY <1>1, CallIs DEF LifeInv, AskingOK
  <1>3. /\ Answer' = KeyAt(did, call.q.uri.fragment)
        /\ \A op : Answered(op)' <=> call.q.op = op
        /\ ~ IsError(call'.answer) /\ call'.q = call.q
        /\ AskingOK' /\ ReadOK'
    BY <1>1, AnswersIs
  <1>4. KeyAt(Moment.did, call.q.uri.fragment)' = KeyAt(did, call.q.uri.fragment)
    BY <1>1, <1>3 DEF KeyAt, FullUri, Moment, chain
  <1>5. LinksOfAMoment'
    BY <1>2, <1>3 DEF LinksOfAMoment
  <1>6. Moment' \in seen'
    BY <1>1, <1>2 DEF Moment, chain
  <1>7. \E m \in seen' : Answer' = KeyAt(m.did, call.q.uri.fragment)'
    BY <1>3, <1>4, <1>6
  <1>8. AnswerOK'
    BY <1>2, <1>3, <1>5, <1>7 DEF AnswerOK
  <1> QED BY <1>1, <1>3, <1>8, CallKeeps

LEMMA ServiceStep == LifeInv /\ QueryServiceEndpoint => LifeInv'
  <1> SUFFICES ASSUME LifeInv, QueryServiceEndpoint PROVE LifeInv'
    OBVIOUS
  <1>1. /\ call.pc = "endpoint" /\ UNCHANGED <<vars, light, chain, seen>> /\ Reading
        /\ Answers(ServiceAt(endpoints, call.q.uri.fragment))
    BY DEF QueryServiceEndpoint, Step, Reading
  <1>2. call.q.op = "resolveServiceEndpoint"
    BY <1>1 DEF LifeInv, AskingOK
  <1>3. /\ \A op : Answered(op)' <=> call.q.op = op
        /\ ~ IsError(call'.answer)
        /\ AskingOK' /\ ReadOK'
    BY <1>1, AnswersIs
  <1>4. AnswerOK'
    BY <1>2, <1>3 DEF AnswerOK, LinksOfAMoment
  <1> QED BY <1>1, <1>3, <1>4, CallKeeps

LEMMA LinkStep == LifeInv /\ (QueryConnectedDid \/ QueryName) => LifeInv'
  <1> SUFFICES ASSUME LifeInv, QueryConnectedDid \/ QueryName PROVE LifeInv'
    OBVIOUS
  <1>1. call.pc \in {"link", "name"} /\ UNCHANGED <<vars, light, chain, seen>> /\ Reading
    BY DEF QueryConnectedDid, QueryName, Step, Reading
  <1>2. call.q.op = "queryWeb3Name" /\ Moment \in seen /\ call.q \in Asked /\ Asked' = Asked
    BY <1>1, CallIs, LightKeeps DEF LifeInv, AskingOK
  <1>3. CASE QueryConnectedDid /\ linked # Absent
    <2>1. Fetched(linked, "name")
      BY <1>3 DEF QueryConnectedDid
    <2>2. ASSUME call' = [q |-> call.q, read |-> linked, pc |-> "name", answer |-> call.answer]
          PROVE  AskingOK' /\ ReadOK'
      BY <1>1, <1>2, <1>3, <2>2 DEF AskingOK, ReadOK, Moment
    <2> QED BY <1>1, <2>1, <2>2, GoesOn
  <1>4. ASSUME NEW name, Answers(name),
               \E m, n \in seen : name = IF m.linked = Absent THEN Absent ELSE n.names[m.linked]
        PROVE  LifeInv'
    <2>1. /\ Answer' = name
          /\ \A op : Answered(op)' <=> call.q.op = op
          /\ ~ IsError(call'.answer)
          /\ AskingOK' /\ ReadOK'
      BY <1>1, <1>4, AnswersIs
    <2>2. LinksOfAMoment'
      BY <1>1, <1>2, <1>4, <2>1 DEF LinksOfAMoment
    <2>3. AnswerOK'
      BY <1>2, <2>1, <2>2 DEF AnswerOK
    <2> QED BY <1>1, <2>1, <2>3, CallKeeps
  <1>5. CASE QueryConnectedDid /\ linked = Absent
    <2>1. Answers(Absent) /\ Moment.linked = Absent
      BY <1>5 DEF QueryConnectedDid, Moment
    <2> QED BY <1>2, <1>4, <2>1
  <1>6. CASE QueryName
    <2>1. Answers(names[call.read]) /\ call.pc = "name"
      BY <1>6 DEF QueryName, Step
    <2>2. PICK m \in seen : m.linked # Absent /\ m.linked = call.read
      BY <2>1 DEF LifeInv, ReadOK
    <2>3. Moment.names = names
      BY DEF Moment
    <2> QED BY <1>2, <1>4, <2>1, <2>2, <2>3
  <1> QED BY <1>3, <1>5, <1>6

LEMMA CountStep == LifeInv /\ QueryEndpointsCounts => LifeInv'
  <1> SUFFICES ASSUME LifeInv, QueryEndpointsCounts PROVE LifeInv'
    OBVIOUS
  <1>1. /\ call.pc = "count" /\ UNCHANGED <<vars, light, chain, seen>> /\ Reading
        /\ Fetched(Cardinality(endpoints), "delete")
    BY DEF QueryEndpointsCounts, Step, Reading
  <1>2. /\ call.q.op = "delete" /\ Moment \in seen /\ call.q \in Asked /\ Asked' = Asked
        /\ Moment.endpoints = endpoints
    BY <1>1, CallIs, LightKeeps DEF LifeInv, AskingOK, Moment
  <1>3. ASSUME call' = [q |-> call.q, read |-> Cardinality(endpoints), pc |-> "delete",
                        answer |-> call.answer]
        PROVE  AskingOK' /\ ReadOK'
    BY <1>1, <1>2, <1>3 DEF AskingOK, ReadOK
  <1> QED BY <1>1, <1>3, GoesOn

LEMMA BlockStep == LifeInv /\ (QueryBlock \/ BlockPasses) => LifeInv'
  <1> SUFFICES ASSUME LifeInv, QueryBlock \/ BlockPasses PROVE LifeInv'
    OBVIOUS
  <1>1. call.pc \in {"block", "signing"} /\ UNCHANGED <<vars, light, chain, seen>> /\ Reading
    BY DEF QueryBlock, BlockPasses, Step, Reading
  <1>2. call.q.op = "authorizeLink" /\ call.q \in Asked /\ Asked' = Asked
    BY <1>1, CallIs, LightKeeps DEF LifeInv, AskingOK
  <1>3. PICK block \in Nat : Fetched(block, "signing")
    BY DEF QueryBlock, BlockPasses, LifeInv, ReadOK, Step
  <1>4. ASSUME call' = [q |-> call.q, read |-> block, pc |-> "signing", answer |-> call.answer]
        PROVE  AskingOK' /\ ReadOK'
    BY <1>1, <1>2, <1>4 DEF AskingOK, ReadOK
  <1> QED BY <1>1, <1>3, <1>4, GoesOn

LEMMA DeletionStep == LifeInv /\ DeletionExecutes => LifeInv'
  <1> SUFFICES ASSUME LifeInv, DeletionExecutes PROVE LifeInv'
    OBVIOUS
  <1> DEFINE taken == did # Absent /\ call.read >= Cardinality(endpoints)
             answer == IF taken THEN "deleted" ELSE "refused"
  <1>1. /\ call.pc = "delete" /\ Reading /\ Answers(answer)
        /\ IF taken THEN DidDeleted
           ELSE UNCHANGED <<did, endpoints, deleted, linked, names, untouched>>
        /\ seen' = seen \cup {Moment'} /\ UNCHANGED <<vars, light>>
    BY DEF DeletionExecutes, DeleteDidExtrinsic, Reading
  <1>2. call.q.op = "delete" /\ Moment \in seen
    BY <1>1, CallIs DEF LifeInv, AskingOK
  <1>3. PICK m \in seen : Cardinality(m.endpoints) = call.read
    BY <1>1 DEF LifeInv, ReadOK
  <1>4. MomentOK(m) /\ MomentOK(Moment)
    BY <1>2 DEF LifeInv, SeenOK
  <1>5. Cardinality(m.endpoints) \in Nat /\ Cardinality(Moment.endpoints) \in Nat
    BY <1>4, FS_CardinalityType DEF MomentOK
  <1>6. /\ Answer' = answer
        /\ \A op : Answered(op)' <=> call.q.op = op
        /\ ~ IsError(call'.answer)
        /\ AskingOK' /\ ReadOK' /\ call'.pc = "done"
    BY <1>1, AnswersIs
  <1>7. ChainOK' /\ (deleted => deleted')
    <2>1. CASE taken
      BY <1>1, <2>1, DeletedOK
    <2>2. CASE ~ taken
      <3>1. UNCHANGED <<did, endpoints, deleted, untouched, stage, details>>
        BY <1>1, <2>2 DEF vars
      <3> QED BY <3>1 DEF LifeInv, ChainOK, MomentOK, Moment, RecordOf
    <2> QED BY <2>1, <2>2
  <1>8. SeenOK'
    <2>1. MomentOK(Moment)' /\ (Moment'.deleted => deleted')
      BY <1>7 DEF ChainOK, Moment
    <2>2. ASSUME NEW n \in seen PROVE MomentOK(n)' /\ (n.deleted => deleted')
      BY <1>7 DEF LifeInv, SeenOK, MomentOK
    <2>3. ASSUME NEW n \in seen' PROVE MomentOK(n)' /\ (n.deleted => deleted')
      <3>1. n \in seen \/ n = Moment'
        BY <1>1
      <3> QED BY <2>1, <2>2, <3>1 DEF MomentOK
    <2>4. ~ Reading'
      BY <1>6 DEF Reading
    <2> QED BY <2>3, <2>4 DEF SeenOK
  <1>9. answer = "refused" =>
            \E a, b \in seen' : b.did = Absent \/ Cardinality(b.endpoints) > Cardinality(a.endpoints)
    <2>1. Moment.did = did /\ Moment.endpoints = endpoints
      BY DEF Moment
    <2>2. m \in seen' /\ Moment \in seen'
      BY <1>1, <1>2
    <2>3. ~ taken => Moment.did = Absent \/ Cardinality(Moment.endpoints) > Cardinality(m.endpoints)
      BY <1>3, <1>5, <2>1
    <2> QED BY <2>2, <2>3
  <1>10. AnswerOK'
    BY <1>2, <1>6, <1>9 DEF AnswerOK, LinksOfAMoment
  <1>11. CreationInv' /\ IsFiniteSet(newServiceEndpoints)' /\ LightOK'
    BY <1>1, CreationKeeps, LightKeeps DEF LifeInv
  <1> QED BY <1>6, <1>7, <1>8, <1>10, <1>11 DEF LifeInv

LEMMA SigningStep == LifeInv /\ AccountSigns => LifeInv'
  <1> SUFFICES ASSUME LifeInv, AccountSigns PROVE LifeInv'
    OBVIOUS
  <1> DEFINE tx == AuthorizeLink(call.q)
             answer == IF IsError(tx) THEN Error(tx.error)
                       ELSE [is |-> IF call.read <= NBlocksValid THEN "linked" ELSE "refused"]
  <1>1. /\ call.pc = "signing" /\ Reading
        /\ call' = [call EXCEPT !.pc = "done", !.answer = answer]
        /\ UNCHANGED <<vars, light, did, endpoints, deleted, untouched, seen>>
    BY DEF AccountSigns, Reading, Throws, Answers
  <1>2. call.q.op = "authorizeLink" /\ call.q \in Asked /\ LightOK /\ call.read \in Nat
    BY <1>1, CallIs DEF LifeInv, AskingOK, ReadOK
  <1>3. call.q.typed \in BOOLEAN
    BY <1>2, AskedIs
  <1>4. /\ call' = [q |-> call.q, read |-> call.read, pc |-> "done", answer |-> answer]
        /\ AskingOK' /\ ReadOK'
    BY <1>1, Ends
  <1>5. IsError(tx) <=> call.q.signedFor # call.q.did
    <2>1. \A stripped \in BOOLEAN :
              ~ IsError([call |-> "associateAccount", did |-> call.q.did, stripped |-> stripped])
      BY DEF IsError
    <2>2. IsError(Error("signature not valid"))
      BY Errors
    <2> QED BY <1>3, <2>1, <2>2 DEF AuthorizeLink, Verifies
  <1> HIDE DEF tx
  <1>6. IsError(answer) <=> call.q.signedFor # call.q.did
    BY <1>5, Errors
  <1>7. Answered("authorizeLink")' /\ Answer' = "refused" => call.read > NBlocksValid
    BY <1>2, <1>4, <1>5, <1>6, LifeAssumption DEF Answered, Answer
  <1>8. LinksOfAMoment'
    BY <1>2, <1>4, <1>6, <1>7 DEF LinksOfAMoment, Answered
  <1>9. AnswerOK'
    BY <1>2, <1>4, <1>8 DEF AnswerOK, Answered
  <1>10. ChainOK'
    BY <1>1 DEF LifeInv, ChainOK, MomentOK, Moment, vars, RecordOf
  <1>11. SeenOK'
    BY <1>1, <1>4 DEF LifeInv, SeenOK, MomentOK, Reading
  <1>12. CreationInv' /\ IsFiniteSet(newServiceEndpoints)' /\ LightOK'
    BY <1>1, CreationKeeps, LightKeeps DEF LifeInv
  <1> QED BY <1>4, <1>9, <1>10, <1>11, <1>12 DEF LifeInv

(* Every step keeps the invariant.                                          *)
LEMMA LifeInvStep == LifeInv /\ [LifeNext]_lifeVars => LifeInv'
  <1> SUFFICES ASSUME LifeInv, [LifeNext]_lifeVars PROVE LifeInv'
    OBVIOUS
  <1>1. CASE BuildOn
    BY <1>1, BuildStep
  <1>2. CASE \E c \in Caller : CreationExecutes(c)
    BY <1>2, CreationStepOK
  <1>3. CASE DidChanges
    BY <1>3, ChangeStepOK
  <1>4. CASE SomebodyDeletes \/ LinkChanges \/ NameChanges
    BY <1>4, OtherStepsOK
  <1>5. CASE Ask
    <2>1. PICK q \in Questions : Begin(q)
      BY <1>5 DEF Ask
    <2> QED BY <2>1, AskStep DEF Asked
  <1>6. CASE MigrationAsks
    <2>1. Begin(Asks("migrate", FullUri))
      BY <1>6 DEF MigrationAsks
    <2> QED BY <2>1, AskStep DEF Asked
  <1>7. CASE QueryDetails
    BY <1>7, DetailsStep
  <1>8. CASE QueryServiceEndpoints
    BY <1>8, EndpointsStep
  <1>9. CASE QueryDidDeletionStatus
    BY <1>9, DeletedStep
  <1>10. CASE QueryKey
    BY <1>10, KeyStep
  <1>11. CASE QueryServiceEndpoint
    BY <1>11, ServiceStep
  <1>12. CASE QueryConnectedDid \/ QueryName
    BY <1>12, LinkStep
  <1>13. CASE QueryEndpointsCounts
    BY <1>13, CountStep
  <1>14. CASE DeletionExecutes
    BY <1>14, DeletionStep
  <1>15. CASE QueryBlock \/ BlockPasses
    BY <1>15, BlockStep
  <1>16. CASE AccountSigns
    BY <1>16, SigningStep
  <1>17. CASE UNCHANGED lifeVars
    <2>1. UNCHANGED <<vars, light, chain, call, seen>>
      BY <1>17 DEF lifeVars
    <2>2. ChainOK' /\ (deleted => deleted') /\ Observe
      <3>1. Moment' = Moment
        BY <2>1 DEF Moment, chain
      <3>2. ChainOK' /\ (deleted => deleted')
        BY <2>1, <3>1 DEF LifeInv, ChainOK, MomentOK, chain, vars, RecordOf
      <3>3. Observe
        BY <2>1, <3>1 DEF Observe, LifeInv, SeenOK
      <3> QED BY <3>2, <3>3
    <2> QED BY <2>1, <2>2, ChainKeeps DEF chain
  <1> QED BY <1>1, <1>2, <1>3, <1>4, <1>5, <1>6, <1>7, <1>8, <1>9, <1>10, <1>11, <1>12, <1>13,
             <1>14, <1>15, <1>16, <1>17 DEF LifeNext

LEMMA LifeInvHolds == LifeSpec => []LifeInv
  BY LifeInvInit, LifeInvStep, PTL DEF LifeSpec

-----------------------------------------------------------------------------
(* What the invariant says of the answers.                                  *)

(* The services of a full DID are replaced, and nothing else.               *)
LEMMA ServicesReplaced ==
    ASSUME NEW record, NEW services, NEW others
    PROVE  [FullDidRecord(record, services) EXCEPT !.endpoints = others]
               = FullDidRecord(record, others)
  <1>1. ASSUME NEW uri, NEW identifier, NEW keys, NEW relationships
        PROVE  [[uri |-> uri, identifier |-> identifier, keys |-> keys,
                 relationships |-> relationships, endpoints |-> services]
                   EXCEPT !.endpoints = others]
                   = [uri |-> uri, identifier |-> identifier, keys |-> keys,
                      relationships |-> relationships, endpoints |-> others]
    OBVIOUS
  <1> QED BY <1>1 DEF FullDidRecord

(* The record of a moment and no services: the document that was then.      *)
LEMMA DocumentAtIs ==
    ASSUME LightOK, NEW m, MomentOK(m), NEW n, NEW uri, UriOK(uri), Understood(uri),
           n.endpoints \in SUBSET Endpoint
    PROVE  LET doc == DocumentOf(m, n, uri)
           IN  /\ Bare(doc, uri) = DocumentAt(m, uri)
               /\ uri.type = "full" /\ doc # Absent /\ ~ doc.deactivated =>
                      doc.details.endpoints = Services(n.endpoints)
  <1> DEFINE doc == DocumentOf(m, n, uri)
  <1>1. GetKiltDidFromIdentifier(AccountOf(uri), "full", Absent) = SubjectUri
    BY DEF UriOK, SubjectUri
  <1>2. /\ uri.type \in {"full", "light"} /\ Subject \in Address
        /\ uri.type = "light" => LightDidFromUri(uri, FALSE) = light
    BY LightIs DEF UriOK, Understood
  <1>3. DocumentAt(m, uri) =
            IF m.did # Absent
            THEN IF uri.type = "full"
                 THEN Document(DetailsOfRecord(SubjectUri, m.did, <<>>), Absent, FALSE)
                 ELSE Document(light, SubjectUri, FALSE)
            ELSE IF m.deleted THEN Document(Absent, Absent, TRUE)
            ELSE IF uri.type = "full" THEN Absent ELSE Document(light, Absent, FALSE)
    <2>1. m.deleted => m.did = Absent
      BY DEF MomentOK
    <2> QED BY <1>1, <1>2, <2>1 DEF DocumentAt, ResolveDoc
  <1>4. CASE uri.type = "full" /\ m.did # Absent
    <2>1. m.did \in Record
      BY <1>4 DEF MomentOK
    <2>2. /\ DetailsOfRecord(SubjectUri, m.did, <<>>) = FullDidRecord(m.did, <<>>)
          /\ doc = Document(FullDidRecord(m.did, Services(n.endpoints)), Absent, FALSE)
      BY <1>2, <1>4, <2>1, FullDidIs DEF DocumentOf, FullDocument
    <2>3. doc # Absent
      BY <1>4, <2>1, AbsentAssumption DEF DocumentOf, FullDocument
    <2>4. ~ doc.deactivated /\ doc.details = FullDidRecord(m.did, Services(n.endpoints))
      BY <2>2 DEF Document
    <2>5. Bare(doc, uri) = Document([doc.details EXCEPT !.endpoints = <<>>], Absent, FALSE)
      <3>1. doc.canonicalId = Absent
        BY <2>2 DEF Document
      <3> QED BY <1>4, <2>3, <2>4, <3>1 DEF Bare
    <2>6. [doc.details EXCEPT !.endpoints = <<>>] = FullDidRecord(m.did, <<>>)
      BY <2>4, ServicesReplaced
    <2>7. doc.details.endpoints = Services(n.endpoints)
      BY <2>4 DEF FullDidRecord
    <2> QED BY <1>3, <1>4, <2>2, <2>5, <2>6, <2>7
  <1>5. CASE uri.type = "full" /\ m.did = Absent
    BY <1>3, <1>5 DEF DocumentOf, Bare, Document
  <1>6. CASE uri.type = "light"
    BY <1>3, <1>6 DEF DocumentOf, Bare
  <1> QED BY <1>2, <1>4, <1>5, <1>6

(* What is verified is what the DID could sign then.                        *)
LEMMA VerifiedIs ==
    ASSUME LightOK, NEW m, MomentOK(m), NEW n, NEW q \in Asked, q.op = "verify",
           n.endpoints \in SUBSET Endpoint
    PROVE  AnswerFrom(q, DocumentOf(m, n, q.uri)) = AuthorisedAt(m, q)
  <1> DEFINE doc == DocumentOf(m, n, q.uri)
             signature == [keyUri |-> q.uri, by |-> q.by, over |-> "message"]
             fragment == q.uri.fragment
             verified == VerifyDidSignature("message", signature, q.expected, doc)
  <1>1. /\ q.uri.type \in {"full", "light"}
        /\ fragment \in {Subject, "authentication", Absent}
        /\ q.by \in VerificationKey /\ q.expected \in {Absent, "assertionMethod"}
    BY AskedIs DEF UriOK
  <1>2. /\ Absent \notin VerificationKey
        /\ "authentication" # Absent /\ "assertionMethod" # Absent
    BY NoText, KeyAssumption, LifeAssumption
  <1>3. AnswerFrom(q, doc) = verified
    BY DEF AnswerFrom, ByKey
  <1>4. verified \in BOOLEAN /\ AuthorisedAt(m, q) \in BOOLEAN
    BY DEF VerifyDidSignature, AuthorisedAt
  <1> HIDE DEF doc
  <1>5. verified <=>
            /\ fragment # Absent /\ doc # Absent
            /\ ~ doc.deactivated /\ doc.canonicalId = Absent
            /\ GetKey(doc.details, fragment) # Absent
            /\ q.expected # Absent =>
                   GetKey(doc.details, fragment) \in GetKeysOf(doc.details, q.expected)
            /\ q.by = GetKey(doc.details, fragment).publicKey
    BY DEF VerifyDidSignature, VerifyDidSignatureFromDetails
  <1> HIDE DEF verified
  <1> SUFFICES verified <=> AuthorisedAt(m, q)
    BY <1>3, <1>4 DEF doc
  <1>6. CASE m.did # Absent /\ q.uri.type = "full"
    <2> DEFINE d == DetailsOfRecord(SubjectUri, m.did, Services(n.endpoints))
    <2>1. m.did \in Record /\ ~ m.deleted /\ Subject \in Address
      BY <1>6, LightIs DEF MomentOK
    <2>2. doc = Document(d, Absent, FALSE) /\ doc # Absent
      BY <1>6, <2>1, AbsentAssumption DEF doc, DocumentOf, FullDocument
    <2>3. ~ doc.deactivated /\ doc.canonicalId = Absent /\ doc.details = d
      BY <2>2 DEF Document
    <2>4. /\ \A id : GetKey(d, id) = IF id \in KeyIds(m.did) THEN IdentifiedKey(id) ELSE Absent
          /\ \A r : GetKeysOf(d, r) = IF r \in DOMAIN Serves(m.did)
                                      THEN {IdentifiedKey(id) : id \in Serves(m.did)[r]} ELSE {}
      BY <2>1, FullDidKeys
    <2>5. \A id : KeyAt(m.did, id) = GetKey(d, id)
      <3>1. FullUri = SubjectUri
        BY LightIs
      <3>2. \A id : GetKey(DetailsOfRecord(SubjectUri, m.did, <<>>), id)
                      = IF id \in KeyIds(m.did) THEN IdentifiedKey(id) ELSE Absent
        BY <2>1, FullDidKeys
      <3> QED BY <1>6, <2>4, <3>1, <3>2 DEF KeyAt
    <2> HIDE DEF d
    <2>6. \A id : IdentifiedKey(id).id = id /\ IdentifiedKey(id).publicKey = id
      BY DEF IdentifiedKey
    <2>7. \A id : IdentifiedKey(id) \in GetKeysOf(d, "assertionMethod")
                    <=> m.did.attestationKey # Absent /\ id = m.did.attestationKey
      <3>1. "assertionMethod" \in DOMAIN Serves(m.did) <=> m.did.attestationKey # Absent
        BY DEF Serves
      <3>2. m.did.attestationKey # Absent =>
                Serves(m.did)["assertionMethod"] = {m.did.attestationKey}
        BY DEF Serves
      <3> QED BY <2>4, <2>6, <3>1, <3>2
    <2>8. AuthorisedAt(m, q) <=>
              /\ fragment = q.by /\ KeyAt(m.did, q.by) # Absent
              /\ q.expected = "assertionMethod" => m.did.attestationKey = q.by
      BY <1>2, <1>6, <2>1 DEF AuthorisedAt
    <2>9. verified <=>
              /\ fragment # Absent /\ GetKey(d, fragment) # Absent
              /\ q.expected # Absent => GetKey(d, fragment) \in GetKeysOf(d, q.expected)
              /\ q.by = GetKey(d, fragment).publicKey
      BY <1>5, <2>2, <2>3
    <2>10. CASE GetKey(d, fragment) = Absent
      <3>1. ~ verified
        BY <2>9, <2>10
      <3>2. fragment # q.by \/ KeyAt(m.did, q.by) = Absent
        BY <2>5, <2>10
      <3> QED BY <2>8, <3>1, <3>2
    <2>11. CASE GetKey(d, fragment) # Absent
      <3>1. GetKey(d, fragment) = IdentifiedKey(fragment)
        BY <2>4, <2>11
      <3>2. verified <=>
                /\ fragment # Absent /\ q.by = fragment
                /\ q.expected # Absent => m.did.attestationKey # Absent /\ fragment = m.did.attestationKey
        BY <1>1, <2>6, <2>7, <2>9, <2>11, <3>1
      <3>3. fragment = q.by => KeyAt(m.did, q.by) # Absent /\ fragment # Absent
        BY <1>1, <1>2, <2>5, <2>11
      <3> QED BY <1>1, <1>2, <2>8, <3>2, <3>3
    <2> QED BY <2>10, <2>11
  <1>7. CASE m.did # Absent /\ q.uri.type = "light"
    <2>1. doc.canonicalId # Absent
      BY <1>7, AbsentAssumption DEF doc, DocumentOf, Document
    <2>2. ~ AuthorisedAt(m, q)
      BY <1>7 DEF AuthorisedAt
    <2> QED BY <1>5, <2>1, <2>2
  <1>8. CASE m.did = Absent /\ m.deleted
    <2>1. doc.deactivated
      BY <1>8 DEF doc, DocumentOf, Document
    <2>2. ~ AuthorisedAt(m, q)
      BY <1>8 DEF AuthorisedAt
    <2> QED BY <1>5, <2>1, <2>2
  <1>9. CASE m.did = Absent /\ ~ m.deleted /\ q.uri.type = "full"
    <2>1. doc = Absent
      BY <1>9 DEF doc, DocumentOf
    <2>2. ~ AuthorisedAt(m, q)
      BY <1>9 DEF AuthorisedAt
    <2> QED BY <1>5, <2>1, <2>2
  <1>10. CASE m.did = Absent /\ ~ m.deleted /\ q.uri.type = "light"
    <2>1. doc = Document(light, Absent, FALSE) /\ doc # Absent
      BY <1>10, LightIs DEF doc, DocumentOf
    <2>2. ~ doc.deactivated /\ doc.canonicalId = Absent /\ doc.details = light
      BY <2>1 DEF Document
    <2>3. AuthorisedAt(m, q) <=>
              fragment = "authentication" /\ q.by = Subject /\ q.expected = Absent
      BY <1>10 DEF AuthorisedAt
    <2>4. GetKey(light, "authentication").publicKey = Subject
      BY LightKeys
    <2> QED BY <1>1, <1>2, <1>5, <2>1, <2>2, <2>3, <2>4, LightKeys
  <1> QED BY <1>1, <1>6, <1>7, <1>8, <1>9, <1>10

-----------------------------------------------------------------------------
(* The theorems: for any keys, services, callers, accounts and names, and   *)
(* with any bound on the transactions before, during and after a call.      *)

(* What the life of a DID does to its builder is what the builder does: a   *)
(* migration adds no way to use it.                                         *)
THEOREM LifeOfABuilder == LifeSpec => Spec
  <1>1. LifeInit => Init
    BY DEF LifeInit
  <1>2. ASSUME [LifeNext]_lifeVars PROVE [Next]_vars
    <2>1. CASE BuildOn
      BY <2>1 DEF BuildOn, Next
    <2>2. CASE UNCHANGED vars
      BY <2>2
    <2>3. CASE \E c \in Caller : CreationExecutes(c)
      BY <2>2, <2>3 DEF CreationExecutes
    <2>4. CASE DidChanges \/ SomebodyDeletes \/ LinkChanges \/ NameChanges
      BY <2>2, <2>4 DEF DidChanges, SomebodyDeletes, LinkChanges, NameChanges, Transaction
    <2>5. CASE Ask \/ MigrationAsks
      BY <2>2, <2>5 DEF Ask, MigrationAsks, Begin
    <2>6. CASE QueryDetails \/ QueryServiceEndpoints \/ QueryDidDeletionStatus \/ QueryKey
               \/ QueryServiceEndpoint \/ QueryConnectedDid \/ QueryName
               \/ QueryEndpointsCounts \/ QueryBlock \/ BlockPasses
      <3>1. \E pc : Step(pc)
        BY <2>6 DEF QueryDetails, QueryServiceEndpoints, QueryDidDeletionStatus, QueryKey,
           QueryServiceEndpoint, QueryConnectedDid, QueryName, QueryEndpointsCounts, QueryBlock,
           BlockPasses
      <3> QED BY <2>2, <3>1 DEF Step
    <2>7. CASE DeletionExecutes \/ AccountSigns
      BY <2>2, <2>7 DEF DeletionExecutes, AccountSigns
    <2>8. CASE UNCHANGED lifeVars
      BY <2>2, <2>8 DEF lifeVars
    <2> QED BY <1>2, <2>1, <2>3, <2>4, <2>5, <2>6, <2>7, <2>8 DEF LifeNext
  <1> QED BY <1>1, <1>2, PTL DEF LifeSpec, Spec

(* So a migration, too, carries all that the builder accepted.              *)
THEOREM MigrationCarriesAll == LifeSpec => []CreationCarriesAll
  BY LifeOfABuilder, CarriesAll, PTL

(* And creates at most one DID.                                             *)
THEOREM MigratedOnce == LifeSpec => []OneCreation
  BY LifeOfABuilder, CreatedOnce, PTL

(* Whatever changes between the queries of resolveDoc, resolveKey,          *)
(* verifyDidSignature and a deletion, each answers as of one moment of the  *)
(* call, but for the services of a full DID, which are of another.          *)
THEOREM AnswersAreOfAMoment == LifeSpec => []AnswersOfAMoment
  <1>1. ASSUME LifeInv PROVE AnswersOfAMoment
    <2>1. LightOK /\ AnswerOK /\ SeenOK
      BY <1>1 DEF LifeInv
    <2>2. ASSUME NEW op, Answered(op) PROVE call.q \in Asked /\ UriOK(call.q.uri)
      <3>1. call.q \in Asked
        BY <1>1, <2>2 DEF LifeInv, AskingOK, Answered, Idle
      <3> QED BY <2>1, <3>1, AskedIs
    <2>3. \A m \in seen : MomentOK(m) /\ m.endpoints \in SUBSET Endpoint
      BY <2>1 DEF SeenOK, MomentOK
    <2>4. ASSUME Answered("resolveDoc")
          PROVE  /\ \E m \in seen : Bare(Answer, call.q.uri) = DocumentAt(m, call.q.uri)
                 /\ call.q.uri.type = "full" /\ Answer # Absent /\ ~ Answer.deactivated =>
                       \E m \in seen : Answer.details.endpoints = Services(m.endpoints)
      <3>1. PICK m \in seen, n \in seen :
                Answer = AnswerFrom(call.q, DocumentOf(m, n, call.q.uri))
        BY <2>1, <2>4 DEF AnswerOK
      <3>2. Answer = DocumentOf(m, n, call.q.uri)
        BY <2>4, <3>1 DEF AnswerFrom, ByKey, Answered
      <3>3. Understood(call.q.uri)
        BY <2>1, <2>4 DEF AnswerOK
      <3> QED BY <2>1, <2>2, <2>3, <2>4, <3>2, <3>3, DocumentAtIs
    <2>5. ASSUME Answered("verify") PROVE \E m \in seen : Answer = AuthorisedAt(m, call.q)
      <3>1. PICK m \in seen, n \in seen :
                Answer = AnswerFrom(call.q, DocumentOf(m, n, call.q.uri))
        BY <2>1, <2>5 DEF AnswerOK
      <3>2. call.q.op = "verify"
        BY <2>5 DEF Answered
      <3> QED BY <2>1, <2>2, <2>3, <2>5, <3>1, <3>2, VerifiedIs
    <2> QED BY <2>1, <2>4, <2>5 DEF AnswersOfAMoment, AnswerOK
  <1> QED BY <1>1, LifeInvHolds, PTL

(* A name is answered as some moment's account and some moment's DID have   *)
(* it, and an account is linked only to the DID it signed for.              *)
THEOREM LinksAreOfAMoment == LifeSpec => []LinksOfAMoment
  <1>1. LifeInv => LinksOfAMoment
    BY DEF LifeInv, AnswerOK
  <1> QED BY <1>1, LifeInvHolds, PTL

(* A migration that succeeds gives the DID its builder promised, whoever    *)
(* else asked for one, unless somebody has changed it on the chain.         *)
THEOREM MigrationGivesWhatWasBuilt == LifeSpec => []MigratedAsBuilt
  <1>1. ASSUME LifeInv, Answered("migrate"), untouched
        PROVE  LET d == Answer.details
               IN  /\ FirstKey(d, "authentication").publicKey = light.identifier
                   /\ IsSameSubject(d.uri, light.uri)
                   /\ accepted = {Op("encryption", k.publicKey) : k \in GetKeysOf(d, "keyAgreement")}
                          \cup {Op("service", id) : id \in DOMAIN d.endpoints}
                          \cup {Op("attestation", k.publicKey) : k \in GetKeysOf(d, "assertionMethod")}
                          \cup {Op("delegation", k.publicKey) : k \in GetKeysOf(d, "capabilityDelegation")}
    <2> DEFINE d == DetailsOfRecord(SubjectUri, did, Services(endpoints))
    <2>1. did # Absent /\ Answer.details = d
      BY <1>1 DEF LifeInv, AnswerOK, FullDocument, Document
    <2>2. PICK c \in Caller : /\ stage[c] = "created"
                              /\ did = RecordOf(details[c])
                              /\ endpoints = details[c].serviceEndpoints
      BY <1>1, <2>1 DEF LifeInv, ChainOK
    <2>3. accepted = Carried(details[c])
      BY <1>1, <2>2 DEF LifeInv, CreationInv
    <2>4. did \in Record /\ LightOK /\ Subject \in Address
      BY <1>1, <2>1, LightIs DEF LifeInv, ChainOK, MomentOK, Moment
    <2>5. \A r : GetKeysOf(d, r) = IF r \in DOMAIN Serves(did)
                                   THEN {IdentifiedKey(id) : id \in Serves(did)[r]} ELSE {}
      BY <2>4, FullDidKeys
    <2>6. d.uri = SubjectUri /\ d.endpoints = Services(endpoints)
      BY <2>4, FullDidIs DEF FullDidRecord
    <2> HIDE DEF d
    <2>7. \A id : IdentifiedKey(id).publicKey = id
      BY DEF IdentifiedKey
    <2>8. ASSUME NEW kind, NEW r
          PROVE  {Op(kind, k.publicKey) : k \in GetKeysOf(d, r)}
                     = Ops(kind, IF r \in DOMAIN Serves(did) THEN Serves(did)[r] ELSE {})
      BY <2>5, <2>7 DEF Ops
    <2>9. /\ {Op("encryption", k.publicKey) : k \in GetKeysOf(d, "keyAgreement")}
                 = Ops("encryption", details[c].keyAgreementKeys)
          /\ {Op("attestation", k.publicKey) : k \in GetKeysOf(d, "assertionMethod")}
                 = Ops("attestation", {details[c].assertionKey} \ {NoKey})
          /\ {Op("delegation", k.publicKey) : k \in GetKeysOf(d, "capabilityDelegation")}
                 = Ops("delegation", {details[c].delegationKey} \ {NoKey})
      <3>1. /\ did.keyAgreementKeys = details[c].keyAgreementKeys
            /\ did.attestationKey = details[c].assertionKey
            /\ did.delegationKey = details[c].delegationKey
        BY <2>2 DEF RecordOf
      <3>2. NoKey = Absent
        BY LifeAssumption
      <3>3. /\ "keyAgreement" \in DOMAIN Serves(did)
            /\ Serves(did)["keyAgreement"] = did.keyAgreementKeys
            /\ (IF "assertionMethod" \in DOMAIN Serves(did)
                THEN Serves(did)["assertionMethod"] ELSE {}) = {did.attestationKey} \ {Absent}
            /\ (IF "capabilityDelegation" \in DOMAIN Serves(did)
                THEN Serves(did)["capabilityDelegation"] ELSE {}) = {did.delegationKey} \ {Absent}
        BY DEF Serves
      <3> QED BY <2>8, <3>1, <3>2, <3>3
    <2>10. {Op("service", id) : id \in DOMAIN d.endpoints}
               = Ops("service", details[c].serviceEndpoints)
      BY <2>2, <2>6 DEF Services, Ops
    <2>11. accepted = {Op("encryption", k.publicKey) : k \in GetKeysOf(d, "keyAgreement")}
                          \cup {Op("service", id) : id \in DOMAIN d.endpoints}
                          \cup {Op("attestation", k.publicKey) : k \in GetKeysOf(d, "assertionMethod")}
                          \cup {Op("delegation", k.publicKey) : k \in GetKeysOf(d, "capabilityDelegation")}
      BY <2>3, <2>9, <2>10, CarriedOps
    <2>12. FirstKey(d, "authentication").publicKey = light.identifier
      <3>1. GetKeysOf(d, "authentication") = {IdentifiedKey(Subject)}
        <4>1. "authentication" \in DOMAIN Serves(did)
              /\ Serves(did)["authentication"] = {did.authenticationKey}
          BY DEF Serves
        <4>2. did.authenticationKey = Subject
          BY <2>2 DEF RecordOf
        <4> QED BY <2>5, <4>1, <4>2
      <3>2. FirstKey(d, "authentication") = IdentifiedKey(Subject)
        BY <3>1 DEF FirstKey
      <3> QED BY <2>4, <2>7, <3>2, LightIs
    <2>13. IsSameSubject(d.uri, light.uri)
      BY <2>4, <2>6, LightIs, UrisOK DEF IsSameSubject, UriOK
    <2> QED BY <2>1, <2>11, <2>12, <2>13
  <1>2. LifeInv => MigratedAsBuilt
    BY <1>1 DEF MigratedAsBuilt
  <1> QED BY <1>2, LifeInvHolds, PTL

(* Every key a light DID refers to is one it has.                           *)
LEMMA LightRefersToItsKeys ==
    ASSUME LightOK, NEW r, NEW key \in GetKeysOf(light, r)
    PROVE  GetKey(light, key.id) = key
  <1>1. PICK k \in EncryptionKeyPair, ids \in SUBSET Endpoint :
           light = LightDid(k, ids) /\ ~ IsError(LightDid(k, ids))
    BY DEF LightOK
  <1>2. light = LightDidRecord(k, ids)
    BY <1>1, LightDidIs
  <1>3. PICK id \in light.relationships[r] : key = GetKey(light, id) /\ r \in DOMAIN light.relationships
    BY DEF GetKeysOf
  <1>4. id \in DOMAIN light.keys
    BY <1>2, <1>3 DEF LightDidRecord
  <1>5. key.id = id
    BY <1>3, <1>4 DEF GetKey
  <1> QED BY <1>3, <1>5

(* The keys and services of an exported document, each by its URI.          *)
LEMMA ExportedIs ==
    ASSUME NEW d
    PROVE  LET exported == ExportToDidDocument(d, "application/json")
               Uri(id) == WithFragment(d.uri, id)
           IN  /\ \A r \in DOMAIN exported.relationships :
                     \A uri \in exported.relationships[r] :
                        \E key \in GetKeysOf(d, r) :
                           /\ uri = Uri(key.id)
                           /\ \E v \in exported.verificationMethod :
                                 v.id = uri /\ v.publicKey = key.publicKey
               /\ \A s \in exported.service :
                     \E id \in DOMAIN d.endpoints : s.id = Uri(id) /\ s.is = d.endpoints[id]
  <1> DEFINE exported == ExportToDidDocument(d, "application/json")
             Uri(id) == WithFragment(d.uri, id)
             Method(key) == [id |-> Uri(key.id), controller |-> d.uri,
                             type |-> key.type, publicKey |-> key.publicKey]
  <1>1. /\ exported.verificationMethod =
               {Method(key) : key \in UNION {GetKeysOf(d, r) : r \in ExportedRelationships}}
        /\ exported.relationships =
               [r \in {s \in ExportedRelationships : GetKeysOf(d, s) # {}} |->
                  {Uri(key.id) : key \in GetKeysOf(d, r)}]
        /\ exported.service = {[id |-> Uri(id), is |-> d.endpoints[id]] : id \in DOMAIN d.endpoints}
    BY DEF ExportToDidDocument, WithFragment
  <1> HIDE DEF exported
  <1>2. ASSUME NEW r \in DOMAIN exported.relationships, NEW uri \in exported.relationships[r]
        PROVE  \E key \in GetKeysOf(d, r) :
                  /\ uri = Uri(key.id)
                  /\ \E v \in exported.verificationMethod : v.id = uri /\ v.publicKey = key.publicKey
    <2>1. r \in ExportedRelationships
      BY <1>1, <1>2
    <2>2. PICK key \in GetKeysOf(d, r) : uri = Uri(key.id)
      BY <1>1, <1>2
    <2>3. Method(key) \in exported.verificationMethod
      BY <1>1, <2>1, <2>2
    <2> QED BY <2>2, <2>3
  <1>3. ASSUME NEW s \in exported.service
        PROVE  \E id \in DOMAIN d.endpoints : s.id = Uri(id) /\ s.is = d.endpoints[id]
    BY <1>1, <1>3
  <1> QED BY <1>2, <1>3 DEF exported

(* What a document lists can be resolved by the URI it lists it under, as   *)
(* long as the DID is what it was when the document was, and the text of a  *)
(* light DID says all there is to it.                                       *)
THEOREM DocumentsResolve == LifeSpec => []DocumentResolves
  <1>1. ASSUME LifeInv, Answered("resolveDoc"), seen = {Moment},
               NEW doc \in IF Answer = Absent THEN {} ELSE {Answer}, ~ doc.deactivated
        PROVE  LET exported == ExportToDidDocument(doc.details, "application/json")
                   Resolved(uri, op) == AnswerFrom(Asks(op, uri), doc)
                   Key(uri) == IF uri.type = "full" THEN KeyAt(did, uri.fragment)
                               ELSE Resolved(uri, "resolveKey")
               IN  /\ \A r \in DOMAIN exported.relationships :
                         \A uri \in exported.relationships[r] :
                            \E v \in exported.verificationMethod :
                               v.id = uri /\ Key(uri).publicKey = v.publicKey
                   /\ \A s \in exported.service :
                         s.is = IF s.id.type = "full" THEN ServiceAt(endpoints, s.id.fragment)
                                ELSE Resolved(s.id, "resolveServiceEndpoint")
    <2> DEFINE d == doc.details
               exported == ExportToDidDocument(d, "application/json")
               Resolved(uri, op) == AnswerFrom(Asks(op, uri), doc)
               Key(uri) == IF uri.type = "full" THEN KeyAt(did, uri.fragment)
                           ELSE Resolved(uri, "resolveKey")
    <2>0. doc = Answer /\ doc # Absent
      BY <1>1
    <2>1. doc = DocumentOf(Moment, Moment, call.q.uri)
      <3>1. PICK m \in seen, n \in seen :
                doc = AnswerFrom(call.q, DocumentOf(m, n, call.q.uri))
        BY <1>1, <2>0 DEF LifeInv, AnswerOK
      <3>2. m = Moment /\ n = Moment
        BY <1>1
      <3> QED BY <1>1, <2>0, <3>1, <3>2 DEF AnswerFrom, ByKey, Answered
    <2>2. LightOK /\ (did # Absent => did \in Record)
      BY <1>1 DEF LifeInv, ChainOK, MomentOK, Moment
    <2>3. \/ did # Absent /\ d = FullDidRecord(did, Services(endpoints))
          \/ d = light /\ d # Absent
      <3>1. CASE did # Absent /\ call.q.uri.type = "full"
        <4>1. DetailsOfRecord(SubjectUri, did, Services(endpoints))
                  = FullDidRecord(did, Services(endpoints))
          BY <2>2, <3>1, FullDidIs, LightIs
        <4>2. doc = Document(FullDidRecord(did, Services(endpoints)), Absent, FALSE)
          BY <2>1, <3>1, <4>1 DEF DocumentOf, FullDocument, Moment
        <4> QED BY <3>1, <4>2 DEF Document
      <3>2. CASE did # Absent /\ call.q.uri.type # "full"
        <4>1. doc = Document(light, SubjectUri, FALSE)
          BY <2>1, <3>2 DEF DocumentOf, Moment
        <4> QED BY <2>2, <4>1, LightIs DEF Document
      <3>3. CASE did = Absent
        <4>1. doc = Document(Absent, Absent, TRUE) => doc.deactivated
          BY DEF Document
        <4>2. doc = Document(light, Absent, FALSE)
          BY <1>1, <2>0, <2>1, <3>3, <4>1 DEF DocumentOf, Moment
        <4> QED BY <2>2, <4>2, LightIs DEF Document
      <3> QED BY <3>1, <3>2, <3>3
    <2>4. ASSUME NEW r, NEW key \in GetKeysOf(d, r)
          PROVE  Key(WithFragment(d.uri, key.id)) = key
      <3>1. CASE did # Absent /\ d = FullDidRecord(did, Services(endpoints))
        <4>1. /\ WithFragment(d.uri, key.id).type = "full"
              /\ WithFragment(d.uri, key.id).fragment = key.id
          BY <3>1 DEF FullDidRecord, SubjectUri, GetKiltDidFromIdentifier, WithFragment
        <4>2. d = DetailsOfRecord(SubjectUri, did, Services(endpoints)) /\ Subject \in Address
          BY <2>2, <3>1, FullDidIs, LightIs
        <4>3. PICK id \in KeyIds(did) : key = IdentifiedKey(id)
          <5>1. \A id \in Serves(did)[r] : r \in DOMAIN Serves(did) => id \in KeyIds(did)
            BY DEF Serves, KeyIds
          <5>2. GetKeysOf(d, r) = IF r \in DOMAIN Serves(did)
                                  THEN {IdentifiedKey(id) : id \in Serves(did)[r]} ELSE {}
            BY <2>2, <3>1, <4>2, FullDidKeys
          <5> QED BY <2>4, <5>1, <5>2
        <4>4. KeyAt(did, id) = IdentifiedKey(id)
          BY <2>2, <3>1, <4>2, FullDidKeys, LightIs DEF KeyAt
        <4>5. key.id = id
          BY <4>3 DEF IdentifiedKey
        <4> QED BY <4>1, <4>3, <4>4, <4>5
      <3>2. CASE d = light /\ d # Absent
        <4>1. /\ WithFragment(d.uri, key.id).type = "light"
              /\ WithFragment(d.uri, key.id).fragment = key.id
          BY <2>2, <3>2, UrisOK, LightIs DEF WithFragment
        <4>2. Key(WithFragment(d.uri, key.id)) = GetKey(light, key.id)
          BY <3>2, <4>1 DEF AnswerFrom, Asks, ByKey
        <4> QED BY <2>2, <2>4, <3>2, <4>2, LightRefersToItsKeys
      <3> QED BY <2>3, <3>1, <3>2
    <2>5. ASSUME NEW id \in DOMAIN d.endpoints
          PROVE  LET uri == WithFragment(d.uri, id)
                 IN  d.endpoints[id] = IF uri.type = "full" THEN ServiceAt(endpoints, uri.fragment)
                                       ELSE Resolved(uri, "resolveServiceEndpoint")
      <3> DEFINE uri == WithFragment(d.uri, id)
      <3>1. CASE did # Absent /\ d = FullDidRecord(did, Services(endpoints))
        <4>1. uri.type = "full" /\ uri.fragment = id
          BY <3>1 DEF FullDidRecord, SubjectUri, GetKiltDidFromIdentifier, WithFragment
        <4>2. d.endpoints = Services(endpoints)
          BY <3>1 DEF FullDidRecord
        <4>3. d.endpoints[id] = ServiceAt(endpoints, id)
          BY <2>5, <4>2 DEF Services, ServiceAt
        <4> QED BY <4>1, <4>3
      <3>2. CASE d = light /\ d # Absent
        <4>1. uri.type = "light" /\ uri.fragment = id
          BY <2>2, <3>2, UrisOK, LightIs DEF WithFragment
        <4>2. Resolved(uri, "resolveServiceEndpoint") = GetEndpoint(d, id)
          BY <3>2, <4>1 DEF AnswerFrom, Asks, ByKey
        <4>3. GetEndpoint(d, id) = d.endpoints[id]
          BY <2>5 DEF GetEndpoint
        <4> QED BY <4>1, <4>2, <4>3
      <3> QED BY <2>3, <3>1, <3>2
    <2> HIDE DEF d, exported, Key, Resolved
    <2>6. ASSUME NEW r \in DOMAIN exported.relationships, NEW uri \in exported.relationships[r]
          PROVE  \E v \in exported.verificationMethod :
                    v.id = uri /\ Key(uri).publicKey = v.publicKey
      <3>1. PICK key \in GetKeysOf(d, r) :
               /\ uri = WithFragment(d.uri, key.id)
               /\ \E v \in exported.verificationMethod : v.id = uri /\ v.publicKey = key.publicKey
        BY <2>6, ExportedIs DEF exported
      <3>2. Key(uri) = key
        BY <2>4, <3>1
      <3> QED BY <3>1, <3>2
    <2>7. ASSUME NEW s \in exported.service
          PROVE  s.is = IF s.id.type = "full" THEN ServiceAt(endpoints, s.id.fragment)
                        ELSE Resolved(s.id, "resolveServiceEndpoint")
      <3>1. PICK id \in DOMAIN d.endpoints :
               s.id = WithFragment(d.uri, id) /\ s.is = d.endpoints[id]
        BY <2>7, ExportedIs DEF exported
      <3> QED BY <2>5, <3>1
    <2> QED BY <2>6, <2>7 DEF d, exported, Key, Resolved
  <1>2. ASSUME LifeInv PROVE DocumentResolves
    <2>1. LightDidFromUri(light.uri, TRUE) = light
      BY <1>2, LightIs DEF LifeInv
    <2> QED BY <1>1, <1>2, <2>1 DEF DocumentResolves
  <1> QED BY <1>2, LifeInvHolds, PTL

=============================================================================
