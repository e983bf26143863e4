-------------------------------- MODULE DidUri --------------------------------
(***************************************************************************)
(* KILT DID URIs and the types of the keys of a DID: did/src/Did.utils.ts. *)
(*                                                                         *)
(* A URI is a record of the parts its text has: type is "full", "light" or *)
(* "none" (a text neither pattern matches), account the address in it,     *)
(* encoding the two digits that tell the type of a light DID's key,        *)
(* encoded what a light DID carries, fragment what follows the hash.       *)
(* A result that is an error is a record with the field error.             *)
(***************************************************************************)
EXTENDS Naturals, FiniteSets

CONSTANTS
    Address,   \* the accounts whose checksum is right
    Absent     \* what is undefined or null

Error(code) == [error |-> code]
IsError(result) == "error" \in DOMAIN result

-----------------------------------------------------------------------------
(* Keys and algorithms. *)

VerificationKeyType == {"sr25519", "ed25519", "ecdsa"}
EncryptionKeyType == {"x25519"}
VerificationRelationship == {"authentication", "capabilityDelegation", "assertionMethod"}
KeyRelationship == VerificationRelationship \cup {"keyAgreement"}

SigningAlgorithmFor == [ed25519 |-> "ed25519", sr25519 |-> "sr25519", ecdsa |-> "ecdsa-secp256k1"]
EncryptionAlgorithmFor == [x25519 |-> "x25519-xsalsa20-poly1305"]

\* undefined for an algorithm of the other kind
KeyTypeFor(algorithms, alg) ==
    IF \E t \in DOMAIN algorithms : algorithms[t] = alg
    THEN CHOOSE t \in DOMAIN algorithms : algorithms[t] = alg ELSE Absent

IsVerificationKey(key) == key.type \in VerificationKeyType
IsEncryptionKey(key) == key.type \in EncryptionKeyType

\* Only the key types a light DID may have are encoded.
EncodingFor(keyType) ==
    CASE keyType = "sr25519" -> "00" [] keyType = "ed25519" -> "01" [] OTHER -> Absent
KeyTypeForEncoding(encoding) ==
    CASE encoding = "00" -> "sr25519" [] encoding = "01" -> "ed25519" [] OTHER -> Absent

-----------------------------------------------------------------------------
(* URIs. The identifier of a light DID is its account with the encoding of  *)
(* the key's type before it, that of a full DID the account alone.          *)

LightIdentifier(encoding, account) == <<encoding, account>>

GetKiltDidFromIdentifier(identifier, didType, encoded) ==
    IF didType = "full"
    THEN [type |-> "full", account |-> identifier, encoding |-> Absent,
          encoded |-> Absent, fragment |-> Absent]
    ELSE [type |-> "light", account |-> identifier[2], encoding |-> identifier[1],
          encoded |-> encoded, fragment |-> Absent]

ParseDidUri(uri) ==
    CASE uri.type = "full" ->
            [did |-> GetKiltDidFromIdentifier(uri.account, "full", Absent), type |-> "full",
             identifier |-> uri.account, fragment |-> uri.fragment, encoded |-> Absent]
      [] uri.type = "light" ->
            LET identifier == LightIdentifier(uri.encoding, uri.account)
            IN  [did |-> GetKiltDidFromIdentifier(identifier, "light", uri.encoded),
                 type |-> "light", identifier |-> identifier, fragment |-> uri.fragment,
                 encoded |-> uri.encoded]
      [] OTHER -> Error("ERROR_INVALID_DID_FORMAT")

AccountOf(uri) ==
    LET parsed == ParseDidUri(uri)
    IN  IF parsed.type = "light" THEN parsed.identifier[2] ELSE parsed.identifier

\* A light and a full DID are of one subject if they are of one account.
IsSameSubject(didA, didB) == AccountOf(didA) = AccountOf(didB)

ValidateKiltDidUri(uri, allowFragment) ==
    LET parsed == ParseDidUri(uri)
    IN  IF IsError(parsed) THEN parsed
        ELSE IF ~ allowFragment /\ parsed.fragment # Absent
        THEN Error("ERROR_INVALID_DID_FORMAT")
        ELSE IF AccountOf(uri) \notin Address THEN Error("ERROR_ADDRESS_INVALID")
        ELSE [valid |-> TRUE]

\* A signature is a record of what made it (by), what it is over, whether it
\* is written in hex, and the URI of the key it claims.
ValidateDidSignature(signature) ==
    IF ~ signature.hex \/ IsError(ValidateKiltDidUri(signature.keyUri, TRUE))
    THEN Error("ERROR_SIGNATURE_DATA_TYPE") ELSE [valid |-> TRUE]

AssembleKeyUri(did, keyId) ==
    IF ParseDidUri(did).fragment # Absent THEN Error("ERROR_DID_ERROR")
    ELSE [did EXCEPT !.fragment = keyId]

=============================================================================
