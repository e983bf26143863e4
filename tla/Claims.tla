-------------------------------- MODULE Claims --------------------------------
(***************************************************************************)
(* Claims, the hashes of their statements, and the CTypes they are made    *)
(* for: core/src/claim/Claim.utils.ts, core/src/ctype, and the hashing of  *)
(* utils/src/Crypto.ts.                                                    *)
(*                                                                         *)
(* A hash is what it is made of: a salted hash is the pair of the digest   *)
(* of a statement and its nonce. A claim is [cTypeHash, owner, contents],  *)
(* contents a function on the attributes, its values those of JsonAbc.     *)
(* A check returns Valid or the error it throws; an array is a record with *)
(* the field array, so that it can be told from an object.                 *)
(***************************************************************************)
EXTENDS DidDetails, JsonAbc

CONSTANTS
    Malformed,      \* a text that is no hash, a value no attribute may have
    Digest(_),      \* blake2 of a statement: no two have the same
    SchemaHash(_),  \* hashObjectAsStr of a schema without its id
    IsCType(_)      \* the CTypeWrapperModel accepts it: see ClaimSchemas

Valid == [valid |-> TRUE]

\* What throws first is the result.
Then(first, next) == IF IsError(first) THEN first ELSE next
All(results) ==
    IF \E r \in results : IsError(r) THEN CHOOSE r \in results : IsError(r) ELSE Valid

Check(result) == IF IsError(result) THEN result ELSE Valid

Array(items) == [array |-> items]
IsArray(value) == "array" \in DOMAIN value
At(value, i) == value.array[i]
\* array.map(f), with its results given
Collect(results) ==
    Then(All({Check(results[i]) : i \in DOMAIN results}), Array(results))

\* An array of parts, of which some can fail.
ArrayOf(parts, fallible) ==
    Then(All({Check(parts[i]) : i \in fallible}), Array(parts))

\* Decompression of a value that need be an array of so many parts.
Decompress(value, length, result) ==
    IF ~ IsArray(value) THEN Error("ERROR_DECOMPRESSION_ARRAY")
    ELSE IF Len(value.array) # length THEN Error("ERROR_DECOMPRESSION_ARRAY") ELSE result

ValidateHash(hash) ==
    CASE hash = Absent -> Error("ERROR_HASH_TYPE")
      [] hash = Malformed -> Error("ERROR_HASH_MALFORMED")
      [] OTHER -> Valid
IsHex(text) == text \notin {Absent, Malformed}

-----------------------------------------------------------------------------
(* Statements. The owner is one of them, under @id; an attribute's name is  *)
(* made unique by the CType.                                                *)

AttributesOf(claim) == IF claim.contents = Absent THEN {} ELSE DOMAIN claim.contents

Statements(claim) ==
    {<< <<claim.cTypeHash, a>>, claim.contents[a] >> : a \in AttributesOf(claim)}
    \cup (IF claim.owner = Absent THEN {} ELSE {<< <<"@id">>, claim.owner >>})

\* toJsonLD, not expanded: the vocabulary says what the names mean.
CredentialSubject(claim) ==
    [id |-> claim.owner, vocabulary |-> claim.cTypeHash,
     properties |-> [a \in AttributesOf(claim) |-> claim.contents[a]]]

Digests(statements) == {Digest(s) : s \in statements}
SaltedHash(digest, nonce) == <<digest, nonce>>
NonceOf(nonces, digest) == IF digest \in DOMAIN nonces THEN nonces[digest] ELSE Absent

HashStatements(statements, nonces) ==
    {[digest |-> d, nonce |-> NonceOf(nonces, d),
      saltedHash |-> SaltedHash(d, NonceOf(nonces, d))] : d \in Digests(statements)}

\* The default nonce generator: new ones for every call, here by its salt.
NewNonces(claim, salt) == [d \in Digests(Statements(claim)) |-> salt]

\* The hashes are sorted, so that their order tells nothing.
HashClaimContents(claim, nonces) ==
    LET processed == HashStatements(Statements(claim), nonces)
    IN  IF \E p \in processed : p.nonce = Absent
        THEN Error("ERROR_CLAIM_NONCE_MAP_MALFORMED")
        ELSE [hashes |-> {p.saltedHash : p \in processed},
              nonceMap |-> [d \in Digests(Statements(claim)) |-> nonces[d]]]

VerifyDisclosedAttributes(claim, nonces, hashes) ==
    LET hashed == HashStatements(Statements(claim), nonces)
    IN  IF \E h \in hashed : h.nonce = Absent THEN Error("ERROR_NO_PROOF_FOR_STATEMENT")
        ELSE IF \E h \in hashed : h.saltedHash \notin hashes
        THEN Error("ERROR_INVALID_PROOF_FOR_STATEMENT")
        ELSE Valid

ClaimErrorCheck(claim) ==
    IF claim.cTypeHash = Absent THEN Error("ERROR_CTYPE_HASH_NOT_PROVIDED")
    ELSE Then(IF claim.owner = Absent THEN Valid ELSE ValidateKiltDidUri(claim.owner, FALSE),
         IF \E a \in AttributesOf(claim) : claim.contents[a] = Malformed
         THEN Error("ERROR_CLAIM_CONTENTS_MALFORMED")
         ELSE ValidateHash(claim.cTypeHash))

\* The claim with the values of its contents as a sorting makes, or leaves, them.
ClaimIn(order, claim) ==
    [claim EXCEPT !.contents =
        IF @ = Absent THEN Absent ELSE [a \in DOMAIN @ |-> order[@[a]]]]

\* The attributes have no order here: their digests do not tell it.
CompressClaim(claim) ==
    Then(ClaimErrorCheck(claim),
         Array(<<claim.cTypeHash, claim.owner, ClaimIn(SortObj, claim).contents>>))

DecompressClaim(c) ==
    Decompress(c, 3, [cTypeHash |-> At(c, 1), owner |-> At(c, 2), contents |-> At(c, 3)])

-----------------------------------------------------------------------------
(* CTypes: [hash, owner, schema], the schema with the fields $id, $schema,  *)
(* title, properties and type, and any others; in no order, as they are     *)
(* sorted before they are hashed. An owner may be missing.                  *)

SchemaFields == {"$id", "$schema", "title", "properties", "type"}

\* getSchemaPropertiesForHash and getHashForSchema
GetHashForSchema(schema) == SchemaHash([f \in DOMAIN schema \ {"$id"} |-> schema[f]])
GetIdForSchema(schema) == <<"kilt:ctype", GetHashForSchema(schema)>>

CTypeErrorCheck(ctype) ==
    IF ~ IsCType(ctype) THEN Error("ERROR_OBJECT_MALFORMED")
    ELSE IF GetHashForSchema(ctype.schema) # ctype.hash THEN Error("ERROR_HASH_MALFORMED")
    ELSE IF GetIdForSchema(ctype.schema) # ctype.schema["$id"]
    THEN Error("ERROR_CTYPE_ID_NOT_MATCHING")
    ELSE IF ctype.owner = Absent THEN Valid ELSE ValidateKiltDidUri(ctype.owner, FALSE)

\* CType.fromSchema
CTypeFromSchema(schema, owner) ==
    LET ctype == [hash |-> GetHashForSchema(schema), owner |-> owner,
                  schema |-> [f \in DOMAIN schema \cup {"$id"} |->
                                IF f = "$id" THEN GetIdForSchema(schema) ELSE schema[f]]]
    IN  Then(CTypeErrorCheck(ctype), ctype)

\* What is no schema field is left behind.
CompressSchema(schema) ==
    IF \E f \in SchemaFields : schema[f] = Absent THEN Error("ERROR_COMPRESS_OBJECT")
    ELSE Array(<<schema["$id"], schema["$schema"], schema.title, schema.properties,
                 schema.type>>)

DecompressSchema(c) ==
    Decompress(c, 5,
        [f \in SchemaFields |->
            CASE f = "$id" -> At(c, 1) [] f = "$schema" -> At(c, 2) [] f = "title" -> At(c, 3)
              [] f = "properties" -> At(c, 4) [] OTHER -> At(c, 5)])

CompressCType(ctype) ==
    Then(CTypeErrorCheck(ctype),
         ArrayOf(<<ctype.hash, ctype.owner, CompressSchema(ctype.schema)>>, {3}))

DecompressCType(c) ==
    Decompress(c, 3, Then(DecompressSchema(At(c, 3)),
        [hash |-> At(c, 1), owner |-> At(c, 2), schema |-> DecompressSchema(At(c, 3))]))

=============================================================================
