------------------------------ MODULE MCExchange ------------------------------
(* An instance of Exchange for TLC.                                         *)
EXTENDS Exchange, TLC

CONSTANTS ctypeHash, extendedHash

MCAddress == {"cA", "aA", "vA", "oA"}
MCIsDidUri(id) == FALSE
MCKeyType(k) ==
    CASE k \in {"cA", "aA", "oA"} -> "sr25519" [] k = "vA" -> "ed25519" [] k = "cB" -> "ecdsa"
      [] OTHER -> "x25519"
MCSize(e) == [id |-> 1]
MCLimits == [id |-> 1]

MCAuthenticationKey(p) == CASE p = "claimer" -> "cA" [] p = "attester" -> "aA" [] OTHER -> "vA"
MCEncryptionKey(p) == CASE p = "claimer" -> "cE" [] p = "attester" -> "aE" [] OTHER -> "vE"

(* The address of a claim is nested: an object whose keys, or whose array,  *)
(* are in order or not, or an array with an object in it.                   *)
MCScalar(t) == [kind |-> "scalar", text |-> t]
MCMember(k, v) == [key |-> k, value |-> v]
MCObject(m, n) == [kind |-> "object", members |-> <<m, n>>]
MCArray(v, w) == [kind |-> "array", items |-> <<v, w>>]
MCA == MCScalar("a")
MCB == MCScalar("b")
MCInOrder == MCObject(MCMember("City", MCArray(MCA, MCB)), MCMember("zip", MCB))
MCKeysOut == MCObject(MCMember("zip", MCB), MCMember("City", MCArray(MCA, MCB)))
MCItemsOut == MCObject(MCMember("City", MCArray(MCB, MCA)), MCMember("zip", MCB))
MCAllOut == MCObject(MCMember("zip", MCB), MCMember("City", MCArray(MCB, MCA)))
MCObjectsFirst == MCArray(MCAllOut, MCA)
MCObjectsLast == MCArray(MCA, MCInOrder)
MCAddresses == <<MCInOrder, MCKeysOut, MCItemsOut, MCAllOut, MCObjectsFirst, MCObjectsLast>>
MCJson ==
    {MCScalar(t) : t \in {"Ann", "39", "a", "b"}}
    \cup {MCArray(MCA, MCB), MCArray(MCB, MCA)} \cup {MCAddresses[i] : i \in 1..6}
MCKeyPrecedes(k, l) == k = "City" /\ l = "zip"
MCTextPrecedes(v, w) ==
    \/ v.kind = "scalar" /\ w.kind = "object"
    \/ v.kind = "scalar" /\ w.kind = "scalar" /\ v.text = "a" /\ w.text = "b"

MCDigest(s) == s
MCSchemaHash(schema) == IF "description" \in DOMAIN schema THEN extendedHash ELSE ctypeHash
MCIsCType(ctype) == TRUE
MCIsQuote(quote) == TRUE
MCContents == [name |-> MCScalar("Ann"), age |-> MCScalar("39")]
MCCType ==
    CTypeFromSchema([f \in SchemaFields |-> IF f = "properties" THEN MCContents ELSE f],
                    GetKiltDidFromIdentifier("aA", "full", Absent))
MCExtended ==
    CTypeFromSchema([f \in SchemaFields \cup {"description"} |->
                        IF f = "properties" THEN MCContents ELSE f],
                    GetKiltDidFromIdentifier("aA", "full", Absent))
MCOwner == GetKiltDidFromIdentifier("aA", "full", Absent)
MCClaim(contents) == [cTypeHash |-> ctypeHash, owner |-> MCOwner, contents |-> contents]
MCRequest(claim, hashed, legitimations) ==
    [claim |-> claim, claimNonceMap |-> hashed.nonceMap, claimHashes |-> hashed.hashes,
     claimerSignature |-> Absent, rootHash |-> Absent, legitimations |-> legitimations,
     delegationId |-> Absent]
MCRooted(parts) == [parts EXCEPT !.rootHash = CalculateRootHash(parts)]
MCAttested(whole) ==
    [request |-> whole, attestation |-> AttestationFromRequestAndDid(whole, MCOwner)]
MCMade(contents, salt, legitimations) ==
    MCRooted(MCRequest(MCClaim(contents),
                       HashClaimContents(MCClaim(contents), NewNonces(MCClaim(contents), salt)),
                       legitimations))
MCCredential(contents, salt, legitimations) == MCAttested(MCMade(contents, salt, legitimations))
(* The oldest, the older that holds it, the nested and its holder.           *)
MCCredentials ==
    LET contents == <<<<>>, <<>>, [address |-> MCItemsOut], [address |-> MCInOrder]>>
        salts == <<"oldest", "older", "nested", "holder">>
        made[i \in 1..4] ==
            MCCredential(contents[i], salts[i], IF i % 2 = 1 THEN <<>> ELSE <<made[i - 1]>>)
    IN  made
MCLegitimationSet == {MCCredentials[i] : i \in 1..4}
MCLegitimations == <<MCCredentials[2]>>
MCOtherRequests ==
    {MCMade([address |-> MCInOrder], "salt", MCLegitimations),
     MCMade([address |-> MCKeysOut], "salt", <<>>),
     MCMade([address |-> MCAllOut], "salt", <<MCCredentials[1]>>),
     MCMade([address |-> MCObjectsFirst], "salt", <<>>),
     MCMade(MCContents, "salt", <<MCCredentials[1], MCCredentials[4]>>)}
MCQuote ==
    [cTypeHash |-> ctypeHash, cost |-> [gross |-> 2, net |-> 1, tax |-> 1], currency |-> "KILT",
     termsAndConditions |-> "terms", timeframe |-> "1 day"]
MCChallenge == {Absent, "challenge"}
MCSelection == {Absent, {"name"}}
MCDelegation == "delegation"

(* Bounds: nothing goes on after a verification has its answer, or a body   *)
(* is composed; no call begins after a presentation has returned; one is     *)
(* sent once all calls have begun, and then, as it is a copy, only the chain *)
(* moves, and the verifier.                                                  *)
MCPresented == \E e \in sent : e.to = Verifier
MCBounds ==
    /\ composed = Absent
    /\ verifying # Idle => verifying.todo # {}
    /\ MCPresented =>
          UNCHANGED <<details, request, credential, signing, presenting, presentations, sent>>
    /\ shown # Absent => UNCHANGED shown
    /\ calls' > calls => presentations = {}
    /\ sent' # sent /\ MCPresented' => calls = MaxCalls

(* What comes then depends on the chain and on what was sent and shown       *)
(* alone: two states that differ elsewhere are one.                          *)
MCView ==
    CASE shown # Absent -> <<chain, keystore, shown, verifying, seen>>
      [] shown = Absent /\ MCPresented -> <<chain, details, keystore, sent>>
      [] OTHER -> <<exchangeVars>>
=============================================================================
