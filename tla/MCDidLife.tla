------------------------------- MODULE MCDidLife -------------------------------
(* An instance of DidLife for TLC: a light DID with at most one encryption  *)
(* key and two services, one of which only a full DID may have.             *)
EXTENDS DidLife, TLC

CONSTANTS c1, c2, x, y

MCVerificationKey == {"v1", "v2"}
MCEncryptionKey == {"e1"}
MCEndpoint == {"home", "encryption"}
MCCaller == {c1, c2}
MCAddress == {"v1"}
MCIsDidUri(id) == FALSE
MCSize(e) == [id |-> 1, types |-> 1, urls |-> 1, type |-> 1, url |-> IF e = "encryption" THEN 2 ELSE 1]
MCLimits == [id |-> 1, types |-> 1, urls |-> 1, type |-> 1, url |-> 1]
MCKeyType(k) == CASE k = "v1" -> "sr25519" [] k = "v2" -> "ecdsa" [] OTHER -> "x25519"
MCOtherDid == {x, y}
MCName == {"n", "short"}
MCNameLength(n) == IF n = "short" THEN 1 ELSE 2
MCFragment == {"v1", "authentication", "home"}

MCSymmetry == Permutations(MCCaller) \cup Permutations(MCOtherDid)

(* Bounds: one call, at any time, with at most MaxTx transactions before    *)
(* its answer. Nothing is asked while the builder is half way, which no     *)
(* query sees; a DID that is changed was created with at most two things;   *)
(* links and names, which share nothing with the DID, are changed and asked *)
(* for only while it is light and its builder is as it was.                 *)
AboutLinks == call # Idle /\ call.q.op \in {"queryWeb3Name", "authorizeLink"}
LinksInitial ==
    \E d \in OtherDid : linked = d /\ \A e \in OtherDid : (names[e] # Absent) = (e = d)
MCBounds ==
    /\ call.pc # "done"
    /\ call = Idle => txs < MaxTx
    /\ call # Idle => consumed = (\E c \in Caller : stage[c] = "created")
    /\ untouched \/ Cardinality(accepted) <= 2
    /\ newDelegationKey # Update("v1")
    /\ AboutLinks \/ ~ LinksInitial => ~ consumed /\ Cardinality(accepted) = 0
=============================================================================
