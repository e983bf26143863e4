------------------------- MODULE AccountNoncesProofs -------------------------
(***************************************************************************)
(* Proofs about AccountNonces, for any accounts, calls, answers of the     *)
(* chain and number of re-signatures.                                      *)
(***************************************************************************)
EXTENDS AccountNonces, TLAPS

(* What LaterOf returns: one of its arguments, and no less than either.     *)
LEMMA LaterOfFacts ==
    ASSUME NEW n \in Nat, NEW second \in Nat \union {NoNonce}
    PROVE  /\ LaterOf(n, second) \in Nat
           /\ LaterOf(n, second) >= n
           /\ second # NoNonce => LaterOf(n, second) >= second
BY DEF LaterOf

(* HandOut only ever runs with a natural number.                            *)
LEMMA HandOutType ==
    ASSUME TypeOK, NEW c \in Call, NEW n \in Nat, HandOut(c, n)
    PROVE  TypeOK'
<1>1. AccountOf[c] \in Account
  BY NoncesAssumption
<1>2. /\ accountNonces' \in [Account -> Nat \union {NoNonce}]
      /\ pc' \in [Call -> Stage]
      /\ reply' \in [Call -> Nat \union {NoNonce}]
      /\ nonce' \in [Call -> Nat \union {NoNonce}]
      /\ resigns' \in [Call -> 0..MaxReSign]
      /\ resets' \in [Account -> Nat]
      /\ stamp' \in [Call -> Nat]
      /\ during' \in [Call -> SUBSET Nat]
      /\ quiet' \in [Call -> BOOLEAN]
  BY <1>1 DEF TypeOK, HandOut, Stage
<1>3. \A d \in Call : pc'[d] = "replied" => reply'[d] \in Nat
  BY DEF TypeOK, HandOut
<1>4. \A d \in Call : pc'[d] \in {"signing", "signed"} => nonce'[d] \in Nat
  BY DEF TypeOK, HandOut
<1> QED
  BY <1>2, <1>3, <1>4 DEF TypeOK

LEMMA TypeInit == Init => TypeOK
BY NoncesAssumption DEF Init, TypeOK, Stage

(* Every step keeps the types, the steps that sign again included.          *)
LEMMA TypeStep == TypeOK /\ [Next]_nonceVars => TypeOK'
<1> SUFFICES ASSUME TypeOK, [Next]_nonceVars PROVE TypeOK'
  OBVIOUS
<1>1. CASE UNCHANGED nonceVars
  BY <1>1 DEF TypeOK, nonceVars
<1>2. ASSUME NEW c \in Call, SignTxKnown(c) PROVE TypeOK'
  <2>1. accountNonces[AccountOf[c]] \in Nat
    BY <1>2, NoncesAssumption DEF SignTxKnown, TypeOK
  <2> QED
    BY <1>2, <2>1, HandOutType DEF SignTxKnown
<1>3. ASSUME NEW c \in Call, SignTxUnknown(c) PROVE TypeOK'
  BY <1>3 DEF SignTxUnknown, StartQuery, TypeOK, Stage
<1>4. ASSUME NEW c \in Call, NEW n \in ChainIndex, ChainAnswers(c, n) PROVE TypeOK'
  BY <1>4, NoncesAssumption DEF ChainAnswers, TypeOK, Stage
<1>5. ASSUME NEW c \in Call, ChainRefuses(c) PROVE TypeOK'
  BY <1>5 DEF ChainRefuses, TypeOK, Stage
<1>6. ASSUME NEW c \in Call, GetNonceResumes(c) PROVE TypeOK'
  <2>1. LaterOf(reply[c], accountNonces[AccountOf[c]]) \in Nat
    BY <1>6, LaterOfFacts, NoncesAssumption DEF GetNonceResumes, TypeOK
  <2> QED
    BY <1>6, <2>1, HandOutType DEF GetNonceResumes
<1>7. ASSUME NEW c \in Call, GetNonceThrows(c) PROVE TypeOK'
  BY <1>7 DEF GetNonceThrows, TypeOK, Stage
<1>8. ASSUME NEW c \in Call, Signs(c) PROVE TypeOK'
  BY <1>8 DEF Signs, TypeOK, Stage
<1>9. ASSUME NEW c \in Call, SignerThrows(c) PROVE TypeOK'
  BY <1>9 DEF SignerThrows, TypeOK, Stage
<1>10. ASSUME NEW c \in Call, ReSignTx(c) PROVE TypeOK'
  <2>0. resigns[c] \in 0..MaxReSign /\ resigns[c] < MaxReSign /\ resets[AccountOf[c]] \in Nat
    BY <1>10, NoncesAssumption DEF ReSignTx, TypeOK
  <2>1. resigns[c] + 1 \in 0..MaxReSign /\ resets[AccountOf[c]] + 1 \in Nat
    BY <2>0, NoncesAssumption
  <2>2. /\ accountNonces' \in [Account -> Nat \union {NoNonce}]
        /\ resigns' \in [Call -> 0..MaxReSign]
        /\ resets' \in [Account -> Nat]
    BY <1>10, <2>1 DEF ReSignTx, TypeOK
  <2>3. /\ pc' \in [Call -> Stage]
        /\ during' \in [Call -> SUBSET Nat]
        /\ quiet' \in [Call -> BOOLEAN]
        /\ reply' = reply /\ nonce' = nonce /\ stamp' = stamp
    BY <1>10 DEF ReSignTx, StartQuery, TypeOK, Stage
  <2>4. \A d \in Call : pc'[d] = "replied" => pc[d] = "replied"
    BY <1>10 DEF ReSignTx, StartQuery, TypeOK
  <2>5. \A d \in Call : pc'[d] \in {"signing", "signed"} => pc[d] = pc'[d]
    BY <1>10 DEF ReSignTx, StartQuery, TypeOK
  <2> QED
    BY <2>2, <2>3, <2>4, <2>5 DEF TypeOK
<1> QED
  BY <1>1, <1>2, <1>3, <1>4, <1>5, <1>6, <1>7, <1>8, <1>9, <1>10
     DEF Next, SignStep

(* The variables of getNonce always hold what their types say.              *)
THEOREM TypeCorrect == Spec => []TypeOK
<1> QED
  BY TypeInit, TypeStep, PTL DEF Spec

-----------------------------------------------------------------------------
(* The inductive invariant: distinctness follows from the map being ahead   *)
(* of every nonce handed out since its entry was deleted, and from no call  *)
(* holding a stamp later than the account's last reset.                     *)
StampBounded == \A c \in Call : stamp[c] <= resets[AccountOf[c]]

NonceInv == TypeOK /\ StampBounded /\ EntryAhead /\ DistinctSinceReset

LEMMA HandOutInv ==
    ASSUME NonceInv, NEW c \in Call, NEW n \in Nat, HandOut(c, n),
           accountNonces[AccountOf[c]] # NoNonce => n >= accountNonces[AccountOf[c]]
    PROVE  (StampBounded /\ EntryAhead /\ DistinctSinceReset)'
<1> DEFINE a == AccountOf[c]
<1>0. TypeOK /\ TypeOK' /\ a \in Account /\ n # NoNonce
  BY HandOutType, NoncesAssumption DEF NonceInv
<1>1. /\ nonce' = [nonce EXCEPT ![c] = n]
      /\ stamp' = [stamp EXCEPT ![c] = resets[a]]
      /\ accountNonces' = [accountNonces EXCEPT ![a] = n + 1]
      /\ resets' = resets
  BY DEF HandOut
<1>2. StampBounded'
  BY <1>0, <1>1 DEF NonceInv, StampBounded, TypeOK
<1>3. ASSUME NEW d \in Call, d # c, AccountOf[d] = a, HasNonce(d), stamp[d] = resets[a]
      PROVE  nonce[d] < n
  BY <1>0, <1>3, NoncesAssumption DEF NonceInv, EntryAhead, TypeOK, HasNonce
<1>4. EntryAhead'
  <2> SUFFICES ASSUME NEW d \in Call, HasNonce(d)', (stamp[d] = resets[AccountOf[d]])'
               PROVE  (accountNonces[AccountOf[d]] # NoNonce
                         /\ nonce[d] < accountNonces[AccountOf[d]])'
    BY DEF EntryAhead
  <2>0. AccountOf[d] \in Account /\ n + 1 \in Nat /\ n + 1 # NoNonce
    BY NoncesAssumption
  <2>1. CASE d = c
    BY <1>0, <1>1, <2>0, <2>1 DEF TypeOK
  <2>2. CASE d # c /\ AccountOf[d] = a
    <3>1. HasNonce(d) /\ stamp[d] = resets[a]
      BY <1>0, <1>1, <2>2 DEF HasNonce, TypeOK
    <3>2. nonce[d] < n /\ nonce[d] \in Nat
      BY <1>0, <1>3, <2>2, <3>1 DEF HasNonce, TypeOK
    <3> QED
      BY <1>0, <1>1, <2>0, <2>2, <3>2 DEF TypeOK
  <2>3. CASE d # c /\ AccountOf[d] # a
    BY <1>0, <1>1, <2>0, <2>3 DEF NonceInv, EntryAhead, HasNonce, TypeOK
  <2> QED
    BY <2>1, <2>2, <2>3
<1>5. DistinctSinceReset'
  <2> SUFFICES ASSUME NEW d \in Call, NEW e \in Rivals(d),
                      HasNonce(d)', HasNonce(e)', (stamp[d] = stamp[e])'
               PROVE  (nonce[d] # nonce[e])'
    BY DEF DistinctSinceReset, Rivals
  <2>0. e \in Call /\ e # d /\ AccountOf[e] = AccountOf[d]
    BY DEF Rivals
  <2>1. CASE d = c
    BY <1>0, <1>1, <1>3, <2>0, <2>1 DEF HasNonce, TypeOK
  <2>2. CASE e = c
    BY <1>0, <1>1, <1>3, <2>0, <2>2 DEF HasNonce, TypeOK
  <2>3. CASE d # c /\ e # c
    BY <1>0, <1>1, <2>0, <2>3 DEF NonceInv, DistinctSinceReset, HasNonce, TypeOK
  <2> QED
    BY <2>1, <2>2, <2>3
<1> QED
  BY <1>2, <1>4, <1>5

LEMMA NonceInvInit == Init => NonceInv
<1> SUFFICES ASSUME Init PROVE NonceInv
  OBVIOUS
<1>1. StampBounded
  BY NoncesAssumption DEF Init, StampBounded
<1>2. EntryAhead /\ DistinctSinceReset
  BY DEF Init, EntryAhead, DistinctSinceReset, HasNonce
<1> QED
  BY <1>1, <1>2, TypeInit DEF NonceInv

LEMMA NonceInvStep == NonceInv /\ [Next]_nonceVars => NonceInv'
<1> SUFFICES ASSUME NonceInv, [Next]_nonceVars
             PROVE  (StampBounded /\ EntryAhead /\ DistinctSinceReset)'
  BY TypeStep DEF NonceInv
<1>0. TypeOK
  BY DEF NonceInv
<1>1. ASSUME UNCHANGED <<accountNonces, nonce, resets, stamp>>
      PROVE  (StampBounded /\ EntryAhead /\ DistinctSinceReset)'
  BY <1>1 DEF NonceInv, StampBounded, EntryAhead, DistinctSinceReset, HasNonce, Rivals
<1>2. CASE UNCHANGED nonceVars
  BY <1>1, <1>2 DEF nonceVars
<1>3. ASSUME NEW c \in Call, SignTxKnown(c)
      PROVE  (StampBounded /\ EntryAhead /\ DistinctSinceReset)'
  <2>1. accountNonces[AccountOf[c]] \in Nat
    BY <1>0, <1>3, NoncesAssumption DEF SignTxKnown, TypeOK
  <2> QED
    BY <1>3, <2>1, HandOutInv DEF SignTxKnown
<1>4. ASSUME NEW c \in Call, SignTxUnknown(c)
      PROVE  (StampBounded /\ EntryAhead /\ DistinctSinceReset)'
  BY <1>1, <1>4 DEF SignTxUnknown, StartQuery
<1>5. ASSUME NEW c \in Call, GetNonceResumes(c)
      PROVE  (StampBounded /\ EntryAhead /\ DistinctSinceReset)'
  <2> DEFINE second == accountNonces[AccountOf[c]]
  <2>1. reply[c] \in Nat /\ second \in Nat \union {NoNonce}
    BY <1>0, <1>5, NoncesAssumption DEF GetNonceResumes, TypeOK
  <2>2. /\ LaterOf(reply[c], second) \in Nat
        /\ second # NoNonce => LaterOf(reply[c], second) >= second
    BY <2>1, LaterOfFacts
  <2> QED
    BY <1>5, <2>2, HandOutInv DEF GetNonceResumes
<1>6. ASSUME NEW c \in Call, ReSignTx(c)
      PROVE  (StampBounded /\ EntryAhead /\ DistinctSinceReset)'
  <2>1. /\ nonce' = nonce
        /\ stamp' = stamp
        /\ accountNonces' = [accountNonces EXCEPT ![AccountOf[c]] = NoNonce]
        /\ resets' = [resets EXCEPT ![AccountOf[c]] = @ + 1]
    BY <1>6 DEF ReSignTx, StartQuery
  <2>2. StampBounded'
    BY <1>0, <2>1, NoncesAssumption DEF NonceInv, StampBounded, TypeOK
  <2>3. EntryAhead'
    <3> SUFFICES ASSUME NEW d \in Call, HasNonce(d)', (stamp[d] = resets[AccountOf[d]])'
                 PROVE  (accountNonces[AccountOf[d]] # NoNonce
                           /\ nonce[d] < accountNonces[AccountOf[d]])'
      BY DEF EntryAhead
    <3>0. AccountOf[d] \in Account
      BY NoncesAssumption
    <3>1. CASE AccountOf[d] = AccountOf[c]
      BY <1>0, <2>1, <3>0, <3>1 DEF NonceInv, StampBounded, TypeOK
    <3>2. CASE AccountOf[d] # AccountOf[c]
      BY <1>0, <2>1, <3>0, <3>2 DEF NonceInv, EntryAhead, HasNonce, TypeOK
    <3> QED
      BY <3>1, <3>2
  <2>4. DistinctSinceReset'
    BY <2>1 DEF NonceInv, DistinctSinceReset, HasNonce, Rivals
  <2> QED
    BY <2>2, <2>3, <2>4
<1>7. ASSUME NEW c \in Call, NEW n \in ChainIndex, ChainAnswers(c, n)
      PROVE  (StampBounded /\ EntryAhead /\ DistinctSinceReset)'
  BY <1>1, <1>7 DEF ChainAnswers
<1>8. ASSUME NEW c \in Call,
             ChainRefuses(c) \/ GetNonceThrows(c) \/ Signs(c) \/ SignerThrows(c)
      PROVE  (StampBounded /\ EntryAhead /\ DistinctSinceReset)'
  BY <1>1, <1>8 DEF ChainRefuses, GetNonceThrows, Signs, SignerThrows
<1> QED
  BY <1>2, <1>3, <1>4, <1>5, <1>6, <1>7, <1>8 DEF Next, SignStep

(* Between two deletions of an account's entry no nonce is handed out       *)
(* twice, however many calls there are and whatever the chain answers.      *)
THEOREM NoncesDistinctSinceReset == Spec => []DistinctSinceReset
<1>1. NonceInv => DistinctSinceReset
  BY DEF NonceInv
<1> QED
  BY <1>1, NonceInvInit, NonceInvStep, PTL DEF Spec

(* The entry of an account stays ahead of all nonces handed out since it    *)
(* was deleted.                                                             *)
THEOREM EntryStaysAhead == Spec => []EntryAhead
<1>1. NonceInv => EntryAhead
  BY DEF NonceInv
<1> QED
  BY <1>1, NonceInvInit, NonceInvStep, PTL DEF Spec

-----------------------------------------------------------------------------
(* What others took while a call waits stays below the entry it will read   *)
(* again, unless the entry is deleted.                                      *)
AwaitInv ==
    \A c \in Call :
        /\ pc[c] = "idle" => during[c] = {}
        /\ Waiting(c) /\ quiet[c] => \A m \in during[c] :
               accountNonces[AccountOf[c]] # NoNonce /\ m < accountNonces[AccountOf[c]]

LEMMA HandOutFresh ==
    ASSUME TypeOK, AwaitInv, FreshWhileQuiet,
           NEW c \in Call, NEW n \in Nat, HandOut(c, n), pc[c] = "idle" \/ Waiting(c),
           accountNonces[AccountOf[c]] # NoNonce => n >= accountNonces[AccountOf[c]]
    PROVE  AwaitInv' /\ FreshWhileQuiet'
<1> DEFINE a == AccountOf[c]
<1>0. a \in Account /\ n + 1 \in Nat /\ n + 1 # NoNonce /\ n < n + 1
  BY NoncesAssumption
<1>1. /\ accountNonces' = [accountNonces EXCEPT ![a] = n + 1]
      /\ nonce' = [nonce EXCEPT ![c] = n]
      /\ pc' = [pc EXCEPT ![c] = "signing"]
      /\ during' = [d \in Call |-> IF d \in Rivals(c) /\ Waiting(d)
                                    THEN during[d] \union {n} ELSE during[d]]
      /\ quiet' = quiet
  BY DEF HandOut
<1>2. quiet[c] => \A m \in during[c] : m \in Nat /\ m < n
  <2> SUFFICES ASSUME quiet[c], NEW m \in during[c] PROVE m \in Nat /\ m < n
    OBVIOUS
  <2>1. m \in Nat
    BY DEF TypeOK
  <2>2. Waiting(c)
    BY DEF AwaitInv
  <2>3. accountNonces[a] \in Nat /\ m < accountNonces[a]
    BY <1>0, <2>2 DEF AwaitInv, TypeOK
  <2> QED
    BY <2>1, <2>3, NoncesAssumption
<1>3. during'[c] = during[c]
  BY <1>1 DEF Rivals
<1>4. FreshWhileQuiet'
  <2> SUFFICES ASSUME NEW d \in Call, pc'[d] = "signing", quiet[d], NEW m \in during'[d]
               PROVE  nonce'[d] > m
    BY <1>1 DEF FreshWhileQuiet
  <2>1. CASE d = c
    BY <1>1, <1>2, <1>3, <2>1 DEF TypeOK
  <2>2. CASE d # c
    <3>1. pc[d] = "signing" /\ nonce'[d] = nonce[d]
      BY <1>1, <2>2 DEF TypeOK
    <3>2. during'[d] = during[d]
      BY <1>1, <3>1 DEF Waiting
    <3> QED
      BY <3>1, <3>2 DEF FreshWhileQuiet
  <2> QED
    BY <2>1, <2>2
<1>5. AwaitInv'
  <2> SUFFICES ASSUME NEW d \in Call
               PROVE  /\ pc'[d] = "idle" => during'[d] = {}
                      /\ Waiting(d)' /\ quiet[d] => \A m \in during'[d] :
                            /\ accountNonces'[AccountOf[d]] # NoNonce
                            /\ m < accountNonces'[AccountOf[d]]
    BY <1>1 DEF AwaitInv
  <2>1. CASE d = c
    BY <1>1, <2>1 DEF TypeOK, Waiting
  <2>2. CASE d # c
    <3>0. pc'[d] = pc[d] /\ AccountOf[d] \in Account
      BY <1>1, <2>2, NoncesAssumption DEF TypeOK
    <3>1. pc'[d] = "idle" => during'[d] = {}
      BY <1>1, <3>0 DEF Waiting, AwaitInv
    <3>2. ASSUME Waiting(d)', quiet[d], NEW m \in during'[d]
          PROVE  accountNonces'[AccountOf[d]] # NoNonce /\ m < accountNonces'[AccountOf[d]]
      <4>0. Waiting(d)
        BY <3>0, <3>2 DEF Waiting
      <4>1. CASE AccountOf[d] = a
        <5>1. accountNonces'[AccountOf[d]] = n + 1
          BY <1>0, <1>1, <4>1 DEF TypeOK
        <5>2. m = n \/ m \in during[d]
          BY <1>1, <3>2
        <5>3. CASE m \in during[d]
          <6>1. m \in Nat /\ accountNonces[a] \in Nat /\ m < accountNonces[a]
            BY <1>0, <3>2, <4>0, <4>1, <5>3 DEF AwaitInv, TypeOK
          <6> QED
            BY <1>0, <5>1, <6>1, NoncesAssumption
        <5> QED
          BY <1>0, <5>1, <5>2, <5>3
      <4>2. CASE AccountOf[d] # a
        <5>1. d \notin Rivals(c) /\ during'[d] = during[d]
          BY <1>1, <4>2 DEF Rivals
        <5>2. accountNonces'[AccountOf[d]] = accountNonces[AccountOf[d]]
          BY <1>1, <3>0, <4>2 DEF TypeOK
        <5> QED
          BY <3>2, <4>0, <5>1, <5>2 DEF AwaitInv
      <4> QED
        BY <4>1, <4>2
    <3> QED
      BY <3>1, <3>2
  <2> QED
    BY <2>1, <2>2
<1> QED
  BY <1>4, <1>5

LEMMA FreshStep ==
    TypeOK /\ AwaitInv /\ FreshWhileQuiet /\ [Next]_nonceVars
        => AwaitInv' /\ FreshWhileQuiet'
<1> SUFFICES ASSUME TypeOK, AwaitInv, FreshWhileQuiet, [Next]_nonceVars
             PROVE  AwaitInv' /\ FreshWhileQuiet'
  OBVIOUS
<1>1. CASE UNCHANGED nonceVars
  BY <1>1 DEF nonceVars, AwaitInv, FreshWhileQuiet, Waiting
<1>2. ASSUME NEW c \in Call, SignTxKnown(c) PROVE AwaitInv' /\ FreshWhileQuiet'
  <2>1. accountNonces[AccountOf[c]] \in Nat
    BY <1>2, NoncesAssumption DEF SignTxKnown, TypeOK
  <2> QED
    BY <1>2, <2>1, HandOutFresh DEF SignTxKnown
<1>3. ASSUME NEW c \in Call, SignTxUnknown(c) PROVE AwaitInv' /\ FreshWhileQuiet'
  BY <1>3 DEF SignTxUnknown, StartQuery, TypeOK, AwaitInv, FreshWhileQuiet, Waiting
<1>4. ASSUME NEW c \in Call, GetNonceResumes(c) PROVE AwaitInv' /\ FreshWhileQuiet'
  <2> DEFINE second == accountNonces[AccountOf[c]]
  <2>1. reply[c] \in Nat /\ second \in Nat \union {NoNonce} /\ Waiting(c)
    BY <1>4, NoncesAssumption DEF GetNonceResumes, TypeOK, Waiting
  <2>2. /\ LaterOf(reply[c], second) \in Nat
        /\ second # NoNonce => LaterOf(reply[c], second) >= second
    BY <2>1, LaterOfFacts
  <2> QED
    BY <1>4, <2>1, <2>2, HandOutFresh DEF GetNonceResumes
<1>5. ASSUME NEW c \in Call, NEW n \in ChainIndex, ChainAnswers(c, n)
      PROVE  AwaitInv' /\ FreshWhileQuiet'
  BY <1>5 DEF ChainAnswers, TypeOK, AwaitInv, FreshWhileQuiet, Waiting
<1>6. ASSUME NEW c \in Call, ChainRefuses(c) PROVE AwaitInv' /\ FreshWhileQuiet'
  BY <1>6 DEF ChainRefuses, TypeOK, AwaitInv, FreshWhileQuiet, Waiting
<1>7. ASSUME NEW c \in Call, GetNonceThrows(c) \/ Signs(c) \/ SignerThrows(c)
      PROVE  AwaitInv' /\ FreshWhileQuiet'
  BY <1>7 DEF GetNonceThrows, Signs, SignerThrows, TypeOK, AwaitInv, FreshWhileQuiet, Waiting
<1>8. ASSUME NEW c \in Call, ReSignTx(c) PROVE AwaitInv' /\ FreshWhileQuiet'
  <2>1. /\ pc' = [pc EXCEPT ![c] = "querying"]
        /\ during' = [during EXCEPT ![c] = {}]
        /\ accountNonces' = [accountNonces EXCEPT ![AccountOf[c]] = NoNonce]
        /\ quiet' = [d \in Call |-> d = c \/ (quiet[d] /\ d \notin Rivals(c))]
        /\ nonce' = nonce
    BY <1>8 DEF ReSignTx, StartQuery
  <2>2. \A d \in Call : d # c /\ quiet'[d] => quiet[d] /\ AccountOf[d] # AccountOf[c]
    BY <2>1 DEF Rivals
  <2>3. AwaitInv'
    BY <2>1, <2>2, NoncesAssumption DEF TypeOK, AwaitInv, Waiting
  <2>4. FreshWhileQuiet'
    BY <2>1, <2>2 DEF TypeOK, FreshWhileQuiet
  <2> QED
    BY <2>3, <2>4
<1> QED
  BY <1>1, <1>2, <1>3, <1>4, <1>5, <1>6, <1>7, <1>8 DEF Next, SignStep

(* The nonce a call resumes with is newer than every nonce of the account  *)
(* taken during its await, unless the entry was deleted meanwhile.          *)
THEOREM NonceFreshWhileQuiet == Spec => []FreshWhileQuiet
<1>1. Init => TypeOK /\ AwaitInv /\ FreshWhileQuiet
  BY TypeInit DEF Init, AwaitInv, FreshWhileQuiet, Waiting
<1>2. TypeOK /\ AwaitInv /\ FreshWhileQuiet /\ [Next]_nonceVars
        => (TypeOK /\ AwaitInv /\ FreshWhileQuiet)'
  BY TypeStep, FreshStep
<1> QED
  BY <1>1, <1>2, PTL DEF Spec

=============================================================================
