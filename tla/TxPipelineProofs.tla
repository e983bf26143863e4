--------------------------- MODULE TxPipelineProofs ---------------------------
(***************************************************************************)
(* Proofs about TxPipeline, for any accounts and callers, any number of    *)
(* retries, and any number of faults, of transactions of other wallets and *)
(* of transactions that are submitted again.                               *)
(***************************************************************************)
EXTENDS TxPipeline, FiniteSetTheorems, TLAPS

(* What is proved of the nonces by themselves is used of the nonces here.   *)
Proved == INSTANCE AccountNoncesProofs WITH ChainIndex <- Nat

LEMMA NoncesAssumed == Proved!NoncesAssumption
BY PipelineAssumption DEF Proved!NoncesAssumption

LEMMA SameInit == Nonces!Init <=> Proved!Init
BY DEF Nonces!Init, Proved!Init

LEMMA SameTypeOK == Nonces!TypeOK <=> Proved!TypeOK
BY DEF Nonces!TypeOK, Proved!TypeOK, Nonces!Stage, Proved!Stage

LEMMA SameNext == Nonces!Next <=> Proved!Next
BY DEF Nonces!Next, Nonces!SignStep, Nonces!SignTxKnown, Nonces!SignTxUnknown,
       Nonces!ChainAnswers, Nonces!ChainRefuses, Nonces!GetNonceResumes, Nonces!GetNonceThrows,
       Nonces!Signs, Nonces!SignerThrows, Nonces!ReSignTx, Nonces!HandOut, Nonces!StartQuery,
       Nonces!LaterOf, Nonces!Rivals, Nonces!Waiting,
       Proved!Next, Proved!SignStep, Proved!SignTxKnown, Proved!SignTxUnknown,
       Proved!ChainAnswers, Proved!ChainRefuses, Proved!GetNonceResumes, Proved!GetNonceThrows,
       Proved!Signs, Proved!SignerThrows, Proved!ReSignTx, Proved!HandOut, Proved!StartQuery,
       Proved!LaterOf, Proved!Rivals, Proved!Waiting

-----------------------------------------------------------------------------
(* The types, the finite pool they need, and the first fact on the order of *)
(* the steps: only a signed transaction is submitted.                       *)
SignedFirst == \A c \in Call : sub[c] # "unsent" => pc[c] = "signed"

Typed == TypeOK /\ IsFiniteSet(pool) /\ SignedFirst

LEMMA NextIndexFacts ==
    ASSUME Typed, NEW a \in Account, NEW n \in NextIndex(a)
    PROVE  /\ n \in Nat
           /\ ~Taken(Slot(a, n))
           /\ \A i \in Nat : i < n => Taken(Slot(a, i))
<1>1. chainNonce[a] \in Nat /\ Cardinality(pool) \in Nat
  BY FS_CardinalityType DEF Typed, TypeOK
<1>2. /\ n \in chainNonce[a]..(chainNonce[a] + Cardinality(pool))
      /\ ~Taken(Slot(a, n))
      /\ \A i \in chainNonce[a]..(n - 1) : Taken(Slot(a, i))
  BY DEF NextIndex
<1>3. ASSUME NEW i \in Nat, i < n PROVE Taken(Slot(a, i))
  <2>1. CASE i < chainNonce[a]
    BY <2>1 DEF Taken, Slot
  <2>2. CASE i >= chainNonce[a]
    BY <1>1, <1>2, <1>3, <2>2
  <2> QED
    BY <1>1, <2>1, <2>2
<1> QED
  BY <1>1, <1>2, <1>3

(* Every step is a step of the nonces or leaves them alone.                 *)
LEMMA NoncesStep == Typed /\ [Next]_vars => [Nonces!Next]_(Nonces!nonceVars)
<1> SUFFICES ASSUME Typed, [Next]_vars
             PROVE  Nonces!Next \/ UNCHANGED nonceVars
  BY DEF nonceVars, Nonces!nonceVars
<1>1. CASE UNCHANGED vars
  BY <1>1 DEF vars
<1>2. ASSUME NEW c \in Call, Signing(c) PROVE Nonces!Next
  <2>1. \A n \in NextIndex(AccountOf[c]) : n \in Nat
    BY NextIndexFacts, PipelineAssumption
  <2> QED
    BY <1>2, <2>1 DEF Signing, Nonces!Next, Nonces!SignStep
<1>3. ASSUME NEW c \in Call, Fault(c) PROVE Nonces!Next \/ UNCHANGED nonceVars
  BY <1>3 DEF Fault, SigningFails, NodeRefuses, NodeDrops, LinkLost, Nonces!Next, Nonces!SignStep
<1>4. ASSUME NEW c \in Call, Retry(c) PROVE Nonces!Next
  BY <1>4 DEF Retry, Nonces!Next
<1>5. ASSUME NEW c \in Call, Sends(c) \/ NodeTakes(c) \/ Resubmits(c) PROVE UNCHANGED nonceVars
  BY <1>5 DEF Sends, NodeTakes, Resubmits
<1>6. ASSUME NEW a \in Account, ForeignSubmits(a) \/ ChainExecutes(a) PROVE UNCHANGED nonceVars
  BY <1>6 DEF ForeignSubmits, ChainExecutes
<1> QED
  BY <1>1, <1>2, <1>3, <1>4, <1>5, <1>6 DEF Next, Step

LEMMA NoncesTyped == Typed /\ [Next]_vars => Nonces!TypeOK'
<1> SUFFICES ASSUME Typed, [Next]_vars PROVE Nonces!TypeOK'
  OBVIOUS
<1>1. [Proved!Next]_(Proved!nonceVars)
  BY NoncesStep, SameNext DEF Nonces!nonceVars, Proved!nonceVars
<1>2. Proved!TypeOK
  BY SameTypeOK DEF Typed, TypeOK
<1>3. Proved!TypeOK'
  BY <1>1, <1>2, Proved!TypeStep, NoncesAssumed
<1>4. Proved!TypeOK' <=> Nonces!TypeOK'
  BY DEF Nonces!TypeOK, Proved!TypeOK, Nonces!Stage, Proved!Stage
<1> QED
  BY <1>3, <1>4

(* What the steps of the nonces do to pc.                                   *)
LEMMA SigningSteps ==
    ASSUME Typed, NEW c \in Call, Signing(c) \/ SigningFails(c)
    PROVE  /\ pc[c] # "signed"
           /\ \A d \in Call \ {c} : pc'[d] = pc[d] /\ nonce'[d] = nonce[d]
           /\ pc[c] \in {"signing", "signed"} => nonce'[c] = nonce[c]
           /\ sub' = sub /\ pool' = pool /\ chainNonce' = chainNonce
           /\ executed' = executed /\ foreign' = foreign /\ resubmits' = resubmits
BY DEF Signing, SigningFails, Typed, TypeOK, Nonces!TypeOK, chainVars,
       Nonces!SignTxKnown, Nonces!SignTxUnknown, Nonces!ChainAnswers, Nonces!ChainRefuses,
       Nonces!GetNonceResumes, Nonces!GetNonceThrows, Nonces!Signs, Nonces!SignerThrows,
       Nonces!HandOut, Nonces!StartQuery

LEMMA UsurpedPooled ==
    ASSUME NEW t, NEW d \in Usurped(t)
    PROVE  d \in Call /\ sub[d] = "pooled"
BY DEF Usurped

(* The node lets go of transactions, and takes one in.                      *)
LEMMA PoolAfterFinite ==
    ASSUME IsFiniteSet(pool), NEW t
    PROVE  IsFiniteSet(PoolAfter(t))
<1> DEFINE kept == {u \in pool : u.slot # t.slot}
<1>1. IsFiniteSet(kept)
  BY FS_Subset
<1>2. IsFiniteSet(kept \union {t})
  BY <1>1, FS_AddElement
<1> QED
  BY <1>2 DEF PoolAfter

PoolTyped(S) ==
    S \subseteq [slot: [account: Account, nonce: Nat], owner: Call \union {Foreign}]

LEMMA TxTyped ==
    ASSUME TypeOK, NEW c \in Call, nonce[c] \in Nat
    PROVE  PoolTyped(PoolAfter(Tx(c)))
BY PipelineAssumption DEF TypeOK, PoolTyped, PoolAfter, Tx, Slot

LEMMA TypedInit == Init => Typed
<1> SUFFICES ASSUME Init PROVE Typed
  OBVIOUS
<1>1. Nonces!TypeOK
  BY SameInit, SameTypeOK, Proved!TypeInit, NoncesAssumed DEF Init
<1>2. IsFiniteSet(pool)
  BY FS_EmptySet DEF Init
<1> QED
  BY <1>1, <1>2, PipelineAssumption DEF Init, Typed, TypeOK, SignedFirst, Submission

(* What a step leaves well typed apart from the nonces.                     *)
NodeTyped ==
    /\ chainNonce \in [Account -> Nat]
    /\ PoolTyped(pool)
    /\ sub \in [Call -> Submission]
    /\ executed \in [Call -> Nat]
    /\ foreign \in 0..MaxForeign
    /\ faults \in 0..MaxFaults
    /\ resubmits \in [Call -> 0..MaxResubmit]
    /\ IsFiniteSet(pool)
    /\ SignedFirst

LEMMA NodeTypedStep == Typed /\ [Next]_vars => NodeTyped'
<1> SUFFICES ASSUME Typed, [Next]_vars PROVE NodeTyped'
  OBVIOUS
<1> DEFINE Goal == NodeTyped'
<1> USE DEF NodeTyped
<1>0. TypeOK /\ PoolTyped(pool) /\ IsFiniteSet(pool) /\ SignedFirst
  BY DEF Typed, TypeOK, PoolTyped
<1>00. faults < MaxFaults => faults + 1 \in 0..MaxFaults
  BY <1>0, PipelineAssumption DEF TypeOK
<1>1. CASE UNCHANGED vars
  BY <1>0, <1>1 DEF vars, nonceVars, chainVars, TypeOK, SignedFirst
<1>2. ASSUME NEW c \in Call, Signing(c) PROVE Goal
  <2>1. SignedFirst'
    BY <1>0, <1>2, SigningSteps DEF SignedFirst
  <2>2. UNCHANGED <<chainVars, sub, faults, resubmits>>
    BY <1>2 DEF Signing
  <2> QED
    BY <1>0, <2>1, <2>2 DEF chainVars, TypeOK
<1>3. ASSUME NEW c \in Call, Sends(c) PROVE Goal
  BY <1>0, <1>3 DEF Sends, Becomes, nonceVars, chainVars, TypeOK, Submission, SignedFirst
<1>4. ASSUME NEW c \in Call, NodeTakes(c) PROVE Goal
  <2>1. nonce[c] \in Nat /\ pc[c] = "signed" /\ pc' = pc
    BY <1>0, <1>4 DEF NodeTakes, nonceVars, TypeOK, SignedFirst
  <2>2. PoolTyped(PoolAfter(Tx(c))) /\ IsFiniteSet(PoolAfter(Tx(c)))
    BY <1>0, <2>1, TxTyped, PoolAfterFinite
  <2>3. PoolTyped(pool') /\ IsFiniteSet(pool')
    BY <1>0, <1>4, <2>2 DEF NodeTakes
  <2>4. sub' \in [Call -> Submission]
    BY <1>0, <1>4 DEF NodeTakes, Becomes, TypeOK, Submission, Recoverable
  <2>5. \A d \in Call : sub'[d] # "unsent" => sub[d] # "unsent"
    BY <1>0, <1>4, UsurpedPooled DEF NodeTakes, Becomes, TypeOK
  <2> QED
    BY <1>0, <1>4, <2>1, <2>3, <2>4, <2>5 DEF NodeTakes, TypeOK, SignedFirst
<1>5. ASSUME NEW c \in Call, Retry(c) PROVE Goal
  <2>1. \A d \in Call \ {c} : pc'[d] = pc[d]
    BY <1>0, <1>5 DEF Retry, Nonces!ReSignTx, Nonces!StartQuery, TypeOK, Nonces!TypeOK
  <2>2. SignedFirst'
    BY <1>0, <1>5, <2>1 DEF Retry, Becomes, SignedFirst, TypeOK
  <2> QED
    BY <1>0, <1>5, <2>2 DEF Retry, Becomes, chainVars, TypeOK, Submission
<1>6. ASSUME NEW c \in Call, Resubmits(c) PROVE Goal
  <2>1. resubmits[c] + 1 \in 0..MaxResubmit
    BY <1>0, <1>6, PipelineAssumption DEF Resubmits, TypeOK
  <2> QED
    BY <1>0, <1>6, <2>1
       DEF Resubmits, Becomes, nonceVars, chainVars, TypeOK, Submission, SignedFirst
<1>7. ASSUME NEW c \in Call, Fault(c), SigningFails(c) PROVE Goal
  <2>1. SignedFirst'
    BY <1>0, <1>7, SigningSteps DEF SignedFirst
  <2> QED
    BY <1>0, <1>00, <1>7, <2>1 DEF Fault, SigningFails, TypeOK
<1>8. ASSUME NEW c \in Call, Fault(c), NodeRefuses(c) \/ LinkLost(c) PROVE Goal
  BY <1>0, <1>00, <1>8
     DEF Fault, NodeRefuses, LinkLost, Becomes, nonceVars, TypeOK, Submission, SignedFirst
<1>9. ASSUME NEW c \in Call, Fault(c), NodeDrops(c) PROVE Goal
  <2>1. PoolTyped(pool') /\ IsFiniteSet(pool')
    BY <1>0, <1>9, FS_RemoveElement DEF NodeDrops, PoolTyped
  <2> QED
    BY <1>0, <1>00, <1>9, <2>1
       DEF Fault, NodeDrops, Becomes, nonceVars, TypeOK, Submission, SignedFirst
<1>10. ASSUME NEW a \in Account, ForeignSubmits(a) PROVE Goal
  <2>1. PICK s \in {Slot(a, n) : n \in NextIndex(a)} \union {t.slot : t \in pool} :
           /\ s.account = a
           /\ pool' = PoolAfter([slot |-> s, owner |-> Foreign])
           /\ sub' = [d \in Call |-> IF d \in Usurped([slot |-> s, owner |-> Foreign])
                                     THEN "usurped" ELSE sub[d]]
    BY <1>10 DEF ForeignSubmits
  <2>2. s \in [account: Account, nonce: Nat]
    <3>1. CASE \E n \in NextIndex(a) : s = Slot(a, n)
      BY <3>1, NextIndexFacts DEF Slot
    <3>2. CASE \E t \in pool : s = t.slot
      BY <1>0, <3>2 DEF PoolTyped
    <3> QED
      BY <2>1, <3>1, <3>2
  <2>3. PoolTyped(pool') /\ IsFiniteSet(pool')
    <3> DEFINE t == [slot |-> s, owner |-> Foreign]
    <3>1. t \in [slot: [account: Account, nonce: Nat], owner: Call \union {Foreign}]
      BY <2>2
    <3> HIDE DEF t
    <3>2. PoolTyped(PoolAfter(t)) /\ IsFiniteSet(PoolAfter(t))
      BY <1>0, <3>1, PoolAfterFinite DEF PoolTyped, PoolAfter
    <3> QED
      BY <2>1, <3>2 DEF t
  <2>4. sub' \in [Call -> Submission] /\ \A d \in Call : sub'[d] # "unsent" => sub[d] # "unsent"
    BY <1>0, <2>1, UsurpedPooled DEF TypeOK, Submission, Recoverable
  <2>5. foreign' \in 0..MaxForeign
    BY <1>0, <1>10, PipelineAssumption DEF ForeignSubmits, TypeOK
  <2> QED
    BY <1>0, <1>10, <2>3, <2>4, <2>5 DEF ForeignSubmits, nonceVars, TypeOK, SignedFirst
<1>11. ASSUME NEW a \in Account, ChainExecutes(a) PROVE Goal
  <2>1. PICK t \in pool :
           /\ chainNonce' = [chainNonce EXCEPT ![a] = @ + 1]
           /\ pool' = pool \ {t}
           /\ executed' = [c \in Call |-> executed[c] + IF t.owner = c THEN 1 ELSE 0]
           /\ sub' = [c \in Call |-> IF sub[c] = "pooled" /\ t = Tx(c) THEN "done" ELSE sub[c]]
           /\ UNCHANGED <<nonceVars, foreign, faults, resubmits, burnt>>
    BY <1>11 DEF ChainExecutes
  <2>2. PoolTyped(pool') /\ IsFiniteSet(pool')
    BY <1>0, <2>1, FS_RemoveElement DEF PoolTyped
  <2>3. \A c \in Call : executed[c] + (IF t.owner = c THEN 1 ELSE 0) \in Nat
    BY <1>0 DEF TypeOK
  <2>4. executed' \in [Call -> Nat]
    BY <2>1, <2>3
  <2>5. chainNonce' \in [Account -> Nat]
    BY <1>0, <2>1 DEF TypeOK
  <2>6. sub' \in [Call -> Submission] /\ \A d \in Call : sub'[d] # "unsent" => sub[d] # "unsent"
    BY <1>0, <2>1 DEF TypeOK, Submission
  <2> QED
    BY <1>0, <2>1, <2>2, <2>4, <2>5, <2>6 DEF nonceVars, TypeOK, SignedFirst
<1> QED
  BY <1>1, <1>2, <1>3, <1>4, <1>5, <1>6, <1>7, <1>8, <1>9, <1>10, <1>11
     DEF Next, Step, Fault

LEMMA TypedStep == Typed /\ [Next]_vars => Typed'
<1> SUFFICES ASSUME Typed, [Next]_vars PROVE Typed'
  OBVIOUS
<1>1. Nonces!TypeOK' /\ NodeTyped'
  BY NoncesTyped, NodeTypedStep
<1>2. \A c \in Call : sub'[c] # "unsent" => nonce'[c] \in Nat
  BY <1>1 DEF NodeTyped, SignedFirst, Nonces!TypeOK
<1> QED
  BY <1>1, <1>2 DEF NodeTyped, Typed, TypeOK, PoolTyped

(* The variables of the pipeline always hold what their types say, and a    *)
(* transaction that was submitted has a nonce.                              *)
THEOREM TypeCorrect == Spec => []TypeOK
<1>1. Typed => TypeOK
  BY DEF Typed
<1> QED
  BY <1>1, TypedInit, TypedStep, PTL DEF Spec

(* The nonces of the pipeline are those of AccountNonces: whatever the pool *)
(* and the retries do, what is proved of getNonce, signTx and reSignTx by   *)
(* themselves holds of them here.                                           *)
THEOREM RunsNonces == Spec => Nonces!Spec
<1>1. Init => Nonces!Init
  BY DEF Init
<1>2. Typed /\ [Next]_vars => Typed' /\ [Nonces!Next]_(Nonces!nonceVars)
  BY TypedStep, NoncesStep
<1> QED
  BY <1>1, <1>2, TypedInit, PTL DEF Spec, Nonces!Spec

-----------------------------------------------------------------------------
(* OneLiveTx: a call that may yet bring a transaction into the pool counts  *)
(* for one more.  What it has executed, what it has in the pool and what is *)
(* still to come never exceed what its caller has submitted.                *)
ToCome(c) == IF sub[c] \in Recoverable \union {"unsent", "sending"} THEN 1 ELSE 0

Budget ==
    \A c \in Call : executed[c] + Cardinality(InPool(c)) + ToCome(c) <= 1 + resubmits[c]

LEMMA InPoolFinite ==
    ASSUME Typed, NEW c \in Call
    PROVE  IsFiniteSet(InPool(c)) /\ Cardinality(InPool(c)) \in Nat
<1>1. IsFiniteSet(InPool(c))
  BY FS_Subset DEF InPool, Typed
<1> QED
  BY <1>1, FS_CardinalityType

(* Nothing of a call's in the pool but what was there.                      *)
LEMMA NoMoreInPool ==
    ASSUME Typed, NEW c \in Call, InPool(c)' \subseteq InPool(c)
    PROVE  /\ Cardinality(InPool(c))' \in Nat
           /\ Cardinality(InPool(c))' <= Cardinality(InPool(c))
<1>1. IsFiniteSet(InPool(c))
  BY InPoolFinite
<1>2. IsFiniteSet(InPool(c)') /\ Cardinality(InPool(c)') <= Cardinality(InPool(c))
  BY <1>1, FS_Subset
<1> QED
  BY <1>2, FS_CardinalityType

LEMMA OneLessInPool ==
    ASSUME Typed, NEW c \in Call, NEW t \in InPool(c), InPool(c)' \subseteq InPool(c) \ {t}
    PROVE  /\ Cardinality(InPool(c))' \in Nat
           /\ Cardinality(InPool(c))' + 1 <= Cardinality(InPool(c))
<1>1. IsFiniteSet(InPool(c))
  BY InPoolFinite
<1>2. IsFiniteSet(InPool(c) \ {t}) /\ Cardinality(InPool(c) \ {t}) = Cardinality(InPool(c)) - 1
  BY <1>1, FS_RemoveElement
<1>3. IsFiniteSet(InPool(c)') /\ Cardinality(InPool(c)') <= Cardinality(InPool(c) \ {t})
  BY <1>2, FS_Subset
<1>4. Cardinality(InPool(c)') \in Nat /\ Cardinality(InPool(c)) \in Nat
  BY <1>1, <1>3, FS_CardinalityType
<1> QED
  BY <1>2, <1>3, <1>4

LEMMA OneMoreInPool ==
    ASSUME Typed, NEW c \in Call, NEW t, InPool(c)' \subseteq InPool(c) \union {t}
    PROVE  /\ Cardinality(InPool(c))' \in Nat
           /\ Cardinality(InPool(c))' <= Cardinality(InPool(c)) + 1
<1>1. IsFiniteSet(InPool(c)) /\ Cardinality(InPool(c)) \in Nat
  BY InPoolFinite
<1>2. /\ IsFiniteSet(InPool(c) \union {t})
      /\ Cardinality(InPool(c) \union {t}) <= Cardinality(InPool(c)) + 1
  <2>1. /\ IsFiniteSet(InPool(c) \union {t})
        /\ \/ Cardinality(InPool(c) \union {t}) = Cardinality(InPool(c))
           \/ Cardinality(InPool(c) \union {t}) = Cardinality(InPool(c)) + 1
    BY <1>1, FS_AddElement
  <2> QED
    BY <1>1, <2>1
<1>3. IsFiniteSet(InPool(c)') /\ Cardinality(InPool(c)') <= Cardinality(InPool(c) \union {t})
  BY <1>2, FS_Subset
<1>4. Cardinality(InPool(c)') \in Nat /\ Cardinality(InPool(c) \union {t}) \in Nat
  BY <1>2, <1>3, FS_CardinalityType
<1> QED
  BY <1>1, <1>2, <1>3, <1>4

(* A call whose transactions in the pool, executions and resubmissions stay *)
(* as they are, or become fewer, and that has no more to come.              *)
LEMMA NoMore ==
    ASSUME Typed, Typed', Budget, NEW d \in Call,
           InPool(d)' \subseteq InPool(d), executed'[d] = executed[d],
           resubmits'[d] = resubmits[d],
           sub'[d] \in Recoverable \union {"unsent", "sending"}
               => sub[d] \in Recoverable \union {"unsent", "sending"}
    PROVE  (executed[d] + Cardinality(InPool(d)) + ToCome(d) <= 1 + resubmits[d])'
<1>1. /\ Cardinality(InPool(d)) \in Nat /\ Cardinality(InPool(d))' \in Nat
      /\ Cardinality(InPool(d))' <= Cardinality(InPool(d))
  BY InPoolFinite, NoMoreInPool
<1>2. ToCome(d) \in Nat /\ ToCome(d)' \in Nat /\ ToCome(d)' <= ToCome(d)
  BY DEF ToCome
<1>3. executed[d] \in Nat /\ resubmits[d] \in Nat
  BY DEF Typed, TypeOK
<1>4. executed[d] + Cardinality(InPool(d)) + ToCome(d) <= 1 + resubmits[d]
  BY DEF Budget
<1> QED
  BY <1>1, <1>2, <1>3, <1>4

(* The node replaces what holds the slot of t; a call d that does not own t *)
(* loses what it had there, and may submit again for it.                    *)
LEMMA Replaced ==
    ASSUME Typed, Typed', Budget, NEW t, NEW d \in Call, t.owner # d,
           pool' = PoolAfter(t), UNCHANGED <<executed, resubmits>>,
           sub'[d] = IF d \in Usurped(t) THEN "usurped" ELSE sub[d]
    PROVE  (executed[d] + Cardinality(InPool(d)) + ToCome(d) <= 1 + resubmits[d])'
<1>1. InPool(d)' \subseteq InPool(d)
  BY DEF InPool, PoolAfter
<1>2. CASE d \notin Usurped(t)
  BY <1>1, <1>2, NoMore
<1>3. CASE d \in Usurped(t)
  <2>1. sub[d] = "pooled" /\ Tx(d) \in InPool(d) /\ Tx(d).slot = t.slot /\ Tx(d) # t
    BY <1>3 DEF Usurped, InPool, Tx
  <2>2. InPool(d)' \subseteq InPool(d) \ {Tx(d)}
    BY <2>1 DEF InPool, PoolAfter
  <2>3. /\ Cardinality(InPool(d)) \in Nat /\ Cardinality(InPool(d))' \in Nat
        /\ Cardinality(InPool(d))' + 1 <= Cardinality(InPool(d))
    BY <2>1, <2>2, InPoolFinite, OneLessInPool
  <2>4. ToCome(d) = 0 /\ ToCome(d)' = 1
    BY <1>3, <2>1 DEF ToCome, Recoverable
  <2>5. executed[d] \in Nat /\ resubmits[d] \in Nat
    BY DEF Typed, TypeOK
  <2>6. executed[d] + Cardinality(InPool(d)) + ToCome(d) <= 1 + resubmits[d]
    BY DEF Budget
  <2> QED
    BY <2>3, <2>4, <2>5, <2>6
<1> QED
  BY <1>2, <1>3

LEMMA BudgetStep == Typed /\ Typed' /\ Budget /\ [Next]_vars => Budget'
<1> SUFFICES ASSUME Typed, Typed', Budget, [Next]_vars, NEW d \in Call
             PROVE  (executed[d] + Cardinality(InPool(d)) + ToCome(d) <= 1 + resubmits[d])'
  BY DEF Budget
<1> DEFINE Goal == (executed[d] + Cardinality(InPool(d)) + ToCome(d) <= 1 + resubmits[d])'
<1>0. /\ executed[d] \in Nat /\ resubmits[d] \in Nat /\ Cardinality(InPool(d)) \in Nat
      /\ executed[d] + Cardinality(InPool(d)) + ToCome(d) <= 1 + resubmits[d]
      /\ sub \in [Call -> Submission] /\ resubmits \in [Call -> 0..MaxResubmit]
      /\ ToCome(d) \in {0, 1}
  BY InPoolFinite DEF Typed, TypeOK, Budget, ToCome
<1>1. CASE UNCHANGED vars
  BY <1>1, NoMore DEF vars, chainVars, InPool
<1>2. ASSUME NEW c \in Call, Signing(c) \/ (Fault(c) /\ SigningFails(c)) PROVE Goal
  BY <1>2, SigningSteps, NoMore DEF InPool
<1>3. ASSUME NEW c \in Call, Sends(c) PROVE Goal
  <2>1. /\ sub'[d] = "sending" => sub[d] \in {"unsent", "sending"}
        /\ sub'[d] # "sending" => sub'[d] = sub[d]
        /\ UNCHANGED chainVars /\ UNCHANGED resubmits
    BY <1>0, <1>3 DEF Sends, Becomes
  <2> QED
    BY <2>1, NoMore DEF chainVars, InPool
<1>4. ASSUME NEW c \in Call, NodeTakes(c) PROVE Goal
  <2>0. executed' = executed /\ resubmits' = resubmits /\ sub[c] = "sending"
    BY <1>4 DEF NodeTakes
  <2>1. CASE /\ UNCHANGED pool
             /\ Becomes(c, "outdated") \/ Becomes(c, "duplicate") \/ Becomes(c, "priorityLow")
    <3>1. sub'[d] = sub[d] \/ sub[d] = "sending"
      BY <1>0, <2>0, <2>1 DEF Becomes
    <3> QED
      BY <2>0, <2>1, <3>1, NoMore DEF InPool
  <2>2. CASE /\ pool' = PoolAfter(Tx(c))
             /\ sub' = [e \in Call |-> IF e = c THEN "pooled"
                                       ELSE IF e \in Usurped(Tx(c)) THEN "usurped" ELSE sub[e]]
    <3>1. CASE d = c
      <4>1. InPool(d)' \subseteq InPool(d) \union {Tx(c)}
        BY <2>2 DEF InPool, PoolAfter
      <4>2. /\ Cardinality(InPool(d))' \in Nat
            /\ Cardinality(InPool(d))' <= Cardinality(InPool(d)) + 1
        BY <4>1, OneMoreInPool
      <4>3. ToCome(d) = 1 /\ ToCome(d)' = 0
        BY <2>0, <2>2, <3>1 DEF ToCome, Recoverable
      <4> QED
        BY <1>0, <2>0, <4>2, <4>3
    <3>2. CASE d # c
      <4>1. Tx(c).owner # d
        BY <3>2 DEF Tx
      <4> QED
        BY <2>0, <2>2, <3>2, <4>1, Replaced
    <3> QED
      BY <3>1, <3>2
  <2> QED
    BY <1>4, <2>1, <2>2 DEF NodeTakes
<1>5. ASSUME NEW c \in Call, Retry(c) PROVE Goal
  <2>1. sub'[d] = sub[d] \/ sub[d] \in Recoverable
    BY <1>0, <1>5 DEF Retry, Becomes
  <2> QED
    BY <1>5, <2>1, NoMore DEF Retry, chainVars, InPool
<1>6. ASSUME NEW c \in Call, Resubmits(c) PROVE Goal
  <2>1. CASE d = c
    <3>1. ToCome(d) = 0 /\ ToCome(d)' = 1 /\ resubmits'[d] = resubmits[d] + 1
      BY <1>0, <1>6, <2>1 DEF Resubmits, Becomes, ToCome, Recoverable
    <3>2. executed' = executed /\ InPool(d)' = InPool(d)
      BY <1>6 DEF Resubmits, chainVars, InPool
    <3> QED
      BY <1>0, <3>1, <3>2
  <2>2. CASE d # c
    BY <1>0, <1>6, <2>2, NoMore DEF Resubmits, Becomes, chainVars, InPool
  <2> QED
    BY <2>1, <2>2
<1>7. ASSUME NEW c \in Call, NodeRefuses(c) \/ NodeDrops(c) \/ LinkLost(c) PROVE Goal
  <2>1. /\ sub'[d] = sub[d] \/ sub'[d] \in {"refused", "lost"}
        /\ pool' \subseteq pool /\ executed' = executed /\ resubmits' = resubmits
    BY <1>0, <1>7 DEF NodeRefuses, NodeDrops, LinkLost, Becomes
  <2> QED
    BY <2>1, NoMore DEF InPool, Recoverable
<1>8. ASSUME NEW a \in Account, ForeignSubmits(a) PROVE Goal
  <2>1. PICK s : /\ pool' = PoolAfter([slot |-> s, owner |-> Foreign])
                 /\ sub' = [e \in Call |-> IF e \in Usurped([slot |-> s, owner |-> Foreign])
                                           THEN "usurped" ELSE sub[e]]
                 /\ UNCHANGED <<executed, resubmits>>
    BY <1>8 DEF ForeignSubmits
  <2>2. [slot |-> s, owner |-> Foreign].owner # d
    BY PipelineAssumption
  <2> QED
    BY <2>1, <2>2, Replaced
<1>9. ASSUME NEW a \in Account, ChainExecutes(a) PROVE Goal
  <2>1. PICK t \in pool :
           /\ pool' = pool \ {t}
           /\ executed' = [c \in Call |-> executed[c] + IF t.owner = c THEN 1 ELSE 0]
           /\ sub' = [c \in Call |-> IF sub[c] = "pooled" /\ t = Tx(c) THEN "done" ELSE sub[c]]
           /\ resubmits' = resubmits
    BY <1>9 DEF ChainExecutes
  <2>2. CASE t.owner = d
    <3>1. t \in InPool(d) /\ InPool(d)' \subseteq InPool(d) \ {t}
      BY <2>1, <2>2 DEF InPool
    <3>2. /\ Cardinality(InPool(d))' \in Nat
          /\ Cardinality(InPool(d))' + 1 <= Cardinality(InPool(d))
      BY <3>1, OneLessInPool
    <3>3. ToCome(d)' \in {0, 1} /\ ToCome(d)' <= ToCome(d)
      BY <2>1 DEF ToCome, Recoverable
    <3>4. executed'[d] = executed[d] + 1
      BY <2>1, <2>2
    <3> QED
      BY <1>0, <2>1, <3>2, <3>3, <3>4
  <2>3. CASE t.owner # d
    <3>1. executed'[d] = executed[d] /\ InPool(d)' \subseteq InPool(d)
      BY <1>0, <2>1, <2>3 DEF InPool
    <3>2. sub'[d] = sub[d] \/ sub'[d] = "done"
      BY <2>1
    <3> QED
      BY <2>1, <3>1, <3>2, NoMore DEF Recoverable
  <2> QED
    BY <2>2, <2>3
<1> QED
  BY <1>1, <1>2, <1>3, <1>4, <1>5, <1>6, <1>7, <1>8, <1>9 DEF Next, Step, Fault

(* However often submitSignedTxWithReSign signs and sends a transaction     *)
(* again, and whatever the pool does with it, at any moment at most one of  *)
(* its signed forms has executed or still can, but for those its caller     *)
(* submitted a second time itself.                                          *)
THEOREM RetriesExecuteOnce == Spec => []OneLiveTx
<1>1. Init => Budget
  <2> SUFFICES ASSUME Init, NEW c \in Call
               PROVE  executed[c] + Cardinality(InPool(c)) + ToCome(c) <= 1 + resubmits[c]
    BY DEF Budget
  <2>1. InPool(c) = {} /\ Cardinality({}) = 0
    BY FS_EmptySet DEF Init, InPool
  <2> QED
    BY <2>1 DEF Init, ToCome
<1>2. Typed /\ Budget /\ [Next]_vars => (Typed /\ Budget)'
  BY TypedStep, BudgetStep
<1>3. Typed /\ Budget => OneLiveTx
  <2> SUFFICES ASSUME Typed, Budget, NEW c \in Call
               PROVE  executed[c] + Cardinality(InPool(c)) <= 1 + resubmits[c]
    BY DEF OneLiveTx
  <2>1. /\ executed[c] \in Nat /\ resubmits[c] \in Nat /\ Cardinality(InPool(c)) \in Nat
        /\ ToCome(c) \in Nat
    BY InPoolFinite DEF Typed, TypeOK, ToCome
  <2> QED
    BY <2>1 DEF Budget
<1> QED
  BY <1>1, <1>2, <1>3, TypedInit, PTL DEF Spec

-----------------------------------------------------------------------------
(* GapsExplained: a nonce is accounted for once it is executed, in the      *)
(* pool, spent for nothing or on its way, and stays so for good.  All below *)
(* what getNonce knows, is told or has handed out are accounted for.        *)
InFlight(c) == pc[c] \in {"signing", "signed"} /\ sub[c] \in {"unsent", "sending"}

Accounted(a, n) ==
    \/ n < chainNonce[a]
    \/ Occupied(Slot(a, n))
    \/ Slot(a, n) \in burnt
    \/ \E c \in Call : InFlight(c) /\ Tx(c).slot = Slot(a, n)

AccountedBelow(a, k) == \A n \in Nat : n < k => Accounted(a, n)

NoGap ==
    /\ \A a \in Account : accountNonces[a] # NoNonce => AccountedBelow(a, accountNonces[a])
    /\ \A c \in Call : pc[c] = "replied" => AccountedBelow(AccountOf[c], reply[c])
    /\ \A c \in Call : nonce[c] # NoNonce => AccountedBelow(AccountOf[c], nonce[c])
    /\ \A t \in pool : AccountedBelow(t.slot.account, t.slot.nonce)

(* A slot is handed on, not given up, when a transaction is replaced.       *)
LEMMA StaysOccupied ==
    ASSUME NEW s, NEW t, Occupied(s), pool' = PoolAfter(t)
    PROVE  Occupied(s)'
<1>1. PICK u \in pool : u.slot = s
  BY DEF Occupied
<1>2. CASE u.slot = t.slot
  BY <1>1, <1>2 DEF PoolAfter, Occupied
<1>3. CASE u.slot # t.slot
  BY <1>1, <1>3 DEF PoolAfter, Occupied
<1> QED
  BY <1>2, <1>3

LEMMA SlotFields == \A a, n : Slot(a, n).account = a /\ Slot(a, n).nonce = n
BY DEF Slot

LEMMA TxSlot ==
    ASSUME NEW c \in Call
    PROVE  Tx(c).slot = Slot(AccountOf[c], nonce[c]) /\ Tx(c).owner = c
BY DEF Tx

LEMMA StaysAccounted ==
    ASSUME Typed, Typed', [Next]_vars, NEW a \in Account, NEW n \in Nat, Accounted(a, n)
    PROVE  Accounted(a, n)'
<1> DEFINE s == Slot(a, n)
<1>0. /\ chainNonce \in [Account -> Nat] /\ SignedFirst /\ sub \in [Call -> Submission]
      /\ pc \in [Call -> Nonces!Stage] /\ nonce \in [Call -> Nat \union {NoNonce}]
  BY DEF Typed, TypeOK, Nonces!TypeOK
<1>1. CASE UNCHANGED vars
  BY <1>1 DEF vars, nonceVars, chainVars, Accounted, Occupied, InFlight, Tx
<1>2. ASSUME NEW c \in Call, Signing(c) PROVE Accounted(a, n)'
  <2>1. UNCHANGED <<chainNonce, pool, burnt, sub>>
    BY <1>2 DEF Signing, chainVars
  <2>2. pc[c] = "signing" => pc'[c] = "signed" /\ nonce' = nonce
    BY <1>0, <1>2
       DEF Signing, Nonces!SignTxKnown, Nonces!SignTxUnknown, Nonces!ChainAnswers,
           Nonces!GetNonceResumes, Nonces!GetNonceThrows, Nonces!Signs
  <2>3. ASSUME NEW e \in Call, InFlight(e) PROVE InFlight(e)' /\ Tx(e)' = Tx(e)
    BY <1>2, <2>1, <2>2, <2>3, SigningSteps DEF InFlight, Tx
  <2> QED
    BY <2>1, <2>3 DEF Accounted, Occupied
<1>3. ASSUME NEW c \in Call, Sends(c) PROVE Accounted(a, n)'
  <2>1. UNCHANGED <<chainNonce, pool, burnt, nonce, pc>>
    BY <1>3 DEF Sends, nonceVars, chainVars
  <2>2. ASSUME NEW e \in Call, InFlight(e) PROVE InFlight(e)' /\ Tx(e)' = Tx(e)
    BY <1>0, <1>3, <2>1, <2>2 DEF Sends, Becomes, InFlight, Tx
  <2> QED
    BY <2>1, <2>2 DEF Accounted, Occupied
<1>4. ASSUME NEW c \in Call, NodeTakes(c) PROVE Accounted(a, n)'
  <2>0. UNCHANGED <<chainNonce, burnt, nonce, pc>>
    BY <1>4 DEF NodeTakes, nonceVars
  <2>1. Occupied(s) => Occupied(s)'
    <3>1. CASE UNCHANGED pool
      BY <3>1 DEF Occupied
    <3>2. CASE pool' = PoolAfter(Tx(c))
      BY <3>2, StaysOccupied
    <3> QED
      BY <1>4, <3>1, <3>2 DEF NodeTakes
  <2>2. ASSUME NEW e \in Call, e # c, InFlight(e) PROVE InFlight(e)' /\ Tx(e)' = Tx(e)
    BY <1>0, <1>4, <2>0, <2>2, UsurpedPooled DEF NodeTakes, Becomes, InFlight, Tx
  <2>3. Tx(c).slot = s => n < chainNonce[a] \/ Occupied(s)'
    <3>1. CASE Tx(c).slot.nonce < chainNonce[Tx(c).slot.account]
      BY <3>1, SlotFields
    <3>2. CASE UNCHANGED pool /\ (Tx(c) \in pool \/ Occupied(Tx(c).slot))
      BY <3>2 DEF Occupied
    <3>3. CASE pool' = PoolAfter(Tx(c))
      BY <3>3 DEF Occupied, PoolAfter
    <3> QED
      BY <1>4, <3>1, <3>2, <3>3 DEF NodeTakes
  <2> QED
    BY <2>0, <2>1, <2>2, <2>3 DEF Accounted
<1>5. ASSUME NEW c \in Call, Retry(c) PROVE Accounted(a, n)'
  <2>1. UNCHANGED <<chainNonce, pool, burnt, nonce>> /\ ~InFlight(c)
    BY <1>5 DEF Retry, Nonces!ReSignTx, Nonces!StartQuery, chainVars, InFlight, Recoverable
  <2>2. ASSUME NEW e \in Call, InFlight(e) PROVE InFlight(e)' /\ Tx(e)' = Tx(e)
    BY <1>0, <1>5, <2>1, <2>2
       DEF Retry, Becomes, Nonces!ReSignTx, Nonces!StartQuery, InFlight, Tx
  <2> QED
    BY <2>1, <2>2 DEF Accounted, Occupied
<1>6. ASSUME NEW c \in Call, Resubmits(c) PROVE Accounted(a, n)'
  <2>1. UNCHANGED <<chainNonce, pool, burnt, nonce, pc>> /\ ~InFlight(c)
    BY <1>6 DEF Resubmits, nonceVars, chainVars, InFlight
  <2>2. ASSUME NEW e \in Call, InFlight(e) PROVE InFlight(e)' /\ Tx(e)' = Tx(e)
    BY <1>0, <1>6, <2>1, <2>2 DEF Resubmits, Becomes, InFlight, Tx
  <2> QED
    BY <2>1, <2>2 DEF Accounted, Occupied
<1>7. ASSUME NEW c \in Call, SigningFails(c) PROVE Accounted(a, n)'
  <2>1. UNCHANGED <<chainNonce, pool, sub, nonce>> /\ burnt \subseteq burnt'
    BY <1>7
       DEF SigningFails, Burn, Nonces!ChainRefuses, Nonces!SignerThrows
  <2>2. ASSUME NEW e \in Call, e # c, InFlight(e) PROVE InFlight(e)' /\ Tx(e)' = Tx(e)
    BY <1>7, <2>1, <2>2, SigningSteps DEF InFlight, Tx
  <2>3. InFlight(c) => Tx(c).slot \in burnt'
    BY <1>7 DEF SigningFails, Burn, Nonces!ChainRefuses, InFlight
  <2> QED
    BY <2>1, <2>2, <2>3 DEF Accounted, Occupied
<1>8. ASSUME NEW c \in Call, NodeRefuses(c) \/ NodeDrops(c) \/ LinkLost(c)
      PROVE  Accounted(a, n)'
  <2>1. /\ UNCHANGED <<chainNonce, nonce, pc>> /\ burnt \subseteq burnt'
        /\ pool' = pool \/ (pool' = pool \ {Tx(c)} /\ Tx(c).slot \in burnt')
    BY <1>8 DEF NodeRefuses, NodeDrops, LinkLost, Burn, nonceVars
  <2>2. Occupied(s) => Occupied(s)' \/ s \in burnt'
    BY <2>1 DEF Occupied
  <2>3. ASSUME NEW e \in Call, e # c, InFlight(e) PROVE InFlight(e)' /\ Tx(e)' = Tx(e)
    BY <1>0, <1>8, <2>1, <2>3 DEF NodeRefuses, NodeDrops, LinkLost, Becomes, InFlight, Tx
  <2>4. InFlight(c) => Tx(c).slot \in burnt'
    BY <1>8 DEF NodeRefuses, NodeDrops, LinkLost, Burn, InFlight
  <2> QED
    BY <2>1, <2>2, <2>3, <2>4 DEF Accounted
<1>9. ASSUME NEW b \in Account, ForeignSubmits(b) PROVE Accounted(a, n)'
  <2>1. PICK t : /\ pool' = PoolAfter(t)
                 /\ sub' = [d \in Call |-> IF d \in Usurped(t) THEN "usurped" ELSE sub[d]]
    BY <1>9 DEF ForeignSubmits
  <2>2. UNCHANGED <<chainNonce, burnt, nonce, pc>>
    BY <1>9 DEF ForeignSubmits, nonceVars
  <2>3. ASSUME NEW e \in Call, InFlight(e) PROVE InFlight(e)' /\ Tx(e)' = Tx(e)
    BY <2>1, <2>2, <2>3, UsurpedPooled DEF InFlight, Tx
  <2> QED
    BY <2>1, <2>2, <2>3, StaysOccupied DEF Accounted
<1>10. ASSUME NEW b \in Account, ChainExecutes(b) PROVE Accounted(a, n)'
  <2>1. PICK t \in pool :
           /\ t.slot = Slot(b, chainNonce[b])
           /\ chainNonce' = [chainNonce EXCEPT ![b] = @ + 1]
           /\ pool' = pool \ {t}
           /\ sub' = [c \in Call |-> IF sub[c] = "pooled" /\ t = Tx(c) THEN "done" ELSE sub[c]]
           /\ UNCHANGED <<burnt, nonce, pc>>
    BY <1>10 DEF ChainExecutes, nonceVars
  <2>2. n < chainNonce[a] => n < chainNonce'[a]
    BY <1>0, <2>1
  <2>3. t.slot = s => n < chainNonce'[a]
    <3> SUFFICES ASSUME t.slot = s PROVE n < chainNonce'[a]
      OBVIOUS
    <3>0. Slot(a, n) = Slot(b, chainNonce[b])
      BY <2>1
    <3>1. a = b /\ n = chainNonce[b]
      BY <3>0 DEF Slot
    <3> QED
      BY <1>0, <2>1, <3>1
  <2>4. Occupied(s) => Occupied(s)' \/ n < chainNonce'[a]
    BY <2>1, <2>3 DEF Occupied
  <2>5. ASSUME NEW e \in Call, InFlight(e) PROVE InFlight(e)' /\ Tx(e)' = Tx(e)
    BY <2>1, <2>5 DEF InFlight, Tx
  <2> QED
    BY <2>1, <2>2, <2>4, <2>5 DEF Accounted
<1> QED
  BY <1>1, <1>2, <1>3, <1>4, <1>5, <1>6, <1>7, <1>8, <1>9, <1>10 DEF Next, Step, Fault

LEMMA StaysBelow ==
    ASSUME Typed, Typed', [Next]_vars, NEW a \in Account, NEW k, AccountedBelow(a, k)
    PROVE  AccountedBelow(a, k)'
BY StaysAccounted DEF AccountedBelow

(* What the chain answers leaves no gap, and neither does handing it out.   *)
LEMMA AnswerBelow ==
    ASSUME Typed, NEW a \in Account, NEW n \in NextIndex(a)
    PROVE  AccountedBelow(a, n)
<1>1. \A i \in Nat : i < n => Taken(Slot(a, i))
  BY NextIndexFacts
<1> QED
  BY <1>1, SlotFields DEF AccountedBelow, Accounted, Taken

(* The caller that is handed n accounts for it until it is submitted.       *)
LEMMA HandOutBelow ==
    ASSUME Typed, Typed', [Next]_vars, NoGap, NEW c \in Call, NEW n \in Nat,
           Nonces!HandOut(c, n), UNCHANGED <<chainVars, sub>>, pc[c] # "signed",
           AccountedBelow(AccountOf[c], n)
    PROVE  NoGap'
<1> DEFINE a == AccountOf[c]
<1>0. /\ a \in Account /\ \A d \in Call : AccountOf[d] \in Account
      /\ sub[c] = "unsent"
  BY PipelineAssumption DEF Typed, SignedFirst
<1>1. /\ accountNonces' = [accountNonces EXCEPT ![a] = n + 1]
      /\ nonce' = [nonce EXCEPT ![c] = n]
      /\ pc' = [pc EXCEPT ![c] = "signing"]
      /\ reply' = [reply EXCEPT ![c] = NoNonce]
      /\ pool' = pool /\ sub' = sub
  BY DEF Nonces!HandOut, chainVars
<1>2. /\ accountNonces \in [Account -> Nat \union {NoNonce}]
      /\ nonce \in [Call -> Nat \union {NoNonce}]
      /\ pc \in [Call -> Nonces!Stage]
      /\ reply \in [Call -> Nat \union {NoNonce}]
  BY DEF Typed, TypeOK, Nonces!TypeOK
<1>3. AccountedBelow(a, n)'
  BY <1>0, StaysBelow
<1>4. Accounted(a, n)'
  <2>1. InFlight(c)' /\ nonce'[c] = n
    BY <1>0, <1>1, <1>2 DEF InFlight
  <2>2. (Tx(c).slot = Slot(a, n))'
    BY <2>1 DEF Tx, Slot
  <2> QED
    BY <2>1, <2>2 DEF Accounted
<1>5. AccountedBelow(a, n + 1)'
  <2> SUFFICES ASSUME NEW i \in Nat, i < n + 1 PROVE Accounted(a, i)'
    BY DEF AccountedBelow
  <2>1. i = n \/ i < n
    OBVIOUS
  <2> QED
    BY <1>3, <1>4, <2>1 DEF AccountedBelow
<1>6. ASSUME NEW b \in Account, accountNonces'[b] # NoNonce
      PROVE  AccountedBelow(b, accountNonces[b])'
  <2>1. CASE b = a
    <3>1. accountNonces'[b] = n + 1
      BY <1>1, <1>2, <2>1
    <3> QED
      BY <1>5, <2>1, <3>1 DEF AccountedBelow
  <2>2. CASE b # a
    <3>1. accountNonces'[b] = accountNonces[b]
      BY <1>1, <1>2, <2>2
    <3>2. AccountedBelow(b, accountNonces[b])
      BY <1>6, <3>1 DEF NoGap
    <3> QED
      BY <3>1, <3>2, StaysAccounted DEF AccountedBelow
  <2> QED
    BY <2>1, <2>2
<1>7. ASSUME NEW d \in Call, pc'[d] = "replied" PROVE AccountedBelow(AccountOf[d], reply[d])'
  <2>1. pc[d] = "replied" /\ reply'[d] = reply[d]
    BY <1>1, <1>2, <1>7
  <2>2. AccountedBelow(AccountOf[d], reply[d])
    BY <2>1 DEF NoGap
  <2> QED
    BY <1>0, <2>1, <2>2, StaysAccounted DEF AccountedBelow
<1>8. ASSUME NEW d \in Call, nonce'[d] # NoNonce PROVE AccountedBelow(AccountOf[d], nonce[d])'
  <2>1. CASE d = c
    <3>1. nonce'[d] = n
      BY <1>1, <1>2, <2>1
    <3> QED
      BY <1>3, <2>1, <3>1 DEF AccountedBelow
  <2>2. CASE d # c
    <3>1. nonce'[d] = nonce[d]
      BY <1>1, <1>2, <2>2
    <3>2. AccountedBelow(AccountOf[d], nonce[d])
      BY <1>8, <3>1 DEF NoGap
    <3> QED
      BY <1>0, <3>1, <3>2, StaysAccounted DEF AccountedBelow
  <2> QED
    BY <2>1, <2>2
<1>9. ASSUME NEW t \in pool PROVE AccountedBelow(t.slot.account, t.slot.nonce)'
  BY StaysBelow DEF NoGap, Typed, TypeOK
<1> QED
  BY <1>1, <1>6, <1>7, <1>8, <1>9 DEF NoGap

(* A step that hands out nothing: what is known, told or pooled is what was *)
(* before, or was accounted for below.                                      *)
LEMMA NothingHandedOut ==
    ASSUME Typed, Typed', [Next]_vars, NoGap, nonce' = nonce,
           \A a \in Account : accountNonces'[a] \in {accountNonces[a], NoNonce},
           \A c \in Call : pc'[c] = "replied" =>
               \/ pc[c] = "replied" /\ reply'[c] = reply[c]
               \/ AccountedBelow(AccountOf[c], reply'[c]),
           \A t \in pool' : t \in pool \/ AccountedBelow(t.slot.account, t.slot.nonce)
    PROVE  NoGap'
<1>0. \A d \in Call : AccountOf[d] \in Account
  BY PipelineAssumption
<1>1. ASSUME NEW a \in Account, accountNonces'[a] # NoNonce
      PROVE  AccountedBelow(a, accountNonces[a])'
  <2>1. accountNonces'[a] = accountNonces[a] /\ AccountedBelow(a, accountNonces[a])
    BY <1>1 DEF NoGap
  <2> QED
    BY <2>1, StaysAccounted DEF AccountedBelow
<1>2. ASSUME NEW c \in Call, pc'[c] = "replied" PROVE AccountedBelow(AccountOf[c], reply[c])'
  <2>1. AccountedBelow(AccountOf[c], reply'[c])
    BY <1>2 DEF NoGap
  <2> QED
    BY <1>0, <2>1, StaysAccounted DEF AccountedBelow
<1>3. ASSUME NEW c \in Call, nonce'[c] # NoNonce PROVE AccountedBelow(AccountOf[c], nonce[c])'
  <2>1. nonce'[c] = nonce[c] /\ AccountedBelow(AccountOf[c], nonce[c])
    BY <1>3 DEF NoGap
  <2> QED
    BY <1>0, <2>1, StaysAccounted DEF AccountedBelow
<1>4. ASSUME NEW t \in pool' PROVE AccountedBelow(t.slot.account, t.slot.nonce)'
  <2>1. AccountedBelow(t.slot.account, t.slot.nonce)
    BY <1>4 DEF NoGap
  <2>2. t.slot.account \in Account
    BY DEF Typed, TypeOK
  <2> QED
    BY <2>1, <2>2, StaysBelow
<1> QED
  BY <1>1, <1>2, <1>3, <1>4 DEF NoGap

LEMMA NoGapStep == Typed /\ Typed' /\ NoGap /\ [Next]_vars => NoGap'
<1> SUFFICES ASSUME Typed, Typed', NoGap, [Next]_vars PROVE NoGap'
  OBVIOUS
<1>0. /\ accountNonces \in [Account -> Nat \union {NoNonce}]
      /\ nonce \in [Call -> Nat \union {NoNonce}]
      /\ pc \in [Call -> Nonces!Stage]
      /\ reply \in [Call -> Nat \union {NoNonce}]
      /\ \A c \in Call : pc[c] = "replied" => reply[c] \in Nat
      /\ \A c \in Call : AccountOf[c] \in Account
  BY PipelineAssumption DEF Typed, TypeOK, Nonces!TypeOK
<1>1. CASE UNCHANGED nonceVars /\ pool' \subseteq pool
  BY <1>1, NothingHandedOut DEF nonceVars
<1>2. ASSUME NEW c \in Call, Signing(c) PROVE NoGap'
  <2> DEFINE a == AccountOf[c]
  <2>0. UNCHANGED <<chainVars, sub>> /\ pool' = pool
    BY <1>2 DEF Signing, chainVars
  <2>1. CASE Nonces!SignTxKnown(c)
    <3>1. accountNonces[a] \in Nat /\ AccountedBelow(a, accountNonces[a])
      BY <1>0, <2>1 DEF Nonces!SignTxKnown, NoGap
    <3> QED
      BY <2>0, <2>1, <3>1, HandOutBelow DEF Nonces!SignTxKnown
  <2>2. CASE Nonces!SignTxUnknown(c)
    BY <1>0, <2>0, <2>2, NothingHandedOut DEF Nonces!SignTxUnknown, Nonces!StartQuery
  <2>3. ASSUME NEW n \in NextIndex(a), Nonces!ChainAnswers(c, n) PROVE NoGap'
    <3>1. AccountedBelow(a, n)
      BY <1>0, AnswerBelow
    <3>2. /\ nonce' = nonce /\ accountNonces' = accountNonces
          /\ reply' = [reply EXCEPT ![c] = n] /\ pc' = [pc EXCEPT ![c] = "replied"]
      BY <2>3 DEF Nonces!ChainAnswers
    <3>3. ASSUME NEW d \in Call, pc'[d] = "replied"
          PROVE  \/ pc[d] = "replied" /\ reply'[d] = reply[d]
                 \/ AccountedBelow(AccountOf[d], reply'[d])
      <4>1. CASE d = c
        <5>1. reply'[d] = n
          BY <1>0, <3>2, <4>1
        <5> QED
          BY <3>1, <4>1, <5>1
      <4>2. CASE d # c
        BY <1>0, <3>2, <3>3, <4>2
      <4> QED
        BY <4>1, <4>2
    <3> QED
      BY <2>0, <3>2, <3>3, NothingHandedOut
  <2>4. CASE Nonces!GetNonceResumes(c)
    <3> DEFINE second == accountNonces[a]
    <3>1. reply[c] \in Nat /\ AccountedBelow(a, reply[c])
      BY <1>0, <2>4 DEF Nonces!GetNonceResumes, NoGap
    <3>2. second # NoNonce => second \in Nat /\ AccountedBelow(a, second)
      BY <1>0 DEF NoGap
    <3>3. /\ Nonces!LaterOf(reply[c], second) \in Nat
          /\ AccountedBelow(a, Nonces!LaterOf(reply[c], second))
      BY <3>1, <3>2 DEF Nonces!LaterOf
    <3> QED
      BY <2>0, <2>4, <3>3, HandOutBelow DEF Nonces!GetNonceResumes
  <2>5. CASE Nonces!GetNonceThrows(c) \/ Nonces!Signs(c)
    BY <1>0, <2>0, <2>5, NothingHandedOut DEF Nonces!GetNonceThrows, Nonces!Signs
  <2> QED
    BY <1>2, <2>1, <2>2, <2>3, <2>4, <2>5 DEF Signing
<1>3. ASSUME NEW c \in Call, SigningFails(c) PROVE NoGap'
  <2>1. /\ nonce' = nonce /\ accountNonces' = accountNonces /\ reply' = reply /\ pool' = pool
        /\ pc' = [pc EXCEPT ![c] = "refused"] \/ pc' = [pc EXCEPT ![c] = "failed"]
    BY <1>3 DEF SigningFails, Nonces!ChainRefuses, Nonces!SignerThrows
  <2> QED
    BY <1>0, <2>1, NothingHandedOut
<1>4. ASSUME NEW c \in Call, Retry(c) PROVE NoGap'
  <2>1. /\ nonce' = nonce /\ reply' = reply /\ pool' = pool
        /\ accountNonces' = [accountNonces EXCEPT ![AccountOf[c]] = NoNonce]
        /\ pc' = [pc EXCEPT ![c] = "querying"]
    BY <1>4 DEF Retry, Nonces!ReSignTx, Nonces!StartQuery, chainVars
  <2> QED
    BY <1>0, <2>1, NothingHandedOut
<1>5. ASSUME NEW c \in Call, NodeTakes(c) PROVE NoGap'
  <2>1. UNCHANGED nonceVars /\ (pool' = pool \/ pool' = PoolAfter(Tx(c))) /\ sub[c] = "sending"
    BY <1>5 DEF NodeTakes
  <2>2. nonce[c] \in Nat
    BY <2>1 DEF Typed, TypeOK
  <2>3. AccountedBelow(AccountOf[c], nonce[c])
    BY <2>2, PipelineAssumption DEF NoGap
  <2>4. ASSUME NEW t \in pool' PROVE t \in pool \/ AccountedBelow(t.slot.account, t.slot.nonce)
    <3>1. t \in pool \/ t = Tx(c)
      BY <2>1, <2>4 DEF PoolAfter
    <3>2. Tx(c).slot.account = AccountOf[c] /\ Tx(c).slot.nonce = nonce[c]
      BY DEF Tx, Slot
    <3> QED
      BY <2>3, <3>1, <3>2
  <2> QED
    BY <2>1, <2>4, NothingHandedOut DEF nonceVars
<1>6. ASSUME NEW b \in Account, ForeignSubmits(b) PROVE NoGap'
  <2>1. PICK s \in {Slot(b, n) : n \in NextIndex(b)} \union {t.slot : t \in pool} :
           pool' = PoolAfter([slot |-> s, owner |-> Foreign])
    BY <1>6 DEF ForeignSubmits
  <2>2. AccountedBelow(s.account, s.nonce)
    <3>1. CASE \E n \in NextIndex(b) : s = Slot(b, n)
      BY <3>1, AnswerBelow, SlotFields
    <3>2. CASE \E t \in pool : s = t.slot
      BY <3>2 DEF NoGap
    <3> QED
      BY <2>1, <3>1, <3>2
  <2>3. ASSUME NEW t \in pool' PROVE t \in pool \/ AccountedBelow(t.slot.account, t.slot.nonce)
    <3>1. t \in pool \/ t = [slot |-> s, owner |-> Foreign]
      BY <2>1, <2>3 DEF PoolAfter
    <3> QED
      BY <2>2, <3>1
  <2>4. UNCHANGED nonceVars
    BY <1>6 DEF ForeignSubmits
  <2> QED
    BY <2>3, <2>4, NothingHandedOut DEF nonceVars
<1>7. CASE UNCHANGED vars
  BY <1>1, <1>7 DEF vars, chainVars
<1>8. ASSUME NEW c \in Call,
             Sends(c) \/ Resubmits(c) \/ NodeRefuses(c) \/ NodeDrops(c) \/ LinkLost(c)
      PROVE  NoGap'
  BY <1>1, <1>8 DEF Sends, Resubmits, NodeRefuses, NodeDrops, LinkLost, chainVars
<1>9. ASSUME NEW b \in Account, ChainExecutes(b) PROVE NoGap'
  BY <1>1, <1>9 DEF ChainExecutes
<1> QED
  BY <1>2, <1>3, <1>4, <1>5, <1>6, <1>7, <1>8, <1>9 DEF Next, Step, Fault

(* A transaction in the pool waits only for nonces that are in the pool, on *)
(* their way to it, or were spent for nothing: deleting an account's entry  *)
(* in reSignTx makes getNonce skip no nonce.                                *)
THEOREM NoUnexplainedGap == Spec => []GapsExplained
<1>1. Init => NoGap
  BY PipelineAssumption DEF Init, NoGap, Nonces!Init
<1>2. Typed /\ NoGap /\ [Next]_vars => (Typed /\ NoGap)'
  BY TypedStep, NoGapStep
<1>3. Typed /\ NoGap => GapsExplained
  <2> SUFFICES ASSUME Typed, NoGap, NEW t \in pool,
                      NEW n \in chainNonce[t.slot.account]..t.slot.nonce
               PROVE  LET s == Slot(t.slot.account, n) IN
                      \/ Occupied(s)
                      \/ s \in burnt
                      \/ \E c \in Call : pc[c] \in {"signing", "signed"}
                                           /\ sub[c] \in {"unsent", "sending"} /\ Tx(c).slot = s
    BY DEF GapsExplained
  <2> DEFINE a == t.slot.account
  <2>1. /\ a \in Account /\ t.slot.nonce \in Nat /\ chainNonce[a] \in Nat
        /\ n \in Nat /\ n >= chainNonce[a] /\ n <= t.slot.nonce
    BY DEF Typed, TypeOK
  <2>2. CASE n < t.slot.nonce
    <3>1. Accounted(a, n)
      BY <2>1, <2>2 DEF NoGap, AccountedBelow
    <3> QED
      BY <2>1, <3>1 DEF Accounted, InFlight
  <2>3. CASE n = t.slot.nonce
    <3>1. Slot(a, n) = t.slot
      BY <2>3 DEF Slot, Typed, TypeOK
    <3> QED
      BY <3>1 DEF Occupied
  <2> QED
    BY <2>1, <2>2, <2>3
<1> QED
  BY <1>1, <1>2, <1>3, TypedInit, PTL DEF Spec

-----------------------------------------------------------------------------
(* NoSelfCollision: as long as no one else uses the accounts and nothing is *)
(* submitted twice, nothing is signed again, each transaction in the pool   *)
(* is the one its caller signed last, and each nonce the chain has passed   *)
(* is the nonce of a call whose transaction it executed.                    *)
Undisturbed == foreign = 0 /\ ~Resubmitted

Spent(a, n) ==
    \E c \in Call : AccountOf[c] = a /\ nonce[c] = n /\ sub[c] \in {"done", "lost"}

Peaceful ==
    /\ \A c \in Call : sub[c] \notin Recoverable
    /\ \A a \in Account : resets[a] = 0
    /\ \A t \in pool : t.owner \in Call /\ t = Tx(t.owner) /\ sub[t.owner] \in {"pooled", "lost"}
    /\ \A a \in Account : \A n \in Nat : n < chainNonce[a] => Spent(a, n)

LEMMA OwnNonces ==
    ASSUME Typed, Proved!NonceInv, Peaceful, NEW c \in Call, NEW d \in Call, c # d,
           AccountOf[c] = AccountOf[d], nonce[c] \in Nat, nonce[d] \in Nat
    PROVE  nonce[c] # nonce[d]
<1>1. stamp[c] = 0 /\ stamp[d] = 0
  <2>1. /\ AccountOf[c] \in Account /\ resets[AccountOf[c]] = 0 /\ resets[AccountOf[d]] = 0
        /\ stamp[c] \in Nat /\ stamp[d] \in Nat
    BY PipelineAssumption DEF Peaceful, Typed, TypeOK, Nonces!TypeOK
  <2>2. stamp[c] <= resets[AccountOf[c]] /\ stamp[d] <= resets[AccountOf[d]]
    BY DEF Proved!NonceInv, Proved!StampBounded
  <2> QED
    BY <2>1, <2>2
<1>2. nonce[c] # NoNonce /\ nonce[d] # NoNonce
  BY PipelineAssumption
<1> QED
  BY <1>1, <1>2
     DEF Proved!NonceInv, Proved!DistinctSinceReset, Proved!Rivals, Proved!HasNonce

(* A step that leaves alone what has been sent.                             *)
LEMMA PeaceKept ==
    ASSUME Typed, Peaceful, UNCHANGED <<chainNonce, resets>>, pool' \subseteq pool,
           \A c \in Call : sub'[c] \notin Recoverable,
           \A c \in Call : sub[c] \in {"done", "lost"} => sub'[c] = sub[c],
           \A c \in Call : sub[c] = "pooled" =>
               sub'[c] \in {"pooled", "lost"} \/ Tx(c) \notin pool',
           \A c \in Call : sub[c] # "unsent" => nonce'[c] = nonce[c]
    PROVE  Peaceful'
<1>1. ASSUME NEW t \in pool'
      PROVE  t.owner \in Call /\ t = Tx(t.owner)' /\ sub'[t.owner] \in {"pooled", "lost"}
  <2>1. t.owner \in Call /\ t = Tx(t.owner) /\ sub[t.owner] \in {"pooled", "lost"}
    BY <1>1 DEF Peaceful
  <2>2. Tx(t.owner)' = Tx(t.owner)
    BY <2>1 DEF Tx
  <2> QED
    BY <1>1, <2>1, <2>2
<1>2. ASSUME NEW a \in Account, NEW n \in Nat, n < chainNonce[a] PROVE Spent(a, n)'
  <2>1. PICK c \in Call : AccountOf[c] = a /\ nonce[c] = n /\ sub[c] \in {"done", "lost"}
    BY <1>2 DEF Peaceful, Spent
  <2> QED
    BY <2>1 DEF Spent
<1> QED
  BY <1>1, <1>2 DEF Peaceful

(* A transaction that reaches the node finds its nonce unused and free.     *)
LEMMA FindsItsPlace ==
    ASSUME Typed, Proved!NonceInv, Peaceful, NEW c \in Call, sub[c] = "sending"
    PROVE  /\ ~(Tx(c).slot.nonce < chainNonce[Tx(c).slot.account])
           /\ ~Occupied(Tx(c).slot)
           /\ Usurped(Tx(c)) = {}
<1>0. nonce[c] \in Nat /\ AccountOf[c] \in Account
  BY PipelineAssumption DEF Typed, TypeOK
<1>1. ASSUME Tx(c).slot.nonce < chainNonce[Tx(c).slot.account] PROVE FALSE
  <2>1. Spent(AccountOf[c], nonce[c])
    BY <1>0, <1>1, TxSlot, SlotFields DEF Peaceful
  <2>2. PICK d \in Call : /\ AccountOf[d] = AccountOf[c] /\ nonce[d] = nonce[c]
                          /\ sub[d] \in {"done", "lost"}
    BY <2>1 DEF Spent
  <2> QED
    BY <1>0, <2>2, OwnNonces
<1>2. ASSUME NEW t \in pool, t.slot = Tx(c).slot PROVE FALSE
  <2>1. t.owner \in Call /\ t = Tx(t.owner) /\ sub[t.owner] \in {"pooled", "lost"}
    BY <1>2 DEF Peaceful
  <2>2. t.owner # c
    BY <2>1
  <2>3. Slot(AccountOf[t.owner], nonce[t.owner]) = Slot(AccountOf[c], nonce[c])
    BY <1>2, <2>1, TxSlot
  <2>4. AccountOf[t.owner] = AccountOf[c] /\ nonce[t.owner] = nonce[c]
    BY <2>3 DEF Slot
  <2> QED
    BY <1>0, <2>1, <2>2, <2>4, OwnNonces
<1> QED
  BY <1>1, <1>2 DEF Occupied, Usurped

LEMMA PeaceStep ==
    ASSUME Typed, Typed', Proved!NonceInv, Peaceful, [Next]_vars, Undisturbed'
    PROVE  Peaceful'
<1>0. /\ sub \in [Call -> Submission] /\ chainNonce \in [Account -> Nat]
      /\ foreign \in Nat /\ resubmits \in [Call -> Nat]
  BY PipelineAssumption DEF Typed, TypeOK
<1>1. CASE UNCHANGED vars
  BY <1>1, PeaceKept DEF vars, nonceVars, chainVars, Peaceful
<1>2. ASSUME NEW c \in Call, Signing(c) \/ SigningFails(c) PROVE Peaceful'
  <2>1. resets' = resets
    BY <1>2
       DEF Signing, SigningFails, Nonces!SignTxKnown, Nonces!SignTxUnknown, Nonces!ChainAnswers,
           Nonces!ChainRefuses, Nonces!GetNonceResumes, Nonces!GetNonceThrows, Nonces!Signs,
           Nonces!SignerThrows, Nonces!HandOut
  <2>2. \A d \in Call : sub[d] # "unsent" => nonce'[d] = nonce[d]
    BY <1>2, SigningSteps DEF Typed, SignedFirst
  <2> QED
    BY <1>2, <2>1, <2>2, SigningSteps, PeaceKept DEF Peaceful
<1>3. ASSUME NEW c \in Call, Sends(c) \/ NodeRefuses(c) \/ LinkLost(c) PROVE Peaceful'
  BY <1>0, <1>3, PeaceKept
     DEF Sends, NodeRefuses, LinkLost, Becomes, nonceVars, chainVars, Peaceful, Recoverable
<1>4. ASSUME NEW c \in Call, NodeDrops(c) PROVE Peaceful'
  BY <1>0, <1>4, PeaceKept DEF NodeDrops, Becomes, nonceVars, Peaceful, Recoverable
<1>5. ASSUME NEW c \in Call, NodeTakes(c) PROVE Peaceful'
  <2> DEFINE t == Tx(c)
  <2>1. sub[c] = "sending" /\ UNCHANGED <<chainNonce, resets, nonce>>
    BY <1>5 DEF NodeTakes, nonceVars
  <2>2. pool' = PoolAfter(t) /\ sub' = [sub EXCEPT ![c] = "pooled"]
    <3>1. pool' = PoolAfter(t)
            /\ sub' = [d \in Call |-> IF d = c THEN "pooled"
                                      ELSE IF d \in Usurped(t) THEN "usurped" ELSE sub[d]]
      BY <1>5, <2>1, FindsItsPlace DEF NodeTakes, Occupied
    <3>2. Usurped(t) = {}
      BY <2>1, FindsItsPlace
    <3>3. sub' = [sub EXCEPT ![c] = "pooled"]
      BY <1>0, <3>1, <3>2
    <3> QED
      BY <3>1, <3>3
  <2>3. ASSUME NEW u \in pool'
        PROVE  u.owner \in Call /\ u = Tx(u.owner)' /\ sub'[u.owner] \in {"pooled", "lost"}
    <3>1. \A d \in Call : Tx(d)' = Tx(d)
      BY <2>1 DEF Tx
    <3>2. CASE u = t
      <4>1. u.owner = c
        BY <3>2, TxSlot
      <4> QED
        BY <1>0, <2>2, <3>1, <3>2, <4>1
    <3>3. CASE u \in pool
      <4>1. u.owner \in Call /\ u = Tx(u.owner) /\ sub[u.owner] \in {"pooled", "lost"}
        BY <3>3 DEF Peaceful
      <4> QED
        BY <1>0, <2>1, <2>2, <3>1, <4>1
    <3> QED
      BY <2>2, <3>2, <3>3 DEF PoolAfter
  <2>4. ASSUME NEW a \in Account, NEW n \in Nat, n < chainNonce'[a] PROVE Spent(a, n)'
    <3>1. PICK d \in Call : AccountOf[d] = a /\ nonce[d] = n /\ sub[d] \in {"done", "lost"}
      BY <2>1, <2>4 DEF Peaceful, Spent
    <3> QED
      BY <1>0, <2>1, <2>2, <3>1 DEF Spent
  <2>5. \A d \in Call : sub'[d] \notin Recoverable
    BY <1>0, <2>2 DEF Peaceful, Recoverable
  <2> QED
    BY <2>1, <2>3, <2>4, <2>5 DEF Peaceful
<1>6. ASSUME NEW c \in Call, Retry(c) PROVE FALSE
  BY <1>6 DEF Retry, Peaceful
<1>7. ASSUME NEW c \in Call, Resubmits(c) PROVE FALSE
  BY <1>0, <1>7 DEF Resubmits, Undisturbed, Resubmitted
<1>8. ASSUME NEW a \in Account, ForeignSubmits(a) PROVE FALSE
  BY <1>0, <1>8 DEF ForeignSubmits, Undisturbed
<1>9. ASSUME NEW b \in Account, ChainExecutes(b) PROVE Peaceful'
  <2>1. PICK t \in pool :
           /\ t.slot = Slot(b, chainNonce[b])
           /\ chainNonce' = [chainNonce EXCEPT ![b] = @ + 1]
           /\ pool' = pool \ {t}
           /\ sub' = [c \in Call |-> IF sub[c] = "pooled" /\ t = Tx(c) THEN "done" ELSE sub[c]]
           /\ UNCHANGED <<nonce, resets>>
    BY <1>9 DEF ChainExecutes, nonceVars
  <2>2. t.owner \in Call /\ t = Tx(t.owner) /\ sub[t.owner] \in {"pooled", "lost"}
    BY <2>1 DEF Peaceful
  <2>3. /\ sub'[t.owner] \in {"done", "lost"}
        /\ \A d \in Call \ {t.owner} : sub'[d] = sub[d]
    <3>1. \A d \in Call : t = Tx(d) => d = t.owner
      BY TxSlot
    <3> QED
      BY <2>1, <2>2, <3>1
  <2>4. ASSUME NEW u \in pool'
        PROVE  u.owner \in Call /\ u = Tx(u.owner)' /\ sub'[u.owner] \in {"pooled", "lost"}
    <3>1. u \in pool /\ u # t
      BY <2>1
    <3>2. u.owner \in Call /\ u = Tx(u.owner) /\ sub[u.owner] \in {"pooled", "lost"}
      BY <3>1 DEF Peaceful
    <3>3. u.owner # t.owner
      BY <2>2, <3>1, <3>2
    <3>4. Tx(u.owner)' = Tx(u.owner)
      BY <2>1 DEF Tx
    <3> QED
      BY <2>3, <3>2, <3>3, <3>4
  <2>5. ASSUME NEW a \in Account, NEW n \in Nat, n < chainNonce'[a] PROVE Spent(a, n)'
    <3>1. CASE n < chainNonce[a]
      <4>1. PICK d \in Call : AccountOf[d] = a /\ nonce[d] = n /\ sub[d] \in {"done", "lost"}
        BY <3>1 DEF Peaceful, Spent
      <4>2. sub'[d] \in {"done", "lost"}
        BY <2>3, <4>1
      <4> QED
        BY <2>1, <4>1, <4>2 DEF Spent
    <3>2. CASE ~(n < chainNonce[a])
      <4>1. a = b /\ n = chainNonce[b]
        BY <1>0, <2>1, <2>5, <3>2
      <4>2. Slot(AccountOf[t.owner], nonce[t.owner]) = Slot(b, chainNonce[b])
        BY <2>1, <2>2, TxSlot
      <4>3. AccountOf[t.owner] = b /\ nonce[t.owner] = chainNonce[b]
        BY <4>2 DEF Slot
      <4> QED
        BY <2>1, <2>2, <2>3, <4>1, <4>3 DEF Spent
    <3> QED
      BY <3>1, <3>2
  <2>6. \A d \in Call : sub'[d] \notin Recoverable
    BY <2>1 DEF Peaceful, Recoverable
  <2> QED
    BY <2>1, <2>4, <2>5, <2>6 DEF Peaceful
<1> QED
  BY <1>1, <1>2, <1>3, <1>4, <1>5, <1>6, <1>7, <1>8, <1>9 DEF Next, Step, Fault

(* Disturbances are not undone.                                             *)
LEMMA OnceDisturbed ==
    ASSUME Typed, Typed', [Next]_vars, Undisturbed'
    PROVE  Undisturbed
<1>0. /\ foreign \in Nat /\ resubmits \in [Call -> Nat]
      /\ foreign' \in Nat /\ resubmits' \in [Call -> Nat]
  BY PipelineAssumption DEF Typed, TypeOK
<1>1. foreign' >= foreign /\ \A c \in Call : resubmits'[c] >= resubmits[c]
  BY <1>0, SigningSteps
     DEF Next, Step, Fault, Signing, SigningFails, Sends, NodeTakes, Retry, NodeRefuses, NodeDrops,
         LinkLost, Resubmits, ForeignSubmits, ChainExecutes, vars, chainVars
<1> QED
  BY <1>0, <1>1 DEF Undisturbed, Resubmitted

(* Concurrent callers of one Blockchain object never get in each other's    *)
(* way: no transaction is refused or replaced for its nonce, unless another *)
(* wallet uses the account or a caller submits the same signed transaction  *)
(* twice.                                                                   *)
THEOREM NoneCollides == Spec => []NoSelfCollision
<1> DEFINE Inv == Typed /\ Proved!NonceInv /\ (Undisturbed => Peaceful)
<1>1. Init => Inv
  <2> SUFFICES ASSUME Init PROVE Inv
    OBVIOUS
  <2>1. Proved!NonceInv
    BY SameInit, Proved!NonceInvInit, NoncesAssumed DEF Init
  <2>2. Peaceful
    BY DEF Init, Peaceful, Recoverable, Nonces!Init
  <2> QED
    BY <2>1, <2>2, TypedInit
<1>2. Inv /\ [Next]_vars => Inv'
  <2> SUFFICES ASSUME Inv, [Next]_vars PROVE Inv'
    OBVIOUS
  <2>1. Typed'
    BY TypedStep
  <2>2. [Proved!Next]_(Proved!nonceVars)
    BY NoncesStep, SameNext DEF Nonces!nonceVars, Proved!nonceVars
  <2>3. Proved!NonceInv'
    BY <2>2, Proved!NonceInvStep, NoncesAssumed
  <2>4. Undisturbed' => Peaceful'
    BY <2>1, OnceDisturbed, PeaceStep
  <2> QED
    BY <2>1, <2>3, <2>4
<1>3. Inv => NoSelfCollision
  BY DEF Undisturbed, Peaceful, NoSelfCollision
<1> QED
  BY <1>1, <1>2, <1>3, PTL DEF Spec

=============================================================================
