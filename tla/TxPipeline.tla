------------------------------ MODULE TxPipeline ------------------------------
(***************************************************************************)
(* From signAndSubmitTx to the chain: the nonces of AccountNonces, the     *)
(* retries of submitSignedTxWithReSign (Blockchain.ts) and the reasons it  *)
(* retries for (isRecoverableTxError in Blockchain.utils.ts), composed     *)
(* with the pool and the chain that decide what becomes of a transaction.  *)
(*                                                                         *)
(* The node is external: it holds at most one transaction per nonce of an  *)
(* account and executes them in the order of their nonces.  Other wallets  *)
(* may use the same accounts.  How the verdict on a transaction reaches    *)
(* the caller is the matter of SubmitTx; here it arrives or is lost.       *)
(***************************************************************************)
EXTENDS Naturals, FiniteSets

CONSTANTS
    Account, Call, AccountOf, MaxReSign, NoNonce,   \* as in AccountNonces
    ReSigner,      \* the calls made with the reSign option
    Foreign,       \* the owner of transactions of other wallets
    MaxForeign,    \* how many transactions other wallets submit
    MaxFaults,     \* how many faults there may be, of whatever kind
    MaxResubmit    \* how often a caller submits the same signed tx again

ASSUME PipelineAssumption ==
    /\ AccountOf \in [Call -> Account]
    /\ MaxReSign \in Nat
    /\ NoNonce \notin Nat
    /\ ReSigner \subseteq Call
    /\ Foreign \notin Call
    /\ MaxForeign \in Nat
    /\ MaxFaults \in Nat
    /\ MaxResubmit \in Nat

VARIABLES
    accountNonces, pc, reply, nonce, resigns, resets, stamp, during,
    quiet,
    chainNonce,   \* the nonce the chain executes next, per account
    pool,         \* the transactions the pool holds
    sub,          \* what became of a call's latest submission
    executed,     \* how often the chain executed a call's transaction
    foreign,      \* how many transactions other wallets have submitted
    faults,       \* how many faults there have been
    resubmits,    \* how often a caller has submitted the same signed tx again
    burnt         \* history: nonces that were taken and never got to stay

Nonces == INSTANCE AccountNonces WITH ChainIndex <- Nat

nonceVars == <<accountNonces, pc, reply, nonce, resigns, resets, stamp, during,
               quiet>>
chainVars == <<chainNonce, pool, executed, foreign, burnt>>
vars == <<nonceVars, chainVars, sub, faults, resubmits>>

Slot(a, n) == [account |-> a, nonce |-> n]
Tx(c) == [slot |-> Slot(AccountOf[c], nonce[c]), owner |-> c]

(* isRecoverableTxError: outdated, priority too low, already imported, and  *)
(* a status of usurped.                                                     *)
Recoverable == {"outdated", "priorityLow", "duplicate", "usurped"}

Submission == Recoverable \union {"unsent", "sending", "pooled", "refused", "lost", "done"}

TypeOK ==
    /\ Nonces!TypeOK
    /\ chainNonce \in [Account -> Nat]
    /\ pool \subseteq [slot: [account: Account, nonce: Nat], owner: Call \union {Foreign}]
    /\ sub \in [Call -> Submission]
    /\ executed \in [Call -> Nat]
    /\ foreign \in 0..MaxForeign
    /\ faults \in 0..MaxFaults
    /\ resubmits \in [Call -> 0..MaxResubmit]
    /\ \A c \in Call : sub[c] \notin {"unsent"} => nonce[c] \in Nat

Init ==
    /\ Nonces!Init
    /\ chainNonce = [a \in Account |-> 0]
    /\ pool = {}
    /\ sub = [c \in Call |-> "unsent"]
    /\ executed = [c \in Call |-> 0]
    /\ foreign = 0
    /\ faults = 0
    /\ resubmits = [c \in Call |-> 0]
    /\ burnt = {}

-----------------------------------------------------------------------------
(* The node (external).                                                     *)

Occupied(s) == \E t \in pool : t.slot = s
Taken(s) == s.nonce < chainNonce[s.account] \/ Occupied(s)

(* What accountNextIndex answers: the first nonce that is neither executed  *)
(* nor in the pool, as the set of that one number.                          *)
NextIndex(a) ==
    {n \in chainNonce[a]..(chainNonce[a] + Cardinality(pool)) :
        /\ ~Taken(Slot(a, n))
        /\ \A i \in chainNonce[a]..(n - 1) : Taken(Slot(a, i))}

(* The pool takes t in, in place of what held its slot; a call whose        *)
(* transaction is replaced while it is watched hears of it.                 *)
PoolAfter(t) == {u \in pool : u.slot # t.slot} \union {t}
Usurped(t) == {c \in Call : sub[c] = "pooled" /\ Tx(c) \in pool \ {t} /\ Tx(c).slot = t.slot}

Becomes(c, state) == sub' = [sub EXCEPT ![c] = state]

(* tx.send reaches the node.  A nonce that is held already is replaced only *)
(* by a transaction of higher priority.                                     *)
NodeTakes(c) ==
    LET t == Tx(c) IN
    /\ sub[c] = "sending"
    /\ \/ /\ t.slot.nonce < chainNonce[t.slot.account]
          /\ Becomes(c, "outdated")
          /\ UNCHANGED pool
       \/ /\ t \in pool
          /\ Becomes(c, "duplicate")
          /\ UNCHANGED pool
       \/ /\ Occupied(t.slot) /\ t \notin pool
          /\ Becomes(c, "priorityLow")
          /\ UNCHANGED pool
       \/ /\ t.slot.nonce >= chainNonce[t.slot.account] /\ t \notin pool
          /\ pool' = PoolAfter(t)
          /\ sub' = [d \in Call |-> IF d = c THEN "pooled"
                                    ELSE IF d \in Usurped(t) THEN "usurped" ELSE sub[d]]
    /\ UNCHANGED <<nonceVars, chainNonce, executed, foreign, faults, resubmits, burnt>>

(* Another wallet uses the next nonce, or one that is in the pool.          *)
ForeignSubmits(a) ==
    /\ foreign < MaxForeign
    /\ foreign' = foreign + 1
    /\ \E s \in {Slot(a, n) : n \in NextIndex(a)} \union {t.slot : t \in pool} :
          LET t == [slot |-> s, owner |-> Foreign] IN
          /\ s.account = a
          /\ pool' = PoolAfter(t)
          /\ sub' = [d \in Call |-> IF d \in Usurped(t) THEN "usurped" ELSE sub[d]]
    /\ UNCHANGED <<nonceVars, chainNonce, executed, faults, resubmits, burnt>>

(* The next transaction in the pool is executed, and is final at once; its  *)
(* caller hears of it if the pool's current transaction is the one watched. *)
ChainExecutes(a) ==
    \E t \in pool :
        /\ t.slot = Slot(a, chainNonce[a])
        /\ chainNonce' = [chainNonce EXCEPT ![a] = @ + 1]
        /\ pool' = pool \ {t}
        /\ executed' = [c \in Call |-> executed[c] + IF t.owner = c THEN 1 ELSE 0]
        /\ sub' = [c \in Call |-> IF sub[c] = "pooled" /\ t = Tx(c) THEN "done" ELSE sub[c]]
        /\ UNCHANGED <<nonceVars, foreign, faults, resubmits, burnt>>

Burn(c) == burnt' = burnt \union {Tx(c).slot}

(* Faults: the pool refuses a transaction for good, or throws it out; or    *)
(* the caller is cut off from it, before or after the pool has taken it.    *)
NodeRefuses(c) ==
    /\ sub[c] = "sending"
    /\ Becomes(c, "refused") /\ Burn(c)
    /\ UNCHANGED <<nonceVars, chainNonce, pool, executed, foreign, resubmits>>

NodeDrops(c) ==
    /\ sub[c] = "pooled"
    /\ pool' = pool \ {Tx(c)}
    /\ Becomes(c, "refused") /\ Burn(c)
    /\ UNCHANGED <<nonceVars, chainNonce, executed, foreign, resubmits>>

LinkLost(c) ==
    /\ \/ sub[c] = "sending" /\ Burn(c)
       \/ sub[c] = "pooled" /\ UNCHANGED burnt
    /\ Becomes(c, "lost")
    /\ UNCHANGED <<nonceVars, chainNonce, pool, executed, foreign, resubmits>>

-----------------------------------------------------------------------------
(* The client.                                                              *)

(* getNonce and signTx, with the chain's own answer.                        *)
Signing(c) ==
    /\ \/ Nonces!SignTxKnown(c)
       \/ Nonces!SignTxUnknown(c)
       \/ /\ pc[c] = "querying"
          /\ \E n \in NextIndex(AccountOf[c]) : Nonces!ChainAnswers(c, n)
       \/ Nonces!GetNonceResumes(c)
       \/ Nonces!GetNonceThrows(c)
       \/ Nonces!Signs(c)
    /\ UNCHANGED <<chainVars, sub, faults, resubmits>>

(* Faults: the chain does not answer, or the signer throws.                 *)
SigningFails(c) ==
    /\ \/ Nonces!ChainRefuses(c) /\ UNCHANGED burnt
       \/ Nonces!SignerThrows(c) /\ Burn(c)
    /\ UNCHANGED <<chainNonce, pool, executed, foreign, sub, resubmits>>

(* submitSignedTx sends the signed transaction.                             *)
Sends(c) ==
    /\ pc[c] = "signed"
    /\ sub[c] = "unsent"
    /\ Becomes(c, "sending")
    /\ UNCHANGED <<nonceVars, chainVars, faults, resubmits>>

(* Mutated: whatever the reason, it is signed and sent again.               *)
RetryAnyReason(c) ==
    /\ c \in ReSigner
    /\ sub[c] \in Recoverable \union {"refused", "lost"}
    /\ Nonces!ReSignTx(c)
    /\ Becomes(c, "unsent")
    /\ UNCHANGED <<chainVars, faults, resubmits>>

(* Mutated: only the first failure is caught.                               *)
RetryOnce(c) ==
    /\ c \in ReSigner
    /\ sub[c] \in Recoverable
    /\ resigns[c] = 0
    /\ Nonces!ReSignTx(c)
    /\ Becomes(c, "unsent")
    /\ UNCHANGED <<chainVars, faults, resubmits>>

(* retry: a recoverable reason has the transaction signed and sent again,   *)
(* twice at most (MaxReSign); any other is passed on to the caller.         *)
Retry(c) ==
    /\ c \in ReSigner
    /\ sub[c] \in Recoverable
    /\ Nonces!ReSignTx(c)
    /\ Becomes(c, "unsent")
    /\ UNCHANGED <<chainVars, faults, resubmits>>

(* A caller that was cut off submits the transaction it signed once more.   *)
Resubmits(c) ==
    /\ sub[c] = "lost"
    /\ resubmits[c] < MaxResubmit
    /\ resubmits' = [resubmits EXCEPT ![c] = @ + 1]
    /\ Becomes(c, "sending")
    /\ UNCHANGED <<nonceVars, chainVars, faults>>

Step(c) == Signing(c) \/ Sends(c) \/ NodeTakes(c) \/ Retry(c)

Fault(c) ==
    /\ faults < MaxFaults
    /\ faults' = faults + 1
    /\ SigningFails(c) \/ NodeRefuses(c) \/ NodeDrops(c) \/ LinkLost(c)

Next ==
    \/ \E c \in Call : Step(c) \/ Fault(c) \/ Resubmits(c)
    \/ \E a \in Account : ForeignSubmits(a) \/ ChainExecutes(a)

Spec == Init /\ [][Next]_vars

(* Calls that were started go on, and the chain executes what it can.       *)
(* Calls need not be started, and nothing need fail.                        *)
Fairness ==
    /\ \A c \in Call : WF_vars(pc[c] # "idle" /\ Step(c))
    /\ \A a \in Account : WF_vars(ChainExecutes(a))

FairSpec == Spec /\ Fairness

-----------------------------------------------------------------------------
InPool(c) == {t \in pool : t.owner = c}
Resubmitted == \E c \in Call : resubmits[c] > 0

(* Concurrent callers of one Blockchain object never get in each other's    *)
(* way: unless another wallet uses the account, or a caller submits the     *)
(* same signed transaction twice, none is refused or replaced for its nonce.*)
NoSelfCollision ==
    foreign = 0 /\ ~Resubmitted => \A c \in Call : sub[c] \notin Recoverable

(* A transaction in the pool waits only for nonces that are in the pool,    *)
(* on their way to it, or were spent for nothing: re-signing leaves no gap. *)
GapsExplained ==
    \A t \in pool : \A n \in chainNonce[t.slot.account]..t.slot.nonce :
        LET s == Slot(t.slot.account, n) IN
        \/ Occupied(s)
        \/ s \in burnt
        \/ \E c \in Call : pc[c] \in {"signing", "signed"}
                             /\ sub[c] \in {"unsent", "sending"} /\ Tx(c).slot = s

(* "re-signing and re-sending the tx" (Blockchain.ts:91) never executes it  *)
(* twice: at any moment at most one of its signed forms can still execute   *)
(* or has, but for those its caller sent a second time itself.              *)
OneLiveTx ==
    \A c \in Call : executed[c] + Cardinality(InPool(c)) <= 1 + resubmits[c]

(* Without faults, every call that is made is executed, in whatever order   *)
(* the transactions reach the node.  With transactions of other wallets     *)
(* this takes retries: two are enough for two callers against one such      *)
(* transaction, but not against two.                                        *)
AllExecute == \A c \in Call : pc[c] # "idle" ~> sub[c] = "done" \/ faults > 0

=============================================================================
