---------------------------- MODULE AccountNonces ----------------------------
(***************************************************************************)
(* The transaction nonces of one Blockchain object                         *)
(* (packages/chain-helpers/src/blockchain/Blockchain.ts).                  *)
(*                                                                         *)
(* Every call of signTx and reSignTx takes its nonce from getNonce, which  *)
(* reads and writes the shared map accountNonces around an await of the    *)
(* chain's accountNextIndex RPC.  JavaScript runs the code between two     *)
(* awaits without interruption, so each such stretch is one action here,   *)
(* and the calls interleave at the awaits.  A Call is one signTx call and  *)
(* the reSignTx calls made for the same transaction afterwards.            *)
(*                                                                         *)
(* The chain is external: it may answer the RPC with any index of          *)
(* ChainIndex, or refuse.  Module TxPipeline ties the answer to a chain.   *)
(***************************************************************************)
EXTENDS Naturals

CONSTANTS
    Account,     \* addresses that sign transactions
    Call,        \* transactions being signed by concurrent callers
    AccountOf,   \* AccountOf[c]: the address that signs the transaction of c
    ChainIndex,  \* the answers accountNextIndex may give
    MaxReSign,   \* how often one transaction may be signed again
    NoNonce      \* the map has no entry (undefined)

ASSUME NoncesAssumption ==
    /\ AccountOf \in [Call -> Account]
    /\ ChainIndex \subseteq Nat
    /\ MaxReSign \in Nat
    /\ NoNonce \notin Nat

VARIABLES
    accountNonces,  \* the next nonce per account, or NoNonce
    pc,             \* where each call stands
    reply,          \* the chain's answer a call has not yet resumed with
    nonce,          \* the nonce a call signs or signed with
    resigns,        \* how often a call has signed again
    resets,         \* history: how often reSignTx deleted an account's entry
    stamp,          \* history: resets of the account when the nonce was taken
    during,         \* history: the account's nonces given to others since a
                    \* call last started to wait for the chain
    quiet           \* history: whether the account's entry was left in place
                    \* since then

nonceVars == <<accountNonces, pc, reply, nonce, resigns, resets, stamp, during, quiet>>

Stage == {"idle", "querying", "replied", "refused", "signing", "signed", "failed"}

TypeOK ==
    /\ accountNonces \in [Account -> Nat \union {NoNonce}]
    /\ pc \in [Call -> Stage]
    /\ reply \in [Call -> Nat \union {NoNonce}]
    /\ nonce \in [Call -> Nat \union {NoNonce}]
    /\ resigns \in [Call -> 0..MaxReSign]
    /\ resets \in [Account -> Nat]
    /\ stamp \in [Call -> Nat]
    /\ during \in [Call -> SUBSET Nat]
    /\ quiet \in [Call -> BOOLEAN]
    /\ \A c \in Call : pc[c] = "replied" => reply[c] \in Nat
    /\ \A c \in Call : pc[c] \in {"signing", "signed"} => nonce[c] \in Nat

Init ==
    /\ accountNonces = [a \in Account |-> NoNonce]
    /\ pc = [c \in Call |-> "idle"]
    /\ reply = [c \in Call |-> NoNonce]
    /\ nonce = [c \in Call |-> NoNonce]
    /\ resigns = [c \in Call |-> 0]
    /\ resets = [a \in Account |-> 0]
    /\ stamp = [c \in Call |-> 0]
    /\ during = [c \in Call |-> {}]
    /\ quiet = [c \in Call |-> TRUE]

-----------------------------------------------------------------------------
Rivals(c) == {d \in Call \ {c} : AccountOf[d] = AccountOf[c]}

Waiting(c) == pc[c] \in {"querying", "replied", "refused"}

(* Mutated: both the caller and the map move past the nonce.                *)
HandOutSkips(c, n) ==
    /\ accountNonces' = [accountNonces EXCEPT ![AccountOf[c]] = n + 2]
    /\ nonce' = [nonce EXCEPT ![c] = n + 1]
    /\ stamp' = [stamp EXCEPT ![c] = resets[AccountOf[c]]]
    /\ pc' = [pc EXCEPT ![c] = "signing"]
    /\ reply' = [reply EXCEPT ![c] = NoNonce]
    /\ during' = [d \in Call |-> IF d \in Rivals(c) /\ Waiting(d)
                                 THEN during[d] \union {n + 1}
                                 ELSE during[d]]
    /\ UNCHANGED <<resigns, resets, quiet>>

(* The end of getNonce: the map moves past n and the caller signs with n.   *)
HandOut(c, n) ==
    /\ accountNonces' = [accountNonces EXCEPT ![AccountOf[c]] = n + 1]
    /\ nonce' = [nonce EXCEPT ![c] = n]
    /\ stamp' = [stamp EXCEPT ![c] = resets[AccountOf[c]]]
    /\ pc' = [pc EXCEPT ![c] = "signing"]
    /\ reply' = [reply EXCEPT ![c] = NoNonce]
    /\ during' = [d \in Call |-> IF d \in Rivals(c) /\ Waiting(d)
                                 THEN during[d] \union {n}
                                 ELSE during[d]]
    /\ UNCHANGED <<resigns, resets, quiet>>

(* The RPC is sent and getNonce awaits its answer.                          *)
StartQuery(c) ==
    /\ pc' = [pc EXCEPT ![c] = "querying"]
    /\ during' = [during EXCEPT ![c] = {}]
    /\ UNCHANGED <<reply, nonce, stamp>>

(* signTx calls getNonce: a known nonce is handed out without an await.     *)
SignTxKnown(c) ==
    /\ pc[c] = "idle"
    /\ accountNonces[AccountOf[c]] # NoNonce
    /\ HandOut(c, accountNonces[AccountOf[c]])

SignTxUnknown(c) ==
    /\ pc[c] = "idle"
    /\ accountNonces[AccountOf[c]] = NoNonce
    /\ StartQuery(c)
    /\ quiet' = [quiet EXCEPT ![c] = TRUE]
    /\ UNCHANGED <<accountNonces, resigns, resets>>

(* External: the node computes its answer, now or much later.               *)
ChainAnswers(c, n) ==
    /\ pc[c] = "querying"
    /\ pc' = [pc EXCEPT ![c] = "replied"]
    /\ reply' = [reply EXCEPT ![c] = n]
    /\ UNCHANGED <<accountNonces, nonce, resigns, resets, stamp, during, quiet>>

(* External: the node refuses, or the connection goes away.                 *)
ChainRefuses(c) ==
    /\ pc[c] = "querying"
    /\ pc' = [pc EXCEPT ![c] = "refused"]
    /\ UNCHANGED <<accountNonces, reply, nonce, resigns, resets, stamp, during, quiet>>

(* Mutated: the map is not read again after the await.                      *)
LaterOfSecondIgnored(n, second) == n

(* BN.max(chainNonce, secondQuery || 0).                                    *)
LaterOf(n, second) == IF second # NoNonce /\ second > n THEN second ELSE n

(* getNonce resumes: the map may have moved on during the await, so it is   *)
(* read again and the later of the two nonces is handed out.                *)
GetNonceResumes(c) ==
    /\ pc[c] = "replied"
    /\ HandOut(c, LaterOf(reply[c], accountNonces[AccountOf[c]]))

(* getNonce throws; so does the signTx or reSignTx that awaits it.          *)
GetNonceThrows(c) ==
    /\ pc[c] = "refused"
    /\ pc' = [pc EXCEPT ![c] = "failed"]
    /\ UNCHANGED <<accountNonces, reply, nonce, resigns, resets, stamp, during, quiet>>

(* The signer signs, or throws: the nonce is then spent for nothing.        *)
Signs(c) ==
    /\ pc[c] = "signing"
    /\ pc' = [pc EXCEPT ![c] = "signed"]
    /\ UNCHANGED <<accountNonces, reply, nonce, resigns, resets, stamp, during, quiet>>

SignerThrows(c) ==
    /\ pc[c] = "signing"
    /\ pc' = [pc EXCEPT ![c] = "failed"]
    /\ UNCHANGED <<accountNonces, reply, nonce, resigns, resets, stamp, during, quiet>>

(* reSignTx deletes the account's entry and calls getNonce, which therefore *)
(* always asks the chain.                                                   *)
ReSignTx(c) ==
    /\ pc[c] = "signed"
    /\ resigns[c] < MaxReSign
    /\ accountNonces' = [accountNonces EXCEPT ![AccountOf[c]] = NoNonce]
    /\ resigns' = [resigns EXCEPT ![c] = @ + 1]
    /\ resets' = [resets EXCEPT ![AccountOf[c]] = @ + 1]
    /\ quiet' = [d \in Call |-> d = c \/ (quiet[d] /\ d \notin Rivals(c))]
    /\ StartQuery(c)

SignStep(c) ==
    \/ SignTxKnown(c)
    \/ SignTxUnknown(c)
    \/ \E n \in ChainIndex : ChainAnswers(c, n)
    \/ ChainRefuses(c)
    \/ GetNonceResumes(c)
    \/ GetNonceThrows(c)
    \/ Signs(c)
    \/ SignerThrows(c)

Next == \E c \in Call : SignStep(c) \/ ReSignTx(c)

Spec == Init /\ [][Next]_nonceVars

-----------------------------------------------------------------------------
HasNonce(c) == nonce[c] # NoNonce

(* Concurrent calls for one account get distinct nonces, whatever the chain *)
(* answers and however the answers interleave, unless the account's entry   *)
(* was deleted by reSignTx between the two.  Without reSignTx that is the   *)
(* promise behind the 25 concurrent getNonce calls of Blockchain.spec.ts.   *)
DistinctSinceReset ==
    \A c \in Call : \A d \in Rivals(c) :
        HasNonce(c) /\ HasNonce(d) /\ stamp[c] = stamp[d] => nonce[c] # nonce[d]

(* The entry of an account is ahead of every nonce handed out since it was  *)
(* last deleted, and there is no such nonce while there is no entry.        *)
EntryAhead ==
    \A c \in Call : LET a == AccountOf[c] IN
        HasNonce(c) /\ stamp[c] = resets[a] =>
            accountNonces[a] # NoNonce /\ nonce[c] < accountNonces[a]

(* What the second look at the map after the await is for: the nonce a call *)
(* resumes with is newer than all that others took during its await, if the *)
(* account's entry was not deleted meanwhile.                               *)
FreshWhileQuiet ==
    \A c \in Call : pc[c] = "signing" /\ quiet[c] => \A n \in during[c] : nonce[c] > n

=============================================================================
