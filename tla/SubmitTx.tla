------------------------------- MODULE SubmitTx -------------------------------
(***************************************************************************)
(* One submission of a signed transaction: submitSignedTx of               *)
(* chain-helpers/src/blockchain/Blockchain.utils.ts, from tx.send to the   *)
(* settlement of the promise it returns.                                   *)
(*                                                                         *)
(* Three parties interleave: submitSignedTx between its awaits, the events *)
(* of the client's loop (results, the timer, a lost socket), and the node  *)
(* that takes the transaction and reports on it.  The node, the socket and *)
(* the provider are external: a lost socket fails a request in flight and  *)
(* ends the subscription for good, while the socket itself may come back.  *)
(*                                                                         *)
(* submitSignedTx listens for the disconnection of the connection that     *)
(* getConnectionOrConnect returns.  That is the one the transaction was    *)
(* built with ("own") unless the cache was cleared meanwhile ("other").    *)
(***************************************************************************)
EXTENDS Naturals, Sequences, SubscriptionPromise

CONSTANTS
    Link,          \* the connections: "own", and possibly others
    MaxBlocks,     \* how many blocks may take the transaction in before it is final
    MaxDrops       \* how often each socket may be lost

ASSUME SubmitAssumption ==
    /\ "own" \in Link /\ "none" \notin Link
    /\ MaxBlocks \in Nat
    /\ MaxDrops \in Nat

VARIABLES
    criterion,   \* the resolveOn of this submission
    timer,       \* "none" if no timeout was asked for, "armed" or "fired"
    phase,       \* where submitSignedTx stands
    send,        \* the request of tx.send: "pending", "accepted" or "refused"
    node,        \* the node's last report on the transaction
    blocks,      \* how many blocks have taken it in
    reached,     \* history: the criteria the chain has met
    wire,        \* results on their way to the callback, in order
    latest,      \* latestResult
    promise,     \* the promise of makeSubscriptionPromise
    watched,     \* the connection handleDisconnect listens to, if any
    subscribed,  \* whether the node's results still reach this client
    drops,       \* how often each socket was lost
    outcome      \* the promise submitSignedTx returned

vars == <<criterion, timer, phase, send, node, blocks, reached, wire, latest,
          promise, watched, subscribed, drops, outcome>>

nodeVars == <<send, node, blocks, reached>>

(* What the caller is rejected with when it is not a result or the timeout. *)
ExtrinsicError == Mark("extrinsicError")
SendError == Mark("sendError")
ConnectError == Mark("connectError")

(* What the chain can vouch for: a criterion was met, the dispatch failed.  *)
Facts == Criterion \union {"failed"}

Verdicts ==
    Promise \union [state: {"rejected"}, value: {ExtrinsicError, SendError, ConnectError}]

TypeOK ==
    /\ criterion \in Criterion
    /\ timer \in {"none", "armed", "fired"}
    /\ phase \in {"sending", "connecting", "watching", "done"}
    /\ send \in {"pending", "accepted", "refused"}
    /\ node \in Result \union {NoResult}
    /\ blocks \in 0..MaxBlocks
    /\ reached \subseteq Facts
    /\ wire \in Seq(Result)
    /\ latest \in Result \union {NoResult}
    /\ promise \in Promise
    /\ watched \in Link \union {"none"}
    /\ subscribed \in BOOLEAN
    /\ drops \in [Link -> 0..MaxDrops]
    /\ outcome \in Verdicts

Init ==
    /\ criterion \in Criterion
    /\ timer \in {"none", "armed"}
    /\ phase = "sending"
    /\ send = "pending"
    /\ node = NoResult
    /\ blocks = 0
    /\ reached = {}
    /\ wire = << >>
    /\ latest = NoResult
    /\ promise = Pending
    /\ watched = "none"
    /\ subscribed = FALSE
    /\ drops = [l \in Link |-> 0]
    /\ outcome = Pending

-----------------------------------------------------------------------------
(* The node (external).                                                     *)

Report(status) == [status |-> status, dispatch |-> "none", internal |-> FALSE]

(* What the chain vouches for once it has made the report.                  *)
MetBy(report) ==
    {k \in Criterion : ResolvesOn(k, report)}
        \union (IF report.dispatch = "failure" THEN {"failed"} ELSE {})

Emit(report) ==
    /\ node' = report
    /\ reached' = reached \union MetBy(report)
    /\ wire' = IF subscribed THEN Append(wire, report) ELSE wire

IsAt(statuses) == node.status \in statuses

(* The pool takes the transaction and the subscription is established.      *)
NodeAccepts ==
    /\ send = "pending"
    /\ send' = "accepted"
    /\ subscribed' = TRUE
    /\ \E status \in {"future", "ready"} :
          /\ node' = Report(status)
          /\ reached' = reached \union MetBy(Report(status))
          /\ wire' = <<Report(status)>>
    /\ UNCHANGED <<criterion, timer, phase, blocks, latest, promise, watched, drops, outcome>>

(* The pool refuses it: outdated, priority too low, already imported, ...   *)
NodeRefuses ==
    /\ send = "pending"
    /\ send' = "refused"
    /\ UNCHANGED <<criterion, timer, phase, node, blocks, reached, wire, latest, promise,
                   watched, subscribed, drops, outcome>>

(* It waits for its turn, is taken into blocks and retracted from them, and *)
(* ends final, without finality, or thrown out.  A block whose events could *)
(* not be read is reported with an internal error.                          *)
NodeReports ==
    /\ \/ /\ IsAt({"future"})
          /\ Emit(Report("ready"))
          /\ UNCHANGED blocks
       \/ /\ IsAt({"ready", "retracted"})
          /\ blocks < MaxBlocks
          /\ blocks' = blocks + 1
          /\ \E dispatch \in {"none", "success", "failure"} :
                Emit([status |-> "inBlock", dispatch |-> dispatch,
                      internal |-> dispatch = "none"])
       \/ /\ IsAt({"inBlock"})
          /\ \/ Emit([node EXCEPT !.status = "finalized"])
             \/ Emit(Report("finalityTimeout"))
             \/ blocks < MaxBlocks /\ Emit(Report("retracted"))
          /\ UNCHANGED blocks
       \/ /\ IsAt({"future", "ready", "retracted"})
          /\ \E status \in {"usurped", "dropped", "invalid"} : Emit(Report(status))
          /\ UNCHANGED blocks
    /\ UNCHANGED <<criterion, timer, phase, send, latest, promise, watched, subscribed,
                   drops, outcome>>

-----------------------------------------------------------------------------
(* The client.                                                              *)

(* Mutated: every result is taken for one that failed in its block.         *)
ReasonAnyError(value) == IF RejectsOn(value) THEN ExtrinsicError ELSE value

(* What the caller is rejected with: the dispatch error if there is one.    *)
Reason(value) == IF value.dispatch = "failure" THEN ExtrinsicError ELSE value

(* Mutated: the catch returns the error instead of rejecting with it.       *)
VerdictSwallowed(p) == IF p.state = "resolved" THEN p ELSE Resolved(Reason(p.value))

Verdict(p) == IF p.state = "resolved" THEN p ELSE Rejected(Reason(p.value))

(* Mutated: nothing is cleaned up when the promise settles.                 *)
ProceedNoFinally(next, p) ==
    /\ promise' = p
    /\ IF next = "watching" /\ Settled(p)
       THEN phase' = "done" /\ outcome' = Verdict(p)
       ELSE phase' = next /\ UNCHANGED outcome
    /\ UNCHANGED <<subscribed, watched>>

(* The promise has become p and submitSignedTx stands at next: once it has  *)
(* chained its catch and finally, a settled promise is passed on, the node  *)
(* unsubscribed from and handleDisconnect removed.                          *)
Proceed(next, p) ==
    /\ promise' = p
    /\ IF next = "watching" /\ Settled(p)
       THEN /\ phase' = "done"
            /\ outcome' = Verdict(p)
            /\ subscribed' = FALSE
            /\ watched' = "none"
       ELSE /\ phase' = next
            /\ UNCHANGED <<outcome, subscribed, watched>>

(* Mutated: the callback only records the result.                           *)
ResultArrivesUnpushed ==
    /\ wire # << >>
    /\ wire' = Tail(wire)
    /\ latest' = Head(wire)
    /\ UNCHANGED <<criterion, timer, phase, nodeVars, drops, promise, outcome, subscribed,
                   watched>>

(* The callback handed to tx.send.                                          *)
ResultArrives ==
    /\ wire # << >>
    /\ wire' = Tail(wire)
    /\ latest' = Head(wire)
    /\ Proceed(phase, Push(promise, criterion, Head(wire)))
    /\ UNCHANGED <<criterion, timer, nodeVars, drops>>

(* Mutated: the timer's callback does nothing.                              *)
TimerFiresUnheard ==
    /\ timer = "armed"
    /\ timer' = "fired"
    /\ UNCHANGED <<criterion, phase, promise, outcome, nodeVars, wire, latest, subscribed,
                   watched, drops>>

TimerFires ==
    /\ timer = "armed"
    /\ timer' = "fired"
    /\ Proceed(phase, Expire(promise))
    /\ UNCHANGED <<criterion, nodeVars, wire, latest, drops>>

(* await tx.send rejects, and so does submitSignedTx.                       *)
SendThrows ==
    /\ phase = "sending"
    /\ send = "refused"
    /\ phase' = "done"
    /\ outcome' = Rejected(SendError)
    /\ UNCHANGED <<criterion, timer, nodeVars, wire, latest, promise, watched, subscribed, drops>>

(* api.once('disconnected', handleDisconnect) on connection l, and then the *)
(* promise is chained to a catch and a finally.                             *)
Listen(l) ==
    IF Settled(promise)
    THEN Proceed("watching", promise)
    ELSE /\ phase' = "watching"
         /\ watched' = l
         /\ UNCHANGED <<promise, outcome, subscribed>>

(* await tx.send resumes with unsubscribe.  A cached connection is there at *)
(* once, before any other event is handled; otherwise one is awaited.       *)
SendReturns ==
    /\ phase = "sending"
    /\ send = "accepted"
    /\ \/ Listen("own")
       \/ /\ phase' = "connecting"
          /\ UNCHANGED <<promise, watched, subscribed, outcome>>
    /\ UNCHANGED <<criterion, timer, nodeVars, wire, latest, drops>>

(* There is no connection to be had: submitSignedTx rejects as it stands,   *)
(* before anything is chained to the promise.                               *)
ConnectThrows ==
    /\ phase = "connecting"
    /\ phase' = "done"
    /\ outcome' = Rejected(ConnectError)
    /\ UNCHANGED <<criterion, timer, nodeVars, wire, latest, promise, watched, subscribed, drops>>

(* The connection awaited is a new one.                                     *)
ConnectReturns ==
    /\ phase = "connecting"
    /\ \E l \in Link \ {"own"} : Listen(l)
    /\ UNCHANGED <<criterion, timer, nodeVars, wire, latest, drops>>

(* handleDisconnect pushes the latest result again with a connection error; *)
(* it reads latestResult.events, and throws if there is no result yet.      *)
AfterDisconnect ==
    IF latest = NoResult THEN promise
    ELSE Push(promise, criterion, [latest EXCEPT !.internal = TRUE])

(* A socket is lost.  Of the results on the own connection the client keeps *)
(* what it has already read; a request still awaited fails, even if the     *)
(* node has taken the transaction, and the subscription is gone for good,   *)
(* though the socket may come back.  handleDisconnect, if it listens to     *)
(* this connection, runs for the first and only time.                       *)
LinkDrops(l) ==
    LET own == l = "own"
        heard == watched = l
        p == IF heard THEN AfterDisconnect ELSE promise
        concludes == heard /\ Settled(p)
    IN
    /\ drops[l] < MaxDrops
    /\ drops' = [drops EXCEPT ![l] = @ + 1]
    /\ IF own THEN \E k \in 0..Len(wire) : wire' = SubSeq(wire, 1, k)
              ELSE UNCHANGED wire
    /\ send' = IF own /\ phase = "sending" THEN "refused" ELSE send
    /\ promise' = p
    /\ watched' = IF heard THEN "none" ELSE watched
    /\ subscribed' = (subscribed /\ ~own /\ ~concludes)
    /\ phase' = IF concludes THEN "done" ELSE phase
    /\ outcome' = IF concludes THEN Verdict(p) ELSE outcome
    /\ UNCHANGED <<criterion, timer, node, blocks, reached, latest>>

Next ==
    \/ NodeAccepts
    \/ NodeRefuses
    \/ NodeReports
    \/ ResultArrives
    \/ TimerFires
    \/ SendThrows
    \/ SendReturns
    \/ ConnectThrows
    \/ ConnectReturns
    \/ \E l \in Link : LinkDrops(l)

Spec == Init /\ [][Next]_vars

(* The event loop runs every callback that is due; the node answers the     *)
(* request, and gets a transaction it has taken out of the way in the end;  *)
(* a connection that is asked for comes about or fails.  Sockets need not   *)
(* be lost.                                                                 *)
Fairness ==
    /\ WF_vars(NodeAccepts \/ NodeRefuses)
    /\ WF_vars(NodeReports)
    /\ WF_vars(ResultArrives)
    /\ WF_vars(TimerFires)
    /\ WF_vars(SendThrows \/ SendReturns)
    /\ WF_vars(ConnectThrows \/ ConnectReturns)

FairSpec == Spec /\ Fairness

-----------------------------------------------------------------------------
(* The verdict given to the caller is one the chain vouches for: a resolved *)
(* submission met its criterion on the chain, and one that is rejected with *)
(* an extrinsic error failed in a block.  Results pushed before the await   *)
(* resumes, after a retraction, by the timer or on a lost socket included.  *)
VerdictTruthful ==
    /\ outcome.state = "resolved" => criterion \in reached
    /\ outcome.state = "rejected" /\ outcome.value = ExtrinsicError => "failed" \in reached

(* A submission that fails in its block never resolves, not even for        *)
(* criteria the same result meets ("Rejection takes precedent",             *)
(* SubscriptionPromise.ts:14).                                              *)
FailureNeverResolves ==
    outcome.state = "resolved" => ~RejectsOn(outcome.value)

(* Once the caller has the verdict of a watched submission, the node is     *)
(* unsubscribed from and no disconnection handler is left behind.           *)
CleanedUp ==
    phase = "done" /\ ~(outcome.state = "rejected" /\ outcome.value = ConnectError)
        => ~subscribed /\ watched = "none"

(* submitSignedTx implements Submission: whatever the order of results,     *)
(* timer, lost sockets and resumed awaits, the caller gets at most one      *)
(* verdict, and only one the chain vouches for at that moment.              *)
verdict ==
    IF outcome.state = "rejected"
    THEN IF outcome.value = ExtrinsicError THEN "failed" ELSE "rejected"
    ELSE outcome.state

Promised == INSTANCE Submission
ImplementsSubmission == Promised!Spec

(* Every submission comes to an end: with a timeout, whatever happens to    *)
(* the sockets and whenever it happens; without, unless its own socket is   *)
(* lost.                                                                    *)
SettlesInTheEnd ==
    /\ timer = "armed" ~> Settled(outcome)
    /\ <>(Settled(outcome) \/ drops["own"] > 0)

(* "by default resolves upon finalization and rejects any errors occur      *)
(* during submission or execution of extrinsics" (Blockchain.utils.ts:68),  *)
(* for the error handleDisconnect is there for: a lost connection.          *)
DisconnectionSettles == drops["own"] > 0 ~> Settled(outcome)

=============================================================================
