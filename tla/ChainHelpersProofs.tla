-------------------------- MODULE ChainHelpersProofs --------------------------
(***************************************************************************)
(* Proofs about the two modules of chain-helpers that wait for a node:     *)
(* SubmitTx, for any connections, any number of blocks and any number of   *)
(* lost sockets, and ApiConnection, for any number of callers and handles. *)
(* They have no variable in common, and neither part uses the other.       *)
(***************************************************************************)
EXTENDS SubmitTx, ApiConnection, TLAPS

-----------------------------------------------------------------------------
(* The submission of a transaction.                                         *)

LEMMA PushType ==
    ASSUME NEW p \in Promise, NEW k \in Criterion, NEW r \in Result
    PROVE  Push(p, k, r) \in Promise
BY DEF Push, Promise, Rejected, Resolved

LEMMA ExpireType == \A p \in Promise : Expire(p) \in Promise
BY DEF Expire, Promise, Rejected

LEMMA VerdictType ==
    ASSUME NEW p \in Promise, Settled(p)
    PROVE  Verdict(p) \in Verdicts
<1>1. CASE p.state = "resolved"
  BY <1>1 DEF Verdict, Verdicts
<1>2. CASE p.state = "rejected"
  <2>1. p.value \in Result \union {Timeout}
    BY <1>2 DEF Promise, Pending
  <2>2. Reason(p.value) \in Result \union {Timeout, ExtrinsicError}
    BY <2>1 DEF Reason
  <2> QED
    BY <1>2, <2>2 DEF Verdict, Verdicts, Promise, Rejected
<1> QED
  BY <1>1, <1>2 DEF Settled, Promise, Pending

(* What Proceed leaves behind is well typed if p is.                        *)
LEMMA ProceedType ==
    ASSUME TypeOK, NEW p \in Promise,
           NEW next \in {"sending", "connecting", "watching", "done"}, Proceed(next, p)
    PROVE  /\ promise' \in Promise
           /\ phase' \in {"sending", "connecting", "watching", "done"}
           /\ outcome' \in Verdicts
           /\ watched' \in Link \union {"none"}
           /\ subscribed' \in BOOLEAN
<1>1. CASE next = "watching" /\ Settled(p)
  BY <1>1, VerdictType DEF Proceed, TypeOK
<1>2. CASE ~(next = "watching" /\ Settled(p))
  BY <1>2 DEF Proceed, TypeOK
<1> QED
  BY <1>1, <1>2

LEMMA ListenType ==
    ASSUME TypeOK, NEW l \in Link, Listen(l)
    PROVE  /\ promise' \in Promise
           /\ phase' \in {"sending", "connecting", "watching", "done"}
           /\ outcome' \in Verdicts
           /\ watched' \in Link \union {"none"}
           /\ subscribed' \in BOOLEAN
<1>1. CASE Settled(promise)
  BY <1>1, ProceedType DEF Listen, TypeOK
<1>2. CASE ~Settled(promise)
  BY <1>2 DEF Listen, TypeOK
<1> QED
  BY <1>1, <1>2

LEMMA ReportType ==
    /\ \A status \in Status : Report(status) \in Result
    /\ \A r : MetBy(r) \subseteq Facts
BY DEF Report, Result, MetBy, Facts

LEMMA EmitType ==
    ASSUME TypeOK, NEW r \in Result, Emit(r)
    PROVE  node' \in Result /\ reached' \subseteq Facts /\ wire' \in Seq(Result)
BY ReportType DEF Emit, TypeOK

LEMMA AfterDisconnectType == TypeOK => AfterDisconnect \in Promise
<1> SUFFICES ASSUME TypeOK, latest # NoResult PROVE AfterDisconnect \in Promise
  BY DEF AfterDisconnect, TypeOK
<1>1. [latest EXCEPT !.internal = TRUE] \in Result
  BY DEF TypeOK, Result
<1> QED
  BY <1>1, PushType DEF AfterDisconnect, TypeOK

LEMMA TypeInit == Init => TypeOK
<1> SUFFICES ASSUME Init PROVE TypeOK
  OBVIOUS
<1>1. Pending \in Promise /\ Pending \in Verdicts
  BY DEF Promise, Verdicts
<1>2. drops \in [Link -> 0..MaxDrops] /\ blocks \in 0..MaxBlocks
  BY SubmitAssumption DEF Init
<1>3. wire \in Seq(Result) /\ reached \subseteq Facts
  BY DEF Init
<1> QED
  BY <1>1, <1>2, <1>3 DEF Init, TypeOK

(* What a report of the node changes.                                       *)
LEMMA NodeReportsType ==
    ASSUME TypeOK, NodeReports
    PROVE  /\ node' \in Result /\ reached' \subseteq Facts /\ wire' \in Seq(Result)
           /\ blocks' \in 0..MaxBlocks
<1>1. PICK r \in Result : Emit(r) /\ (blocks' = blocks \/ (blocks < MaxBlocks /\ blocks' = blocks + 1))
  <2>1. CASE IsAt({"future"}) /\ Emit(Report("ready")) /\ UNCHANGED blocks
    BY <2>1, ReportType DEF Status
  <2>2. CASE \E dispatch \in {"none", "success", "failure"} :
               /\ blocks < MaxBlocks /\ blocks' = blocks + 1
               /\ Emit([status |-> "inBlock", dispatch |-> dispatch,
                        internal |-> dispatch = "none"])
    <3> PICK dispatch \in {"none", "success", "failure"} :
               /\ blocks < MaxBlocks /\ blocks' = blocks + 1
               /\ Emit([status |-> "inBlock", dispatch |-> dispatch,
                        internal |-> dispatch = "none"])
      BY <2>2
    <3>1. (dispatch = "none") \in BOOLEAN
      OBVIOUS
    <3>2. [status |-> "inBlock", dispatch |-> dispatch, internal |-> dispatch = "none"] \in Result
      BY <3>1 DEF Result, Status
    <3> QED
      BY <3>2
  <2>3. CASE /\ IsAt({"inBlock"}) /\ UNCHANGED blocks
             /\ \/ Emit([node EXCEPT !.status = "finalized"])
                \/ Emit(Report("finalityTimeout"))
                \/ blocks < MaxBlocks /\ Emit(Report("retracted"))
    <3>1. node \in Result
      BY <2>3 DEF TypeOK, IsAt, NoResult, Mark
    <3>2. [node EXCEPT !.status = "finalized"] \in Result
      BY <3>1 DEF Result, Status
    <3> QED
      BY <2>3, <3>2, ReportType DEF Status, ErrorStatus
  <2>4. CASE /\ UNCHANGED blocks
             /\ \E status \in {"usurped", "dropped", "invalid"} : Emit(Report(status))
    BY <2>4, ReportType DEF Status, ErrorStatus
  <2> QED
    BY <2>1, <2>2, <2>3, <2>4 DEF NodeReports
<1>2. blocks' \in 0..MaxBlocks
  BY <1>1, SubmitAssumption DEF TypeOK
<1> QED
  BY <1>1, <1>2, EmitType

LEMMA TypeStep == TypeOK /\ [Next]_vars => TypeOK'
<1> SUFFICES ASSUME TypeOK, [Next]_vars PROVE TypeOK'
  OBVIOUS
<1> USE SubmitAssumption
<1>1. CASE UNCHANGED vars
  BY <1>1 DEF TypeOK, vars
<1>2. CASE NodeAccepts
  <2>1. PICK status \in {"future", "ready"} :
           /\ node' = Report(status) /\ reached' = reached \union MetBy(Report(status))
           /\ wire' = <<Report(status)>>
    BY <1>2 DEF NodeAccepts
  <2>2. Report(status) \in Result
    BY ReportType DEF Status
  <2> QED
    BY <1>2, <2>1, <2>2, ReportType DEF NodeAccepts, TypeOK
<1>3. CASE NodeRefuses
  BY <1>3 DEF NodeRefuses, TypeOK
<1>4. CASE NodeReports
  BY <1>4, NodeReportsType DEF NodeReports, TypeOK
<1>5. CASE ResultArrives
  <2>1. Head(wire) \in Result /\ wire' \in Seq(Result) /\ latest' \in Result
    BY <1>5 DEF ResultArrives, TypeOK
  <2>2. Push(promise, criterion, Head(wire)) \in Promise
    BY <2>1, PushType DEF TypeOK
  <2> QED
    BY <1>5, <2>1, <2>2, ProceedType DEF ResultArrives, nodeVars, TypeOK
<1>6. CASE TimerFires
  <2>1. Expire(promise) \in Promise
    BY ExpireType DEF TypeOK
  <2> QED
    BY <1>6, <2>1, ProceedType DEF TimerFires, nodeVars, TypeOK
<1>7. CASE SendThrows
  BY <1>7 DEF SendThrows, nodeVars, TypeOK, Verdicts, Rejected
<1>8. CASE SendReturns
  <2>1. CASE Listen("own")
    BY <1>8, <2>1, ListenType DEF SendReturns, nodeVars, TypeOK
  <2>2. CASE phase' = "connecting" /\ UNCHANGED <<promise, watched, subscribed, outcome>>
    BY <1>8, <2>2 DEF SendReturns, nodeVars, TypeOK
  <2> QED
    BY <1>8, <2>1, <2>2 DEF SendReturns
<1>9. CASE ConnectThrows
  BY <1>9 DEF ConnectThrows, nodeVars, TypeOK, Verdicts, Rejected
<1>10. CASE ConnectReturns
  BY <1>10, ListenType DEF ConnectReturns, nodeVars, TypeOK
<1>11. ASSUME NEW l \in Link, LinkDrops(l) PROVE TypeOK'
  <2> DEFINE p == IF watched = l THEN AfterDisconnect ELSE promise
             concludes == watched = l /\ Settled(p)
  <2>1. p \in Promise /\ promise' \in Promise
    BY <1>11, AfterDisconnectType DEF LinkDrops, TypeOK
  <2>2. outcome' \in Verdicts /\ phase' \in {"sending", "connecting", "watching", "done"}
    BY <1>11, <2>1, VerdictType DEF LinkDrops, TypeOK
  <2>3. wire' \in Seq(Result)
    BY <1>11 DEF LinkDrops, TypeOK
  <2>4. drops' \in [Link -> 0..MaxDrops]
    BY <1>11 DEF LinkDrops, TypeOK
  <2>5. subscribed' \in BOOLEAN
    BY <1>11, Zenon DEF LinkDrops
  <2>6. /\ send' \in {"pending", "accepted", "refused"}
        /\ watched' \in Link \union {"none"}
    BY <1>11 DEF LinkDrops, TypeOK
  <2> QED
    BY <1>11, <2>1, <2>2, <2>3, <2>4, <2>5, <2>6 DEF LinkDrops, TypeOK
<1> QED
  BY <1>1, <1>2, <1>3, <1>4, <1>5, <1>6, <1>7, <1>8, <1>9, <1>10, <1>11 DEF Next

(* A submission never leaves the states its types describe.                 *)
THEOREM TypeCorrect == Spec => []TypeOK
<1> QED
  BY TypeInit, TypeStep, PTL DEF Spec

-----------------------------------------------------------------------------
(* The inductive invariant: everything that is on its way to the callback,  *)
(* that the callback kept, or that settled the promise, is something the    *)
(* chain has vouched for; the caller has no verdict before the end; and     *)
(* only an unsettled promise is watched.                                    *)
TruePromise(p) ==
    /\ p.state = "resolved" => criterion \in reached /\ ~RejectsOn(p.value)
    /\ p.state = "rejected" => (p.value.dispatch = "failure" => "failed" \in reached)

TrueResults ==
    /\ \A i \in 1..Len(wire) : MetBy(wire[i]) \subseteq reached
    /\ MetBy(latest) \subseteq reached

Watching ==
    /\ phase # "done" => outcome = Pending
    /\ watched # "none" => phase = "watching"

SubmitInv ==
    /\ TypeOK
    /\ TrueResults
    /\ TruePromise(promise)
    /\ Watching
    /\ VerdictTruthful
    /\ FailureNeverResolves

(* Pushing a result the chain vouches for leaves the promise truthful, and  *)
(* so does pushing it again with a connection error.                        *)
LEMMA PushTrue ==
    ASSUME TypeOK, TruePromise(promise), NEW r \in Result, MetBy(r) \subseteq reached
    PROVE  /\ TruePromise(Push(promise, criterion, r))
           /\ TruePromise(Push(promise, criterion, [r EXCEPT !.internal = TRUE]))
<1>1. r.dispatch = "failure" => "failed" \in reached
  BY DEF MetBy
<1>2. ResolvesOn(criterion, r) => criterion \in reached
  BY DEF MetBy, TypeOK
<1>3. TruePromise(Push(promise, criterion, r))
  BY <1>1, <1>2 DEF Push, TruePromise, Rejected, Resolved
<1>4. TruePromise(Push(promise, criterion, [r EXCEPT !.internal = TRUE]))
  <2> DEFINE e == [r EXCEPT !.internal = TRUE]
  <2>1. RejectsOn(e) /\ e.dispatch = r.dispatch
    BY DEF RejectsOn, Result
  <2> QED
    BY <1>1, <2>1 DEF Push, TruePromise, Rejected
<1> QED
  BY <1>3, <1>4

LEMMA VerdictTrue ==
    ASSUME NEW p \in Promise, Settled(p), TruePromise(p)
    PROVE  /\ Verdict(p).state = "resolved" =>
                  criterion \in reached /\ ~RejectsOn(Verdict(p).value)
           /\ Verdict(p).state = "rejected" /\ Verdict(p).value = ExtrinsicError
                  => "failed" \in reached
<1>1. CASE p.state = "resolved"
  BY <1>1 DEF Verdict, TruePromise
<1>2. CASE p.state = "rejected"
  <2>1. p.value \in Result \union {Timeout}
    BY <1>2 DEF Promise, Pending
  <2>2. p.value # ExtrinsicError
    BY <2>1 DEF Result, Status, ErrorStatus, Timeout, ExtrinsicError, Mark
  <2> QED
    BY <1>2, <2>2 DEF Verdict, Reason, Rejected, TruePromise
<1> QED
  BY <1>1, <1>2 DEF Settled, Promise, Pending

(* A step of the client that leaves the promise at a truthful p.            *)
LEMMA ProceedInv ==
    ASSUME SubmitInv, UNCHANGED <<criterion, reached>>,
           NEW p \in Promise, TruePromise(p), Proceed(phase, p)
    PROVE  TruePromise(promise)' /\ Watching' /\ VerdictTruthful' /\ FailureNeverResolves'
<1>1. TruePromise(promise)'
  BY DEF Proceed, TruePromise, RejectsOn
<1>2. CASE phase = "watching" /\ Settled(p)
  <2>1. outcome' = Verdict(p) /\ phase' = "done" /\ watched' = "none"
    BY <1>2 DEF Proceed
  <2>2. Watching'
    BY <2>1 DEF Watching
  <2>3. /\ outcome'.state = "resolved" => criterion' \in reached' /\ ~RejectsOn(outcome'.value)
        /\ outcome'.state = "rejected" /\ outcome'.value = ExtrinsicError
              => "failed" \in reached'
    BY <1>2, <2>1, VerdictTrue
  <2> QED
    BY <1>1, <2>2, <2>3 DEF VerdictTruthful, FailureNeverResolves, RejectsOn
<1>3. CASE ~(phase = "watching" /\ Settled(p))
  <2>1. outcome' = outcome /\ phase' = phase /\ watched' = watched
    BY <1>3 DEF Proceed
  <2> QED
    BY <1>1, <2>1 DEF SubmitInv, Watching, VerdictTruthful, FailureNeverResolves, RejectsOn
<1> QED
  BY <1>2, <1>3

LEMMA ListenInv ==
    ASSUME SubmitInv, UNCHANGED <<criterion, reached>>, NEW l \in Link, Listen(l),
           phase # "done"
    PROVE  TruePromise(promise)' /\ Watching' /\ VerdictTruthful' /\ FailureNeverResolves'
<1>1. CASE Settled(promise)
  <2>1. /\ outcome' = Verdict(promise) /\ phase' = "done" /\ watched' = "none"
        /\ promise' = promise
    BY <1>1 DEF Listen, Proceed
  <2>2. promise \in Promise /\ TruePromise(promise)
    BY DEF SubmitInv, TypeOK
  <2>3. TruePromise(promise)' /\ Watching'
    BY <2>1, <2>2 DEF TruePromise, Watching, RejectsOn
  <2>4. /\ outcome'.state = "resolved" => criterion' \in reached' /\ ~RejectsOn(outcome'.value)
        /\ outcome'.state = "rejected" /\ outcome'.value = ExtrinsicError
              => "failed" \in reached'
    BY <1>1, <2>1, <2>2, VerdictTrue
  <2> QED
    BY <2>3, <2>4 DEF VerdictTruthful, FailureNeverResolves, RejectsOn
<1>2. CASE ~Settled(promise)
  <2>1. outcome' = outcome /\ phase' = "watching" /\ promise' = promise
    BY <1>2 DEF Listen
  <2> QED
    BY <2>1 DEF SubmitInv, TruePromise, Watching, VerdictTruthful, FailureNeverResolves,
       RejectsOn
<1> QED
  BY <1>1, <1>2

(* A step of the node: what it reports is vouched for from then on.         *)
LEMMA ReachedGrows ==
    ASSUME SubmitInv, reached \subseteq reached',
           UNCHANGED <<criterion, phase, promise, watched, outcome>>
    PROVE  TruePromise(promise)' /\ Watching' /\ VerdictTruthful' /\ FailureNeverResolves'
BY DEF SubmitInv, TruePromise, Watching, VerdictTruthful, FailureNeverResolves, RejectsOn

LEMMA EmitTrue ==
    ASSUME SubmitInv, NEW r \in Result, Emit(r), UNCHANGED latest
    PROVE  TrueResults' /\ reached \subseteq reached'
<1>1. reached' = reached \union MetBy(r) /\ latest' = latest
  BY DEF Emit
<1>2. CASE wire' = wire
  BY <1>1, <1>2 DEF SubmitInv, TrueResults, MetBy, ResolvesOn
<1>3. CASE wire' = Append(wire, r)
  <2>1. wire \in Seq(Result)
    BY DEF SubmitInv, TypeOK
  <2>2. ASSUME NEW i \in 1..Len(wire') PROVE MetBy(wire'[i]) \subseteq reached'
    <3>1. CASE i = Len(wire) + 1
      BY <1>1, <1>3, <2>1, <3>1
    <3>2. CASE i \in 1..Len(wire)
      BY <1>1, <1>3, <2>1, <3>2 DEF SubmitInv, TrueResults
    <3> QED
      BY <1>3, <2>1, <2>2, <3>1, <3>2
  <2>3. MetBy(latest') \subseteq reached'
    BY <1>1 DEF SubmitInv, TrueResults
  <2>4. \A i \in 1..Len(wire') : MetBy(wire'[i]) \subseteq reached'
    BY <2>2
  <2>5. TrueResults' = (/\ \A i \in 1..Len(wire') : MetBy(wire'[i]) \subseteq reached'
                        /\ MetBy(latest') \subseteq reached')
    BY DEF TrueResults, MetBy, ResolvesOn
  <2> QED
    BY <1>1, <2>3, <2>4, <2>5
<1> QED
  BY <1>1, <1>2, <1>3 DEF Emit

(* What leaves the chain's facts and the results alone keeps TrueResults.   *)
LEMMA ResultsKept ==
    ASSUME TrueResults, UNCHANGED <<wire, latest, reached>>
    PROVE  TrueResults'
BY DEF TrueResults, MetBy, ResolvesOn

LEMMA SubmitInvInit == Init => SubmitInv
<1> SUFFICES ASSUME Init PROVE SubmitInv
  OBVIOUS
<1>1. TrueResults
  BY DEF Init, TrueResults, MetBy, ResolvesOn, NoResult, Mark, Criterion
<1>2. TruePromise(promise) /\ Watching /\ VerdictTruthful /\ FailureNeverResolves
  BY DEF Init, TruePromise, Watching, VerdictTruthful, FailureNeverResolves, Pending
<1> QED
  BY <1>1, <1>2, TypeInit DEF SubmitInv

LEMMA NodeReportsEmits ==
    ASSUME TypeOK, NodeReports
    PROVE  \E r \in Result : Emit(r)
<1>1. CASE IsAt({"future"}) /\ Emit(Report("ready"))
  BY <1>1, ReportType DEF Status
<1>2. CASE \E dispatch \in {"none", "success", "failure"} :
             Emit([status |-> "inBlock", dispatch |-> dispatch, internal |-> dispatch = "none"])
  <2> PICK dispatch \in {"none", "success", "failure"} :
             Emit([status |-> "inBlock", dispatch |-> dispatch, internal |-> dispatch = "none"])
    BY <1>2
  <2>1. (dispatch = "none") \in BOOLEAN
    OBVIOUS
  <2>2. [status |-> "inBlock", dispatch |-> dispatch, internal |-> dispatch = "none"] \in Result
    BY <2>1 DEF Result, Status
  <2> QED
    BY <2>2
<1>3. CASE /\ IsAt({"inBlock"})
           /\ \/ Emit([node EXCEPT !.status = "finalized"])
              \/ Emit(Report("finalityTimeout"))
              \/ Emit(Report("retracted"))
  <2>1. node \in Result
    BY <1>3 DEF TypeOK, IsAt, NoResult, Mark
  <2>2. [node EXCEPT !.status = "finalized"] \in Result
    BY <2>1 DEF Result, Status
  <2> QED
    BY <1>3, <2>2, ReportType DEF Status, ErrorStatus
<1>4. CASE \E status \in {"usurped", "dropped", "invalid"} : Emit(Report(status))
  BY <1>4, ReportType DEF Status, ErrorStatus
<1> QED
  BY <1>1, <1>2, <1>3, <1>4 DEF NodeReports

LEMMA SubmitInvStep == SubmitInv /\ [Next]_vars => SubmitInv'
<1> SUFFICES ASSUME SubmitInv, [Next]_vars
             PROVE  /\ TrueResults'
                    /\ TruePromise(promise)' /\ Watching' /\ VerdictTruthful'
                    /\ FailureNeverResolves'
  BY TypeStep DEF SubmitInv
<1>0. TypeOK /\ TruePromise(promise) /\ TrueResults
  BY DEF SubmitInv
<1> DEFINE Goal == /\ TrueResults'
                   /\ TruePromise(promise)' /\ Watching' /\ VerdictTruthful'
                   /\ FailureNeverResolves'
<1>1. CASE UNCHANGED vars
  BY <1>0, <1>1, ResultsKept, ReachedGrows DEF vars
<1>2. CASE NodeAccepts
  <2>1. PICK r \in Result : /\ reached' = reached \union MetBy(r)
                            /\ wire' = <<r>> /\ latest' = latest
    BY <1>2, ReportType DEF NodeAccepts, Status
  <2>2. /\ \A i \in 1..Len(wire') : MetBy(wire'[i]) \subseteq reached'
        /\ MetBy(latest') \subseteq reached'
    BY <1>0, <2>1 DEF TrueResults
  <2>3. TrueResults'
    BY <2>2 DEF TrueResults, MetBy, ResolvesOn
  <2> QED
    BY <1>2, <2>1, <2>3, ReachedGrows DEF NodeAccepts
<1>3. CASE NodeRefuses
  BY <1>0, <1>3, ResultsKept, ReachedGrows DEF NodeRefuses
<1>4. CASE NodeReports
  <2>1. TrueResults' /\ reached \subseteq reached'
    BY <1>0, <1>4, NodeReportsEmits, EmitTrue DEF NodeReports
  <2> QED
    BY <1>4, <2>1, ReachedGrows DEF NodeReports
<1>5. CASE ResultArrives
  <2> DEFINE r == Head(wire)
  <2>1. wire \in Seq(Result) /\ wire # << >>
    BY <1>0, <1>5 DEF ResultArrives, TypeOK
  <2>2. r \in Result /\ MetBy(r) \subseteq reached
    BY <1>0, <2>1 DEF TrueResults
  <2>3. Push(promise, criterion, r) \in Promise /\ TruePromise(Push(promise, criterion, r))
    BY <1>0, <2>2, PushType, PushTrue DEF TypeOK
  <2>4. \A i \in 1..Len(Tail(wire)) : MetBy(Tail(wire)[i]) \subseteq reached
    BY <1>0, <2>1 DEF TrueResults
  <2>5. TrueResults'
    BY <1>5, <2>2, <2>4 DEF ResultArrives, nodeVars, TrueResults, MetBy, ResolvesOn
  <2> QED
    BY <1>5, <2>3, <2>5, ProceedInv DEF ResultArrives, nodeVars
<1>6. CASE TimerFires
  <2>1. Expire(promise) \in Promise /\ TruePromise(Expire(promise))
    BY <1>0, ExpireType DEF Expire, TruePromise, TypeOK, Rejected, Timeout, Mark
  <2> QED
    BY <1>0, <1>6, <2>1, ProceedInv, ResultsKept DEF TimerFires, nodeVars
<1>7. CASE SendThrows
  <2>1. outcome' = Rejected(SendError) /\ phase' = "done" /\ watched = "none"
    BY <1>7 DEF SendThrows, SubmitInv, Watching
  <2>2. SendError # ExtrinsicError
    BY DEF SendError, ExtrinsicError, Mark
  <2> QED
    BY <1>0, <1>7, <2>1, <2>2, ResultsKept
       DEF SendThrows, nodeVars, TruePromise, Watching, VerdictTruthful, FailureNeverResolves,
           Rejected, RejectsOn
<1>8. CASE SendReturns
  <2>1. CASE Listen("own")
    BY <1>0, <1>8, <2>1, ListenInv, ResultsKept, SubmitAssumption DEF SendReturns, nodeVars
  <2>2. CASE phase' = "connecting" /\ UNCHANGED <<promise, watched, subscribed, outcome>>
    <3>1. watched = "none"
      BY <1>8 DEF SendReturns, SubmitInv, Watching
    <3> QED
      BY <1>0, <1>8, <2>2, <3>1, ResultsKept
         DEF SendReturns, nodeVars, SubmitInv, TruePromise, Watching, VerdictTruthful,
             FailureNeverResolves, RejectsOn
  <2> QED
    BY <1>8, <2>1, <2>2 DEF SendReturns
<1>9. CASE ConnectThrows
  <2>1. outcome' = Rejected(ConnectError) /\ phase' = "done" /\ watched = "none"
    BY <1>9 DEF ConnectThrows, SubmitInv, Watching
  <2>2. ConnectError # ExtrinsicError
    BY DEF ConnectError, ExtrinsicError, Mark
  <2> QED
    BY <1>0, <1>9, <2>1, <2>2, ResultsKept
       DEF ConnectThrows, nodeVars, TruePromise, Watching, VerdictTruthful,
           FailureNeverResolves, Rejected, RejectsOn
<1>10. CASE ConnectReturns
  BY <1>0, <1>10, ListenInv, ResultsKept DEF ConnectReturns, nodeVars
<1>11. ASSUME NEW l \in Link, LinkDrops(l) PROVE Goal
  <2> DEFINE p == IF watched = l THEN AfterDisconnect ELSE promise
  <2>1. p \in Promise /\ TruePromise(p)
    <3>1. CASE latest = NoResult \/ watched # l
      BY <1>0, <3>1 DEF AfterDisconnect, TypeOK
    <3>2. CASE latest # NoResult /\ watched = l
      <4>1. latest \in Result /\ MetBy(latest) \subseteq reached
        BY <1>0, <3>2 DEF TypeOK, TrueResults
      <4> QED
        BY <1>0, <3>2, <4>1, PushTrue, AfterDisconnectType DEF AfterDisconnect
    <3> QED
      BY <3>1, <3>2
  <2>2. TrueResults'
    <3>1. PICK k \in 0..Len(wire) : wire' = SubSeq(wire, 1, k)
      <4>1. wire \in Seq(Result) /\ wire = SubSeq(wire, 1, Len(wire)) /\ Len(wire) \in 0..Len(wire)
        BY <1>0 DEF TypeOK
      <4> QED
        BY <1>11, <4>1 DEF LinkDrops
    <3>2. \A i \in 1..Len(wire') : MetBy(wire'[i]) \subseteq reached
      BY <1>0, <3>1 DEF TrueResults, TypeOK
    <3> QED
      BY <1>0, <1>11, <3>2 DEF LinkDrops, TrueResults, MetBy, ResolvesOn
  <2>3. CASE watched = l /\ Settled(p)
    <3>1. outcome' = Verdict(p) /\ phase' = "done" /\ watched' = "none" /\ promise' = p
      BY <1>11, <2>3 DEF LinkDrops
    <3>2. criterion' = criterion /\ reached' = reached
      BY <1>11 DEF LinkDrops
    <3>3. TruePromise(promise)' /\ Watching'
      BY <2>1, <3>1, <3>2 DEF TruePromise, Watching, RejectsOn
    <3>4. /\ outcome'.state = "resolved" => criterion' \in reached' /\ ~RejectsOn(outcome'.value)
          /\ outcome'.state = "rejected" /\ outcome'.value = ExtrinsicError
                => "failed" \in reached'
      BY <2>1, <2>3, <3>1, <3>2, VerdictTrue
    <3> QED
      BY <2>2, <3>3, <3>4 DEF VerdictTruthful, FailureNeverResolves, RejectsOn
  <2>4. CASE ~(watched = l /\ Settled(p))
    <3>1. /\ outcome' = outcome /\ phase' = phase /\ promise' = p
          /\ watched' = "none" \/ watched' = watched
          /\ criterion' = criterion /\ reached' = reached
      BY <1>11, <2>4 DEF LinkDrops
    <3>2. TruePromise(promise)'
      BY <2>1, <3>1 DEF TruePromise, RejectsOn
    <3> QED
      BY <2>2, <3>1, <3>2
         DEF SubmitInv, Watching, VerdictTruthful, FailureNeverResolves, RejectsOn
  <2> QED
    BY <2>3, <2>4
<1> QED
  BY <1>1, <1>2, <1>3, <1>4, <1>5, <1>6, <1>7, <1>8, <1>9, <1>10, <1>11 DEF Next

(* Whatever the interleaving of results, timer, awaits and lost sockets, a  *)
(* resolved submission met its criterion on the chain without failing, and  *)
(* an extrinsic error means that it failed in a block.                      *)
THEOREM SubmissionTruthful == Spec => [](VerdictTruthful /\ FailureNeverResolves)
<1>1. SubmitInv => VerdictTruthful /\ FailureNeverResolves
  BY DEF SubmitInv
<1> QED
  BY <1>1, SubmitInvInit, SubmitInvStep, PTL DEF Spec

-----------------------------------------------------------------------------
(* The refinement: the facts only grow, and the caller's verdict changes    *)
(* once, from pending, in a step that leaves the facts alone.               *)
OneVerdict ==
    /\ criterion' = criterion
    /\ \/ outcome' = outcome /\ reached \subseteq reached'
       \/ outcome = Pending /\ reached' = reached

LEMMA OneVerdictStep == SubmitInv /\ [Next]_vars => OneVerdict
<1> SUFFICES ASSUME SubmitInv, [Next]_vars PROVE OneVerdict
  OBVIOUS
<1>0. phase # "done" => outcome = Pending
  BY DEF SubmitInv, Watching
<1>1. CASE UNCHANGED vars
  BY <1>1 DEF OneVerdict, vars
<1>2. CASE NodeAccepts
  BY <1>2 DEF NodeAccepts, OneVerdict
<1>3. CASE NodeRefuses
  BY <1>3 DEF NodeRefuses, OneVerdict
<1>4. CASE NodeReports
  <2>1. PICK r \in Result : Emit(r)
    BY <1>4, NodeReportsEmits DEF SubmitInv
  <2> QED
    BY <1>4, <2>1 DEF NodeReports, Emit, OneVerdict
<1>5. CASE ResultArrives
  BY <1>0, <1>5 DEF ResultArrives, Proceed, nodeVars, OneVerdict
<1>6. CASE TimerFires
  BY <1>0, <1>6 DEF TimerFires, Proceed, nodeVars, OneVerdict
<1>7. CASE SendThrows
  BY <1>0, <1>7 DEF SendThrows, nodeVars, OneVerdict
<1>8. CASE SendReturns
  BY <1>0, <1>8 DEF SendReturns, nodeVars, OneVerdict
<1>9. CASE ConnectThrows
  BY <1>0, <1>9 DEF ConnectThrows, nodeVars, OneVerdict
<1>10. CASE ConnectReturns
  BY <1>0, <1>10 DEF ConnectReturns, nodeVars, OneVerdict
<1>11. ASSUME NEW l \in Link, LinkDrops(l) PROVE OneVerdict
  <2>1. watched = l => phase = "watching"
    BY SubmitAssumption DEF SubmitInv, Watching
  <2> QED
    BY <1>0, <1>11, <2>1 DEF LinkDrops, OneVerdict
<1> QED
  BY <1>1, <1>2, <1>3, <1>4, <1>5, <1>6, <1>7, <1>8, <1>9, <1>10, <1>11 DEF Next

LEMMA RefinedInit == Init => Promised!Init
BY DEF Init, Promised!Init, verdict, Pending

LEMMA RefinedStep == SubmitInv /\ SubmitInv' /\ OneVerdict => [Promised!Next]_Promised!vars
<1> SUFFICES ASSUME SubmitInv, SubmitInv', OneVerdict PROVE [Promised!Next]_Promised!vars
  OBVIOUS
<1>1. CASE outcome' = outcome /\ reached \subseteq reached'
  <2>1. verdict' = verdict
    BY <1>1 DEF verdict, ExtrinsicError, Mark
  <2>2. reached' \in SUBSET (Criterion \union {"failed"})
    BY DEF SubmitInv, TypeOK, Facts
  <2> QED
    BY <1>1, <2>1, <2>2 DEF OneVerdict, Promised!Next, Promised!ChainAdvances
<1>2. CASE outcome = Pending /\ reached' = reached
  <2>1. verdict = "pending"
    BY <1>2 DEF verdict, Pending
  <2>2. outcome' \in Verdicts /\ VerdictTruthful'
    BY DEF SubmitInv, TypeOK
  <2>3. CASE outcome'.state = "pending"
    <3>1. verdict' = verdict
      BY <2>1, <2>3 DEF verdict
    <3> QED
      BY <1>2, <3>1 DEF OneVerdict, Promised!vars
  <2>4. CASE outcome'.state = "resolved"
    <3>1. verdict' = "resolved" /\ criterion \in reached
      BY <1>2, <2>2, <2>4 DEF verdict, VerdictTruthful, OneVerdict
    <3> QED
      BY <1>2, <2>1, <3>1 DEF OneVerdict, Promised!Next, Promised!Resolve, Promised!Decide
  <2>5. CASE outcome'.state = "rejected" /\ outcome'.value = ExtrinsicError
    <3>1. verdict' = "failed" /\ "failed" \in reached
      BY <1>2, <2>2, <2>5 DEF verdict, VerdictTruthful, ExtrinsicError, Mark
    <3> QED
      BY <1>2, <2>1, <3>1 DEF OneVerdict, Promised!Next, Promised!RejectFailed, Promised!Decide
  <2>6. CASE outcome'.state = "rejected" /\ outcome'.value # ExtrinsicError
    <3>1. verdict' = "rejected"
      BY <2>6 DEF verdict, ExtrinsicError, Mark
    <3> QED
      BY <1>2, <2>1, <3>1 DEF OneVerdict, Promised!Next, Promised!RejectUnknown, Promised!Decide
  <2> QED
    BY <2>2, <2>3, <2>4, <2>5, <2>6 DEF Verdicts, Promise, Pending
<1> QED
  BY <1>1, <1>2 DEF OneVerdict

(* submitSignedTx implements Submission: the caller gets at most one        *)
(* verdict, and only one the chain vouches for at that moment.              *)
THEOREM Implements == Spec => ImplementsSubmission
<1>1. SubmitInv /\ [Next]_vars => SubmitInv' /\ OneVerdict
  BY SubmitInvStep, OneVerdictStep
<1> QED
  BY <1>1, RefinedInit, RefinedStep, SubmitInvInit, PTL
     DEF Spec, ImplementsSubmission, Promised!Spec

-----------------------------------------------------------------------------
(* What is left to clean up: only a transaction the node has taken can be   *)
(* subscribed to, and only a call that still awaits tx.send can get it      *)
(* taken, so nothing is subscribed to behind the back of a call that ended. *)
CleanInv ==
    /\ send = "pending" => phase = "sending"
    /\ subscribed => send = "accepted"
    /\ CleanedUp

LEMMA CleanStep == SubmitInv /\ CleanInv /\ [Next]_vars => CleanInv'
<1> SUFFICES ASSUME SubmitInv, CleanInv, [Next]_vars PROVE CleanInv'
  OBVIOUS
<1>0. (phase # "done" => outcome = Pending) /\ (watched # "none" => phase = "watching")
  BY DEF SubmitInv, Watching
<1> USE DEF CleanInv, CleanedUp
<1>1. CASE UNCHANGED vars
  BY <1>1 DEF vars
<1>2. CASE NodeAccepts
  BY <1>2 DEF NodeAccepts
<1>3. CASE NodeRefuses
  BY <1>3 DEF NodeRefuses
<1>4. CASE NodeReports
  BY <1>4 DEF NodeReports
<1>5. CASE ResultArrives
  BY <1>5 DEF ResultArrives, Proceed, nodeVars
<1>6. CASE TimerFires
  BY <1>6 DEF TimerFires, Proceed, nodeVars
<1>7. CASE SendThrows
  BY <1>0, <1>7 DEF SendThrows, nodeVars
<1>8. CASE SendReturns
  BY <1>8 DEF SendReturns, Listen, Proceed, nodeVars
<1>9. CASE ConnectThrows
  BY <1>9 DEF ConnectThrows, nodeVars, Rejected
<1>10. CASE ConnectReturns
  BY <1>10 DEF ConnectReturns, Listen, Proceed, nodeVars
<1>11. ASSUME NEW l \in Link, LinkDrops(l) PROVE CleanInv'
  <2>1. l # "none"
    BY SubmitAssumption
  <2>2. watched = l => phase = "watching"
    BY <1>0, <2>1
  <2> QED
    BY <1>0, <1>11, <2>2 DEF LinkDrops
<1> QED
  BY <1>1, <1>2, <1>3, <1>4, <1>5, <1>6, <1>7, <1>8, <1>9, <1>10, <1>11 DEF Next

(* When submitSignedTx is done, its finally block has run: the node is      *)
(* unsubscribed from and handleDisconnect is removed, unless it never got   *)
(* that far because the connection it asked for failed.                     *)
THEOREM NothingLeftBehind == Spec => []CleanedUp
<1>1. Init => SubmitInv /\ CleanInv
  BY SubmitInvInit DEF Init, CleanInv, CleanedUp
<1>2. SubmitInv /\ CleanInv /\ [Next]_vars => (SubmitInv /\ CleanInv)'
  BY SubmitInvStep, CleanStep
<1>3. CleanInv => CleanedUp
  BY DEF CleanInv
<1> QED
  BY <1>1, <1>2, <1>3, PTL DEF Spec

-----------------------------------------------------------------------------
(* The cached connection.                                                   *)

(* What a caller is about to disconnect, and what is cached, was built.     *)
Built ==
    /\ instance # NoHandle => conn[instance] # "unused"
    /\ \A c \in Caller : pc[c] = "disconnecting" => conn[handle[c]] # "unused"

CacheInv == CacheTypeOK /\ Built /\ NoOrphan /\ CacheAlive

LEMMA CacheInvInit == CacheInit => CacheInv
<1> SUFFICES ASSUME CacheInit PROVE CacheInv
  OBVIOUS
<1>1. CacheTypeOK
  BY ConnectionAssumption DEF CacheInit, CacheTypeOK, Stage, LinkState
<1>2. Built /\ NoOrphan /\ CacheAlive
  BY DEF CacheInit, Built, NoOrphan, CacheAlive, Open
<1> QED BY <1>1, <1>2 DEF CacheInv

(* What the calls change, in two halves: types, and the rest.               *)
LEMMA CacheTypeStep == CacheTypeOK /\ [CacheNext]_cacheVars => CacheTypeOK'
<1> SUFFICES ASSUME CacheTypeOK, [CacheNext]_cacheVars PROVE CacheTypeOK'
  OBVIOUS
<1> USE ConnectionAssumption DEF CacheTypeOK, Stage, LinkState
<1>1. CASE UNCHANGED cacheVars
  BY <1>1 DEF cacheVars
<1>2. CASE Configure
  BY <1>2 DEF Configure
<1>3. ASSUME NEW h \in Handle, NodeAnswers(h) \/ SocketDrops(h) \/ SocketReturns(h)
      PROVE  CacheTypeOK'
  BY <1>3 DEF NodeAnswers, SocketDrops, SocketReturns
<1>4. ASSUME NEW c \in Caller, GetConnectionOrConnect(c) PROVE CacheTypeOK'
  BY <1>4 DEF GetConnectionOrConnect, Build, Await
<1>5. ASSUME NEW c \in Caller, ConnectionResumes(c) PROVE CacheTypeOK'
  BY <1>5 DEF ConnectionResumes, Return
<1>6. ASSUME NEW c \in Caller, Connected(c) PROVE CacheTypeOK'
  BY <1>6 DEF Connected, Await, Return
<1>7. ASSUME NEW c \in Caller, ConnectedResumes(c) PROVE CacheTypeOK'
  BY <1>7 DEF ConnectedResumes, Return
<1>8. ASSUME NEW c \in Caller, Disconnect(c) PROVE CacheTypeOK'
  BY <1>8 DEF Disconnect, Await, Return
<1>9. ASSUME NEW c \in Caller, DisconnectResumes(c) PROVE CacheTypeOK'
  BY <1>9 DEF DisconnectResumes, Return
<1>10. CASE ClearCache
  BY <1>10 DEF ClearCache, Displace
<1>11. CASE SetConnection
  BY <1>11 DEF SetConnection, Displace
<1>12. CASE BuildConnection
  BY <1>12 DEF BuildConnection, Build
<1> QED
  BY <1>1, <1>2, <1>3, <1>4, <1>5, <1>6, <1>7, <1>8, <1>9, <1>10, <1>11, <1>12
     DEF CacheNext, PlainNext, External, Call, Resume

LEMMA CacheStep == CacheInv /\ [CacheNext]_cacheVars => Built' /\ NoOrphan' /\ CacheAlive'
<1> SUFFICES ASSUME CacheInv, [CacheNext]_cacheVars PROVE Built' /\ NoOrphan' /\ CacheAlive'
  OBVIOUS
<1> DEFINE Goal == Built' /\ NoOrphan' /\ CacheAlive'
<1> USE ConnectionAssumption DEF CacheInv, CacheTypeOK, Built, NoOrphan, CacheAlive, Open, Doomed
<1>1. CASE UNCHANGED cacheVars
  BY <1>1 DEF cacheVars
<1>2. CASE Configure
  BY <1>2 DEF Configure
<1>3. ASSUME NEW h \in Handle, NodeAnswers(h) \/ SocketDrops(h) \/ SocketReturns(h) PROVE Goal
  BY <1>3 DEF NodeAnswers, SocketDrops, SocketReturns
<1>4. ASSUME NEW c \in Caller, GetConnectionOrConnect(c) PROVE Goal
  BY <1>4 DEF GetConnectionOrConnect, Build, Await
<1>5. ASSUME NEW c \in Caller, ConnectionResumes(c) PROVE Goal
  BY <1>5 DEF ConnectionResumes, Return
<1>6. ASSUME NEW c \in Caller, Connected(c) PROVE Goal
  BY <1>6 DEF Connected, Await, Return
<1>7. ASSUME NEW c \in Caller, ConnectedResumes(c) PROVE Goal
  BY <1>7 DEF ConnectedResumes, Return
<1>8. ASSUME NEW c \in Caller, Disconnect(c) PROVE Goal
  BY <1>8 DEF Disconnect, Await, Return
<1>9. ASSUME NEW c \in Caller, DisconnectResumes(c) PROVE Goal
  BY <1>9 DEF DisconnectResumes, Return, Fulfilled
<1>10. CASE ClearCache
  BY <1>10 DEF ClearCache, Displace
<1>11. CASE SetConnection
  BY <1>11 DEF SetConnection, Displace
<1>12. CASE BuildConnection
  BY <1>12 DEF BuildConnection, Build
<1> QED
  BY <1>1, <1>2, <1>3, <1>4, <1>5, <1>6, <1>7, <1>8, <1>9, <1>10, <1>11, <1>12
     DEF CacheNext, PlainNext, External, Call, Resume

(* However calls race, every open connection is cached, about to be         *)
(* disconnected, or its user's own, and what the module caches is alive:    *)
(* whoever connects never gets a connection that is being torn down.        *)
THEOREM CacheSound == CacheSpec => [](CacheTypeOK /\ NoOrphan /\ CacheAlive)
<1>1. CacheInv => CacheTypeOK /\ NoOrphan /\ CacheAlive
  BY DEF CacheInv
<1>2. CacheInv /\ [CacheNext]_cacheVars => CacheInv'
  BY CacheTypeStep, CacheStep DEF CacheInv
<1> QED
  BY <1>1, <1>2, CacheInvInit, PTL DEF CacheSpec

(* Whoever connects after a disconnect began never gets the connection that *)
(* disconnect (BlockchainApiConnection.ts) is about to close, or has        *)
(* closed: a cached connection is being torn down by nobody.                *)
THEOREM NeverTornDown == CacheSpec => []CacheAlive
<1>1. CacheTypeOK /\ NoOrphan /\ CacheAlive => CacheAlive
  OBVIOUS
<1> QED
  BY <1>1, CacheSound, PTL

=============================================================================
