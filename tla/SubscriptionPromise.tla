------------------------- MODULE SubscriptionPromise -------------------------
(***************************************************************************)
(* The promise built around a subscription callback                        *)
(* (chain-helpers/src/blockchain/SubscriptionPromise.ts) and the criteria  *)
(* that settle it (Blockchain.utils.ts, ErrorHandler.ts).                  *)
(*                                                                         *)
(* A result is what the subscription pushes: the status of the             *)
(* transaction, the outcome its events report for its dispatch, and        *)
(* whether an internal error is attached to it.                            *)
(***************************************************************************)

(* resolveOn: IS_READY, IS_IN_BLOCK, EXTRINSIC_EXECUTED and IS_FINALIZED.   *)
Criterion == {"ready", "inBlock", "executed", "finalized"}

ErrorStatus == {"usurped", "dropped", "invalid", "finalityTimeout"}

Status == {"future", "ready", "inBlock", "retracted", "finalized"} \union ErrorStatus

Result == [status: Status, dispatch: {"none", "success", "failure"}, internal: BOOLEAN]

(* Values that are no results of the subscription, in the shape of one.     *)
Mark(name) == [status |-> name, dispatch |-> "none", internal |-> FALSE]
NoResult == Mark("none")
Timeout == Mark("ERROR_TIMEOUT")

Pending == [state |-> "pending"]
Resolved(value) == [state |-> "resolved", value |-> value]
Rejected(value) == [state |-> "rejected", value |-> value]

Settled(promise) == promise.state # "pending"

Promise ==
    {Pending} \union [state: {"resolved"}, value: Result]
              \union [state: {"rejected"}, value: Result \union {Timeout}]

(* Whether resolveOn accepts a result.                                      *)
ResolvesOn(criterion, result) ==
    \/ criterion = "ready" /\ result.status = "ready"
    \/ criterion = "inBlock" /\ result.status = "inBlock"
    \/ criterion = "executed" /\ result.dispatch = "success"
    \/ criterion = "finalized" /\ result.status = "finalized"

(* The default rejectOn: EXTRINSIC_FAILED or IS_ERROR.                      *)
RejectsOn(result) ==
    \/ result.dispatch = "failure"
    \/ result.status \in ErrorStatus
    \/ result.internal

(* The subscription callback: rejection takes precedence, and a settled     *)
(* promise stays as it is.                                                  *)
Push(promise, criterion, result) ==
    IF Settled(promise) THEN promise
    ELSE IF RejectsOn(result) THEN Rejected(result)
    ELSE IF ResolvesOn(criterion, result) THEN Resolved(result)
    ELSE promise

(* The timer's callback.                                                    *)
Expire(promise) == IF Settled(promise) THEN promise ELSE Rejected(Timeout)

=============================================================================
