------------------------------ MODULE Submission ------------------------------
(***************************************************************************)
(* What submitting a transaction promises its caller, free of sockets,     *)
(* subscriptions and timers: the chain vouches for more and more about the *)
(* transaction, and the caller gets at most one verdict, which never       *)
(* claims what the chain has not vouched for.  A rejection that names no   *)
(* extrinsic error promises nothing: the transaction may still execute.    *)
(***************************************************************************)
CONSTANT Criterion    \* what a caller may wait for

VARIABLES
    criterion,   \* what this caller waits for
    reached,     \* what the chain has vouched for so far
    verdict      \* what the caller was told

vars == <<criterion, reached, verdict>>

Init ==
    /\ criterion \in Criterion
    /\ reached = {}
    /\ verdict = "pending"

ChainAdvances ==
    /\ reached' \in SUBSET (Criterion \union {"failed"})
    /\ reached \subseteq reached'
    /\ UNCHANGED <<criterion, verdict>>

Decide(v) ==
    /\ verdict = "pending"
    /\ verdict' = v
    /\ UNCHANGED <<criterion, reached>>

Resolve == criterion \in reached /\ Decide("resolved")
RejectFailed == "failed" \in reached /\ Decide("failed")
RejectUnknown == Decide("rejected")

Next == ChainAdvances \/ Resolve \/ RejectFailed \/ RejectUnknown

Spec == Init /\ [][Next]_vars
=============================================================================
