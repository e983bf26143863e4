-------------------------------- MODULE DidBatch --------------------------------
(***************************************************************************)
(* Operations a full DID authorises by signature: authorizeExtrinsic of    *)
(* did/src/DidDetails/FullDidDetails.ts, and the batches of                *)
(* did/src/DidBatcher/DidBatchBuilder.ts.                                  *)
(*                                                                         *)
(* A Job is a call of build, of a builder that collects extrinsics, or a   *)
(* Caller of authorizeExtrinsic.  A builder is not consumed: it can be     *)
(* built again, or twice at once.  Every signature carries a counter, which *)
(* the chain compares with the DID's; the jobs are given it, or read the   *)
(* DID's before an await and use it after.  Extrinsics are told apart by   *)
(* their place in the order in which a job was given them, and known by    *)
(* their section and method.                                               *)
(*                                                                         *)
(* The chain (the DID pallet's submitDidCall and the utility pallet's      *)
(* batch and batchAll) is external.                                        *)
(***************************************************************************)
EXTENDS Naturals, Sequences, SequencesExt

CONSTANTS
    Building, Caller, \* calls of build, calls of authorizeExtrinsic
    BuilderOf(_),     \* the builder of a call of build
    Extrinsic,   \* records of a section and a method
    HasKey,      \* the relationships the DID has a key for
    MaxAdded,    \* how many extrinsics a builder is given at most
    MaxNonce,    \* 2^64 - 1
    FirstNonce,  \* the DID's counter at the start
    Given        \* the counters a user may provide

Job == Building \union Caller
Builder == {BuilderOf(j) : j \in Building}
Collector(j) == IF j \in Building THEN BuilderOf(j) ELSE j   \* who has its extrinsics

Relationship == {"authentication", "assertionMethod", "capabilityDelegation"}

ASSUME BatchAssumption ==
    /\ HasKey \subseteq Relationship
    /\ Caller \intersect (Builder \union Building) = {}
    /\ Given \subseteq Nat
    /\ MaxAdded \in Nat
    /\ MaxNonce \in Nat
    /\ FirstNonce \in 0..MaxNonce

VARIABLES
    batches,     \* per builder and caller: the groups of extrinsics collected so far
    added,       \* history: the extrinsics of each in the order they were given
    pc,          \* where the job stands
    atomic,      \* whether its operations are to be reverted together
    counter,     \* the counter it read from the chain or was given
    asked,       \* history: how many extrinsics there were when build was called
    signed,      \* the groups it signed, each with its counter
    executed,    \* history: the extrinsics the chain executed
    undisturbed, \* history: no other operation of the DID since it read the counter
    healthy,     \* history: none of its extrinsics failed on the chain
    lastTxCounter  \* the DID's counter on the chain

vars == <<batches, added, pc, atomic, counter, asked, signed, executed, undisturbed,
          healthy, lastTxCounter>>

(* getKeyRelationshipForExtrinsic.                                          *)
KeyRelationship(x) ==
    CASE x.section \in {"attestation", "ctype"} -> "assertionMethod"
      [] x.section = "delegation" -> "capabilityDelegation"
      [] x.section \in {"didLookup", "web3Names"} -> "authentication"
      [] x.section = "did" /\ x.method \notin {"create", "reclaimDeposit", "submitDidCall"}
            -> "authentication"
      [] OTHER -> "paymentAccount"

Group == [rel : Relationship, exts : Seq(Nat)]
SignedGroup == [rel : Relationship, exts : Seq(Nat), nonce : 0..MaxNonce]
Stage == {"idle", "querying", "replied", "signed", "done", "failed"}

TypeOK ==
    /\ batches \in [Builder \union Caller -> Seq(Group)]
    /\ added \in [Builder \union Caller -> Seq(Extrinsic)]
    /\ pc \in [Job -> Stage]
    /\ atomic \in [Job -> BOOLEAN]
    /\ counter \in [Job -> Nat]
    /\ asked \in [Job -> Nat]
    /\ signed \in [Job -> Seq(SignedGroup)]
    /\ executed \in [Job -> SUBSET Nat]
    /\ undisturbed \in [Job -> BOOLEAN]
    /\ healthy \in [Job -> BOOLEAN]
    /\ lastTxCounter \in 0..MaxNonce

Init ==
    /\ batches = [b \in Builder \union Caller |-> << >>]
    /\ added = [b \in Builder \union Caller |-> << >>]
    /\ pc = [j \in Job |-> "idle"]
    /\ atomic \in [Job -> BOOLEAN]
    /\ counter = [j \in Job |-> 0]
    /\ asked = [j \in Job |-> 0]
    /\ signed = [j \in Job |-> << >>]
    /\ executed = [j \in Job |-> {}]
    /\ undisturbed = [j \in Job |-> TRUE]
    /\ healthy = [j \in Job |-> TRUE]
    /\ lastTxCounter = FirstNonce

-----------------------------------------------------------------------------
(* Collecting.                                                              *)

LastOf(s) == s[Len(s)]

(* Mutated: the extrinsic joins any group of its relationship.              *)
PushNewExtrinsicAnywhere(groups, p, rel) ==
    IF \E g \in DOMAIN groups : groups[g].rel = rel
    THEN LET g == CHOOSE g \in DOMAIN groups : groups[g].rel = rel
         IN  [groups EXCEPT ![g].exts = Append(@, p)]
    ELSE Append(groups, [rel |-> rel, exts |-> <<p>>])

(* Mutated: a new group is only opened for the first extrinsic.             *)
PushNewExtrinsicAnyKey(groups, p, rel) ==
    IF groups = << >>
    THEN <<[rel |-> rel, exts |-> <<p>>]>>
    ELSE [groups EXCEPT ![Len(groups)].exts = Append(@, p)]

(* Extrinsic p joins the last group if that takes the same key.             *)
PushNewExtrinsic(groups, p, rel) ==
    IF groups = << >> \/ LastOf(groups).rel # rel
    THEN Append(groups, [rel |-> rel, exts |-> <<p>>])
    ELSE [groups EXCEPT ![Len(groups)].exts = Append(@, p)]

(* checkExtrinsicInput: everything else is refused with an error.           *)
Batchable(x) ==
    /\ x.section # "did"
    /\ KeyRelationship(x) # "paymentAccount"
    /\ KeyRelationship(x) \in HasKey

(* addSingleExtrinsic, at any time, even while build awaits something.      *)
AddSingleExtrinsic(b, x) ==
    /\ Len(added[b]) < MaxAdded
    /\ Batchable(x)
    /\ added' = [added EXCEPT ![b] = Append(@, x)]
    /\ batches' = [batches EXCEPT ![b] =
                      PushNewExtrinsic(@, Len(added[b]) + 1, KeyRelationship(x))]
    /\ UNCHANGED <<pc, atomic, counter, asked, signed, executed, undisturbed, healthy,
                   lastTxCounter>>

-----------------------------------------------------------------------------
(* Signing.                                                                 *)

GetNextNonce(j, n) ==
    /\ pc' = [pc EXCEPT ![j] = "querying"]
    /\ asked' = [asked EXCEPT ![j] = n]
    /\ UNCHANGED <<counter, signed, undisturbed>>

(* "Wrap around the max u64 value when reached": currentNonce is compared   *)
(* with it by identity, and is never that object.                           *)
IncreaseNonce(n, increment) == n + increment

(* Mutated: all groups are signed with the same counter.                    *)
BatchNonceSame(n, g) == IncreaseNonce(n, 0)

BatchNonce(n, g) == IncreaseNonce(n, g - 1)

(* The groups there are now are signed at once, each with a counter of its  *)
(* own from n on; one beyond u64 cannot be encoded, and nothing collected   *)
(* is an error.                                                             *)
Sign(j, groups, n) ==
    IF groups # << >> /\ \A g \in DOMAIN groups : BatchNonce(n, g) <= MaxNonce
    THEN /\ pc' = [pc EXCEPT ![j] = "signed"]
         /\ signed' = [signed EXCEPT ![j] = [g \in DOMAIN groups |->
               [rel |-> groups[g].rel, exts |-> groups[g].exts, nonce |-> BatchNonce(n, g)]]]
    ELSE /\ pc' = [pc EXCEPT ![j] = "failed"]
         /\ UNCHANGED signed

(* initialNonce or txCounter is given: nothing is awaited.                  *)
SignFrom(j, groups, n) ==
    /\ Sign(j, groups, n)
    /\ counter' = [counter EXCEPT ![j] = n]
    /\ undisturbed' = [undisturbed EXCEPT ![j] = n = lastTxCounter + 1]
    /\ UNCHANGED asked

(* authorizeExtrinsic: there is a key for the extrinsic.                    *)
AuthorizeExtrinsic(j, x) ==
    LET groups == <<[rel |-> KeyRelationship(x), exts |-> <<1>>]>> IN
    /\ pc[j] = "idle"
    /\ KeyRelationship(x) \in HasKey
    /\ added' = [added EXCEPT ![j] = <<x>>]
    /\ batches' = [batches EXCEPT ![j] = groups]
    /\ GetNextNonce(j, 1) \/ \E n \in Given : SignFrom(j, groups, n)
    /\ UNCHANGED <<atomic, executed, healthy, lastTxCounter>>

(* build awaits the counter before it looks at what there is to build.      *)
Build(j) ==
    /\ pc[j] = "idle"
    /\ \/ GetNextNonce(j, Len(added[BuilderOf(j)]))
       \/ \E n \in Given : SignFrom(j, batches[BuilderOf(j)], n)
    /\ UNCHANGED <<batches, added, atomic, executed, healthy, lastTxCounter>>

(* External: the node answers queryNonce.                                   *)
ChainAnswers(j) ==
    /\ pc[j] = "querying"
    /\ pc' = [pc EXCEPT ![j] = "replied"]
    /\ counter' = [counter EXCEPT ![j] = IncreaseNonce(lastTxCounter, 1)]
    /\ undisturbed' = [undisturbed EXCEPT ![j] = TRUE]
    /\ UNCHANGED <<batches, added, atomic, asked, signed, executed, healthy, lastTxCounter>>

(* The node does not answer, or the signer throws.                          *)
JobThrows(j) ==
    /\ pc[j] \in {"querying", "signed"}
    /\ pc' = [pc EXCEPT ![j] = "failed"]
    /\ UNCHANGED <<batches, added, atomic, counter, asked, signed, executed, undisturbed,
                   healthy, lastTxCounter>>

(* The job resumes with the counter and signs what there is by now.         *)
JobResumes(j) ==
    /\ pc[j] = "replied"
    /\ Sign(j, batches[Collector(j)], counter[j])
    /\ UNCHANGED <<batches, added, atomic, counter, asked, executed, undisturbed, healthy,
                   lastTxCounter>>

-----------------------------------------------------------------------------
(* The chain (external).                                                    *)

(* The counter wraps around.                                                *)
ChainNext(n) == IF n = MaxNonce THEN 0 ELSE n + 1

(* The extrinsics before the first that fails.                              *)
Before(exts, failing) ==
    {exts[i] : i \in {i \in DOMAIN exts : \A k \in 1..i : exts[k] \notin failing}}

(* Mutated: the extrinsics of a group always go into a plain batch.         *)
InnerAtomicNever(all) == FALSE

(* Whether a group's own extrinsics are reverted together.                  *)
InnerAtomic(all) == all

(* submitDidCall of a group with several extrinsics dispatches a batch of   *)
(* them: batchAll executes all or none and fails with any of them, batch    *)
(* stops at the first that fails and succeeds all the same.                 *)
Dispatch(exts, all, failing) ==
    LET whole == \A i \in DOMAIN exts : exts[i] \notin failing IN
    IF whole THEN [done |-> ToSet(exts), ok |-> TRUE]
    ELSE IF Len(exts) = 1 \/ InnerAtomic(all) THEN [done |-> {}, ok |-> FALSE]
    ELSE [done |-> Before(exts, failing), ok |-> TRUE]

(* Group g has the counter that comes next after the group before it.       *)
LetIn(groups, g) ==
    groups[g].nonce = ChainNext(IF g = 1 THEN lastTxCounter ELSE groups[g - 1].nonce)

Succeeds(groups, g, all, failing) ==
    LetIn(groups, g) /\ Dispatch(groups[g].exts, all, failing).ok

(* The groups run one after the other, up to one that fails: n succeed.     *)
RunGroups(groups, n, all, failing) ==
    /\ \A g \in 1..n : Succeeds(groups, g, all, failing)
    /\ n < Len(groups) => ~Succeeds(groups, n + 1, all, failing)

Executed(groups, n, all, failing) ==
    UNION {Dispatch(groups[g].exts, all, failing).done : g \in 1..n}

(* A group that is let in spends its counter, even if it fails.             *)
Spent(groups, n) ==
    IF n < Len(groups) /\ LetIn(groups, n + 1) THEN groups[n + 1].nonce
    ELSE IF n = 0 THEN lastTxCounter ELSE groups[n].nonce

(* A job's transaction is executed.  Of several groups, batchAll reverts    *)
(* them all if one fails; a single one may keep its counter spent.          *)
ChainExecutes(j) ==
    /\ pc[j] = "signed"
    /\ \E failing \in SUBSET (1..Len(added[Collector(j)])), n \in 0..Len(signed[j]) :
          LET whole == n = Len(signed[j])
              reverted == atomic[j] /\ Len(signed[j]) > 1 /\ ~whole
          IN
          /\ RunGroups(signed[j], n, atomic[j], failing)
          /\ executed' = [executed EXCEPT ![j] =
                 IF reverted THEN {} ELSE Executed(signed[j], n, atomic[j], failing)]
          /\ lastTxCounter' \in
                 IF reverted THEN {lastTxCounter}
                 ELSE IF whole \/ Len(signed[j]) > 1 THEN {Spent(signed[j], n)}
                 ELSE {lastTxCounter, Spent(signed[j], n)}
          /\ healthy' = [healthy EXCEPT ![j] = failing = {}]
          /\ undisturbed' = [i \in Job |-> undisturbed[i]
                                /\ (i = j \/ lastTxCounter' = lastTxCounter)]
    /\ pc' = [pc EXCEPT ![j] = "done"]
    /\ UNCHANGED <<batches, added, atomic, counter, asked, signed>>

-----------------------------------------------------------------------------
Next ==
    \/ \E j \in Building : Build(j)
    \/ \E b \in Builder, x \in Extrinsic : AddSingleExtrinsic(b, x)
    \/ \E j \in Caller, x \in Extrinsic : AuthorizeExtrinsic(j, x)
    \/ \E j \in Job : ChainAnswers(j) \/ JobThrows(j) \/ JobResumes(j) \/ ChainExecutes(j)

Spec == Init /\ [][Next]_vars

-----------------------------------------------------------------------------
(* The extrinsics of the groups are 1, 2 and so on, none left out.          *)
InOrder(groups) ==
    \A g \in DOMAIN groups :
        LET first == IF g = 1 THEN 1 ELSE LastOf(groups[g - 1].exts) + 1 IN
        /\ groups[g].exts # << >>
        /\ \A i \in DOMAIN groups[g].exts : groups[g].exts[i] = first + i - 1

(* "Order of all extrinsics is maintained" (DidBatchBuilder.ts:95): what is *)
(* signed is what the builder was given, in that order, with nothing left   *)
(* out that was there when build was called.                                *)
SignedInOrder ==
    \A j \in Job : pc[j] \in {"signed", "done"} =>
        /\ signed[j] # << >>
        /\ InOrder(signed[j])
        /\ asked[j] <= LastOf(LastOf(signed[j]).exts)

SignedExts(j) == UNION {ToSet(signed[j][g].exts) : g \in DOMAIN signed[j]}

(* Every group is signed with a key of the relationship all its extrinsics  *)
(* require, and the DID has one.                                            *)
RightKey ==
    \A j \in Job : \A g \in DOMAIN signed[j] :
        LET group == signed[j][g] IN
        /\ group.rel \in HasKey
        /\ \A i \in DOMAIN group.exts : KeyRelationship(added[Collector(j)][group.exts[i]]) = group.rel

(* The counters are the ones the chain expects: unless another operation of *)
(* the DID comes between reading the counter and executing, or an extrinsic *)
(* fails, everything that was signed executes; and a builder that is built  *)
(* twice on one counter, at once or again before anything has executed,     *)
(* never executes twice.                                                    *)
CountersDecide ==
    /\ \A j \in Job : pc[j] = "done" /\ undisturbed[j] /\ healthy[j] =>
           executed[j] = SignedExts(j)
    /\ \A i, j \in Building :
           i # j /\ Collector(i) = Collector(j) /\ counter[i] = counter[j] =>
               executed[i] = {} \/ executed[j] = {}

(* atomic: "whether the whole batch must be reverted (true) or not (false)  *)
(* in case any extrinsic in the batch fails" (DidBatchBuilder.ts:136).      *)
AtomicWhole ==
    \A j \in Job : atomic[j] /\ pc[j] = "done" => executed[j] \in {{}, SignedExts(j)}

=============================================================================
