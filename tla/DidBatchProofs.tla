---------------------------- MODULE DidBatchProofs ----------------------------
(***************************************************************************)
(* Order, keys, counters and atomicity of what a DID signs, for any number *)
(* of builders, callers and extrinsics, and any largest counter.           *)
(***************************************************************************)
EXTENDS DidBatch, SequenceTheorems, TLAPS

Owner == Builder \union Caller

(* The extrinsics of the groups are among those given, and need the key     *)
(* their group is signed with.                                              *)
KeysFit(groups, given) ==
    \A g \in DOMAIN groups :
        /\ groups[g].rel \in HasKey
        /\ \A i \in DOMAIN groups[g].exts :
            /\ groups[g].exts[i] \in 1..Len(given)
            /\ KeyRelationship(given[groups[g].exts[i]]) = groups[g].rel

(* The groups hold what was given, to the last extrinsic.                   *)
Holds(groups, given) ==
    /\ InOrder(groups)
    /\ KeysFit(groups, given)
    /\ groups = << >> => given = << >>
    /\ groups # << >> => LastOf(LastOf(groups).exts) = Len(given)

CollectedInv == \A b \in Owner : Holds(batches[b], added[b])

(* What is signed was collected, all of it at some time after the call of   *)
(* build, and the counters follow one another.                              *)
SignedWell(j) ==
    /\ pc[j] \in {"idle", "querying", "replied"} => signed[j] = << >>
    /\ pc[j] = "idle" => asked[j] = 0
    /\ asked[j] <= Len(added[Collector(j)])
    /\ KeysFit(signed[j], added[Collector(j)])
    /\ \A g \in DOMAIN signed[j] : signed[j][g].nonce = counter[j] + g - 1
    /\ pc[j] \in {"signed", "done"} =>
          /\ signed[j] # << >>
          /\ InOrder(signed[j])
          /\ asked[j] <= LastOf(LastOf(signed[j]).exts)

SignedInv == \A j \in Job : SignedWell(j)

(* What executes is all or, of an atomic job, nothing; and all of it when   *)
(* nothing fails and the counter is the one it was.                         *)
ExecutedWell(j) ==
    /\ pc[j] # "done" => executed[j] = {}
    /\ pc[j] \in {"replied", "signed"} /\ undisturbed[j] => counter[j] = lastTxCounter + 1
    /\ pc[j] = "done" /\ undisturbed[j] /\ healthy[j] => executed[j] = SignedExts(j)
    /\ atomic[j] => executed[j] \in {{}, SignedExts(j)}

ExecutedInv == \A j \in Job : ExecutedWell(j)

Inv == TypeOK /\ CollectedInv /\ SignedInv /\ ExecutedInv

(* What has executed has spent its counter, for good.                       *)
OnceInv ==
    /\ \A j \in Job :
        /\ pc[j] \in {"replied", "signed"} => counter[j] >= 1
        /\ executed[j] # {} => counter[j] <= lastTxCounter
    /\ \A i, j \in Job : i # j /\ counter[i] = counter[j] => executed[i] = {} \/ executed[j] = {}

-----------------------------------------------------------------------------
(* Collecting.                                                              *)

LEMMA Appended ==
    ASSUME NEW S, NEW s \in Seq(S), NEW e \in S
    PROVE  /\ Append(s, e) \in Seq(S) /\ Append(s, e) # << >>
           /\ Len(Append(s, e)) = Len(s) + 1
           /\ \A i \in 1..Len(s) : Append(s, e)[i] = s[i]
           /\ Append(s, e)[Len(s) + 1] = e
BY AppendProperties

LEMMA KeysFitMore ==
    ASSUME NEW groups, NEW given \in Seq(Extrinsic), NEW x \in Extrinsic, KeysFit(groups, given)
    PROVE  KeysFit(groups, Append(given, x))
<1> DEFINE more == Append(given, x)
<1>1. Len(more) = Len(given) + 1 /\ \A i \in 1..Len(given) : more[i] = given[i]
  BY Appended
<1>2. Len(given) \in Nat
  OBVIOUS
<1> HIDE DEF more
<1>3. KeysFit(groups, more)
  BY <1>1, <1>2 DEF KeysFit
<1> QED
  BY <1>3 DEF more

(* A group of its own for the extrinsic.                                    *)
LEMMA NewGroup ==
    ASSUME NEW groups \in Seq(Group), NEW given \in Seq(Extrinsic), NEW x \in Extrinsic,
           Holds(groups, given), KeyRelationship(x) \in HasKey
    PROVE  LET new == Append(groups, [rel |-> KeyRelationship(x), exts |-> <<Len(given) + 1>>])
           IN  new \in Seq(Group) /\ new # << >> /\ Holds(new, Append(given, x))
<1> DEFINE p == Len(given) + 1
           more == Append(given, x)
           group == [rel |-> KeyRelationship(x), exts |-> <<p>>]
           new == Append(groups, group)
           n == Len(groups)
<1>1. p \in Nat \ {0} /\ Len(given) = p - 1 /\ n \in Nat
  OBVIOUS
<1>2. Len(more) = p /\ more[p] = x
  BY Appended
<1>3. /\ group \in Group /\ group.rel = KeyRelationship(x)
      /\ group.exts # << >> /\ DOMAIN group.exts = {1} /\ group.exts[1] = p
      /\ LastOf(group.exts) = p
  BY <1>1, BatchAssumption DEF Group, LastOf
<1> HIDE DEF group
<1>4. /\ new \in Seq(Group) /\ new # << >> /\ Len(new) = n + 1
      /\ \A g \in 1..n : new[g] = groups[g]
      /\ new[n + 1] = group
  BY <1>3, Appended
<1>5. KeysFit(groups, more)
  BY KeysFitMore DEF Holds
<1>6. n # 0 => LastOf(groups[n].exts) = p - 1
  BY <1>1 DEF Holds, LastOf
<1>7. n = 0 => p = 1
  BY <1>1 DEF Holds
<1> HIDE DEF p, more, new, n
<1>8. DOMAIN new = 1..(n + 1) /\ DOMAIN groups = 1..n
  BY <1>4 DEF n
<1>9. InOrder(new)
  <2> SUFFICES ASSUME NEW g \in 1..(n + 1)
               PROVE  LET first == IF g = 1 THEN 1 ELSE LastOf(new[g - 1].exts) + 1
                      IN  /\ new[g].exts # << >>
                          /\ \A i \in DOMAIN new[g].exts : new[g].exts[i] = first + i - 1
    BY <1>8 DEF InOrder
  <2>1. CASE g = n + 1
    BY <1>1, <1>3, <1>4, <1>6, <1>7, <2>1
  <2>2. CASE g \in 1..n
    <3>1. g # 1 => g - 1 \in 1..n
      BY <1>1, <2>2
    <3> QED
      BY <1>4, <1>8, <2>2, <3>1 DEF Holds, InOrder
  <2> QED
    BY <1>1, <2>1, <2>2
<1>10. KeysFit(new, more)
  BY <1>1, <1>2, <1>3, <1>4, <1>5, <1>8 DEF KeysFit
<1>11. LastOf(LastOf(new).exts) = Len(more)
  BY <1>2, <1>3, <1>4 DEF LastOf
<1>12. Holds(new, more)
  BY <1>4, <1>9, <1>10, <1>11 DEF Holds
<1> QED
  BY <1>4, <1>12 DEF new, more, group, p

(* The extrinsic joins the last group.                                      *)
LEMMA LastGroup ==
    ASSUME NEW groups \in Seq(Group), NEW given \in Seq(Extrinsic), NEW x \in Extrinsic,
           Holds(groups, given), KeyRelationship(x) \in HasKey,
           groups # << >>, LastOf(groups).rel = KeyRelationship(x)
    PROVE  LET new == [groups EXCEPT ![Len(groups)].exts = Append(@, Len(given) + 1)]
           IN  new \in Seq(Group) /\ new # << >> /\ Holds(new, Append(given, x))
<1> DEFINE p == Len(given) + 1
           more == Append(given, x)
           n == Len(groups)
           last == groups[n]
           exts == Append(last.exts, p)
           group == [rel |-> last.rel, exts |-> exts]
           new == [groups EXCEPT ![n].exts = Append(@, p)]
<1>1. p \in Nat \ {0} /\ Len(given) = p - 1 /\ n \in Nat \ {0} /\ n \in DOMAIN groups
  OBVIOUS
<1>2. Len(more) = p /\ more[p] = x
  BY Appended
<1>3. last \in Group /\ last.exts \in Seq(Nat) /\ last.rel = KeyRelationship(x)
  <2>1. last \in Group
    BY <1>1
  <2>2. last.rel = KeyRelationship(x)
    BY DEF LastOf
  <2> HIDE DEF last
  <2> QED
    BY <2>1, <2>2 DEF Group
<1>4. LastOf(last.exts) = p - 1 /\ last.exts # << >>
  BY <1>1 DEF Holds, LastOf, InOrder
<1>5. KeysFit(groups, more)
  BY KeysFitMore DEF Holds
<1>6. new = [groups EXCEPT ![n] = group]
  <2>1. \A e : [last EXCEPT !.exts = e] = [rel |-> last.rel, exts |-> e]
    <3> HIDE DEF last
    <3> QED
      BY <1>3 DEF Group
  <2>2. [groups[n] EXCEPT !.exts = exts] = group
    BY <2>1
  <2> QED
    BY <2>2
<1> HIDE DEF last, p, more, new
<1>7. /\ exts \in Seq(Nat) /\ exts # << >> /\ Len(exts) = Len(last.exts) + 1
      /\ \A i \in 1..Len(last.exts) : exts[i] = last.exts[i]
      /\ exts[Len(last.exts) + 1] = p
  <2> DEFINE before == last.exts
  <2>1. p \in Nat /\ before \in Seq(Nat)
    BY <1>1, <1>3
  <2> HIDE DEF before
  <2>2. /\ Append(before, p) \in Seq(Nat) /\ Append(before, p) # << >>
        /\ Len(Append(before, p)) = Len(before) + 1
        /\ \A i \in 1..Len(before) : Append(before, p)[i] = before[i]
        /\ Append(before, p)[Len(before) + 1] = p
    BY <2>1, Appended
  <2> QED
    BY <2>2 DEF before
<1> HIDE DEF exts
<1>8. group \in Group /\ group.rel = last.rel /\ group.exts = exts
  BY <1>3, <1>7 DEF Group
<1> HIDE DEF group
<1>9. /\ new \in Seq(Group) /\ Len(new) = n /\ new # << >>
      /\ new[n] = group /\ \A g \in 1..n : g # n => new[g] = groups[g]
  BY <1>1, <1>6, <1>8
<1>10. DOMAIN new = 1..n /\ DOMAIN groups = 1..n /\ last = groups[n]
  BY <1>9 DEF n, last
<1> HIDE DEF n
<1>11. InOrder(new)
  <2> DEFINE first(gs, g) == IF g = 1 THEN 1 ELSE LastOf(gs[g - 1].exts) + 1
  <2> SUFFICES ASSUME NEW g \in 1..n
               PROVE  /\ new[g].exts # << >>
                      /\ \A i \in DOMAIN new[g].exts : new[g].exts[i] = first(new, g) + i - 1
    BY <1>10 DEF InOrder
  <2>1. first(new, g) = first(groups, g)
    BY <1>1, <1>9
  <2>2. \A i \in DOMAIN groups[g].exts : groups[g].exts[i] = first(groups, g) + i - 1
    BY <1>10 DEF Holds, InOrder
  <2>3. groups[g].exts # << >>
    BY <1>10 DEF Holds, InOrder
  <2>4. CASE g # n
    BY <1>9, <2>1, <2>2, <2>3, <2>4
  <2>5. CASE g = n
    <3>1. first(groups, n) \in Nat
      <4>1. n # 1 => groups[n - 1] \in Group /\ groups[n - 1].exts # << >>
        BY <1>1, <1>10 DEF Holds, InOrder
      <4> QED
        BY <4>1 DEF Group, LastOf
    <3> DEFINE f == first(groups, n)
    <3>2. \A i \in 1..Len(last.exts) : last.exts[i] = f + i - 1
      BY <1>3, <1>10, <2>2, <2>5
    <3> HIDE DEF first, f
    <3>3. f \in Nat
      BY <3>1 DEF f
    <3>4. Len(last.exts) \in Nat \ {0}
      BY <1>3, <1>4
    <3>5. p = f + Len(last.exts)
      <4>1. last.exts[Len(last.exts)] = f + Len(last.exts) - 1
        BY <3>2, <3>4
      <4> QED
        BY <1>1, <1>4, <3>3, <3>4, <4>1 DEF LastOf
    <3>6. \A i \in DOMAIN exts : exts[i] = f + i - 1
      <4>1. DOMAIN exts = 1..(Len(last.exts) + 1)
        BY <1>7
      <4>2. ASSUME NEW i \in 1..Len(last.exts) PROVE exts[i] = f + i - 1
        BY <1>7, <3>2, <4>2
      <4>3. exts[Len(last.exts) + 1] = f + (Len(last.exts) + 1) - 1
        BY <1>7, <3>3, <3>4, <3>5
      <4> HIDE DEF f
      <4> QED
        BY <3>4, <4>1, <4>2, <4>3
    <3> QED
      BY <1>7, <1>8, <1>9, <2>1, <2>5, <3>6 DEF f
  <2> QED
    BY <2>4, <2>5
<1>12. KeysFit(new, more)
  <2> SUFFICES ASSUME NEW g \in 1..n
               PROVE  /\ new[g].rel \in HasKey
                      /\ \A i \in DOMAIN new[g].exts :
                            /\ new[g].exts[i] \in 1..Len(more)
                            /\ KeyRelationship(more[new[g].exts[i]]) = new[g].rel
    BY <1>10 DEF KeysFit
  <2>1. CASE g # n
    BY <1>5, <1>9, <1>10, <2>1 DEF KeysFit
  <2>2. CASE g = n
    <3> DEFINE Fits(e) == e \in 1..Len(more) /\ KeyRelationship(more[e]) = last.rel
    <3>1. \A i \in 1..Len(last.exts) : Fits(last.exts[i])
      BY <1>1, <1>3, <1>5, <1>10 DEF KeysFit
    <3>2. Fits(p)
      BY <1>1, <1>2, <1>3
    <3> HIDE DEF Fits
    <3>3. DOMAIN exts = 1..(Len(last.exts) + 1) /\ Len(last.exts) \in Nat
      BY <1>3, <1>7
    <3>4. \A i \in DOMAIN exts : Fits(exts[i])
      <4>1. ASSUME NEW i \in 1..Len(last.exts) PROVE Fits(exts[i])
        BY <1>7, <3>1
      <4>2. Fits(exts[Len(last.exts) + 1])
        BY <1>7, <3>2
      <4>3. \A i \in 1..(Len(last.exts) + 1) : i \in 1..Len(last.exts) \/ i = Len(last.exts) + 1
        BY <3>3
      <4> QED
        BY <3>3, <4>1, <4>2, <4>3
    <3> QED
      BY <1>3, <1>8, <1>9, <2>2, <3>4 DEF Fits
  <2> QED
    BY <2>1, <2>2
<1>13. LastOf(LastOf(new).exts) = Len(more)
  BY <1>2, <1>3, <1>7, <1>8, <1>9 DEF LastOf
<1>14. Holds(new, more)
  BY <1>9, <1>11, <1>12, <1>13 DEF Holds
<1> QED
  BY <1>9, <1>14 DEF new, more, p, n

LEMMA Pushed ==
    ASSUME NEW groups \in Seq(Group), NEW given \in Seq(Extrinsic), NEW x \in Extrinsic,
           Holds(groups, given), KeyRelationship(x) \in HasKey
    PROVE  LET new == PushNewExtrinsic(groups, Len(given) + 1, KeyRelationship(x))
           IN  new \in Seq(Group) /\ Holds(new, Append(given, x))
<1>1. CASE groups = << >> \/ LastOf(groups).rel # KeyRelationship(x)
  BY <1>1, NewGroup DEF PushNewExtrinsic
<1>2. CASE ~(groups = << >> \/ LastOf(groups).rel # KeyRelationship(x))
  BY <1>2, LastGroup DEF PushNewExtrinsic
<1> QED
  BY <1>1, <1>2

(* Who has the extrinsics of a job: a caller has its own and nobody else's. *)
LEMMA Collectors ==
    /\ \A j \in Job : Collector(j) \in Owner
    /\ \A j \in Building : Collector(j) = BuilderOf(j)
    /\ \A j \in Caller : Collector(j) = j
    /\ \A i \in Job, j \in Caller : Collector(i) = j => i = j
BY BatchAssumption DEF Job, Owner, Builder, Collector

LEMMA InvInit == Init => Inv
<1> SUFFICES ASSUME Init PROVE Inv
  OBVIOUS
<1>1. TypeOK
  <2>1. /\ batches \in [Owner -> Seq(Group)] /\ added \in [Owner -> Seq(Extrinsic)]
        /\ signed \in [Job -> Seq(SignedGroup)]
    BY DEF Init, Owner
  <2>2. /\ pc \in [Job -> Stage] /\ atomic \in [Job -> BOOLEAN]
        /\ undisturbed \in [Job -> BOOLEAN] /\ healthy \in [Job -> BOOLEAN]
        /\ executed \in [Job -> SUBSET Nat]
    BY DEF Init, Stage
  <2>3. counter \in [Job -> Nat] /\ asked \in [Job -> Nat] /\ lastTxCounter \in 0..MaxNonce
    BY BatchAssumption DEF Init
  <2> QED
    BY <2>1, <2>2, <2>3 DEF TypeOK, Owner
<1>2. CollectedInv
  BY DEF Init, CollectedInv, Owner, Holds, InOrder, KeysFit
<1>3. SignedInv
  <2>1. \A j \in Job : Len(added[Collector(j)]) = 0
    BY Collectors DEF Init, Owner
  <2> QED
    BY <2>1 DEF Init, SignedInv, SignedWell, KeysFit
<1>4. ExecutedInv
  BY DEF Init, ExecutedInv, ExecutedWell
<1> QED
  BY <1>1, <1>2, <1>3, <1>4 DEF Inv

(* Groups once signed are as they were, each with a counter.                *)
LEMMA SignedGroups ==
    ASSUME NEW groups \in Seq(Group), NEW n \in Nat, NEW given,
           groups # << >>, Holds(groups, given),
           \A g \in DOMAIN groups : BatchNonce(n, g) <= MaxNonce
    PROVE  LET s == [g \in DOMAIN groups |-> [rel |-> groups[g].rel, exts |-> groups[g].exts,
                                              nonce |-> BatchNonce(n, g)]]
           IN  /\ s \in Seq(SignedGroup) /\ s # << >>
               /\ InOrder(s) /\ KeysFit(s, given)
               /\ LastOf(LastOf(s).exts) = Len(given)
               /\ \A g \in DOMAIN s : s[g].nonce = n + g - 1
<1> DEFINE s == [g \in DOMAIN groups |-> [rel |-> groups[g].rel, exts |-> groups[g].exts,
                                          nonce |-> BatchNonce(n, g)]]
           len == Len(groups)
<1>1. DOMAIN groups = 1..len /\ len \in Nat \ {0} /\ MaxNonce \in Nat
  BY BatchAssumption
<1>2. \A g \in 1..len : groups[g] \in Group
  BY <1>1
<1>3. \A g \in 1..len : BatchNonce(n, g) = n + g - 1 /\ BatchNonce(n, g) \in 0..MaxNonce
  BY <1>1 DEF BatchNonce, IncreaseNonce
<1>4. \A g \in 1..len : /\ s[g].rel = groups[g].rel /\ s[g].exts = groups[g].exts
                        /\ s[g].nonce = n + g - 1
  BY <1>1, <1>3
<1>5. s \in [1..len -> SignedGroup]
  BY <1>1, <1>2, <1>3 DEF Group, SignedGroup
<1> HIDE DEF s, len
<1>6. s \in Seq(SignedGroup) /\ Len(s) = len /\ DOMAIN s = 1..len /\ s # << >>
  BY <1>1, <1>5
<1>7. InOrder(s)
  <2> DEFINE first(gs, g) == IF g = 1 THEN 1 ELSE LastOf(gs[g - 1].exts) + 1
  <2> SUFFICES ASSUME NEW g \in 1..len
               PROVE  /\ s[g].exts # << >>
                      /\ \A i \in DOMAIN s[g].exts : s[g].exts[i] = first(s, g) + i - 1
    BY <1>6 DEF InOrder
  <2>1. g # 1 => g - 1 \in 1..len
    BY <1>1
  <2>2. first(s, g) = first(groups, g)
    BY <1>4, <2>1
  <2>3. /\ groups[g].exts # << >>
        /\ \A i \in DOMAIN groups[g].exts : groups[g].exts[i] = first(groups, g) + i - 1
    BY <1>1 DEF Holds, InOrder
  <2> HIDE DEF first
  <2> QED
    BY <1>4, <2>2, <2>3
<1>8. KeysFit(s, given)
  BY <1>1, <1>4, <1>6 DEF Holds, KeysFit
<1>9. LastOf(LastOf(s).exts) = Len(given)
  <2>1. len \in 1..len
    BY <1>1
  <2> QED
    BY <1>4, <1>6, <2>1 DEF Holds, LastOf, len
<1> QED
  BY <1>4, <1>6, <1>7, <1>8, <1>9 DEF s

-----------------------------------------------------------------------------
(* What is said of a job depends on what it has.                            *)
LEMMA SameSigned ==
    ASSUME NEW j, SignedWell(j),
           UNCHANGED <<pc[j], asked[j], counter[j], signed[j], added[Collector(j)]>>
    PROVE  SignedWell(j)'
BY DEF SignedWell, KeysFit, InOrder

LEMMA SameExecuted ==
    ASSUME NEW j, ExecutedWell(j),
           UNCHANGED <<pc[j], atomic[j], counter[j], signed[j], executed[j], undisturbed[j],
                       healthy[j], lastTxCounter>>
    PROVE  ExecutedWell(j)'
BY DEF ExecutedWell, SignedExts

(* A job awaits the counter.                                                *)
LEMMA QueryStep ==
    ASSUME Inv, NEW j \in Job, pc[j] = "idle",
           GetNextNonce(j, Len(added'[Collector(j)])),
           batches' \in [Owner -> Seq(Group)], added' \in [Owner -> Seq(Extrinsic)],
           CollectedInv',
           \A i \in Job \ {j} : added'[Collector(i)] = added[Collector(i)],
           UNCHANGED <<atomic, executed, healthy, lastTxCounter>>
    PROVE  Inv'
<1> DEFINE n == Len(added'[Collector(j)])
<1>1. /\ pc' = [pc EXCEPT ![j] = "querying"] /\ asked' = [asked EXCEPT ![j] = n]
      /\ UNCHANGED <<counter, signed, undisturbed>>
  BY DEF GetNextNonce
<1>2. n \in Nat
  BY Collectors
<1> HIDE DEF n
<1>3. TypeOK'
  BY <1>1, <1>2 DEF Inv, TypeOK, Stage, Owner
<1>4. /\ pc'[j] = "querying" /\ asked'[j] = n
      /\ \A i \in Job \ {j} : pc'[i] = pc[i] /\ asked'[i] = asked[i]
  BY <1>1 DEF Inv, TypeOK
<1>5. SignedInv'
  <2>1. \A i \in Job \ {j} : SignedWell(i)'
    BY <1>1, <1>4, SameSigned DEF Inv, SignedInv
  <2>2. signed[j] = << >>
    BY DEF Inv, SignedInv, SignedWell
  <2>3. SignedWell(j)'
    BY <1>1, <1>2, <1>4, <2>2 DEF SignedWell, KeysFit, n
  <2> QED
    BY <2>1, <2>3 DEF SignedInv
<1>6. ExecutedInv'
  <2>1. \A i \in Job \ {j} : ExecutedWell(i)'
    BY <1>1, <1>4, SameExecuted DEF Inv, ExecutedInv
  <2>2. ExecutedWell(j)'
    BY <1>1, <1>4 DEF Inv, ExecutedInv, ExecutedWell
  <2> QED
    BY <2>1, <2>2 DEF ExecutedInv
<1> QED
  BY <1>3, <1>5, <1>6 DEF Inv

(* A job signs what there is, or fails.                                     *)
LEMMA SignStep ==
    ASSUME Inv, NEW j \in Job, pc[j] \in {"idle", "replied"},
           NEW groups \in Seq(Group), NEW n \in Nat, Sign(j, groups, n),
           Holds(groups, added'[Collector(j)]), asked[j] <= Len(added'[Collector(j)]),
           NEW u \in BOOLEAN, u => n = lastTxCounter + 1,
           counter' = [counter EXCEPT ![j] = n],
           undisturbed' = [undisturbed EXCEPT ![j] = u],
           batches' \in [Owner -> Seq(Group)], added' \in [Owner -> Seq(Extrinsic)],
           CollectedInv',
           \A i \in Job \ {j} : added'[Collector(i)] = added[Collector(i)],
           UNCHANGED <<asked, atomic, executed, healthy, lastTxCounter>>
    PROVE  Inv'
<1> DEFINE s == [g \in DOMAIN groups |-> [rel |-> groups[g].rel, exts |-> groups[g].exts,
                                          nonce |-> BatchNonce(n, g)]]
<1>1. /\ counter'[j] = n /\ undisturbed'[j] = u
      /\ \A i \in Job \ {j} : counter'[i] = counter[i] /\ undisturbed'[i] = undisturbed[i]
  BY DEF Inv, TypeOK
<1>2. signed[j] = << >> /\ executed[j] = {}
  BY DEF Inv, SignedInv, SignedWell, ExecutedInv, ExecutedWell
<1>3. CASE groups # << >> /\ \A g \in DOMAIN groups : BatchNonce(n, g) <= MaxNonce
  <2>1. pc' = [pc EXCEPT ![j] = "signed"] /\ signed' = [signed EXCEPT ![j] = s]
    BY <1>3 DEF Sign
  <2>2. /\ s \in Seq(SignedGroup) /\ s # << >>
        /\ InOrder(s) /\ KeysFit(s, added'[Collector(j)])
        /\ LastOf(LastOf(s).exts) = Len(added'[Collector(j)])
        /\ \A g \in DOMAIN s : s[g].nonce = n + g - 1
    BY <1>3, SignedGroups
  <2> HIDE DEF s
  <2>3. TypeOK'
    BY <2>1, <2>2 DEF Inv, TypeOK, Stage, Owner
  <2>4. /\ pc'[j] = "signed" /\ signed'[j] = s
        /\ \A i \in Job \ {j} : pc'[i] = pc[i] /\ signed'[i] = signed[i]
    BY <2>1 DEF Inv, TypeOK
  <2>5. SignedWell(j)'
    BY <1>1, <2>2, <2>4 DEF SignedWell
  <2>6. ExecutedWell(j)'
    BY <1>1, <1>2, <2>4 DEF Inv, ExecutedInv, ExecutedWell
  <2>7. \A i \in Job \ {j} : SignedWell(i)' /\ ExecutedWell(i)'
    BY <1>1, <2>4, SameSigned, SameExecuted DEF Inv, SignedInv, ExecutedInv
  <2> QED
    BY <2>3, <2>5, <2>6, <2>7 DEF Inv, SignedInv, ExecutedInv
<1>4. CASE ~(groups # << >> /\ \A g \in DOMAIN groups : BatchNonce(n, g) <= MaxNonce)
  <2>1. pc' = [pc EXCEPT ![j] = "failed"] /\ signed' = signed
    BY <1>4 DEF Sign
  <2>2. TypeOK'
    BY <2>1 DEF Inv, TypeOK, Stage, Owner
  <2>3. pc'[j] = "failed" /\ \A i \in Job \ {j} : pc'[i] = pc[i]
    BY <2>1 DEF Inv, TypeOK
  <2>4. SignedWell(j)'
    BY <1>1, <1>2, <2>1, <2>3 DEF SignedWell, KeysFit
  <2>5. ExecutedWell(j)'
    BY <1>1, <1>2, <2>1, <2>3 DEF Inv, ExecutedInv, ExecutedWell
  <2>6. \A i \in Job \ {j} : SignedWell(i)' /\ ExecutedWell(i)'
    BY <1>1, <2>1, <2>3, SameSigned, SameExecuted DEF Inv, SignedInv, ExecutedInv
  <2> QED
    BY <2>2, <2>4, <2>5, <2>6 DEF Inv, SignedInv, ExecutedInv
<1> QED
  BY <1>3, <1>4

LEMMA AddSingleExtrinsicStep ==
    ASSUME Inv, NEW b \in Builder, NEW x \in Extrinsic, AddSingleExtrinsic(b, x)
    PROVE  Inv'
<1> DEFINE new == PushNewExtrinsic(batches[b], Len(added[b]) + 1, KeyRelationship(x))
<1>1. /\ added' = [added EXCEPT ![b] = Append(added[b], x)]
      /\ batches' = [batches EXCEPT ![b] = new]
      /\ KeyRelationship(x) \in HasKey
      /\ UNCHANGED <<pc, atomic, counter, asked, signed, executed, undisturbed, healthy,
                     lastTxCounter>>
  BY DEF AddSingleExtrinsic, Batchable
<1>2. /\ b \in Owner /\ batches \in [Owner -> Seq(Group)] /\ added \in [Owner -> Seq(Extrinsic)]
      /\ Holds(batches[b], added[b])
  BY DEF Inv, TypeOK, CollectedInv, Owner
<1>3. /\ batches[b] \in Seq(Group) /\ added[b] \in Seq(Extrinsic)
  BY <1>2
<1>4. new \in Seq(Group) /\ Holds(new, Append(added[b], x))
  BY <1>1, <1>2, <1>3, Pushed
<1>5. Append(added[b], x) \in Seq(Extrinsic) /\ Len(Append(added[b], x)) = Len(added[b]) + 1
  BY <1>3, Appended
<1> HIDE DEF new
<1>6. /\ added'[b] = Append(added[b], x) /\ batches'[b] = new
      /\ \A c \in Owner \ {b} : added'[c] = added[c] /\ batches'[c] = batches[c]
  BY <1>1, <1>2
<1>7. TypeOK'
  <2>1. batches' \in [Owner -> Seq(Group)] /\ added' \in [Owner -> Seq(Extrinsic)]
    BY <1>1, <1>2, <1>4, <1>5
  <2> QED
    BY <1>1, <2>1 DEF Inv, TypeOK, Owner
<1>8. CollectedInv'
  <2>1. Holds(batches'[b], added'[b])
    BY <1>4, <1>6
  <2>2. \A c \in Owner \ {b} : Holds(batches'[c], added'[c])
    BY <1>6 DEF Inv, CollectedInv
  <2> QED
    BY <2>1, <2>2 DEF CollectedInv, Holds, InOrder, KeysFit
<1>9. ASSUME NEW i \in Job PROVE SignedWell(i)'
  <2>1. SignedWell(i) /\ Collector(i) \in Owner
    BY Collectors DEF Inv, SignedInv
  <2>2. CASE Collector(i) = b
    <3>1. KeysFit(signed[i], Append(added[b], x))
      BY <1>3, <2>1, <2>2, KeysFitMore DEF SignedWell
    <3>2. asked[i] <= Len(added[b]) + 1
      <4>1. asked[i] \in Nat /\ Len(added[b]) \in Nat /\ asked[i] <= Len(added[b])
        BY <1>3, <2>1, <2>2 DEF SignedWell, Inv, TypeOK
      <4> QED
        BY <4>1
    <3> QED
      BY <1>1, <1>5, <1>6, <2>1, <2>2, <3>1, <3>2 DEF SignedWell
  <2>3. CASE Collector(i) # b
    BY <1>1, <1>6, <2>1, <2>3, SameSigned
  <2> QED
    BY <2>2, <2>3
<1>10. ExecutedInv'
  BY <1>1, SameExecuted DEF Inv, ExecutedInv
<1> QED
  BY <1>7, <1>8, <1>9, <1>10 DEF Inv, SignedInv

LEMMA BuildStep ==
    ASSUME Inv, NEW j \in Building, Build(j)
    PROVE  Inv'
<1>1. /\ pc[j] = "idle" /\ j \in Job /\ Collector(j) = BuilderOf(j) /\ BuilderOf(j) \in Owner
      /\ UNCHANGED <<batches, added, atomic, executed, healthy, lastTxCounter>>
  BY Collectors DEF Build, Job
<1>2. /\ batches' \in [Owner -> Seq(Group)] /\ added' \in [Owner -> Seq(Extrinsic)]
      /\ \A i \in Job \ {j} : added'[Collector(i)] = added[Collector(i)]
  BY <1>1 DEF Inv, TypeOK, Owner
<1>3. CollectedInv'
  BY <1>1 DEF Inv, CollectedInv, Holds, InOrder, KeysFit
<1>4. CASE GetNextNonce(j, Len(added[BuilderOf(j)]))
  BY <1>1, <1>2, <1>3, <1>4, QueryStep
<1>5. ASSUME NEW n \in Given, SignFrom(j, batches[BuilderOf(j)], n) PROVE Inv'
  <2> DEFINE u == n = lastTxCounter + 1
             groups == batches[BuilderOf(j)]
  <2>1. /\ Sign(j, groups, n) /\ UNCHANGED asked
        /\ counter' = [counter EXCEPT ![j] = n]
        /\ undisturbed' = [undisturbed EXCEPT ![j] = u]
    BY <1>5 DEF SignFrom
  <2>2. n \in Nat /\ groups \in Seq(Group) /\ u \in BOOLEAN
    BY <1>1, BatchAssumption DEF Inv, TypeOK, Owner
  <2>3. Holds(groups, added'[Collector(j)]) /\ asked[j] <= Len(added'[Collector(j)])
    BY <1>1 DEF Inv, CollectedInv, SignedInv, SignedWell
  <2>4. u => n = lastTxCounter + 1
    OBVIOUS
  <2> HIDE DEF u, groups
  <2> QED
    BY <1>1, <1>2, <1>3, <2>1, <2>2, <2>3, <2>4, SignStep
<1> QED
  BY <1>4, <1>5 DEF Build

LEMMA AuthorizeExtrinsicStep ==
    ASSUME Inv, NEW j \in Caller, NEW x \in Extrinsic, AuthorizeExtrinsic(j, x)
    PROVE  Inv'
<1> DEFINE groups == <<[rel |-> KeyRelationship(x), exts |-> <<1>>]>>
<1>1. /\ pc[j] = "idle" /\ j \in Job /\ Collector(j) = j /\ j \in Owner
      /\ KeyRelationship(x) \in HasKey
      /\ added' = [added EXCEPT ![j] = <<x>>] /\ batches' = [batches EXCEPT ![j] = groups]
      /\ UNCHANGED <<atomic, executed, healthy, lastTxCounter>>
  BY Collectors DEF AuthorizeExtrinsic, Job, Owner
<1>2. groups \in Seq(Group) /\ Holds(groups, <<x>>)
  <2> DEFINE group == [rel |-> KeyRelationship(x), exts |-> <<1>>]
  <2>1. /\ group \in Group /\ group.rel = KeyRelationship(x)
        /\ group.exts # << >> /\ DOMAIN group.exts = {1} /\ group.exts[1] = 1
        /\ LastOf(group.exts) = 1
    BY <1>1, BatchAssumption DEF Group, LastOf
  <2> HIDE DEF group
  <2>2. /\ <<group>> \in Seq(Group) /\ DOMAIN <<group>> = {1} /\ <<group>>[1] = group
        /\ LastOf(<<group>>) = group /\ <<group>> # << >>
    BY <2>1 DEF LastOf
  <2>3. Len(<<x>>) = 1 /\ <<x>>[1] = x
    OBVIOUS
  <2>4. InOrder(<<group>>) /\ KeysFit(<<group>>, <<x>>)
    BY <1>1, <2>1, <2>2, <2>3 DEF InOrder, KeysFit
  <2>5. Holds(<<group>>, <<x>>)
    BY <2>1, <2>2, <2>3, <2>4 DEF Holds
  <2> QED
    BY <2>2, <2>5 DEF group
<1> HIDE DEF groups
<1>3. <<x>> \in Seq(Extrinsic) /\ Len(<<x>>) = 1
  OBVIOUS
<1>4. batches \in [Owner -> Seq(Group)] /\ added \in [Owner -> Seq(Extrinsic)]
  BY DEF Inv, TypeOK, Owner
<1>5. batches' \in [Owner -> Seq(Group)] /\ added' \in [Owner -> Seq(Extrinsic)]
  BY <1>1, <1>2, <1>3, <1>4
<1>6. /\ added'[j] = <<x>> /\ batches'[j] = groups
      /\ \A c \in Owner \ {j} : added'[c] = added[c] /\ batches'[c] = batches[c]
  BY <1>1, <1>4
<1>7. \A i \in Job \ {j} : added'[Collector(i)] = added[Collector(i)]
  BY <1>6, Collectors
<1>8. CollectedInv'
  <2>1. Holds(batches'[j], added'[j])
    BY <1>2, <1>6
  <2>2. \A c \in Owner \ {j} : Holds(batches'[c], added'[c])
    BY <1>6 DEF Inv, CollectedInv
  <2> QED
    BY <2>1, <2>2 DEF CollectedInv, Holds, InOrder, KeysFit
<1>9. CASE GetNextNonce(j, 1)
  <2>1. GetNextNonce(j, Len(added'[Collector(j)]))
    BY <1>1, <1>3, <1>6, <1>9
  <2> QED
    BY <1>1, <1>5, <1>7, <1>8, <2>1, QueryStep
<1>10. ASSUME NEW n \in Given, SignFrom(j, groups, n) PROVE Inv'
  <2> DEFINE u == n = lastTxCounter + 1
  <2>1. /\ Sign(j, groups, n) /\ UNCHANGED asked
        /\ counter' = [counter EXCEPT ![j] = n]
        /\ undisturbed' = [undisturbed EXCEPT ![j] = u]
    BY <1>10 DEF SignFrom
  <2>2. n \in Nat /\ u \in BOOLEAN
    BY BatchAssumption
  <2>3. asked[j] = 0
    BY <1>1 DEF Inv, SignedInv, SignedWell
  <2>4. u => n = lastTxCounter + 1
    OBVIOUS
  <2> HIDE DEF u
  <2>5. Holds(groups, added'[Collector(j)]) /\ asked[j] <= Len(added'[Collector(j)])
    BY <1>1, <1>2, <1>3, <1>6, <2>3
  <2> QED
    BY <1>1, <1>2, <1>5, <1>7, <1>8, <2>1, <2>2, <2>4, <2>5, SignStep
<1> QED
  BY <1>9, <1>10 DEF AuthorizeExtrinsic, groups

LEMMA JobResumesStep ==
    ASSUME Inv, NEW j \in Job, JobResumes(j)
    PROVE  Inv'
<1> DEFINE n == counter[j]
           u == undisturbed[j]
           groups == batches[Collector(j)]
<1>1. /\ pc[j] = "replied" /\ Sign(j, groups, n)
      /\ UNCHANGED <<batches, added, atomic, counter, asked, executed, undisturbed, healthy,
                     lastTxCounter>>
  BY DEF JobResumes
<1>2. /\ counter' = [counter EXCEPT ![j] = n] /\ undisturbed' = [undisturbed EXCEPT ![j] = u]
      /\ n \in Nat /\ u \in BOOLEAN
  BY <1>1 DEF Inv, TypeOK
<1>3. u => n = lastTxCounter + 1
  BY <1>1 DEF Inv, ExecutedInv, ExecutedWell
<1>4. groups \in Seq(Group) /\ Holds(groups, added'[Collector(j)])
  BY <1>1, Collectors DEF Inv, TypeOK, CollectedInv, Owner
<1>5. asked[j] <= Len(added'[Collector(j)])
  BY <1>1 DEF Inv, SignedInv, SignedWell
<1>6. /\ batches' \in [Owner -> Seq(Group)] /\ added' \in [Owner -> Seq(Extrinsic)]
      /\ \A i \in Job \ {j} : added'[Collector(i)] = added[Collector(i)]
  BY <1>1 DEF Inv, TypeOK, Owner
<1>7. CollectedInv'
  BY <1>1 DEF Inv, CollectedInv, Holds, InOrder, KeysFit
<1> HIDE DEF n, u, groups
<1> QED
  BY <1>1, <1>2, <1>3, <1>4, <1>5, <1>6, <1>7, SignStep

LEMMA ChainAnswersStep ==
    ASSUME Inv, NEW j \in Job, ChainAnswers(j)
    PROVE  Inv'
<1>1. /\ pc[j] = "querying" /\ pc' = [pc EXCEPT ![j] = "replied"]
      /\ counter' = [counter EXCEPT ![j] = lastTxCounter + 1]
      /\ undisturbed' = [undisturbed EXCEPT ![j] = TRUE]
      /\ UNCHANGED <<batches, added, atomic, asked, signed, executed, healthy, lastTxCounter>>
  BY DEF ChainAnswers, IncreaseNonce
<1>2. lastTxCounter + 1 \in Nat
  BY BatchAssumption DEF Inv, TypeOK
<1>3. TypeOK'
  BY <1>1, <1>2 DEF Inv, TypeOK, Stage
<1>4. CollectedInv'
  BY <1>1 DEF Inv, CollectedInv, Holds, InOrder, KeysFit
<1>5. /\ pc'[j] = "replied" /\ counter'[j] = lastTxCounter + 1
      /\ \A i \in Job \ {j} : /\ pc'[i] = pc[i] /\ counter'[i] = counter[i]
                              /\ undisturbed'[i] = undisturbed[i]
  BY <1>1 DEF Inv, TypeOK
<1>6. signed[j] = << >> /\ executed[j] = {}
  BY <1>1 DEF Inv, SignedInv, SignedWell, ExecutedInv, ExecutedWell
<1>7. SignedWell(j)' /\ ExecutedWell(j)'
  BY <1>1, <1>5, <1>6 DEF Inv, SignedInv, SignedWell, KeysFit, ExecutedWell
<1>8. \A i \in Job \ {j} : SignedWell(i)' /\ ExecutedWell(i)'
  BY <1>1, <1>5, SameSigned, SameExecuted DEF Inv, SignedInv, ExecutedInv
<1> QED
  BY <1>3, <1>4, <1>7, <1>8 DEF Inv, SignedInv, ExecutedInv

LEMMA JobThrowsStep ==
    ASSUME Inv, NEW j \in Job, JobThrows(j)
    PROVE  Inv'
<1>1. /\ pc[j] \in {"querying", "signed"} /\ pc' = [pc EXCEPT ![j] = "failed"]
      /\ UNCHANGED <<batches, added, atomic, counter, asked, signed, executed, undisturbed,
                     healthy, lastTxCounter>>
  BY DEF JobThrows
<1>2. TypeOK'
  BY <1>1 DEF Inv, TypeOK, Stage
<1>3. CollectedInv'
  BY <1>1 DEF Inv, CollectedInv, Holds, InOrder, KeysFit
<1>4. pc'[j] = "failed" /\ \A i \in Job \ {j} : pc'[i] = pc[i]
  BY <1>1 DEF Inv, TypeOK
<1>5. executed[j] = {}
  BY <1>1 DEF Inv, ExecutedInv, ExecutedWell
<1>6. SignedWell(j)' /\ ExecutedWell(j)'
  BY <1>1, <1>4, <1>5 DEF Inv, SignedInv, SignedWell, KeysFit, ExecutedWell
<1>7. \A i \in Job \ {j} : SignedWell(i)' /\ ExecutedWell(i)'
  BY <1>1, <1>4, SameSigned, SameExecuted DEF Inv, SignedInv, ExecutedInv
<1> QED
  BY <1>2, <1>3, <1>6, <1>7 DEF Inv, SignedInv, ExecutedInv

-----------------------------------------------------------------------------
(* The chain.                                                               *)

(* A group that succeeds of a job that is atomic, or of which nothing       *)
(* fails, executes whole.                                                   *)
LEMMA Dispatched ==
    ASSUME NEW exts \in Seq(Nat), NEW all \in BOOLEAN, NEW failing
    PROVE  LET d == Dispatch(exts, all, failing) IN
           /\ d.done \subseteq Nat
           /\ failing = {} => d.ok
           /\ d.ok /\ (all \/ failing = {}) => d.done = ToSet(exts)
<1>1. \A i \in DOMAIN exts : exts[i] \in Nat
  OBVIOUS
<1>2. ToSet(exts) = {exts[i] : i \in DOMAIN exts}
  BY DEF ToSet
<1>3. ToSet(exts) \subseteq Nat
  BY <1>1, <1>2
<1>4. Before(exts, failing) \subseteq Nat
  BY <1>1 DEF Before
<1>5. failing = {} => \A i \in DOMAIN exts : exts[i] \notin failing
  OBVIOUS
<1> QED
  BY <1>3, <1>4, <1>5 DEF Dispatch, InnerAtomic

(* The groups of a job with the counter that comes next are all let in.     *)
LEMMA AllLetIn ==
    ASSUME Inv, NEW j \in Job, counter[j] = lastTxCounter + 1, NEW g \in 1..Len(signed[j])
    PROVE  LetIn(signed[j], g)
<1>1. signed[j] \in Seq(SignedGroup) /\ lastTxCounter \in Nat /\ MaxNonce \in Nat
  BY BatchAssumption DEF Inv, TypeOK
<1>2. DOMAIN signed[j] = 1..Len(signed[j]) /\ Len(signed[j]) \in Nat
  BY <1>1
<1>3. ASSUME NEW h \in 1..Len(signed[j])
      PROVE  signed[j][h].nonce = lastTxCounter + h /\ signed[j][h].nonce <= MaxNonce
  <2>1. signed[j][h] \in SignedGroup
    BY <1>1
  <2>2. signed[j][h].nonce = counter[j] + h - 1
    BY <1>2 DEF Inv, SignedInv, SignedWell
  <2>3. signed[j][h].nonce \in 0..MaxNonce
    BY <2>1 DEF SignedGroup
  <2> QED
    BY <1>1, <2>2, <2>3
<1>4. CASE g = 1
  BY <1>1, <1>3, <1>4 DEF LetIn, ChainNext
<1>5. CASE g # 1
  <2>1. g - 1 \in 1..Len(signed[j])
    BY <1>2, <1>5
  <2>2. signed[j][g - 1].nonce = lastTxCounter + (g - 1)
    BY <1>3, <2>1
  <2>3. lastTxCounter + g <= MaxNonce /\ signed[j][g].nonce = lastTxCounter + g
    BY <1>3
  <2> QED
    BY <1>1, <1>2, <1>5, <2>2, <2>3 DEF LetIn, ChainNext
<1> QED
  BY <1>4, <1>5

(* What a job's groups execute, and the counter they leave.                 *)
LEMMA RunOf ==
    ASSUME Inv, NEW j \in Job, NEW n \in 0..Len(signed[j]), NEW failing,
           RunGroups(signed[j], n, atomic[j], failing)
    PROVE  /\ Executed(signed[j], n, atomic[j], failing) \subseteq Nat
           /\ Spent(signed[j], n) \in 0..MaxNonce
           /\ n = Len(signed[j]) /\ (atomic[j] \/ failing = {}) =>
                 Executed(signed[j], n, atomic[j], failing) = SignedExts(j)
           /\ n = 0 => Executed(signed[j], n, atomic[j], failing) = {}
           /\ counter[j] = lastTxCounter + 1 /\ failing = {} => n = Len(signed[j])
<1> DEFINE s == signed[j]
           d(g) == Dispatch(s[g].exts, atomic[j], failing)
<1>1. /\ s \in Seq(SignedGroup) /\ DOMAIN s = 1..Len(s) /\ Len(s) \in Nat
      /\ lastTxCounter \in 0..MaxNonce /\ MaxNonce \in Nat /\ atomic[j] \in BOOLEAN
  BY BatchAssumption DEF Inv, TypeOK
<1>2. \A g \in 1..Len(s) : s[g] \in SignedGroup
  BY <1>1
<1>3. \A g \in 1..Len(s) : s[g].exts \in Seq(Nat) /\ s[g].nonce \in 0..MaxNonce
  BY <1>2 DEF SignedGroup
<1>4. \A g \in 1..Len(s) :
          /\ d(g).done \subseteq Nat
          /\ failing = {} => d(g).ok
          /\ d(g).ok /\ (atomic[j] \/ failing = {}) => d(g).done = ToSet(s[g].exts)
  BY <1>1, <1>3, Dispatched
<1>5. \A g \in 1..n : d(g).ok
  BY DEF RunGroups, Succeeds
<1>6. 1..n \subseteq 1..Len(s)
  BY <1>1
<1>7. Executed(s, n, atomic[j], failing) = UNION {d(g).done : g \in 1..n}
  BY DEF Executed
<1>8. counter[j] = lastTxCounter + 1 /\ failing = {} => n = Len(s)
  <2> SUFFICES ASSUME counter[j] = lastTxCounter + 1, failing = {}, n < Len(s) PROVE FALSE
    BY <1>1
  <2>1. n + 1 \in 1..Len(s)
    BY <1>1
  <2>2. LetIn(s, n + 1) /\ d(n + 1).ok
    BY <1>4, <2>1, AllLetIn
  <2> QED
    BY <2>2 DEF RunGroups, Succeeds
<1>9. Spent(s, n) \in 0..MaxNonce
  <2>1. n < Len(s) => n + 1 \in 1..Len(s)
    BY <1>1
  <2>2. n # 0 => n \in 1..Len(s)
    BY <1>1
  <2> QED
    BY <1>1, <1>3, <2>1, <2>2 DEF Spent
<1> HIDE DEF d
<1>10. UNION {d(g).done : g \in 1..n} \subseteq Nat
  BY <1>4, <1>6
<1>11. n = 0 => UNION {d(g).done : g \in 1..n} = {}
  BY <1>1
<1>12. n = Len(s) /\ (atomic[j] \/ failing = {}) =>
          UNION {d(g).done : g \in 1..n} = SignedExts(j)
  BY <1>1, <1>4, <1>5 DEF SignedExts
<1> QED
  BY <1>7, <1>8, <1>9, <1>10, <1>11, <1>12

LEMMA ChainExecutesStep ==
    ASSUME Inv, NEW j \in Job, ChainExecutes(j)
    PROVE  Inv'
<1> DEFINE s == signed[j]
<1>1. /\ pc[j] = "signed" /\ pc' = [pc EXCEPT ![j] = "done"]
      /\ UNCHANGED <<batches, added, atomic, counter, asked, signed>>
  BY DEF ChainExecutes
<1>2. PICK failing \in SUBSET (1..Len(added[Collector(j)])), n \in 0..Len(s) :
          LET whole == n = Len(s)
              reverted == atomic[j] /\ Len(s) > 1 /\ ~whole
          IN
          /\ RunGroups(s, n, atomic[j], failing)
          /\ executed' = [executed EXCEPT ![j] =
                 IF reverted THEN {} ELSE Executed(s, n, atomic[j], failing)]
          /\ lastTxCounter' \in
                 IF reverted THEN {lastTxCounter}
                 ELSE IF whole \/ Len(s) > 1 THEN {Spent(s, n)}
                 ELSE {lastTxCounter, Spent(s, n)}
          /\ healthy' = [healthy EXCEPT ![j] = failing = {}]
          /\ undisturbed' = [i \in Job |-> undisturbed[i]
                                /\ (i = j \/ lastTxCounter' = lastTxCounter)]
  BY DEF ChainExecutes
<1> DEFINE whole == n = Len(s)
           reverted == atomic[j] /\ Len(s) > 1 /\ ~whole
           ran == Executed(s, n, atomic[j], failing)
<1>3. /\ ran \subseteq Nat /\ Spent(s, n) \in 0..MaxNonce
      /\ whole /\ (atomic[j] \/ failing = {}) => ran = SignedExts(j)
      /\ n = 0 => ran = {}
      /\ counter[j] = lastTxCounter + 1 /\ failing = {} => whole
  BY <1>2, RunOf
<1>4. /\ pc \in [Job -> Stage] /\ executed \in [Job -> SUBSET Nat]
      /\ healthy \in [Job -> BOOLEAN] /\ undisturbed \in [Job -> BOOLEAN]
      /\ lastTxCounter \in 0..MaxNonce /\ s \in Seq(SignedGroup) /\ Len(s) \in Nat
      /\ s # << >>
  BY <1>1 DEF Inv, TypeOK, SignedInv, SignedWell
<1>5. Len(s) # 0
  BY <1>4
<1>6. /\ executed' = [executed EXCEPT ![j] = IF reverted THEN {} ELSE ran]
      /\ lastTxCounter' \in {lastTxCounter, Spent(s, n)}
      /\ healthy' = [healthy EXCEPT ![j] = failing = {}]
      /\ undisturbed' = [i \in Job |-> undisturbed[i]
                            /\ (i = j \/ lastTxCounter' = lastTxCounter)]
  BY <1>2
<1> HIDE DEF ran, whole
<1>7. TypeOK'
  <2>1. pc' \in [Job -> Stage]
    BY <1>1, <1>4 DEF Stage
  <2>2. executed' \in [Job -> SUBSET Nat]
    BY <1>3, <1>4, <1>6
  <2>3. healthy' \in [Job -> BOOLEAN] /\ undisturbed' \in [Job -> BOOLEAN]
    BY <1>4, <1>6
  <2>4. lastTxCounter' \in 0..MaxNonce
    BY <1>3, <1>4, <1>6
  <2> QED
    BY <1>1, <2>1, <2>2, <2>3, <2>4 DEF Inv, TypeOK
<1>8. CollectedInv'
  BY <1>1 DEF Inv, CollectedInv, Holds, InOrder, KeysFit
<1>9. /\ pc'[j] = "done" /\ executed'[j] = (IF reverted THEN {} ELSE ran)
      /\ healthy'[j] = (failing = {}) /\ undisturbed'[j] = undisturbed[j]
  BY <1>1, <1>4, <1>6
<1>10. \A i \in Job \ {j} :
          /\ pc'[i] = pc[i] /\ executed'[i] = executed[i] /\ healthy'[i] = healthy[i]
          /\ undisturbed'[i] => undisturbed[i] /\ lastTxCounter' = lastTxCounter
  BY <1>1, <1>4, <1>6
<1>11. SignedInv'
  <2>1. SignedWell(j)'
    BY <1>1, <1>9 DEF Inv, SignedInv, SignedWell, KeysFit, InOrder
  <2>2. \A i \in Job \ {j} : SignedWell(i)'
    BY <1>1, <1>10, SameSigned DEF Inv, SignedInv
  <2> QED
    BY <2>1, <2>2 DEF SignedInv
<1>12. ExecutedInv'
  <2>1. SignedExts(j)' = SignedExts(j)
    BY <1>1 DEF SignedExts
  <2>2. undisturbed[j] => counter[j] = lastTxCounter + 1
    BY <1>1 DEF Inv, ExecutedInv, ExecutedWell
  <2>3. undisturbed[j] /\ failing = {} => ~reverted /\ ran = SignedExts(j)
    BY <1>3, <2>2
  <2>4. atomic[j] => reverted \/ ran \in {{}, SignedExts(j)}
    BY <1>3, <1>4, <1>5 DEF whole
  <2>5. atomic'[j] = atomic[j]
    BY <1>1
  <2> HIDE DEF reverted
  <2>6. ExecutedWell(j)'
    BY <1>9, <2>1, <2>3, <2>4, <2>5 DEF ExecutedWell
  <2>7. ASSUME NEW i \in Job \ {j} PROVE ExecutedWell(i)'
    <3>1. SignedExts(i)' = SignedExts(i) /\ counter'[i] = counter[i] /\ atomic'[i] = atomic[i]
      BY <1>1 DEF SignedExts
    <3>2. ExecutedWell(i)
      BY DEF Inv, ExecutedInv
    <3> QED
      BY <1>10, <3>1, <3>2 DEF ExecutedWell
  <2> QED
    BY <2>6, <2>7 DEF ExecutedInv
<1> QED
  BY <1>7, <1>8, <1>11, <1>12 DEF Inv

LEMMA InvNext == Inv /\ [Next]_vars => Inv'
<1> SUFFICES ASSUME Inv, [Next]_vars PROVE Inv'
  OBVIOUS
<1>1. CASE UNCHANGED vars
  <2>1. TypeOK'
    BY <1>1 DEF vars, Inv, TypeOK
  <2>2. CollectedInv'
    BY <1>1 DEF vars, Inv, CollectedInv, Holds, InOrder, KeysFit
  <2>3. SignedInv' /\ ExecutedInv'
    BY <1>1, SameSigned, SameExecuted DEF vars, Inv, SignedInv, ExecutedInv
  <2> QED
    BY <2>1, <2>2, <2>3 DEF Inv
<1>2. CASE Next
  BY <1>2, BuildStep, AddSingleExtrinsicStep, AuthorizeExtrinsicStep, ChainAnswersStep,
     JobThrowsStep, JobResumesStep, ChainExecutesStep DEF Next
<1> QED
  BY <1>1, <1>2

LEMMA Invariant == Spec => []Inv
BY InvInit, InvNext, PTL DEF Spec

-----------------------------------------------------------------------------
(* Counters that are spent.                                                 *)

(* Nothing executes, and a job that has executed keeps its counter.         *)
LEMMA OnceKept ==
    ASSUME OnceInv, UNCHANGED <<executed, lastTxCounter>>,
           \A i \in Job : counter'[i] = counter[i] \/ executed[i] = {},
           \A i \in Job : pc'[i] \in {"replied", "signed"} => counter'[i] >= 1
    PROVE  OnceInv'
BY DEF OnceInv

(* A job signs with a counter it was given.                                 *)
LEMMA SignFromOnce ==
    ASSUME 0 \notin Given, Inv, OnceInv, NEW j \in Job, pc[j] = "idle",
           NEW groups, NEW n \in Given, SignFrom(j, groups, n),
           UNCHANGED <<executed, lastTxCounter>>
    PROVE  OnceInv'
<1>1. counter' = [counter EXCEPT ![j] = n] /\ n \in Nat /\ n >= 1
  BY BatchAssumption DEF SignFrom
<1>2. pc' = [pc EXCEPT ![j] = "signed"] \/ pc' = [pc EXCEPT ![j] = "failed"]
  BY DEF SignFrom, Sign
<1>3. executed[j] = {}
  BY DEF Inv, ExecutedInv, ExecutedWell
<1>4. counter \in [Job -> Nat] /\ pc \in [Job -> Stage]
  BY DEF Inv, TypeOK
<1>5. \A i \in Job \ {j} : counter'[i] = counter[i] /\ pc'[i] = pc[i]
  BY <1>1, <1>2, <1>4
<1>6. counter'[j] = n
  BY <1>1, <1>4
<1>7. \A i \in Job : pc'[i] \in {"replied", "signed"} => counter'[i] >= 1
  BY <1>1, <1>5, <1>6 DEF OnceInv
<1> QED
  BY <1>3, <1>5, <1>7, OnceKept

LEMMA GetNextNonceOnce ==
    ASSUME Inv, OnceInv, NEW j \in Job, NEW n, GetNextNonce(j, n),
           UNCHANGED <<executed, lastTxCounter>>
    PROVE  OnceInv'
<1>1. pc' = [pc EXCEPT ![j] = "querying"] /\ counter' = counter /\ pc \in [Job -> Stage]
  BY DEF GetNextNonce, Inv, TypeOK
<1>2. \A i \in Job : pc'[i] \in {"replied", "signed"} => counter'[i] >= 1
  BY <1>1 DEF OnceInv
<1> QED
  BY <1>1, <1>2, OnceKept

LEMMA ChainAnswersOnce ==
    ASSUME Inv, OnceInv, NEW j \in Job, ChainAnswers(j)
    PROVE  OnceInv'
<1>1. /\ pc[j] = "querying" /\ pc' = [pc EXCEPT ![j] = "replied"]
      /\ counter' = [counter EXCEPT ![j] = lastTxCounter + 1]
      /\ UNCHANGED <<executed, lastTxCounter>>
      /\ counter \in [Job -> Nat] /\ pc \in [Job -> Stage] /\ lastTxCounter \in Nat
  BY BatchAssumption DEF ChainAnswers, IncreaseNonce, Inv, TypeOK
<1>2. executed[j] = {}
  BY <1>1 DEF Inv, ExecutedInv, ExecutedWell
<1>3. /\ counter'[j] >= 1
      /\ \A i \in Job \ {j} : counter'[i] = counter[i] /\ pc'[i] = pc[i]
  BY <1>1
<1>4. \A i \in Job : pc'[i] \in {"replied", "signed"} => counter'[i] >= 1
  BY <1>3 DEF OnceInv
<1> QED
  BY <1>1, <1>2, <1>3, <1>4, OnceKept

(* A job resumes or fails: its counter stays.                               *)
LEMMA JobResumesOnce ==
    ASSUME Inv, OnceInv, NEW j \in Job, JobResumes(j) \/ JobThrows(j)
    PROVE  OnceInv'
<1>1. /\ pc' = [pc EXCEPT ![j] = "failed"] \/ (pc[j] = "replied" /\ pc' = [pc EXCEPT ![j] = "signed"])
      /\ UNCHANGED <<counter, executed, lastTxCounter>> /\ pc \in [Job -> Stage]
  BY DEF JobResumes, JobThrows, Sign, Inv, TypeOK
<1>2. \A i \in Job : pc'[i] \in {"replied", "signed"} => pc[i] \in {"replied", "signed"}
  BY <1>1
<1> QED
  BY <1>1, <1>2, OnceKept DEF OnceInv

(* What executes has the counter that comes next, and spends it; a counter  *)
(* does not come back, since none that is signed with is 0.                 *)
LEMMA SpentFor ==
    ASSUME Inv, NEW j \in Job, counter[j] >= 1, signed[j] # << >>,
           NEW n \in 0..Len(signed[j]), NEW failing,
           RunGroups(signed[j], n, atomic[j], failing)
    PROVE  /\ Spent(signed[j], n) >= lastTxCounter
           /\ n # 0 => counter[j] = lastTxCounter + 1 /\ Spent(signed[j], n) >= counter[j]
<1> DEFINE s == signed[j]
<1>1. /\ s \in Seq(SignedGroup) /\ DOMAIN s = 1..Len(s) /\ Len(s) \in Nat
      /\ lastTxCounter \in 0..MaxNonce /\ MaxNonce \in Nat /\ counter[j] \in Nat
  BY BatchAssumption DEF Inv, TypeOK
<1>2. \A g \in 1..Len(s) : s[g].nonce = counter[j] + g - 1
  BY <1>1 DEF Inv, SignedInv, SignedWell
<1>3. LetIn(s, 1) /\ Len(s) >= 1 => counter[j] = lastTxCounter + 1 /\ s[1].nonce = counter[j]
  BY <1>1, <1>2 DEF LetIn, ChainNext
<1>4. n # 0 => LetIn(s, 1) /\ Len(s) >= 1
  BY <1>1 DEF RunGroups, Succeeds
<1>5. n # 0 => s[n].nonce = counter[j] + n - 1
  <2>1. n # 0 => n \in 1..Len(s)
    BY <1>1
  <2> QED
    BY <1>2, <2>1
<1>6. n < Len(s) => s[n + 1].nonce = counter[j] + n
  <2>1. n < Len(s) => n + 1 \in 1..Len(s)
    BY <1>1
  <2>2. \A g \in 1..Len(s) : g - 1 = n => s[g].nonce = counter[j] + n
    BY <1>1, <1>2
  <2> QED
    BY <1>1, <2>1, <2>2
<1> HIDE DEF s
<1>7. CASE n = 0
  <2>1. n < Len(s) => s[n + 1] = s[1] /\ (LetIn(s, n + 1) <=> LetIn(s, 1))
    BY <1>7
  <2> QED
    BY <1>1, <1>3, <1>7, <2>1 DEF Spent, s
<1>8. CASE n # 0
  BY <1>1, <1>3, <1>4, <1>5, <1>6, <1>8 DEF Spent, s
<1> QED
  BY <1>7, <1>8

LEMMA ChainExecutesOnce ==
    ASSUME Inv, OnceInv, NEW j \in Job, ChainExecutes(j)
    PROVE  OnceInv'
<1> DEFINE s == signed[j]
<1>1. /\ pc[j] = "signed" /\ pc' = [pc EXCEPT ![j] = "done"] /\ UNCHANGED counter
      /\ counter \in [Job -> Nat] /\ pc \in [Job -> Stage] /\ executed \in [Job -> SUBSET Nat]
      /\ lastTxCounter \in Nat /\ lastTxCounter' \in Nat
      /\ s \in Seq(SignedGroup) /\ Len(s) \in Nat
  <2>1. Inv'
    BY ChainExecutesStep
  <2> QED
    BY <2>1, BatchAssumption DEF ChainExecutes, Inv, TypeOK
<1>2. PICK failing \in SUBSET (1..Len(added[Collector(j)])), n \in 0..Len(s) :
          LET whole == n = Len(s)
              reverted == atomic[j] /\ Len(s) > 1 /\ ~whole
          IN
          /\ RunGroups(s, n, atomic[j], failing)
          /\ executed' = [executed EXCEPT ![j] =
                 IF reverted THEN {} ELSE Executed(s, n, atomic[j], failing)]
          /\ lastTxCounter' \in
                 IF reverted THEN {lastTxCounter}
                 ELSE IF whole \/ Len(s) > 1 THEN {Spent(s, n)}
                 ELSE {lastTxCounter, Spent(s, n)}
  BY DEF ChainExecutes
<1>3. /\ Spent(s, n) >= lastTxCounter
      /\ n # 0 => counter[j] = lastTxCounter + 1 /\ Spent(s, n) >= counter[j]
  <2>1. counter[j] >= 1 /\ s # << >>
    BY <1>1 DEF OnceInv, Inv, SignedInv, SignedWell
  <2> QED
    BY <1>2, <2>1, SpentFor
<1>4. n = 0 => Executed(s, n, atomic[j], failing) = {}
  BY <1>2, RunOf
<1>5. /\ executed'[j] = {} \/ (n # 0 /\ lastTxCounter' = Spent(s, n))
      /\ \A i \in Job \ {j} : executed'[i] = executed[i]
  BY <1>1, <1>2, <1>4
<1>6. lastTxCounter' >= lastTxCounter
  BY <1>1, <1>2, <1>3
<1>7. executed'[j] # {} => counter[j] = lastTxCounter + 1 /\ counter[j] <= lastTxCounter'
  BY <1>1, <1>3, <1>5
<1>8. \A i \in Job : executed[i] # {} => counter[i] <= lastTxCounter
  BY DEF OnceInv
<1>9. \A i \in Job : pc'[i] \in {"replied", "signed"} => counter'[i] >= 1
  BY <1>1 DEF OnceInv
<1>10. \A i \in Job : executed'[i] # {} => counter'[i] <= lastTxCounter'
  BY <1>1, <1>5, <1>6, <1>7, <1>8
<1>11. \A i, k \in Job : i # k /\ counter'[i] = counter'[k] => executed'[i] = {} \/ executed'[k] = {}
  <2>1. \A i \in Job \ {j} : counter[i] = counter[j] => executed'[i] = {} \/ executed'[j] = {}
    BY <1>1, <1>5, <1>7, <1>8
  <2>2. \A i, k \in Job \ {j} : i # k /\ counter[i] = counter[k] =>
            executed'[i] = {} \/ executed'[k] = {}
    BY <1>5 DEF OnceInv
  <2> QED
    BY <1>1, <2>1, <2>2
<1> QED
  BY <1>9, <1>10, <1>11 DEF OnceInv

LEMMA OnceNext ==
    ASSUME 0 \notin Given, Inv, OnceInv, [Next]_vars
    PROVE  OnceInv'
<1>1. ASSUME NEW j \in Building, Build(j) PROVE OnceInv'
  <2>1. /\ pc[j] = "idle" /\ j \in Job /\ UNCHANGED <<executed, lastTxCounter>>
        /\ \/ GetNextNonce(j, Len(added[BuilderOf(j)]))
           \/ \E n \in Given : SignFrom(j, batches[BuilderOf(j)], n)
    BY <1>1 DEF Build, Job
  <2> QED
    BY <2>1, GetNextNonceOnce, SignFromOnce
<1>2. ASSUME NEW b \in Builder, NEW x \in Extrinsic, AddSingleExtrinsic(b, x) PROVE OnceInv'
  BY <1>2, OnceKept DEF AddSingleExtrinsic, OnceInv
<1>3. ASSUME NEW j \in Caller, NEW x \in Extrinsic, AuthorizeExtrinsic(j, x) PROVE OnceInv'
  <2> DEFINE groups == <<[rel |-> KeyRelationship(x), exts |-> <<1>>]>>
  <2>1. /\ pc[j] = "idle" /\ j \in Job /\ UNCHANGED <<executed, lastTxCounter>>
        /\ GetNextNonce(j, 1) \/ \E n \in Given : SignFrom(j, groups, n)
    BY <1>3 DEF AuthorizeExtrinsic, Job
  <2> HIDE DEF groups
  <2> QED
    BY <2>1, GetNextNonceOnce, SignFromOnce
<1>4. CASE UNCHANGED vars
  BY <1>4, OnceKept DEF vars, OnceInv
<1> QED
  BY <1>1, <1>2, <1>3, <1>4, ChainAnswersOnce, JobResumesOnce, ChainExecutesOnce DEF Next

LEMMA OnceInvariant == ASSUME 0 \notin Given PROVE Spec => []OnceInv
<1>1. Init => OnceInv
  BY DEF Init, OnceInv
<1>2. Inv /\ OnceInv /\ [Next]_vars => OnceInv'
  BY OnceNext
<1> QED
  BY <1>1, <1>2, Invariant, PTL DEF Spec

-----------------------------------------------------------------------------
(* DidBatchBuilder.ts and FullDidDetails.ts keep every group, key, counter  *)
(* and flag of a batch of the type they are declared with.                  *)
THEOREM TypeCorrect == Spec => []TypeOK
<1>1. Inv => TypeOK
  BY DEF Inv
<1> QED
  BY <1>1, Invariant, PTL

(* However many builders are filled and built, and whatever is added while  *)
(* build awaits the counter, what build signs is what the builder was given *)
(* in that order, with nothing left out that was there when it was called.  *)
THEOREM OrderIsMaintained == Spec => []SignedInOrder
<1>1. Inv => SignedInOrder
  BY DEF Inv, SignedInv, SignedWell, SignedInOrder
<1> QED
  BY <1>1, Invariant, PTL

(* Every group build or authorizeExtrinsic signs is signed with a key of    *)
(* the relationship each of its extrinsics requires, which the DID has.     *)
THEOREM KeysAreRight == Spec => []RightKey
<1>1. Inv => RightKey
  BY DEF Inv, SignedInv, SignedWell, KeysFit, RightKey
<1> QED
  BY <1>1, Invariant, PTL

(* Of an atomic batch the chain executes all that was signed or nothing,    *)
(* however it was split into groups and whichever extrinsics fail.          *)
THEOREM AllOrNothing == Spec => []AtomicWhole
<1>1. Inv => AtomicWhole
  BY DEF Inv, ExecutedInv, ExecutedWell, AtomicWhole
<1> QED
  BY <1>1, Invariant, PTL

(* Unless the DID does something else meanwhile or an extrinsic fails, all  *)
(* that was signed executes, and builds of one builder on one counter       *)
(* execute once.  The counter 0 comes next only after the largest u64: were *)
(* it given, counters could come back.                                      *)
THEOREM CountersAreDecisive == ASSUME 0 \notin Given PROVE Spec => []CountersDecide
<1>1. Inv /\ OnceInv => CountersDecide
  BY DEF Inv, ExecutedInv, ExecutedWell, OnceInv, CountersDecide, Job
<1> QED
  BY <1>1, Invariant, OnceInvariant, PTL

=============================================================================
