----------------------- MODULE FullDidUpdateBuilderProofs -----------------------
(***************************************************************************)
(* What the builder of a DID's updates promises, for any DID, any batch,   *)
(* any keys and endpoints and any number of calls of build.                *)
(***************************************************************************)
EXTENDS FullDidUpdateBuilder, FiniteSetTheorems, WellFoundedInduction, TLAPS

StageOK == stage \in [Caller -> Stage]

LEMMA StageTyped == Spec => []StageOK
  <1>1. Init => StageOK
    BY DEF Init, StageOK, Stage
  <1>2. StageOK /\ [Next]_vars => StageOK'
    BY DEF StageOK, Stage, Next, vars, buildVars, Push, SetAuthenticationKey,
       SetAttestationKey, SetDelegationKey, AddEncryptionKey, RemoveEncryptionKey,
       AddServiceEndpoint, RemoveServiceEndpoint, RemoveAllEncryptionKeys,
       RemoveAllServiceEndpoints, RemoveAttestationKey, RemoveDelegationKey, RemoveKeys,
       RemoveEndpoints, Build, ChainAnswers, BuildResumes, SignerAnswers, BuildThrows,
       ChainExecutes
  <1> QED BY <1>1, <1>2, PTL DEF Spec

(* Every operation of a consumed builder is refused.                        *)
LEMMA ConsumedRefuses ==
    ASSUME consumed, Next
    PROVE  \E c \in Caller : \/ ChainAnswers(c) \/ BuildResumes(c) \/ SignerAnswers(c)
                             \/ BuildThrows(c) \/ ChainExecutes(c)
  BY DEF Next, SetAuthenticationKey, SetAttestationKey, SetDelegationKey, AddEncryptionKey,
     RemoveEncryptionKey, AddServiceEndpoint, RemoveServiceEndpoint, RemoveAllEncryptionKeys,
     RemoveAllServiceEndpoints, RemoveAttestationKey, RemoveDelegationKey, RemoveKeys,
     RemoveEndpoints, MarkEncryptionKey, MarkAttestationKey, MarkDelegationKey,
     MarkServiceEndpoint, Build

LEMMA FrozenStep ==
    ASSUME StageOK, [Next]_vars, consumed
    PROVE  /\ UNCHANGED <<builderVars, consumed>>
           /\ \A c \in Caller : stage[c] = "idle" => stage'[c] = "idle"
  <1>1. CASE UNCHANGED vars
    BY <1>1 DEF vars, builderVars, buildVars
  <1>2. CASE Next
    <2>1. PICK c \in Caller : \/ ChainAnswers(c) \/ BuildResumes(c) \/ SignerAnswers(c)
                              \/ BuildThrows(c) \/ ChainExecutes(c)
      BY <1>2, ConsumedRefuses
    <2>2. UNCHANGED builderVars /\ consumed'
      BY <2>1 DEF ChainAnswers, BuildResumes, SignerAnswers, BuildThrows, ChainExecutes
    <2>3. stage[c] # "idle" /\ \E s \in Stage : stage' = [stage EXCEPT ![c] = s]
      BY <2>1 DEF ChainAnswers, BuildResumes, SignerAnswers, BuildThrows, ChainExecutes, Stage
    <2>4. \A d \in Caller : stage[d] = "idle" => stage'[d] = "idle"
      BY <2>3 DEF StageOK
    <2>5. consumed' = consumed
      BY <2>1 DEF ChainAnswers, BuildResumes, SignerAnswers, BuildThrows, ChainExecutes
    <2> QED BY <2>2, <2>4, <2>5
  <1> QED BY <1>1, <1>2

(* Once a call of build has consumed the builder nothing is added to it,    *)
(* no mark changes and no further transaction is started.                   *)
THEOREM Frozen == Spec => FrozenOnceConsumed
  <1>1. StageOK /\ [Next]_vars =>
            [consumed => /\ UNCHANGED <<builderVars, consumed>>
                         /\ \A c \in Caller : stage[c] = "idle" => stage'[c] = "idle"]_vars
    BY FrozenStep
  <1> QED BY <1>1, StageTyped, PTL DEF Spec, FrozenOnceConsumed

-----------------------------------------------------------------------------
(* Until the chain has executed a transaction the DID is the one the        *)
(* builder started from; whoever has read the counter has read one the      *)
(* chain has had, and whoever signs does it with the key of that DID.       *)
AuthorisedInv ==
    /\ stage \in [Caller -> Stage]
    /\ signingKey \in [Caller -> VerificationKey \union {NoKey}]
    /\ txCounter \in [Caller -> Nat]
    /\ lastTxCounter \in Nat
    /\ old.authentication \in VerificationKey
    /\ lastTxCounter = 0 => did = old
    /\ \A c \in Caller :
        /\ stage[c] \in {"replied", "signing", "built"} => txCounter[c] \in 1..(lastTxCounter + 1)
        /\ stage[c] \in {"signing", "built"} => signingKey[c] = old.authentication

LEMMA AuthorisedInit == Init => AuthorisedInv
  BY DEF Init, AuthorisedInv, Stage, Details

(* The builder's own operations leave build and the chain alone.            *)
LEMMA OperationStep ==
    ASSUME Next, ~ \E c \in Caller : \/ Build(c) \/ ChainAnswers(c) \/ BuildResumes(c)
                                    \/ SignerAnswers(c) \/ BuildThrows(c) \/ ChainExecutes(c)
    PROVE  UNCHANGED <<old, buildVars, chainVars>>
  BY DEF Next, Push, SetAuthenticationKey, SetAttestationKey, SetDelegationKey,
     AddEncryptionKey,
     RemoveEncryptionKey, AddServiceEndpoint, RemoveServiceEndpoint, RemoveAllEncryptionKeys,
     RemoveAllServiceEndpoints, RemoveAttestationKey, RemoveDelegationKey, RemoveKeys,
     RemoveEndpoints

LEMMA AuthorisedStep == ASSUME AuthorisedInv, [Next]_vars PROVE AuthorisedInv'
  <1>1. CASE UNCHANGED <<old, buildVars, chainVars>>
    BY <1>1 DEF AuthorisedInv, buildVars, chainVars
  <1>2. ASSUME NEW c \in Caller, Build(c) PROVE AuthorisedInv'
    BY <1>2 DEF AuthorisedInv, Build, builderVars, chainVars, Stage
  <1>3. ASSUME NEW c \in Caller, ChainAnswers(c) PROVE AuthorisedInv'
    BY <1>3 DEF AuthorisedInv, ChainAnswers, builderVars, chainVars, Stage
  <1>4. ASSUME NEW c \in Caller, BuildResumes(c) PROVE AuthorisedInv'
    BY <1>4 DEF AuthorisedInv, BuildResumes, builderVars, chainVars, Stage, AuthorisingKey
  <1>5. ASSUME NEW c \in Caller, SignerAnswers(c) PROVE AuthorisedInv'
    BY <1>5 DEF AuthorisedInv, SignerAnswers, builderVars, chainVars, Stage
  <1>6. ASSUME NEW c \in Caller, BuildThrows(c) PROVE AuthorisedInv'
    BY <1>6 DEF AuthorisedInv, BuildThrows, builderVars, chainVars, Stage
  <1>7. ASSUME NEW c \in Caller, ChainExecutes(c) PROVE AuthorisedInv'
    <2>1. /\ stage' = [stage EXCEPT ![c] = "done"]
          /\ UNCHANGED <<old, signingKey, txCounter>>
          /\ \/ UNCHANGED <<did, lastTxCounter>>
             \/ lastTxCounter' = lastTxCounter + 1
      BY <1>7 DEF ChainExecutes, builderVars, chainVars
    <2>2. lastTxCounter' \in Nat /\ lastTxCounter <= lastTxCounter'
          /\ (lastTxCounter' = 0 => did' = old')
      BY <2>1 DEF AuthorisedInv
    <2> QED BY <2>1, <2>2 DEF AuthorisedInv, Stage
  <1>8. CASE UNCHANGED vars
    BY <1>1, <1>8 DEF vars
  <1> QED BY <1>1, <1>2, <1>3, <1>4, <1>5, <1>6, <1>7, <1>8, OperationStep

(* A transaction that build has given out is signed with the key that       *)
(* authenticates the DID and has the next counter, until the chain has      *)
(* executed another one of the builder, whoever else called build meanwhile *)
(* and whatever new authentication key the batch sets.                      *)
THEOREM Authorised == Spec => []FirstIsAuthorised
  <1>1. AuthorisedInv => FirstIsAuthorised
    BY DEF AuthorisedInv, FirstIsAuthorised
  <1> QED BY <1>1, AuthorisedInit, AuthorisedStep, PTL DEF Spec

-----------------------------------------------------------------------------
(* Induction over the positions of a sequence: a set of numbers that is not *)
(* empty has a least element, and one closed under successor is Nat.        *)
LEMMA LeastElement ==
    ASSUME NEW T \in SUBSET Nat, T # {}
    PROVE  \E x \in T : \A y \in T : x <= y
  <1> DEFINE R == OpToRel(<, Nat)
  <1>1. IsWellFoundedOn(R, Nat)
    BY NatLessThanWellFounded DEF OpToRel
  <1>2. \A x, y \in Nat : x < y => <<x, y>> \in R
    BY DEF OpToRel
  <1> HIDE DEF R
  <1>3. PICK x \in T : \A y \in T : ~ (<<y, x>> \in R)
    BY <1>1, WFMin
  <1>4. ASSUME NEW y \in T PROVE x <= y
    <2>1. x \in Nat /\ y \in Nat /\ ~ (y < x)
      BY <1>2, <1>3
    <2> QED BY <2>1
  <1> QED BY <1>4

LEMMA SetInduction ==
    ASSUME NEW S, 0 \in S, \A n \in Nat : n \in S => n + 1 \in S
    PROVE  Nat \subseteq S
  <1> DEFINE T == Nat \ S
  <1>1. SUFFICES ASSUME T # {} PROVE FALSE
    OBVIOUS
  <1>2. PICK x \in T : \A y \in T : x <= y
    BY <1>1, LeastElement
  <1>3. x # 0 /\ x - 1 \in Nat /\ x - 1 < x /\ x - 1 \notin T
    BY <1>2
  <1> QED BY <1>3

(* Runs is the function its recursion describes, and the only one: whoever  *)
(* takes the same steps from the same state stands where it stands.         *)
RunStart(d) == [ok |-> TRUE, d |-> d]

LEMMA RunsIs ==
    ASSUME NEW d, NEW ops, Len(ops) \in Nat
    PROVE  /\ DOMAIN Runs(d, ops) = 0..Len(ops)
           /\ Runs(d, ops)[0] = RunStart(d)
           /\ \A n \in 1..Len(ops) : Runs(d, ops)[n] = Then(Runs(d, ops)[n - 1], ops[n])
  <1> DEFINE IsRun(f, n) ==
                 f = [k \in 0..n |-> IF k = 0 THEN RunStart(d) ELSE Then(f[k - 1], ops[k])]
             S == {n \in Nat : \E f : IsRun(f, n)}
  <1>1. 0 \in S
    <2> DEFINE f == [k \in 0..0 |-> RunStart(d)]
    <2>1. IsRun(f, 0)
      OBVIOUS
    <2> QED BY <2>1
  <1>2. ASSUME NEW n \in Nat, n \in S PROVE n + 1 \in S
    <2>1. PICK f : IsRun(f, n)
      BY <1>2
    <2> DEFINE g == [k \in 0..(n + 1) |-> IF k = n + 1 THEN Then(f[n], ops[n + 1]) ELSE f[k]]
    <2>2. \A k \in 0..n : f[k] = IF k = 0 THEN RunStart(d) ELSE Then(f[k - 1], ops[k])
      BY <2>1
    <2>3. ASSUME NEW k \in 0..(n + 1)
          PROVE  g[k] = IF k = 0 THEN RunStart(d) ELSE Then(g[k - 1], ops[k])
      <3>1. CASE k = 0
        BY <2>2, <3>1
      <3>2. CASE k \in 1..n
        BY <2>2, <3>2
      <3>3. CASE k = n + 1
        BY <3>3
      <3> QED BY <3>1, <3>2, <3>3
    <2> HIDE DEF g
    <2>4. g = [k \in 0..(n + 1) |-> g[k]]
      BY DEF g
    <2>5. IsRun(g, n + 1)
      BY <2>3, <2>4
    <2> QED BY <2>5
  <1> HIDE DEF S
  <1>3. Nat \subseteq S
    BY <1>1, <1>2, SetInduction
  <1>4. \E f : IsRun(f, Len(ops))
    BY <1>3 DEF S
  <1>5. Runs(d, ops) = CHOOSE f : IsRun(f, Len(ops))
    BY DEF Runs, RunStart
  <1>6. IsRun(Runs(d, ops), Len(ops))
    BY <1>4, <1>5
  <1> QED BY <1>6

LEMMA RunsAre ==
    ASSUME NEW d, NEW ops, NEW n \in Nat, Len(ops) \in Nat, n <= Len(ops), NEW f,
           f[0] = RunStart(d), \A k \in 1..n : f[k] = Then(f[k - 1], ops[k])
    PROVE  \A k \in 0..n : Runs(d, ops)[k] = f[k]
  <1> DEFINE S == {k \in Nat : k <= n => Runs(d, ops)[k] = f[k]}
  <1>1. 0 \in S
    BY RunsIs
  <1>2. ASSUME NEW k \in Nat, k \in S PROVE k + 1 \in S
    <2>1. SUFFICES ASSUME k + 1 <= n PROVE Runs(d, ops)[k + 1] = f[k + 1]
      OBVIOUS
    <2>2. Runs(d, ops)[k + 1] = Then(Runs(d, ops)[(k + 1) - 1], ops[k + 1])
      BY <2>1, RunsIs
    <2>3. f[k + 1] = Then(f[(k + 1) - 1], ops[k + 1])
      BY <2>1
    <2>4. Runs(d, ops)[k] = f[k] /\ (k + 1) - 1 = k
      BY <1>2, <2>1
    <2> QED BY <2>2, <2>3, <2>4
  <1> HIDE DEF S
  <1>3. Nat \subseteq S
    BY <1>1, <1>2, SetInduction
  <1> QED BY <1>3 DEF S

(* The first operations of two sequences, if they are the same, run alike.  *)
LEMMA SamePrefix ==
    ASSUME NEW d, NEW ops, NEW t, NEW n \in Nat, Len(ops) \in Nat, Len(t) \in Nat,
           n <= Len(ops), n <= Len(t), \A k \in 1..n : ops[k] = t[k]
    PROVE  \A k \in 0..n : Runs(d, t)[k] = Runs(d, ops)[k]
  <1> DEFINE f == Runs(d, ops)
  <1>1. f[0] = RunStart(d)
    BY RunsIs
  <1>2. \A k \in 1..n : f[k] = Then(f[k - 1], t[k])
    BY RunsIs
  <1> HIDE DEF f
  <1>3. \A k \in 0..n : Runs(d, t)[k] = f[k]
    BY <1>1, <1>2, RunsAre
  <1> QED BY <1>3 DEF f

(* A finite set's elements in a row, none of them twice.                    *)
LEMMA InARow ==
    ASSUME NEW S, IsFiniteSet(S)
    PROVE  SetToSeq(S) \in Seq(S) /\ IsInjective(SetToSeq(S))
  <1>1. Cardinality(S) \in Nat /\ Bijection(1..Cardinality(S), S) # {}
    BY FS_CardinalityType DEF ExistsBijection
  <1>2. \E f \in [1..Cardinality(S) -> S] : IsInjective(f)
    BY <1>1 DEF Bijection, Injection
  <1>3. SetToSeq(S) \in [1..Cardinality(S) -> S] /\ IsInjective(SetToSeq(S))
    BY <1>2 DEF SetToSeq
  <1> QED BY <1>1, <1>3

(* Going through a sequence, one stops at its end or at the first element   *)
(* that is not in B.                                                        *)
LEMMA FirstRefused ==
    ASSUME NEW S, NEW s \in Seq(S), NEW B
    PROVE  \E n \in 0..Len(s) : (\A i \in 1..n : s[i] \in B) /\ (n = Len(s) \/ s[n + 1] \notin B)
  <1> DEFINE T == {i \in 1..Len(s) : s[i] \notin B}
  <1>1. CASE T = {}
    <2>1. \A i \in 1..Len(s) : s[i] \in B
      BY <1>1
    <2> QED BY <2>1
  <1>2. CASE T # {}
    <2>1. T \in SUBSET Nat
      OBVIOUS
    <2> HIDE DEF T
    <2>2. PICK x \in T : \A y \in T : x <= y
      BY <1>2, <2>1, LeastElement
    <2>3. x \in 1..Len(s) /\ s[x] \notin B
      BY <2>2 DEF T
    <2>4. ASSUME NEW i \in 1..(x - 1) PROVE s[i] \in B
      BY <2>2, <2>3 DEF T
    <2>5. x - 1 \in 0..Len(s) /\ (x - 1) + 1 = x
      BY <2>3
    <2> QED BY <2>3, <2>4, <2>5
  <1> QED BY <1>1, <1>2

(* What the removal of all keys and of all endpoints removes: a row of      *)
(* keys or endpoints that may be removed, none of them twice.               *)
LEMMA PartInARow ==
    ASSUME NEW S, NEW s \in Seq(S), IsInjective(s), NEW n \in 0..Len(s)
    PROVE  SubSeq(s, 1, n) \in Seq(S) /\ IsInjective(SubSeq(s, 1, n))
           /\ Len(SubSeq(s, 1, n)) = n /\ \A i \in 1..n : SubSeq(s, 1, n)[i] = s[i]
  BY DEF IsInjective

LEMMA AllKeys ==
    ASSUME IsFiniteSet(old.keys), NEW keys, keys = UpTo(SetToSeq(old.keys), RemovableKey)
    PROVE  /\ keys \in Seq(old.keys)
           /\ IsInjective(keys)
           /\ \A i \in 1..Len(keys) : RemovableKey(keys[i])
  <1> DEFINE s == SetToSeq(old.keys)
             B == {k \in old.keys : RemovableKey(k)}
             Stops(n) == (\A i \in 1..n : RemovableKey(s[i]))
                         /\ (n = Len(s) \/ ~ RemovableKey(s[n + 1]))
  <1>1. s \in Seq(old.keys) /\ IsInjective(s)
    BY InARow
  <1>2. \E n \in 0..Len(s) : Stops(n)
    <2> HIDE DEF s
    <2>1. PICK n \in 0..Len(s) :
              (\A i \in 1..n : s[i] \in B) /\ (n = Len(s) \/ s[n + 1] \notin B)
      BY <1>1, FirstRefused
    <2>2. n = Len(s) \/ ~ RemovableKey(s[n + 1])
      BY <1>1, <2>1
    <2> QED BY <2>1, <2>2
  <1>3. keys = SubSeq(s, 1, CHOOSE n \in 0..Len(s) : Stops(n))
    BY DEF UpTo
  <1> HIDE DEF s
  <1>4. PICK n \in 0..Len(s) : Stops(n) /\ keys = SubSeq(s, 1, n)
    BY <1>2, <1>3
  <1>5. /\ SubSeq(s, 1, n) \in Seq(old.keys) /\ IsInjective(SubSeq(s, 1, n))
        /\ Len(SubSeq(s, 1, n)) = n /\ \A i \in 1..n : SubSeq(s, 1, n)[i] = s[i]
    BY <1>1, PartInARow
  <1> QED BY <1>4, <1>5

LEMMA AllEndpoints ==
    ASSUME IsFiniteSet(old.services), NEW endpoints,
           endpoints = UpTo(SetToSeq(old.services), RemovableEndpoint)
    PROVE  /\ endpoints \in Seq(old.services)
           /\ IsInjective(endpoints)
           /\ \A i \in 1..Len(endpoints) : RemovableEndpoint(endpoints[i])
  <1> DEFINE s == SetToSeq(old.services)
             B == {e \in old.services : RemovableEndpoint(e)}
             Stops(n) == (\A i \in 1..n : RemovableEndpoint(s[i]))
                         /\ (n = Len(s) \/ ~ RemovableEndpoint(s[n + 1]))
  <1>1. s \in Seq(old.services) /\ IsInjective(s)
    BY InARow
  <1>2. \E n \in 0..Len(s) : Stops(n)
    <2> HIDE DEF s
    <2>1. PICK n \in 0..Len(s) :
              (\A i \in 1..n : s[i] \in B) /\ (n = Len(s) \/ s[n + 1] \notin B)
      BY <1>1, FirstRefused
    <2>2. n = Len(s) \/ ~ RemovableEndpoint(s[n + 1])
      BY <1>1, <2>1
    <2> QED BY <2>1, <2>2
  <1>3. endpoints = SubSeq(s, 1, CHOOSE n \in 0..Len(s) : Stops(n))
    BY DEF UpTo
  <1> HIDE DEF s
  <1>4. PICK n \in 0..Len(s) : Stops(n) /\ endpoints = SubSeq(s, 1, n)
    BY <1>2, <1>3
  <1>5. /\ SubSeq(s, 1, n) \in Seq(old.services) /\ IsInjective(SubSeq(s, 1, n))
        /\ Len(SubSeq(s, 1, n)) = n /\ \A i \in 1..n : SubSeq(s, 1, n)[i] = s[i]
    BY <1>1, PartInARow
  <1> QED BY <1>4, <1>5

(* An operation that has left its trace on a DID: repeated, it fails or     *)
(* changes nothing.                                                         *)
Applied(d, op) ==
    /\ op.kind = "setAuthenticationKey" => d.authentication = op.arg
    /\ op.kind \in {"setAttestationKey", "removeAttestationKey"} => d.assertion = op.arg
    /\ op.kind \in {"setDelegationKey", "removeDelegationKey"} => d.delegation = op.arg
    /\ op.kind = "addKeyAgreementKey" => op.arg \in d.keys
    /\ op.kind = "removeKeyAgreementKey" => op.arg \notin d.keys
    /\ op.kind = "addServiceEndpoint" => op.arg \in d.services
    /\ op.kind = "removeServiceEndpoint" => op.arg \notin d.services

LEMMA AppliedTwice ==
    ASSUME NEW d \in Details, NEW op \in Operation, Applied(d, op), Dispatch(d, op).ok
    PROVE  Dispatch(d, op) = [ok |-> TRUE, d |-> d]
  BY DEF Details, Operation, Applied, Dispatch

(* From the DID d the operations all succeed, each leaves its trace for     *)
(* those that follow, and in the end they have made e of it.                *)
Leads(d, ops, e) ==
    /\ ops \in Seq(Operation)
    /\ \A n \in 0..Len(ops) :
        /\ Runs(d, ops)[n] \in {[ok |-> TRUE, d |-> x] : x \in Details}
        /\ \A i \in 1..n : Applied(Runs(d, ops)[n].d, ops[i])
    /\ Runs(d, ops)[Len(ops)] = [ok |-> TRUE, d |-> e]

(* Each operation takes one of the DIDs g to the next and leaves its trace, *)
(* and the traces of those before it, b included, remain.                   *)
Continues(g, b, ops) ==
    \A k \in 1..Len(ops) :
        /\ g[k] \in Details
        /\ Dispatch(g[k - 1], ops[k]) = [ok |-> TRUE, d |-> g[k]]
        /\ \A i \in 1..Len(b) : Applied(g[k], b[i])
        /\ \A i \in 1..k : Applied(g[k], ops[i])

LEMMA LeadsOn ==
    ASSUME NEW d, NEW b, NEW g, Leads(d, b, g[0]), NEW ops \in Seq(Operation),
           Continues(g, b, ops)
    PROVE  Leads(d, b \o ops, g[Len(ops)])
  <1> DEFINE more == b \o ops
             N == Len(b)
             St(x) == [ok |-> TRUE, d |-> x]
             f == [n \in 0..(N + Len(ops)) |-> IF n <= N THEN Runs(d, b)[n] ELSE St(g[n - N])]
  <1>1. /\ b \in Seq(Operation) /\ more \in Seq(Operation) /\ N \in Nat /\ Len(ops) \in Nat
        /\ Len(more) = N + Len(ops)
        /\ \A i \in 1..N : more[i] = b[i]
        /\ \A i \in 1..Len(ops) : more[N + i] = ops[i]
    BY DEF Leads
  <1>2. Runs(d, b)[N] = St(g[0])
    BY DEF Leads
  <1> HIDE DEF St, N
  <1>3. /\ \A n \in 0..N : f[n] = Runs(d, b)[n]
        /\ \A k \in 0..Len(ops) : f[N + k] = St(g[k])
    BY <1>1, <1>2
  <1> HIDE DEF f, more
  <1>4. f[0] = RunStart(d)
    BY <1>1, <1>3, RunsIs DEF N
  <1>11. \A n \in 1..Len(more) :
           \/ n \in 1..N /\ n - 1 \in 0..N /\ n \in 0..N
           \/ \E k \in 1..Len(ops) : n = N + k /\ n - 1 = N + (k - 1) /\ k \in 0..Len(ops)
                                     /\ k - 1 \in 0..Len(ops)
    <2>1. ASSUME NEW n \in 1..Len(more), ~ (n <= N)
          PROVE  \E k \in 1..Len(ops) : n = N + k /\ n - 1 = N + (k - 1) /\ k \in 0..Len(ops)
                                         /\ k - 1 \in 0..Len(ops)
      <3> DEFINE k == n - N
      <3>1. /\ k \in 1..Len(ops) /\ n = N + k /\ n - 1 = N + (k - 1)
            /\ k \in 0..Len(ops) /\ k - 1 \in 0..Len(ops)
        BY <1>1, <2>1
      <3> HIDE DEF k
      <3> QED BY <3>1
    <2> QED BY <1>1, <2>1
  <1>5. ASSUME NEW n \in 1..Len(more) PROVE f[n] = Then(f[n - 1], more[n])
    <2>1. CASE n \in 1..N /\ n - 1 \in 0..N /\ n \in 0..N
      <3>1. Runs(d, b)[n] = Then(Runs(d, b)[n - 1], b[n])
        BY <1>1, <2>1, RunsIs DEF N
      <3> QED BY <1>1, <1>3, <2>1, <3>1
    <2>2. ASSUME NEW k \in 1..Len(ops), n = N + k, n - 1 = N + (k - 1), k \in 0..Len(ops),
                 k - 1 \in 0..Len(ops)
          PROVE  f[n] = Then(f[n - 1], more[n])
      <3>1. f[n - 1] = St(g[k - 1]) /\ f[n] = St(g[k]) /\ more[n] = ops[k]
        BY <1>1, <1>3, <2>2
      <3>2. Dispatch(g[k - 1], ops[k]) = St(g[k])
        BY DEF Continues, St
      <3> QED BY <3>1, <3>2 DEF Then, St
    <2> QED BY <1>11, <2>1, <2>2
  <1>6. \A n \in 0..Len(more) : Runs(d, more)[n] = f[n]
    <2>1. Len(more) \in Nat
      BY <1>1
    <2> QED BY <1>4, <1>5, <2>1, RunsAre
  <1>12. ASSUME NEW n \in 0..N
        PROVE  /\ f[n] \in {[ok |-> TRUE, d |-> x] : x \in Details}
               /\ \A i \in 1..n : Applied(f[n].d, more[i])
    <2>1. /\ Runs(d, b)[n] \in {[ok |-> TRUE, d |-> x] : x \in Details}
          /\ \A i \in 1..n : Applied(Runs(d, b)[n].d, b[i])
      BY DEF Leads, N
    <2>2. \A i \in 1..n : more[i] = b[i]
      BY <1>1
    <2> QED BY <1>3, <2>1, <2>2
  <1>7. ASSUME NEW n \in 0..Len(more)
        PROVE  /\ f[n] \in {[ok |-> TRUE, d |-> x] : x \in Details}
               /\ \A i \in 1..n : Applied(f[n].d, more[i])
    <2>2. ASSUME NEW k \in 1..Len(ops), n = N + k, k \in 0..Len(ops)
          PROVE  /\ f[n] \in {[ok |-> TRUE, d |-> x] : x \in Details}
                 /\ \A i \in 1..n : Applied(f[n].d, more[i])
      <3>1. f[n] = St(g[k])
        BY <1>3, <2>2
      <3>2. /\ g[k] \in Details
            /\ \A i \in 1..N : Applied(g[k], b[i])
            /\ \A i \in 1..k : Applied(g[k], ops[i])
        BY DEF Continues, N
      <3>3. f[n] \in {[ok |-> TRUE, d |-> x] : x \in Details} /\ f[n].d = g[k]
        <4>1. f[n] = [ok |-> TRUE, d |-> g[k]] /\ g[k] \in Details
          BY <3>1, <3>2 DEF St
        <4>2. f[n].d = g[k]
          BY <4>1
        <4>3. \A x \in Details : [ok |-> TRUE, d |-> x] \in {[ok |-> TRUE, d |-> y] : y \in Details}
          OBVIOUS
        <4> QED BY <4>1, <4>2, <4>3
      <3>4. ASSUME NEW i \in 1..n PROVE Applied(g[k], more[i])
        <4>1. CASE i \in 1..N
          <5>1. more[i] = b[i]
            BY <1>1, <4>1
          <5> QED BY <3>2, <4>1, <5>1
        <4>2. ASSUME NEW j \in 1..k, i = N + j PROVE Applied(g[k], more[i])
          <5>1. more[i] = ops[j]
            BY <1>1, <4>2
          <5> QED BY <3>2, <4>2, <5>1
        <4>3. i \in 1..N \/ \E j \in 1..k : i = N + j
          <5>1. ASSUME ~ (i <= N) PROVE i - N \in 1..k /\ i = N + (i - N)
            BY <1>1, <2>2, <5>1
          <5> QED BY <1>1, <2>2, <5>1
        <4> QED BY <4>1, <4>2, <4>3
      <3> QED BY <3>3, <3>4
    <2>3. n \in 0..N \/ \E k \in 1..Len(ops) : n = N + k /\ k \in 0..Len(ops)
      BY <1>1, <1>11
    <2> QED BY <1>12, <2>2, <2>3
  <1>8. Runs(d, more)[Len(more)] = St(g[Len(ops)])
    <2>1. f[N + Len(ops)] = St(g[Len(ops)]) /\ N + Len(ops) \in 0..Len(more)
      BY <1>1, <1>3
    <2> QED BY <1>1, <1>6, <2>1
  <1> QED BY <1>1, <1>6, <1>7, <1>8 DEF Leads, more, St

-----------------------------------------------------------------------------
(* What an operation of the batch has left in the marks.                    *)
Noted(op) ==
    /\ op.kind = "setAuthenticationKey" => newAuthenticationKey = op.arg
    /\ op.kind = "setAttestationKey" => newAssertionKey = Update(op.arg)
    /\ op.kind = "removeAttestationKey" => newAssertionKey = Delete
    /\ op.kind = "setDelegationKey" => newDelegationKey = Update(op.arg)
    /\ op.kind = "removeDelegationKey" => newDelegationKey = Delete
    /\ op.kind = "addKeyAgreementKey" => op.arg \in newKeyAgreementKeys
    /\ op.kind = "removeKeyAgreementKey" => op.arg \in keyAgreementKeysToDelete
    /\ op.kind = "addServiceEndpoint" => op.arg \in newServiceEndpoints
    /\ op.kind = "removeServiceEndpoint" => op.arg \in serviceEndpointsToDelete

MarksInv ==
    /\ MarksOK
    /\ old \in Details /\ IsFiniteSet(old.keys) /\ IsFiniteSet(old.services)
    /\ newAuthenticationKey \in VerificationKey \union {NoKey}
    /\ keyAgreementKeysToDelete \subseteq old.keys
    /\ serviceEndpointsToDelete \subseteq old.services
    /\ newKeyAgreementKeys \intersect old.keys = {}
    /\ newServiceEndpoints \intersect old.services = {}

(* The marks bear the trace of every operation, and following the batch     *)
(* from the DID the builder started with leads to the marked DID.           *)
BatchInv ==
    /\ MarksInv
    /\ batch \in Seq(Operation)
    /\ \A i \in 1..Len(batch) : Noted(batch[i])
    /\ Leads(old, batch, Marked)

LEMMA MarkedTyped == ASSUME MarksInv' PROVE Marked' \in Details
  BY DEF MarksInv, MarksOK, KeyAction, Marked, Details, Apply, Ignore, Delete, Update

LEMMA NotedIsApplied ==
    ASSUME MarksInv', NEW op \in Operation, Noted(op)'
    PROVE  Applied(Marked', op)
  <1>1. CASE op.kind \in {"setAuthenticationKey", "setAttestationKey", "removeAttestationKey",
                          "setDelegationKey", "removeDelegationKey"}
    BY <1>1, KeyAssumption DEF MarksInv, Noted, Applied, Marked, Apply, Update, Delete, Operation
  <1>2. CASE op.kind \in {"addKeyAgreementKey", "removeKeyAgreementKey", "addServiceEndpoint",
                          "removeServiceEndpoint"}
    BY <1>2 DEF MarksInv, Noted, Applied, Marked, Operation
  <1> QED BY <1>1, <1>2 DEF Operation

(* The batch loses nothing.                                                 *)
Grows == \E ops \in Seq(Operation) : batch' = batch \o ops

(* More operations, each of them noted.                                     *)
LEMMA MoreOps ==
    ASSUME BatchInv, MarksInv', old' = old, NEW ops \in Seq(Operation), batch' = batch \o ops,
           \A o \in Operation : Noted(o) => Noted(o)',
           \A i \in 1..Len(ops) : Noted(ops[i])',
           NEW g, g[0] = Marked, g[Len(ops)] = Marked', Continues(g, batch, ops)
    PROVE  BatchInv' /\ Grows
  <1>1. batch \in Seq(Operation) /\ \A i \in 1..Len(batch) : Noted(batch[i])
    BY DEF BatchInv
  <1>2. /\ batch' \in Seq(Operation) /\ Len(batch') = Len(batch) + Len(ops)
        /\ Len(batch) \in Nat /\ Len(ops) \in Nat
        /\ \A i \in 1..Len(batch) : batch'[i] = batch[i]
        /\ \A i \in 1..Len(ops) : batch'[Len(batch) + i] = ops[i]
    BY <1>1
  <1>3. Leads(old, batch \o ops, g[Len(ops)])
    BY LeadsOn DEF BatchInv
  <1>4. Leads(old, batch, Marked)'
    BY <1>3
  <1>5. ASSUME NEW i \in 1..Len(batch') PROVE Noted(batch[i])'
    <2>1. CASE i \in 1..Len(batch)
      <3>1. PICK o \in Operation : o = batch[i] /\ Noted(o)
        BY <1>1, <2>1
      <3>2. Noted(o)' /\ batch'[i] = o
        BY <1>2, <2>1, <3>1
      <3> QED BY <3>2 DEF Noted
    <2>2. ASSUME NEW j \in 1..Len(ops), i = Len(batch) + j PROVE Noted(batch[i])'
      <3>1. batch'[i] = ops[j] /\ Noted(ops[j])'
        BY <1>2, <2>2
      <3> QED BY <3>1 DEF Noted
    <2>3. i \in 1..Len(batch) \/ \E j \in 1..Len(ops) : i = Len(batch) + j
      <3>1. ASSUME ~ (i <= Len(batch))
            PROVE  i - Len(batch) \in 1..Len(ops) /\ i = Len(batch) + (i - Len(batch))
        BY <1>2, <3>1
      <3> QED BY <1>2, <3>1
    <2> QED BY <2>1, <2>2, <2>3
  <1> QED BY <1>2, <1>4, <1>5 DEF BatchInv, Grows

LEMMA OneMore ==
    ASSUME BatchInv, MarksInv', old' = old, NEW op \in Operation, batch' = batch \o <<op>>,
           \A o \in Operation : Noted(o) => Noted(o)', Noted(op)',
           Dispatch(Marked, op) = [ok |-> TRUE, d |-> Marked']
    PROVE  BatchInv' /\ Grows
  <1> DEFINE ops == <<op>>
             g == [k \in 0..1 |-> IF k = 0 THEN Marked ELSE Marked']
  <1>1. /\ ops \in Seq(Operation) /\ Len(ops) = 1 /\ ops[1] = op
        /\ g[0] = Marked /\ g[1] = Marked' /\ g[1 - 1] = Marked
    OBVIOUS
  <1>2. \A i \in 1..Len(ops) : i = 1 /\ Noted(ops[i])'
    OBVIOUS
  <1> HIDE DEF g, ops
  <1>3. /\ \A i \in 1..Len(batch) : batch[i] \in Operation /\ Noted(batch[i])
        /\ \A o \in Operation : Noted(o)' => Applied(Marked', o)
    BY NotedIsApplied DEF BatchInv
  <1>4. Continues(g, batch, ops)
    <2> SUFFICES ASSUME NEW k \in 1..Len(ops)
                 PROVE  /\ g[k] \in Details
                        /\ Dispatch(g[k - 1], ops[k]) = [ok |-> TRUE, d |-> g[k]]
                        /\ \A i \in 1..Len(batch) : Applied(g[k], batch[i])
                        /\ \A i \in 1..k : Applied(g[k], ops[i])
      BY DEF Continues
    <2>1. k = 1 /\ g[k] = Marked' /\ g[k - 1] = Marked /\ ops[k] = op /\ \A i \in 1..k : ops[i] = op
      BY <1>1
    <2>2. /\ \A i \in 1..Len(batch) : Applied(g[k], batch[i])
          /\ \A i \in 1..k : Applied(g[k], ops[i])
      BY <1>3, <2>1
    <2> QED BY <2>1, <2>2, MarkedTyped
  <1>5. batch' = batch \o ops
    BY DEF ops
  <1> QED BY <1>1, <1>2, <1>4, <1>5, MoreOps

(* What removing a key of a DID, or of several, changes.                    *)
Keyed(d, keys) == [d EXCEPT !.keys = keys]
Served(d, services) == [d EXCEPT !.services = services]

LEMMA WithKeys ==
    ASSUME NEW d \in Details, NEW keys \in SUBSET d.keys
    PROVE  /\ Keyed(d, keys) \in Details
           /\ \A key \in keys :
                 Dispatch(Keyed(d, keys), Op("removeKeyAgreementKey", key))
                   = [ok |-> TRUE, d |-> Keyed(d, keys \ {key})]
           /\ \A key : key \notin keys =>
                 Applied(Keyed(d, keys), Op("removeKeyAgreementKey", key))
           /\ \A op \in Operation :
                 Applied(d, op) /\ (op.kind = "addKeyAgreementKey" => op.arg \in keys)
                   => Applied(Keyed(d, keys), op)
  <1> DEFINE e == Keyed(d, keys)
  <1>1. e \in Details /\ e.keys = keys /\ e.authentication = d.authentication
        /\ e.assertion = d.assertion /\ e.delegation = d.delegation /\ e.services = d.services
    BY DEF Details, Keyed
  <1>2. \A key : Keyed(e, keys \ {key}) = Keyed(d, keys \ {key})
    BY DEF Details, Keyed
  <1> HIDE DEF e
  <1>3. ASSUME NEW key \in keys
        PROVE  Dispatch(e, Op("removeKeyAgreementKey", key))
                 = [ok |-> TRUE, d |-> Keyed(e, keys \ {key})]
    BY <1>1 DEF Dispatch, Op, Keyed
  <1>4. \A key : key \notin keys => Applied(e, Op("removeKeyAgreementKey", key))
    BY <1>1 DEF Applied, Op
  <1>5. \A op \in Operation :
            Applied(d, op) /\ (op.kind = "addKeyAgreementKey" => op.arg \in keys)
              => Applied(e, op)
    BY <1>1 DEF Applied
  <1> QED BY <1>1, <1>2, <1>3, <1>4, <1>5 DEF e

LEMMA WithServices ==
    ASSUME NEW d \in Details, NEW services \in SUBSET d.services
    PROVE  /\ Served(d, services) \in Details
           /\ \A endpoint \in services :
                 Dispatch(Served(d, services), Op("removeServiceEndpoint", endpoint))
                   = [ok |-> TRUE, d |-> Served(d, services \ {endpoint})]
           /\ \A endpoint : endpoint \notin services =>
                 Applied(Served(d, services), Op("removeServiceEndpoint", endpoint))
           /\ \A op \in Operation :
                 Applied(d, op) /\ (op.kind = "addServiceEndpoint" => op.arg \in services)
                   => Applied(Served(d, services), op)
  <1> DEFINE e == Served(d, services)
  <1>1. e \in Details /\ e.services = services /\ e.authentication = d.authentication
        /\ e.assertion = d.assertion /\ e.delegation = d.delegation /\ e.keys = d.keys
    BY DEF Details, Served
  <1>2. \A endpoint : Served(e, services \ {endpoint})
                         = Served(d, services \ {endpoint})
    BY DEF Details, Served
  <1> HIDE DEF e
  <1>3. ASSUME NEW endpoint \in services
        PROVE  Dispatch(e, Op("removeServiceEndpoint", endpoint))
                 = [ok |-> TRUE, d |-> Served(e, services \ {endpoint})]
    BY <1>1 DEF Dispatch, Op, Served
  <1>4. \A endpoint : endpoint \notin services => Applied(e, Op("removeServiceEndpoint", endpoint))
    BY <1>1 DEF Applied, Op
  <1>5. \A op \in Operation :
            Applied(d, op) /\ (op.kind = "addServiceEndpoint" => op.arg \in services)
              => Applied(e, op)
    BY <1>1 DEF Applied
  <1> QED BY <1>1, <1>2, <1>3, <1>4, <1>5 DEF e

LEMMA SameDetails ==
    ASSUME NEW d \in Details, NEW e \in Details, e.authentication = d.authentication,
           e.assertion = d.assertion, e.delegation = d.delegation
    PROVE  /\ e.services = d.services => e = Keyed(d, e.keys)
           /\ e.keys = d.keys => e = Served(d, e.services)
  BY DEF Details, Keyed, Served

(* A row without the elements of another, one after the other.              *)
Rest(S, s, k) == S \ {s[i] : i \in 1..k}

LEMMA RestOf ==
    ASSUME NEW S, NEW s \in Seq(S), IsInjective(s)
    PROVE  /\ Rest(S, s, 0) = S /\ Rest(S, s, Len(s)) = S \ ToSet(s)
           /\ \A k \in 1..Len(s) :
                /\ s[k] \in Rest(S, s, k - 1)
                /\ Rest(S, s, k) = Rest(S, s, k - 1) \ {s[k]}
                /\ \A i \in 1..k : s[i] \notin Rest(S, s, k)
  <1>1. DOMAIN s = 1..Len(s) /\ Len(s) \in Nat
    OBVIOUS
  <1>2. Rest(S, s, 0) = S /\ Rest(S, s, Len(s)) = S \ ToSet(s)
    BY <1>1 DEF Rest, ToSet
  <1>3. ASSUME NEW k \in 1..Len(s)
        PROVE  /\ s[k] \in Rest(S, s, k - 1)
               /\ Rest(S, s, k) = Rest(S, s, k - 1) \ {s[k]}
               /\ \A i \in 1..k : s[i] \notin Rest(S, s, k)
    <2>1. \A i \in 1..(k - 1) : i \in 1..Len(s) /\ i # k
      OBVIOUS
    <2>2. s[k] \in Rest(S, s, k - 1)
      BY <1>1, <2>1 DEF Rest, IsInjective
    <2>3. \A i : i \in 1..k <=> i \in 1..(k - 1) \/ i = k
      OBVIOUS
    <2> QED BY <2>2, <2>3 DEF Rest
  <1> QED BY <1>2, <1>3

LEMMA BatchIsApplied ==
    ASSUME BatchInv
    PROVE  Marked \in Details /\ \A i \in 1..Len(batch) : Applied(Marked, batch[i])
  <1>1. Len(batch) \in 0..Len(batch)
    BY DEF BatchInv
  <1>2. /\ Runs(old, batch)[Len(batch)] \in {[ok |-> TRUE, d |-> x] : x \in Details}
        /\ \A i \in 1..Len(batch) : Applied(Runs(old, batch)[Len(batch)].d, batch[i])
    BY <1>1 DEF BatchInv, Leads
  <1>3. Runs(old, batch)[Len(batch)].d = Marked
    BY DEF BatchInv, Leads
  <1> QED BY <1>2, <1>3

(* The removal of a row of keys that may be removed, none of them twice.    *)
LEMMA RemoveKeysStep ==
    ASSUME BatchInv, NEW keys \in Seq(old.keys), IsInjective(keys),
           \A i \in 1..Len(keys) : RemovableKey(keys[i]), RemoveKeys(keys)
    PROVE  BatchInv' /\ Grows
  <1> DEFINE ops == [i \in DOMAIN keys |-> Op("removeKeyAgreementKey", keys[i])]
             K(k) == Rest(Marked.keys, keys, k)
             g == [k \in 0..Len(keys) |-> Keyed(Marked, K(k))]
  <1>1. /\ keyAgreementKeysToDelete' = keyAgreementKeysToDelete \union ToSet(keys)
        /\ batch' = batch \o ops
        /\ UNCHANGED <<marks, consumed, newAuthenticationKey, serviceEndpointsToDelete, old>>
    BY DEF RemoveKeys, Push
  <1>2. MarksInv'
    BY <1>1 DEF BatchInv, MarksInv, MarksOK, marks, ToSet
  <1>3. ops \in Seq(Operation) /\ Len(ops) = Len(keys) /\ DOMAIN keys = 1..Len(keys)
        /\ Len(keys) \in Nat
        /\ \A i \in 1..Len(keys) : ops[i] = Op("removeKeyAgreementKey", keys[i])
    BY DEF Op, Operation, BatchInv, MarksInv, Details
  <1>4. \A i \in 1..Len(batch) :
            batch[i] \in Operation /\ Noted(batch[i]) /\ Applied(Marked, batch[i])
    BY BatchIsApplied DEF BatchInv
  <1>5. Marked \in Details /\ Marked' = Keyed(Marked, Marked.keys \ ToSet(keys))
    <2>1. ToSet(keys) \intersect newKeyAgreementKeys = {}
      BY <1>3 DEF ToSet, RemovableKey
    <2>2. Marked'.keys = Marked.keys \ ToSet(keys)
      BY <1>1, <2>1 DEF Marked, marks
    <2>3. /\ Marked'.authentication = Marked.authentication /\ Marked'.assertion = Marked.assertion
          /\ Marked'.delegation = Marked.delegation /\ Marked'.services = Marked.services
      BY <1>1 DEF Marked, marks
    <2>4. Marked \in Details /\ Marked' \in Details
      BY <1>2, BatchIsApplied, MarkedTyped
    <2> QED BY <2>2, <2>3, <2>4, SameDetails
  <1>6. keys \in Seq(Marked.keys)
    <2>1. \A i \in 1..Len(keys) : keys[i] \in Marked.keys
      BY DEF RemovableKey, Marked
    <2> QED BY <2>1
  <1>7. \A k \in 0..Len(keys) : g[k] = Keyed(Marked, K(k)) /\ K(k) \subseteq Marked.keys
    BY DEF Rest
  <1>8. \A key \in newKeyAgreementKeys : \A k \in 0..Len(keys) : key \in K(k)
    BY <1>3 DEF RemovableKey, Marked, Rest
  <1> HIDE DEF g, ops
  <1>9. g[0] = Marked /\ g[Len(ops)] = Marked'
    <2>1. K(0) = Marked.keys /\ K(Len(keys)) = Marked.keys \ ToSet(keys)
      BY <1>6, RestOf
    <2>2. Marked = Keyed(Marked, Marked.keys)
      BY <1>5, SameDetails
    <2>3. g[0] = Keyed(Marked, K(0)) /\ g[Len(keys)] = Keyed(Marked, K(Len(keys)))
      <3>1. 0 \in 0..Len(keys) /\ Len(keys) \in 0..Len(keys)
        BY <1>3
      <3> QED BY <1>7, <3>1
    <2> QED BY <1>3, <1>5, <2>1, <2>2, <2>3
  <1>10. Continues(g, batch, ops)
    <2> SUFFICES ASSUME NEW k \in 1..Len(keys)
                 PROVE  /\ g[k] \in Details
                        /\ Dispatch(g[k - 1], ops[k]) = [ok |-> TRUE, d |-> g[k]]
                        /\ \A i \in 1..Len(batch) : Applied(g[k], batch[i])
                        /\ \A i \in 1..k : Applied(g[k], ops[i])
      BY <1>3 DEF Continues
    <2>1. k \in 0..Len(keys) /\ k - 1 \in 0..Len(keys) /\ \A i \in 1..k : i \in 1..Len(keys)
      OBVIOUS
    <2>2. /\ g[k] = Keyed(Marked, K(k)) /\ K(k) \in SUBSET Marked.keys
          /\ g[k - 1] = Keyed(Marked, K(k - 1)) /\ K(k - 1) \in SUBSET Marked.keys
          /\ \A i \in 1..k : ops[i] = Op("removeKeyAgreementKey", keys[i])
      BY <1>3, <1>7, <2>1
    <2>3. /\ keys[k] \in K(k - 1) /\ K(k) = K(k - 1) \ {keys[k]}
          /\ \A i \in 1..k : keys[i] \notin K(k)
      BY <1>6, RestOf
    <2>4. \A i \in 1..Len(batch) :
              batch[i].kind = "addKeyAgreementKey" => batch[i].arg \in K(k)
      BY <1>4, <1>8, <2>1 DEF Noted
    <2> HIDE DEF K
    <2>5. g[k] \in Details /\ \A i \in 1..k : Applied(g[k], ops[i])
      BY <1>5, <2>2, <2>3, WithKeys
    <2>6. Dispatch(g[k - 1], ops[k]) = [ok |-> TRUE, d |-> g[k]]
      <3>1. ops[k] = Op("removeKeyAgreementKey", keys[k])
        BY <2>2
      <3>2. Dispatch(Keyed(Marked, K(k - 1)), Op("removeKeyAgreementKey", keys[k]))
              = [ok |-> TRUE, d |-> Keyed(Marked, K(k - 1) \ {keys[k]})]
        BY <1>5, <2>2, <2>3, WithKeys
      <3> QED BY <2>2, <2>3, <3>1, <3>2
    <2>7. \A i \in 1..Len(batch) : Applied(g[k], batch[i])
      BY <1>4, <1>5, <2>2, <2>4, WithKeys
    <2> QED BY <2>5, <2>6, <2>7
  <1>11. \A o \in Operation : Noted(o) => Noted(o)'
    BY <1>1 DEF Noted, marks
  <1>12. \A i \in 1..Len(ops) : Noted(ops[i])'
    <2>1. \A i \in 1..Len(keys) : keys[i] \in keyAgreementKeysToDelete'
      BY <1>1, <1>3 DEF ToSet
    <2> SUFFICES ASSUME NEW i \in 1..Len(keys) PROVE Noted(ops[i])'
      BY <1>3
    <2>2. ops[i] = Op("removeKeyAgreementKey", keys[i])
      BY <1>3
    <2>3. ops[i].kind = "removeKeyAgreementKey" /\ ops[i].arg = keys[i]
      BY <2>2 DEF Op
    <2> QED BY <2>1, <2>3 DEF Noted
  <1> QED BY <1>1, <1>2, <1>3, <1>9, <1>10, <1>11, <1>12, MoreOps
(* The removal of a row of endpoints that may be removed, none of them twice. *)
LEMMA RemoveEndpointsStep ==
    ASSUME BatchInv, NEW endpoints \in Seq(old.services), IsInjective(endpoints),
           \A i \in 1..Len(endpoints) : RemovableEndpoint(endpoints[i]), RemoveEndpoints(endpoints)
    PROVE  BatchInv' /\ Grows
  <1> DEFINE ops == [i \in DOMAIN endpoints |-> Op("removeServiceEndpoint", endpoints[i])]
             E(k) == Rest(Marked.services, endpoints, k)
             g == [k \in 0..Len(endpoints) |-> Served(Marked, E(k))]
  <1>1. /\ serviceEndpointsToDelete' = serviceEndpointsToDelete \union ToSet(endpoints)
        /\ batch' = batch \o ops
        /\ UNCHANGED <<marks, consumed, newAuthenticationKey, keyAgreementKeysToDelete, old>>
    BY DEF RemoveEndpoints, Push
  <1>2. MarksInv'
    BY <1>1 DEF BatchInv, MarksInv, MarksOK, marks, ToSet
  <1>3. ops \in Seq(Operation) /\ Len(ops) = Len(endpoints) /\ DOMAIN endpoints = 1..Len(endpoints)
        /\ Len(endpoints) \in Nat
        /\ \A i \in 1..Len(endpoints) : ops[i] = Op("removeServiceEndpoint", endpoints[i])
    BY DEF Op, Operation, BatchInv, MarksInv, Details
  <1>4. \A i \in 1..Len(batch) :
            batch[i] \in Operation /\ Noted(batch[i]) /\ Applied(Marked, batch[i])
    BY BatchIsApplied DEF BatchInv
  <1>5. Marked \in Details /\ Marked' = Served(Marked, Marked.services \ ToSet(endpoints))
    <2>1. ToSet(endpoints) \intersect newServiceEndpoints = {}
      BY <1>3 DEF ToSet, RemovableEndpoint, BatchInv, MarksInv
    <2>2. Marked'.services = Marked.services \ ToSet(endpoints)
      BY <1>1, <2>1 DEF Marked, marks
    <2>3. /\ Marked'.authentication = Marked.authentication /\ Marked'.assertion = Marked.assertion
          /\ Marked'.delegation = Marked.delegation /\ Marked'.keys = Marked.keys
      BY <1>1 DEF Marked, marks
    <2>4. Marked \in Details /\ Marked' \in Details
      BY <1>2, BatchIsApplied, MarkedTyped
    <2> QED BY <2>2, <2>3, <2>4, SameDetails
  <1>6. endpoints \in Seq(Marked.services)
    <2>1. \A i \in 1..Len(endpoints) : endpoints[i] \in Marked.services
      BY DEF RemovableEndpoint, Marked
    <2> QED BY <2>1
  <1>7. \A k \in 0..Len(endpoints) : g[k] = Served(Marked, E(k)) /\ E(k) \subseteq Marked.services
    BY DEF Rest
  <1>8. \A endpoint \in newServiceEndpoints : \A k \in 0..Len(endpoints) : endpoint \in E(k)
    BY <1>3 DEF RemovableEndpoint, Marked, Rest, BatchInv, MarksInv
  <1> HIDE DEF g, ops
  <1>9. g[0] = Marked /\ g[Len(ops)] = Marked'
    <2>1. E(0) = Marked.services /\ E(Len(endpoints)) = Marked.services \ ToSet(endpoints)
      BY <1>6, RestOf
    <2>2. Marked = Served(Marked, Marked.services)
      BY <1>5, SameDetails
    <2>3. g[0] = Served(Marked, E(0)) /\ g[Len(endpoints)] = Served(Marked, E(Len(endpoints)))
      <3>1. 0 \in 0..Len(endpoints) /\ Len(endpoints) \in 0..Len(endpoints)
        BY <1>3
      <3> QED BY <1>7, <3>1
    <2> QED BY <1>3, <1>5, <2>1, <2>2, <2>3
  <1>10. Continues(g, batch, ops)
    <2> SUFFICES ASSUME NEW k \in 1..Len(endpoints)
                 PROVE  /\ g[k] \in Details
                        /\ Dispatch(g[k - 1], ops[k]) = [ok |-> TRUE, d |-> g[k]]
                        /\ \A i \in 1..Len(batch) : Applied(g[k], batch[i])
                        /\ \A i \in 1..k : Applied(g[k], ops[i])
      BY <1>3 DEF Continues
    <2>1. /\ k \in 0..Len(endpoints) /\ k - 1 \in 0..Len(endpoints)
          /\ \A i \in 1..k : i \in 1..Len(endpoints)
      OBVIOUS
    <2>2. /\ g[k] = Served(Marked, E(k)) /\ E(k) \in SUBSET Marked.services
          /\ g[k - 1] = Served(Marked, E(k - 1)) /\ E(k - 1) \in SUBSET Marked.services
          /\ \A i \in 1..k : ops[i] = Op("removeServiceEndpoint", endpoints[i])
      BY <1>3, <1>7, <2>1
    <2>3. /\ endpoints[k] \in E(k - 1) /\ E(k) = E(k - 1) \ {endpoints[k]}
          /\ \A i \in 1..k : endpoints[i] \notin E(k)
      BY <1>6, RestOf
    <2>4. \A i \in 1..Len(batch) :
              batch[i].kind = "addServiceEndpoint" => batch[i].arg \in E(k)
      BY <1>4, <1>8, <2>1 DEF Noted
    <2> HIDE DEF E
    <2>5. g[k] \in Details /\ \A i \in 1..k : Applied(g[k], ops[i])
      BY <1>5, <2>2, <2>3, WithServices
    <2>6. Dispatch(g[k - 1], ops[k]) = [ok |-> TRUE, d |-> g[k]]
      <3>1. ops[k] = Op("removeServiceEndpoint", endpoints[k])
        BY <2>2
      <3>2. Dispatch(Served(Marked, E(k - 1)), Op("removeServiceEndpoint", endpoints[k]))
              = [ok |-> TRUE, d |-> Served(Marked, E(k - 1) \ {endpoints[k]})]
        BY <1>5, <2>2, <2>3, WithServices
      <3> QED BY <2>2, <2>3, <3>1, <3>2
    <2>7. \A i \in 1..Len(batch) : Applied(g[k], batch[i])
      BY <1>4, <1>5, <2>2, <2>4, WithServices
    <2> QED BY <2>5, <2>6, <2>7
  <1>11. \A o \in Operation : Noted(o) => Noted(o)'
    BY <1>1 DEF Noted, marks
  <1>12. \A i \in 1..Len(ops) : Noted(ops[i])'
    <2>1. \A i \in 1..Len(endpoints) : endpoints[i] \in serviceEndpointsToDelete'
      BY <1>1, <1>3 DEF ToSet
    <2> SUFFICES ASSUME NEW i \in 1..Len(endpoints) PROVE Noted(ops[i])'
      BY <1>3
    <2>2. ops[i] = Op("removeServiceEndpoint", endpoints[i])
      BY <1>3
    <2>3. ops[i].kind = "removeServiceEndpoint" /\ ops[i].arg = endpoints[i]
      BY <2>2 DEF Op
    <2> QED BY <2>1, <2>3 DEF Noted
  <1> QED BY <1>1, <1>2, <1>3, <1>9, <1>10, <1>11, <1>12, MoreOps

LEMMA BatchInit == ASSUME Init PROVE BatchInv
  <1>1. MarksInv
    BY DEF Init, MarksInv, MarksOK, KeyAction, Ignore
  <1>2. batch = << >> /\ batch \in Seq(Operation) /\ Len(batch) = 0
    BY DEF Init
  <1>3. Marked = old
    BY DEF Init, Marked, Details, Apply, Ignore
  <1>4. Runs(old, batch)[0] = [ok |-> TRUE, d |-> old]
    BY <1>2, RunsIs DEF RunStart
  <1>5. Leads(old, batch, Marked)
    <2>1. old \in Details
      BY DEF Init
    <2>2. \A n \in 0..Len(batch) : n = 0 /\ 1..n = {}
      BY <1>2
    <2>3. Runs(old, batch)[0] \in {[ok |-> TRUE, d |-> x] : x \in Details}
      BY <1>4, <2>1
    <2> QED BY <1>2, <1>3, <1>4, <2>2, <2>3 DEF Leads
  <1> QED BY <1>1, <1>2, <1>5 DEF BatchInv

(* A DID that differs from another in one respect is Dispatch's result.     *)
LEMMA DispatchIs ==
    ASSUME NEW d \in Details, NEW e \in Details, NEW op \in Operation
    PROVE  /\ /\ op.kind = "setAuthenticationKey" /\ e.authentication = op.arg
              /\ e.assertion = d.assertion /\ e.delegation = d.delegation
              /\ e.keys = d.keys /\ e.services = d.services
              => Dispatch(d, op) = [ok |-> TRUE, d |-> e]
           /\ /\ \/ op.kind = "setAttestationKey"
                 \/ op.kind = "removeAttestationKey" /\ d.assertion # NoKey
              /\ e.assertion = op.arg
              /\ e.authentication = d.authentication /\ e.delegation = d.delegation
              /\ e.keys = d.keys /\ e.services = d.services
              => Dispatch(d, op) = [ok |-> TRUE, d |-> e]
           /\ /\ \/ op.kind = "setDelegationKey"
                 \/ op.kind = "removeDelegationKey" /\ d.delegation # NoKey
              /\ e.delegation = op.arg
              /\ e.authentication = d.authentication /\ e.assertion = d.assertion
              /\ e.keys = d.keys /\ e.services = d.services
              => Dispatch(d, op) = [ok |-> TRUE, d |-> e]
           /\ /\ op.kind = "addKeyAgreementKey" /\ op.arg \notin d.keys
              /\ e.keys = d.keys \union {op.arg}
              /\ e.authentication = d.authentication /\ e.assertion = d.assertion
              /\ e.delegation = d.delegation /\ e.services = d.services
              => Dispatch(d, op) = [ok |-> TRUE, d |-> e]
           /\ /\ op.kind = "addServiceEndpoint" /\ op.arg \notin d.services
              /\ e.services = d.services \union {op.arg}
              /\ e.authentication = d.authentication /\ e.assertion = d.assertion
              /\ e.delegation = d.delegation /\ e.keys = d.keys
              => Dispatch(d, op) = [ok |-> TRUE, d |-> e]
  <1>1. /\ op.kind = "removeAttestationKey" => op.arg = NoKey
        /\ op.kind = "removeDelegationKey" => op.arg = NoKey
    BY DEF Operation
  <1>2. ASSUME e.assertion = d.assertion, e.delegation = d.delegation, e.keys = d.keys,
               e.services = d.services
        PROVE  e = [d EXCEPT !.authentication = e.authentication]
    BY <1>2 DEF Details
  <1>3. ASSUME e.authentication = d.authentication, e.delegation = d.delegation,
               e.keys = d.keys, e.services = d.services
        PROVE  e = [d EXCEPT !.assertion = e.assertion]
    BY <1>3 DEF Details
  <1>4. ASSUME e.authentication = d.authentication, e.assertion = d.assertion,
               e.keys = d.keys, e.services = d.services
        PROVE  e = [d EXCEPT !.delegation = e.delegation]
    BY <1>4 DEF Details
  <1>5. ASSUME e.authentication = d.authentication, e.assertion = d.assertion,
               e.delegation = d.delegation
        PROVE  /\ e.services = d.services => e = [d EXCEPT !.keys = e.keys]
               /\ e.keys = d.keys => e = [d EXCEPT !.services = e.services]
    BY <1>5 DEF Details
  <1>6. ASSUME op.kind = "setAuthenticationKey", e.authentication = op.arg,
               e.assertion = d.assertion, e.delegation = d.delegation, e.keys = d.keys,
               e.services = d.services
        PROVE  Dispatch(d, op) = [ok |-> TRUE, d |-> e]
    BY <1>2, <1>6 DEF Dispatch
  <1>7. ASSUME \/ op.kind = "setAttestationKey"
               \/ op.kind = "removeAttestationKey" /\ d.assertion # NoKey,
               e.assertion = op.arg, e.authentication = d.authentication,
               e.delegation = d.delegation, e.keys = d.keys, e.services = d.services
        PROVE  Dispatch(d, op) = [ok |-> TRUE, d |-> e]
    BY <1>1, <1>3, <1>7 DEF Dispatch
  <1>8. ASSUME \/ op.kind = "setDelegationKey"
               \/ op.kind = "removeDelegationKey" /\ d.delegation # NoKey,
               e.delegation = op.arg, e.authentication = d.authentication,
               e.assertion = d.assertion, e.keys = d.keys, e.services = d.services
        PROVE  Dispatch(d, op) = [ok |-> TRUE, d |-> e]
    BY <1>1, <1>4, <1>8 DEF Dispatch
  <1>9. ASSUME op.kind = "addKeyAgreementKey", op.arg \notin d.keys,
               e.keys = d.keys \union {op.arg}, e.authentication = d.authentication,
               e.assertion = d.assertion, e.delegation = d.delegation, e.services = d.services
        PROVE  Dispatch(d, op) = [ok |-> TRUE, d |-> e]
    BY <1>5, <1>9 DEF Dispatch
  <1>10. ASSUME op.kind = "addServiceEndpoint", op.arg \notin d.services,
                e.services = d.services \union {op.arg}, e.authentication = d.authentication,
                e.assertion = d.assertion, e.delegation = d.delegation, e.keys = d.keys
         PROVE  Dispatch(d, op) = [ok |-> TRUE, d |-> e]
    BY <1>5, <1>10 DEF Dispatch
  <1> QED BY <1>6, <1>7, <1>8, <1>9, <1>10

LEMMA SetAuthenticationKeyStep ==
    ASSUME BatchInv, NEW key \in VerificationKey, SetAuthenticationKey(key) PROVE BatchInv' /\ Grows
  <1> DEFINE op == Op("setAuthenticationKey", key)
  <1>1. op \in Operation /\ op.kind = "setAuthenticationKey" /\ op.arg = key
    BY DEF Op, Operation
  <1>2. /\ newAuthenticationKey = NoKey /\ newAuthenticationKey' = key /\ batch' = batch \o <<op>>
        /\ UNCHANGED <<marks, consumed, toDelete, old>>
    BY DEF SetAuthenticationKey, Push
  <1>3. MarksInv'
    BY <1>2 DEF BatchInv, MarksInv, MarksOK, marks, toDelete
  <1> HIDE DEF op
  <1>4. Noted(op)' /\ \A o \in Operation : Noted(o) => Noted(o)'
    BY <1>1, <1>2, KeyAssumption DEF Noted, marks, toDelete, Operation
  <1>5. /\ Marked'.authentication = key /\ Marked'.assertion = Marked.assertion
        /\ Marked'.delegation = Marked.delegation /\ Marked'.keys = Marked.keys
        /\ Marked'.services = Marked.services
    BY <1>2, KeyAssumption DEF Marked, marks, toDelete
  <1>6. Dispatch(Marked, op) = [ok |-> TRUE, d |-> Marked']
    BY <1>1, <1>3, <1>5, DispatchIs, BatchIsApplied, MarkedTyped
  <1> QED BY <1>1, <1>2, <1>3, <1>4, <1>6, OneMore

LEMMA SetAttestationKeyStep ==
    ASSUME BatchInv, NEW key \in VerificationKey, SetAttestationKey(key) PROVE BatchInv' /\ Grows
  <1> DEFINE op == Op("setAttestationKey", key)
  <1>1. op \in Operation /\ op.kind = "setAttestationKey" /\ op.arg = key
    BY DEF Op, Operation
  <1>2. /\ newAssertionKey = Ignore /\ newAssertionKey' = Update(key) /\ batch' = batch \o <<op>>
        /\ UNCHANGED <<newKeyAgreementKeys, newServiceEndpoints, newDelegationKey, consumed,
                       newAuthenticationKey, toDelete, old>>
    BY DEF SetAttestationKey, MarkAttestationKey, Push, BatchInv, MarksInv, MarksOK, KeyAction,
       Delete, Update
  <1>3. MarksInv'
    BY <1>2 DEF BatchInv, MarksInv, MarksOK, toDelete, KeyAction
  <1> HIDE DEF op
  <1>4. Noted(op)' /\ \A o \in Operation : Noted(o) => Noted(o)'
    BY <1>1, <1>2 DEF Noted, toDelete, Operation, Ignore, Update, Delete
  <1>5. /\ Marked'.authentication = Marked.authentication /\ Marked'.assertion = key
        /\ Marked'.delegation = Marked.delegation /\ Marked'.keys = Marked.keys
        /\ Marked'.services = Marked.services
    BY <1>2 DEF Marked, toDelete, Apply, Update
  <1>6. Dispatch(Marked, op) = [ok |-> TRUE, d |-> Marked']
    BY <1>1, <1>3, <1>5, DispatchIs, BatchIsApplied, MarkedTyped
  <1> QED BY <1>1, <1>2, <1>3, <1>4, <1>6, OneMore

LEMMA SetDelegationKeyStep ==
    ASSUME BatchInv, NEW key \in VerificationKey, SetDelegationKey(key) PROVE BatchInv' /\ Grows
  <1> DEFINE op == Op("setDelegationKey", key)
  <1>1. op \in Operation /\ op.kind = "setDelegationKey" /\ op.arg = key
    BY DEF Op, Operation
  <1>2. /\ newDelegationKey = Ignore /\ newDelegationKey' = Update(key) /\ batch' = batch \o <<op>>
        /\ UNCHANGED <<newKeyAgreementKeys, newServiceEndpoints, newAssertionKey, consumed,
                       newAuthenticationKey, toDelete, old>>
    BY DEF SetDelegationKey, MarkDelegationKey, Push, BatchInv, MarksInv, MarksOK, KeyAction,
       Delete, Update
  <1>3. MarksInv'
    BY <1>2 DEF BatchInv, MarksInv, MarksOK, toDelete, KeyAction
  <1> HIDE DEF op
  <1>4. Noted(op)' /\ \A o \in Operation : Noted(o) => Noted(o)'
    BY <1>1, <1>2 DEF Noted, toDelete, Operation, Ignore, Update, Delete
  <1>5. /\ Marked'.authentication = Marked.authentication /\ Marked'.assertion = Marked.assertion
        /\ Marked'.delegation = key /\ Marked'.keys = Marked.keys
        /\ Marked'.services = Marked.services
    BY <1>2 DEF Marked, toDelete, Apply, Update
  <1>6. Dispatch(Marked, op) = [ok |-> TRUE, d |-> Marked']
    BY <1>1, <1>3, <1>5, DispatchIs, BatchIsApplied, MarkedTyped
  <1> QED BY <1>1, <1>2, <1>3, <1>4, <1>6, OneMore

LEMMA RemoveAttestationKeyStep ==
    ASSUME BatchInv, RemoveAttestationKey PROVE BatchInv' /\ Grows
  <1> DEFINE op == Op("removeAttestationKey", NoKey)
  <1>1. op \in Operation /\ op.kind = "removeAttestationKey" /\ op.arg = NoKey
    BY DEF Op, Operation
  <1>2. /\ newAssertionKey = Ignore /\ newAssertionKey' = Delete /\ batch' = batch \o <<op>>
        /\ UNCHANGED <<newKeyAgreementKeys, newServiceEndpoints, newDelegationKey, consumed,
                       newAuthenticationKey, toDelete, old>>
    BY DEF RemoveAttestationKey, Push
  <1>3. MarksInv'
    BY <1>2 DEF BatchInv, MarksInv, MarksOK, toDelete, KeyAction
  <1> HIDE DEF op
  <1>4. Noted(op)' /\ \A o \in Operation : Noted(o) => Noted(o)'
    BY <1>1, <1>2 DEF Noted, toDelete, Operation, Ignore, Update, Delete
  <1>5. /\ Marked'.assertion = NoKey /\ Marked.assertion # NoKey
        /\ Marked'.authentication = Marked.authentication
        /\ Marked'.delegation = Marked.delegation /\ Marked'.keys = Marked.keys
        /\ Marked'.services = Marked.services
    BY <1>2 DEF RemoveAttestationKey, Marked, toDelete, Apply, Ignore, Delete
  <1>6. Dispatch(Marked, op) = [ok |-> TRUE, d |-> Marked']
    BY <1>1, <1>3, <1>5, DispatchIs, BatchIsApplied, MarkedTyped
  <1> QED BY <1>1, <1>2, <1>3, <1>4, <1>6, OneMore

LEMMA RemoveDelegationKeyStep ==
    ASSUME BatchInv, RemoveDelegationKey PROVE BatchInv' /\ Grows
  <1> DEFINE op == Op("removeDelegationKey", NoKey)
  <1>1. op \in Operation /\ op.kind = "removeDelegationKey" /\ op.arg = NoKey
    BY DEF Op, Operation
  <1>2. /\ newDelegationKey = Ignore /\ newDelegationKey' = Delete /\ batch' = batch \o <<op>>
        /\ UNCHANGED <<newKeyAgreementKeys, newServiceEndpoints, newAssertionKey, consumed,
                       newAuthenticationKey, toDelete, old>>
    BY DEF RemoveDelegationKey, Push
  <1>3. MarksInv'
    BY <1>2 DEF BatchInv, MarksInv, MarksOK, toDelete, KeyAction
  <1> HIDE DEF op
  <1>4. Noted(op)' /\ \A o \in Operation : Noted(o) => Noted(o)'
    BY <1>1, <1>2 DEF Noted, toDelete, Operation, Ignore, Update, Delete
  <1>5. /\ Marked'.authentication = Marked.authentication /\ Marked'.assertion = Marked.assertion
        /\ Marked'.delegation = NoKey /\ Marked.delegation # NoKey /\ Marked'.keys = Marked.keys
        /\ Marked'.services = Marked.services
    BY <1>2 DEF RemoveDelegationKey, Marked, toDelete, Apply, Ignore, Delete
  <1>6. Dispatch(Marked, op) = [ok |-> TRUE, d |-> Marked']
    BY <1>1, <1>3, <1>5, DispatchIs, BatchIsApplied, MarkedTyped
  <1> QED BY <1>1, <1>2, <1>3, <1>4, <1>6, OneMore

LEMMA AddEncryptionKeyStep ==
    ASSUME BatchInv, NEW key \in EncryptionKey, AddEncryptionKey(key) PROVE BatchInv' /\ Grows
  <1> DEFINE op == Op("addKeyAgreementKey", key)
  <1>1. op \in Operation /\ op.kind = "addKeyAgreementKey" /\ op.arg = key
    BY DEF Op, Operation
  <1>2. /\ key \notin old.keys /\ key \notin newKeyAgreementKeys
        /\ newKeyAgreementKeys' = newKeyAgreementKeys \union {key} /\ batch' = batch \o <<op>>
        /\ UNCHANGED <<newServiceEndpoints, newAssertionKey, newDelegationKey, consumed,
                       newAuthenticationKey, toDelete, old>>
    BY DEF AddEncryptionKey, MarkEncryptionKey, Push
  <1>3. MarksInv'
    BY <1>2 DEF BatchInv, MarksInv, MarksOK, toDelete
  <1> HIDE DEF op
  <1>4. Noted(op)' /\ \A o \in Operation : Noted(o) => Noted(o)'
    BY <1>1, <1>2 DEF Noted, toDelete
  <1>5. /\ Marked'.authentication = Marked.authentication /\ Marked'.assertion = Marked.assertion
        /\ Marked'.delegation = Marked.delegation /\ Marked'.services = Marked.services
        /\ Marked'.keys = Marked.keys \union {key} /\ key \notin Marked.keys
    BY <1>2 DEF Marked, toDelete
  <1>6. Dispatch(Marked, op) = [ok |-> TRUE, d |-> Marked']
    BY <1>1, <1>3, <1>5, DispatchIs, BatchIsApplied, MarkedTyped
  <1> QED BY <1>1, <1>2, <1>3, <1>4, <1>6, OneMore

LEMMA AddServiceEndpointStep ==
    ASSUME BatchInv, NEW endpoint \in Endpoint, AddServiceEndpoint(endpoint)
    PROVE  BatchInv' /\ Grows
  <1> DEFINE op == Op("addServiceEndpoint", endpoint)
  <1>1. op \in Operation /\ op.kind = "addServiceEndpoint" /\ op.arg = endpoint
    BY DEF Op, Operation
  <1>2. /\ endpoint \notin old.services /\ endpoint \notin newServiceEndpoints
        /\ newServiceEndpoints' = newServiceEndpoints \union {endpoint}
        /\ batch' = batch \o <<op>>
        /\ UNCHANGED <<newKeyAgreementKeys, newAssertionKey, newDelegationKey, consumed,
                       newAuthenticationKey, toDelete, old>>
    BY DEF AddServiceEndpoint, MarkServiceEndpoint, Push
  <1>3. MarksInv'
    BY <1>2 DEF BatchInv, MarksInv, MarksOK, toDelete
  <1> HIDE DEF op
  <1>4. Noted(op)' /\ \A o \in Operation : Noted(o) => Noted(o)'
    BY <1>1, <1>2 DEF Noted, toDelete
  <1>5. /\ Marked'.authentication = Marked.authentication /\ Marked'.assertion = Marked.assertion
        /\ Marked'.delegation = Marked.delegation /\ Marked'.keys = Marked.keys
        /\ Marked'.services = Marked.services \union {endpoint} /\ endpoint \notin Marked.services
    BY <1>2 DEF Marked, toDelete
  <1>6. Dispatch(Marked, op) = [ok |-> TRUE, d |-> Marked']
    BY <1>1, <1>3, <1>5, DispatchIs, BatchIsApplied, MarkedTyped
  <1> QED BY <1>1, <1>2, <1>3, <1>4, <1>6, OneMore

LEMMA Single ==
    ASSUME NEW S, NEW x \in S
    PROVE  <<x>> \in Seq(S) /\ IsInjective(<<x>>) /\ \A i \in 1..Len(<<x>>) : <<x>>[i] = x
  <1>1. DOMAIN <<x>> = {1} /\ Len(<<x>>) = 1 /\ <<x>>[1] = x
    OBVIOUS
  <1> QED BY <1>1 DEF IsInjective

(* One key or endpoint is a row, and so are all that may be removed.        *)
LEMMA RemovalStep ==
    ASSUME BatchInv,
           \/ \E key \in EncryptionKey : RemoveEncryptionKey(key)
           \/ \E endpoint \in Endpoint : RemoveServiceEndpoint(endpoint)
           \/ RemoveAllEncryptionKeys
           \/ RemoveAllServiceEndpoints
    PROVE  BatchInv' /\ Grows
  <1>1. ASSUME NEW key \in EncryptionKey, RemoveEncryptionKey(key) PROVE BatchInv' /\ Grows
    <2> DEFINE keys == <<key>>
    <2>1. RemovableKey(key) /\ key \in old.keys
      BY <1>1 DEF RemoveEncryptionKey, RemovableKey
    <2>2. keys \in Seq(old.keys) /\ IsInjective(keys) /\ \A i \in 1..Len(keys) : keys[i] = key
      BY <2>1, Single
    <2> HIDE DEF keys
    <2>3. \A i \in 1..Len(keys) : RemovableKey(keys[i])
      BY <2>1, <2>2
    <2>4. RemoveKeys(keys)
      BY <1>1 DEF RemoveEncryptionKey, keys
    <2> QED BY <2>2, <2>3, <2>4, RemoveKeysStep
  <1>2. ASSUME NEW endpoint \in Endpoint, RemoveServiceEndpoint(endpoint) PROVE BatchInv' /\ Grows
    <2> DEFINE endpoints == <<endpoint>>
    <2>1. RemovableEndpoint(endpoint) /\ endpoint \in old.services
      BY <1>2 DEF RemoveServiceEndpoint, RemovableEndpoint
    <2>2. /\ endpoints \in Seq(old.services) /\ IsInjective(endpoints)
          /\ \A i \in 1..Len(endpoints) : endpoints[i] = endpoint
      BY <2>1, Single
    <2> HIDE DEF endpoints
    <2>3. \A i \in 1..Len(endpoints) : RemovableEndpoint(endpoints[i])
      BY <2>1, <2>2
    <2>4. RemoveEndpoints(endpoints)
      BY <1>2 DEF RemoveServiceEndpoint, endpoints
    <2> QED BY <2>2, <2>3, <2>4, RemoveEndpointsStep
  <1>3. CASE RemoveAllEncryptionKeys
    <2>1. PICK keys : keys = UpTo(SetToSeq(old.keys), RemovableKey)
      OBVIOUS
    <2>2. RemoveKeys(keys)
      BY <1>3, <2>1 DEF RemoveAllEncryptionKeys
    <2>3. /\ keys \in Seq(old.keys) /\ IsInjective(keys)
          /\ \A i \in 1..Len(keys) : RemovableKey(keys[i])
      BY <2>1, AllKeys DEF BatchInv, MarksInv
    <2> QED BY <2>2, <2>3, RemoveKeysStep
  <1>4. CASE RemoveAllServiceEndpoints
    <2>1. PICK endpoints : endpoints = UpTo(SetToSeq(old.services), RemovableEndpoint)
      OBVIOUS
    <2>2. RemoveEndpoints(endpoints)
      BY <1>4, <2>1 DEF RemoveAllServiceEndpoints
    <2>3. /\ endpoints \in Seq(old.services) /\ IsInjective(endpoints)
          /\ \A i \in 1..Len(endpoints) : RemovableEndpoint(endpoints[i])
      BY <2>1, AllEndpoints DEF BatchInv, MarksInv
    <2> QED BY <2>2, <2>3, RemoveEndpointsStep
  <1> QED BY <1>1, <1>2, <1>3, <1>4

BuildNext ==
    \E c \in Caller : Build(c) \/ ChainAnswers(c) \/ BuildResumes(c) \/ SignerAnswers(c)
                        \/ BuildThrows(c) \/ ChainExecutes(c)

LEMMA AcceptedStep == ASSUME BatchInv, Next, ~ BuildNext PROVE BatchInv' /\ Grows
  BY SetAuthenticationKeyStep, SetAttestationKeyStep, SetDelegationKeyStep,
     AddEncryptionKeyStep, AddServiceEndpointStep, RemovalStep, RemoveAttestationKeyStep,
     RemoveDelegationKeyStep DEF Next, BuildNext

LEMMA BatchStep == ASSUME BatchInv, [Next]_vars PROVE BatchInv'
  <1>1. CASE UNCHANGED builderVars /\ consumed' \in BOOLEAN
    BY <1>1 DEF builderVars, marks, toDelete, BatchInv, MarksInv, MarksOK, Marked, Noted
  <1>2. ASSUME BuildNext PROVE UNCHANGED builderVars /\ consumed' \in BOOLEAN
    BY <1>2 DEF BuildNext, Build, ChainAnswers, BuildResumes, SignerAnswers, BuildThrows,
       ChainExecutes, BatchInv, MarksInv, MarksOK
  <1>3. CASE UNCHANGED vars
    BY <1>1, <1>3 DEF vars, builderVars, BatchInv, MarksInv, MarksOK
  <1> QED BY <1>1, <1>2, <1>3, AcceptedStep

LEMMA BatchHolds == Spec => []BatchInv
  BY BatchInit, BatchStep, PTL DEF Spec

(* The batch and the marks never disagree: whatever the builder accepts, in *)
(* whatever order, no operation of its batch fails on the DID it started    *)
(* from, and together they make of it what the marks say.                   *)
THEOREM BatchIsMarks == Spec => []BatchMakesMarked
  <1>1. BatchInv => BatchMakesMarked
    BY DEF BatchInv, Leads, BatchMakesMarked, Run
  <1> QED BY <1>1, BatchHolds, PTL

-----------------------------------------------------------------------------
(* Transactions are beginnings of the batch, and the DID is what the batch  *)
(* makes of it in so many steps.                                            *)
ChainInv ==
    /\ tx \in [Caller -> Seq(Operation)]
    /\ \A c \in Caller :
        /\ Len(tx[c]) <= Len(batch)
        /\ \A i \in 1..Len(tx[c]) : tx[c][i] = batch[i]
    /\ \E n \in 0..Len(batch) : did = Runs(old, batch)[n].d

(* A beginning of the batch, executed on a DID that has come some way along *)
(* it: what has been done already fails or changes nothing, the rest takes  *)
(* the DID along the same way.                                              *)
LEMMA RunsAlong ==
    ASSUME NEW d, NEW b, NEW e, Leads(d, b, e), NEW n \in 0..Len(b),
           NEW ops \in Seq(Operation), Len(ops) <= Len(b), \A i \in 1..Len(ops) : ops[i] = b[i]
    PROVE  \E k \in 0..Len(b) : Run(Runs(d, b)[n].d, ops).d = Runs(d, b)[k].d
  <1> DEFINE R == Runs(d, b)
             s == R[n].d
             Q == Runs(s, ops)
             Failed(i) == ~ Q[i].ok /\ \E k \in 0..Len(b) : Q[i].d = R[k].d
             Behind(i) == i <= n /\ Q[i] = [ok |-> TRUE, d |-> s]
             Ahead(i) == i >= n /\ Q[i] = R[i]
             S == {i \in Nat : i <= Len(ops) => Failed(i) \/ Behind(i) \/ Ahead(i)}
  <1>1. b \in Seq(Operation) /\ Len(b) \in Nat /\ Len(ops) \in Nat
    BY DEF Leads
  <1>2. \A k \in 0..Len(b) : R[k] \in {[ok |-> TRUE, d |-> x] : x \in Details}
    BY DEF Leads
  <1>3. \A i \in 1..n : Applied(s, b[i])
    BY DEF Leads
  <1>4. Q[0] = [ok |-> TRUE, d |-> s] /\ \A i \in 1..Len(ops) : Q[i] = Then(Q[i - 1], ops[i])
    BY <1>1, RunsIs DEF RunStart
  <1>5. \A i \in 1..Len(b) : R[i] = Then(R[i - 1], b[i])
    BY <1>1, RunsIs
  <1>6. s \in Details /\ s = R[n].d /\ n \in Nat /\ R[n] = [ok |-> TRUE, d |-> s]
    <2>1. R[n] \in {[ok |-> TRUE, d |-> x] : x \in Details}
      BY <1>2
    <2>2. \A r \in {[ok |-> TRUE, d |-> x] : x \in Details} :
              r.d \in Details /\ r = [ok |-> TRUE, d |-> r.d]
      OBVIOUS
    <2>3. n \in Nat
      BY <1>1
    <2> HIDE DEF R
    <2> QED BY <2>1, <2>2, <2>3
  <1> HIDE DEF R, Q, s
  <1>7. 0 \in S
    BY <1>4, <1>6
  <1>8. ASSUME NEW j \in Nat, j \in S PROVE j + 1 \in S
    <2> SUFFICES ASSUME j + 1 <= Len(ops) PROVE Failed(j + 1) \/ Behind(j + 1) \/ Ahead(j + 1)
      OBVIOUS
    <2> DEFINE i == j + 1
    <2>1. i \in 1..Len(ops) /\ i - 1 = j /\ i \in 1..Len(b) /\ i \in Nat
      BY <1>1
    <2>2. Failed(j) \/ Behind(j) \/ Ahead(j)
      BY <1>8, <2>1
    <2>3. Q[i] = Then(Q[j], b[i])
      <3>1. Q[i] = Then(Q[i - 1], ops[i]) /\ ops[i] = b[i]
        BY <1>4, <2>1
      <3> QED BY <2>1, <3>1
    <2>4. b[i] \in Operation
      BY <1>1, <2>1
    <2>5. CASE Failed(j)
      <3>1. Q[i] = [ok |-> FALSE, d |-> Q[j].d]
        BY <2>3, <2>5 DEF Then
      <3> QED BY <2>5, <3>1
    <2>6. CASE Behind(j) /\ j < n
      <3>1. Applied(s, b[i]) /\ i <= n
        BY <1>3, <1>6, <2>1, <2>6
      <3>2. Dispatch(s, b[i]).ok => Dispatch(s, b[i]) = [ok |-> TRUE, d |-> s]
        BY <1>6, <2>4, <3>1, AppliedTwice
      <3>3. Q[i] = [ok |-> TRUE, d |-> s] \/ Q[i] = [ok |-> FALSE, d |-> s]
        BY <2>3, <2>6, <3>2 DEF Then
      <3>4. Q[i] = [ok |-> FALSE, d |-> s] => Failed(i)
        BY <1>6
      <3>5. Q[i] = [ok |-> TRUE, d |-> s] => Behind(i)
        BY <3>1
      <3> HIDE DEF Failed, Behind
      <3> QED BY <3>3, <3>4, <3>5
    <2>7. CASE j >= n /\ Q[j] = R[j]
      <3>1. R[i] = Then(R[i - 1], b[i])
        BY <1>5, <2>1
      <3>2. Q[i] = R[i] /\ i >= n
        BY <1>6, <2>1, <2>3, <2>7, <3>1
      <3> QED BY <3>2
    <2>8. j = n /\ Behind(j) => Q[j] = R[j]
      BY <1>6
    <2>9. j < n \/ j = n \/ j > n
      BY <1>6
    <2> QED BY <1>6, <2>2, <2>5, <2>6, <2>7, <2>8, <2>9
  <1> HIDE DEF S
  <1>9. Nat \subseteq S
    BY <1>7, <1>8, SetInduction
  <1>10. Failed(Len(ops)) \/ Behind(Len(ops)) \/ Ahead(Len(ops))
    <2>1. Len(ops) \in S
      BY <1>1, <1>9
    <2> HIDE DEF Failed, Behind, Ahead
    <2> QED BY <1>1, <2>1 DEF S
  <1>11. \E k \in 0..Len(b) : Q[Len(ops)].d = R[k].d
    <2>1. Len(ops) \in 0..Len(b)
      BY <1>1
    <2> QED BY <1>6, <1>10, <2>1
  <1> QED BY <1>11 DEF Run, Q, R, s

LEMMA ChainInit == ASSUME Init PROVE ChainInv
  <1>1. batch = << >> /\ Len(batch) = 0 /\ did = old /\ tx = [c \in Caller |-> << >>]
    BY DEF Init
  <1>2. Runs(old, batch)[0].d = did /\ 0 \in 0..Len(batch)
    <2>1. Len(batch) \in Nat
      BY <1>1
    <2>2. Runs(old, batch)[0] = RunStart(old)
      BY <2>1, RunsIs
    <2> QED BY <1>1, <2>1, <2>2 DEF RunStart
  <1>3. \A c \in Caller : tx[c] = << >>
    BY <1>1
  <1>4. tx \in [Caller -> Seq(Operation)]
    BY <1>1
  <1> QED BY <1>1, <1>2, <1>3, <1>4 DEF ChainInv

(* However the batch grows, what it makes of the DID in its first steps     *)
(* stays the same.                                                          *)
LEMMA BatchGrows ==
    ASSUME BatchInv, ChainInv, Grows, UNCHANGED <<old, tx, did>>
    PROVE  ChainInv'
  <1>1. PICK ops \in Seq(Operation) : batch' = batch \o ops
    BY DEF Grows
  <1>2. /\ batch \in Seq(Operation) /\ batch' \in Seq(Operation)
        /\ Len(batch) \in Nat /\ Len(batch') \in Nat /\ Len(batch) <= Len(batch')
        /\ \A i \in 1..Len(batch) : batch'[i] = batch[i]
    BY <1>1 DEF BatchInv
  <1>3. \A n \in 0..Len(batch) : Runs(old, batch')[n] = Runs(old, batch)[n]
    BY <1>2, SamePrefix
  <1>4. \E n \in 0..Len(batch') : did = Runs(old, batch')[n].d
    <2>1. PICK n \in 0..Len(batch) : did = Runs(old, batch)[n].d
      BY DEF ChainInv
    <2>2. n \in 0..Len(batch')
      BY <1>2
    <2> QED BY <1>3, <2>1, <2>2
  <1>5. ASSUME NEW c \in Caller
        PROVE  /\ Len(tx[c]) <= Len(batch')
               /\ \A i \in 1..Len(tx[c]) : tx[c][i] = batch'[i]
    <2>1. /\ tx[c] \in Seq(Operation) /\ Len(tx[c]) <= Len(batch)
          /\ \A i \in 1..Len(tx[c]) : tx[c][i] = batch[i]
      BY DEF ChainInv
    <2>2. Len(tx[c]) \in Nat /\ \A i \in 1..Len(tx[c]) : i \in 1..Len(batch)
      BY <1>2, <2>1
    <2> QED BY <1>2, <2>1, <2>2
  <1> QED BY <1>4, <1>5 DEF ChainInv

(* What the chain makes of the DID stays on the batch's way.                *)
LEMMA ExecutesAlong ==
    ASSUME BatchInv, ChainInv, NEW c \in Caller, ChainExecutes(c)
    PROVE  \E n \in 0..Len(batch) : did' = Runs(old, batch)[n].d
  <1>1. PICK n \in 0..Len(batch) : did = Runs(old, batch)[n].d
    BY DEF ChainInv
  <1>2. did' = did \/ did' = Run(did, tx[c]).d
    BY DEF ChainExecutes, chainVars
  <1>3. CASE did' = did
    BY <1>1, <1>3
  <1>4. CASE did' = Run(did, tx[c]).d
    <2> DEFINE ops == tx[c]
    <2>1. /\ ops \in Seq(Operation) /\ Len(ops) <= Len(batch)
          /\ \A i \in 1..Len(ops) : ops[i] = batch[i]
      BY DEF ChainInv
    <2>2. Leads(old, batch, Marked)
      BY DEF BatchInv
    <2> HIDE DEF ops
    <2>3. \E k \in 0..Len(batch) : Run(Runs(old, batch)[n].d, ops).d = Runs(old, batch)[k].d
      BY <2>1, <2>2, RunsAlong
    <2> QED BY <1>1, <1>4, <2>3 DEF ops
  <1> QED BY <1>2, <1>3, <1>4

LEMMA ChainStep == ASSUME BatchInv, ChainInv, [Next]_vars PROVE ChainInv'
  <1>1. CASE UNCHANGED <<old, batch, tx, did>>
    BY <1>1 DEF ChainInv
  <1>2. ASSUME NEW c \in Caller, Build(c) PROVE ChainInv'
    <2>1. tx' = [tx EXCEPT ![c] = batch] /\ UNCHANGED <<old, batch, did>>
      BY <1>2 DEF Build, builderVars, chainVars
    <2>2. batch \in Seq(Operation) /\ Len(batch) <= Len(batch)
      BY DEF BatchInv
    <2> QED BY <2>1, <2>2 DEF ChainInv
  <1>3. ASSUME NEW c \in Caller,
               ChainAnswers(c) \/ BuildResumes(c) \/ SignerAnswers(c) \/ BuildThrows(c)
        PROVE  UNCHANGED <<old, batch, tx, did>>
    BY <1>3 DEF ChainAnswers, BuildResumes, SignerAnswers, BuildThrows, builderVars, chainVars
  <1>4. ASSUME NEW c \in Caller, ChainExecutes(c) PROVE ChainInv'
    <2>1. UNCHANGED <<old, batch, tx>>
      BY <1>4 DEF ChainExecutes, builderVars
    <2>2. \E n \in 0..Len(batch) : did' = Runs(old, batch)[n].d
      BY <1>4, ExecutesAlong
    <2> QED BY <2>1, <2>2 DEF ChainInv
  <1>5. CASE Next /\ ~ BuildNext
    <2>1. UNCHANGED <<old, tx, did>>
      BY <1>5, OperationStep DEF BuildNext, buildVars, chainVars
    <2> QED BY <1>5, <2>1, AcceptedStep, BatchGrows
  <1>6. CASE UNCHANGED vars
    BY <1>1, <1>6 DEF vars, buildVars, chainVars
  <1> QED BY <1>1, <1>2, <1>3, <1>4, <1>5, <1>6 DEF BuildNext

(* However many transactions the builder gives out, in whatever order and   *)
(* after however many failures the chain executes them, the DID is always   *)
(* the one it was with the first operations of the batch applied, in their  *)
(* order: none is applied twice, left out or overtaken.                     *)
THEOREM FollowsBatch == Spec => []DidFollowsBatch
  <1>1. ASSUME BatchInv, ChainInv PROVE DidFollowsBatch
    <2>1. PICK n \in 0..Len(batch) : did = Runs(old, batch)[n].d
      BY <1>1 DEF ChainInv
    <2> DEFINE t == SubSeq(batch, 1, n)
    <2>2. batch \in Seq(Operation) /\ Len(batch) \in Nat /\ n \in Nat /\ n <= Len(batch)
          /\ Len(t) = n /\ \A k \in 1..n : t[k] = batch[k]
      BY <1>1 DEF BatchInv
    <2> HIDE DEF t
    <2>3. \A k \in 0..n : Runs(old, t)[k] = Runs(old, batch)[k]
      BY <2>2, SamePrefix
    <2>4. did = Run(old, t).d
      BY <2>1, <2>2, <2>3 DEF Run
    <2> QED BY <2>4 DEF DidFollowsBatch, t
  <1>2. ASSUME Init PROVE BatchInv /\ ChainInv
    BY <1>2, BatchInit, ChainInit
  <1>3. ASSUME BatchInv, ChainInv, [Next]_vars PROVE BatchInv' /\ ChainInv'
    BY <1>3, BatchStep, ChainStep
  <1> QED BY <1>1, <1>2, <1>3, PTL DEF Spec

=============================================================================
