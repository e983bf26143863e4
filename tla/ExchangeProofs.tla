----------------------------- MODULE ExchangeProofs -----------------------------
(***************************************************************************)
(* Proofs about the exchange of a request, an attestation, credentials and *)
(* messages between a claimer, an attester and a verifier.                 *)
(***************************************************************************)
EXTENDS Exchange, FiniteSetTheorems, SequenceTheorems, TLAPS

-----------------------------------------------------------------------------
(* Results. *)

LEMMA Errors ==
    /\ \A code : IsError(Error(code))
    /\ ~ IsError(Valid)
    /\ \A items : ~ IsError(Array(items)) /\ IsArray(Array(items))
    /\ \A items, i : At(Array(items), i) = items[i]
  BY DEF IsError, Error, Valid, Array, IsArray, At

LEMMA AllValid ==
    ASSUME NEW results, \A r \in results : ~ IsError(r)
    PROVE  All(results) = Valid /\ ~ IsError(All(results))
  BY Errors DEF All

LEMMA CheckIs ==
    ASSUME NEW result, ~ IsError(result)
    PROVE  Check(result) = Valid
  BY DEF Check

-----------------------------------------------------------------------------
(* Legitimations. What is verified, compressed or decompressed of one is    *)
(* what it is of those it holds: such a thing exists, as they were made     *)
(* before it.                                                               *)

LEMMA Earliest ==
    ASSUME NEW S, S \subseteq Legitimation, S # {}
    PROVE  \E c \in S : \A l \in Held(c.request) : l \notin S
  BY LegitimationAssumption

LEMMA HeldAreLegitimations ==
    ASSUME NEW c \in Legitimation
    PROVE  /\ Held(c.request) \subseteq Legitimation
           /\ \A i \in DOMAIN c.request.legitimations :
                 /\ c.request.legitimations[i] \in Legitimation
                 /\ c.request.legitimations[i] \in Held(c.request)
  <1>1. c.request.legitimations \in Seq(Legitimation)
    BY LegitimationAssumption
  <1>2. \A i \in DOMAIN c.request.legitimations : c.request.legitimations[i] \in Legitimation
    BY <1>1
  <1> QED BY <1>2 DEF Held

(* Rearranging the contents of the legitimations of a set: f says what       *)
(* becomes of them, and the set has all that those of it hold.              *)
Rearranges(order, f, T) ==
    /\ T \subseteq Legitimation
    /\ \A c \in T : Held(c.request) \subseteq T
    /\ f = [c \in T |-> RearrangedWith(order, c,
                           [i \in DOMAIN c.request.legitimations |->
                               f[c.request.legitimations[i]]])]

LEMMA RearrangingIsOne ==
    ASSUME NEW order, NEW f, NEW T, Rearranges(order, f, T), NEW g, NEW U, Rearranges(order, g, U)
    PROVE  \A c \in T \cap U : f[c] = g[c]
  <1> DEFINE bad == {c \in T \cap U : f[c] # g[c]}
  <1>1. SUFFICES ASSUME bad # {} PROVE FALSE
    OBVIOUS
  <1>2. PICK c \in bad : \A l \in Held(c.request) : l \notin bad
    <2>1. bad \subseteq Legitimation
      BY DEF Rearranges
    <2> HIDE DEF bad
    <2> QED BY <1>1, <2>1, Earliest
  <1>3. c \in Legitimation /\ Held(c.request) \subseteq T \cap U
    BY DEF Rearranges
  <1>4. \A i \in DOMAIN c.request.legitimations :
           f[c.request.legitimations[i]] = g[c.request.legitimations[i]]
    BY <1>2, <1>3, HeldAreLegitimations
  <1>5. [i \in DOMAIN c.request.legitimations |-> f[c.request.legitimations[i]]]
            = [i \in DOMAIN c.request.legitimations |-> g[c.request.legitimations[i]]]
    BY <1>4
  <1>6. /\ f[c] = RearrangedWith(order, c, [i \in DOMAIN c.request.legitimations |->
                                                f[c.request.legitimations[i]]])
        /\ g[c] = RearrangedWith(order, c, [i \in DOMAIN c.request.legitimations |->
                                                g[c.request.legitimations[i]]])
    BY DEF Rearranges
  <1> QED BY <1>5, <1>6

LEMMA RearrangingExists ==
    ASSUME NEW order
    PROVE  \E f : Rearranges(order, f, Legitimation)
  <1> DEFINE Covered(c) == \E T, f : c \in T /\ Rearranges(order, f, T)
             h == [c \in Legitimation |->
                      CHOOSE v : \E T, f : c \in T /\ Rearranges(order, f, T) /\ v = f[c]]
             known == {c \in Legitimation : Covered(c)}
             k == [c \in known |-> h[c]]
  <1>1. ASSUME NEW T, NEW f, Rearranges(order, f, T)
        PROVE  /\ T \subseteq known
               /\ \A c \in T : h[c] = f[c]
    <2>1. T \subseteq known
      <3>1. T \subseteq Legitimation
        BY <1>1 DEF Rearranges
      <3>2. \A c \in T : Covered(c)
        BY <1>1
      <3> QED BY <3>1, <3>2
    <2>2. ASSUME NEW c \in T PROVE h[c] = f[c]
      <3>1. \E v : \E U, g : c \in U /\ Rearranges(order, g, U) /\ v = g[c]
        BY <1>1
      <3>2. PICK U, g : c \in U /\ Rearranges(order, g, U) /\ h[c] = g[c]
        BY <2>1, <3>1
      <3> QED BY <1>1, <3>2, RearrangingIsOne
    <2> QED BY <2>1, <2>2
  <1>2. Rearranges(order, k, known)
    <2>1. ASSUME NEW c \in known
          PROVE  /\ Held(c.request) \subseteq known
                 /\ k[c] = RearrangedWith(order, c, [i \in DOMAIN c.request.legitimations |->
                                                         k[c.request.legitimations[i]]])
      <3>1. PICK T, f : c \in T /\ Rearranges(order, f, T)
        OBVIOUS
      <3>2. Held(c.request) \subseteq T
        BY <3>1 DEF Rearranges
      <3>3. T \subseteq known /\ \A l \in T : k[l] = f[l]
        <4>1. T \subseteq known /\ \A l \in T : h[l] = f[l]
          BY <1>1, <3>1
        <4>2. \A l \in known : k[l] = h[l]
          OBVIOUS
        <4> HIDE DEF k, h, known
        <4> QED BY <4>1, <4>2
      <3>4. [i \in DOMAIN c.request.legitimations |-> k[c.request.legitimations[i]]]
              = [i \in DOMAIN c.request.legitimations |-> f[c.request.legitimations[i]]]
        BY <3>2, <3>3, HeldAreLegitimations
      <3>5. f[c] = RearrangedWith(order, c, [i \in DOMAIN c.request.legitimations |->
                                                 f[c.request.legitimations[i]]])
        BY <3>1 DEF Rearranges
      <3> HIDE DEF k
      <3> QED BY <3>1, <3>2, <3>3, <3>4, <3>5
    <2>2. known \subseteq Legitimation
      OBVIOUS
    <2>3. k = [c \in known |-> k[c]]
      OBVIOUS
    <2> HIDE DEF k, known
    <2> QED BY <2>1, <2>2, <2>3 DEF Rearranges
  <1>3. known = Legitimation
    <2> DEFINE rest == Legitimation \ known
    <2>1. SUFFICES ASSUME rest # {} PROVE FALSE
      OBVIOUS
    <2>2. PICK c \in rest : \A l \in Held(c.request) : l \notin rest
      <3>1. rest \subseteq Legitimation
        OBVIOUS
      <3> HIDE DEF rest
      <3> QED BY <2>1, <3>1, Earliest
    <2>3. Held(c.request) \subseteq known
      BY <2>2, HeldAreLegitimations
    <2> DEFINE T == known \cup {c}
               Next(x) == RearrangedWith(order, x, [i \in DOMAIN x.request.legitimations |->
                                                        k[x.request.legitimations[i]]])
               f == [x \in T |-> Next(x)]
    <2>4. \A l \in known : f[l] = k[l]
      BY <1>2 DEF Rearranges
    <2>5. ASSUME NEW x \in T
          PROVE  [i \in DOMAIN x.request.legitimations |-> k[x.request.legitimations[i]]]
                   = [i \in DOMAIN x.request.legitimations |-> f[x.request.legitimations[i]]]
      <3>1. Held(x.request) \subseteq known
        BY <1>2, <2>3 DEF Rearranges
      <3>2. \A i \in DOMAIN x.request.legitimations : x.request.legitimations[i] \in known
        BY <3>1, HeldAreLegitimations
      <3> HIDE DEF f, k, known
      <3> QED BY <2>4, <3>2
    <2>6. f = [x \in T |-> RearrangedWith(order, x, [i \in DOMAIN x.request.legitimations |->
                                                         f[x.request.legitimations[i]]])]
      <3>1. ASSUME NEW x \in T
            PROVE  f[x] = RearrangedWith(order, x, [i \in DOMAIN x.request.legitimations |->
                                                         f[x.request.legitimations[i]]])
        <4>1. f[x] = Next(x)
          OBVIOUS
        <4> HIDE DEF f
        <4> QED BY <2>5, <4>1
      <3>2. f = [x \in T |-> f[x]]
        OBVIOUS
      <3> HIDE DEF f
      <3> QED BY <3>1, <3>2
    <2>7. \A x \in T : Held(x.request) \subseteq T
      BY <1>2, <2>3 DEF Rearranges
    <2>8. Rearranges(order, f, T)
      <3> HIDE DEF f
      <3> QED BY <2>6, <2>7 DEF Rearranges
    <2> QED BY <2>2, <2>8
  <1> HIDE DEF k, known
  <1> QED BY <1>2, <1>3

LEMMA LegitimationsRearranged ==
    ASSUME NEW order
    PROVE  Rearranges(order, LegitimationsIn(order), Legitimation)
  <1> DEFINE Is(f) == f = [c \in Legitimation |->
                             RearrangedWith(order, c, [i \in DOMAIN c.request.legitimations |->
                                                         f[c.request.legitimations[i]]])]
  <1>1. PICK f : Rearranges(order, f, Legitimation)
    BY RearrangingExists
  <1>2. Is(f)
    BY <1>1 DEF Rearranges
  <1>3. LegitimationsIn(order) = CHOOSE g : Is(g)
    BY DEF LegitimationsIn
  <1> HIDE DEF Is
  <1>4. Is(LegitimationsIn(order))
    BY <1>2, <1>3
  <1> QED BY <1>1, <1>4 DEF Rearranges, Is

(* A request with these claim and legitimations.                            *)
Rebuilt(r, claim, legitimations) ==
    [claim |-> claim, claimNonceMap |-> r.claimNonceMap, claimHashes |-> r.claimHashes,
     claimerSignature |-> r.claimerSignature, rootHash |-> r.rootHash,
     legitimations |-> legitimations, delegationId |-> r.delegationId]
IsClaim(claim) ==
    claim = [cTypeHash |-> claim.cTypeHash, owner |-> claim.owner, contents |-> claim.contents]
IsWhole(r) ==
    /\ r = Rebuilt(r, r.claim, r.legitimations)
    /\ IsClaim(r.claim)
    /\ r.legitimations \in Seq(Legitimation)

LEMMA LegitimationIsWhole ==
    ASSUME NEW c \in Legitimation
    PROVE  /\ c = [request |-> c.request, attestation |-> c.attestation]
           /\ IsWhole(c.request)
  BY LegitimationAssumption DEF IsWhole, IsClaim, Rebuilt

LEMMA ClaimInIs ==
    ASSUME NEW order, NEW claim, IsClaim(claim)
    PROVE  ClaimIn(order, claim) = [cTypeHash |-> claim.cTypeHash, owner |-> claim.owner,
                                    contents |-> ClaimIn(order, claim).contents]
  <1> DEFINE contents == IF claim.contents = Absent THEN Absent
                         ELSE [a \in DOMAIN claim.contents |-> order[claim.contents[a]]]
  <1>1. ClaimIn(order, claim) = [claim EXCEPT !.contents = contents]
    BY DEF ClaimIn
  <1> HIDE DEF contents
  <1>2. [claim EXCEPT !.contents = contents]
           = [cTypeHash |-> claim.cTypeHash, owner |-> claim.owner, contents |-> contents]
    BY DEF IsClaim
  <1> QED BY <1>1, <1>2

LEMMA HoldingIs ==
    ASSUME NEW r, r = Rebuilt(r, r.claim, r.legitimations), NEW claim, NEW legitimations
    PROVE  Holding(r, claim, legitimations) = Rebuilt(r, claim, legitimations)
  <1> DEFINE one == [r EXCEPT !.claim = claim]
  <1>1. one = Rebuilt(r, claim, r.legitimations)
    BY DEF Rebuilt
  <1>2. [Rebuilt(r, claim, r.legitimations) EXCEPT !.legitimations = legitimations]
           = Rebuilt(r, claim, legitimations)
    BY DEF Rebuilt
  <1> HIDE DEF one
  <1>3. [one EXCEPT !.legitimations = legitimations] = Rebuilt(r, claim, legitimations)
    BY <1>1, <1>2
  <1> QED BY <1>3 DEF one, Holding

LEMMA RearrangedIs ==
    ASSUME NEW order, NEW c \in Legitimation, NEW legitimations
    PROVE  RearrangedWith(order, c, legitimations)
              = [request |-> Rebuilt(c.request, ClaimIn(order, c.request.claim), legitimations),
                 attestation |-> c.attestation]
  <1> DEFINE claim == ClaimIn(order, c.request.claim)
             holding == Holding(c.request, claim, legitimations)
  <1>1. holding = Rebuilt(c.request, claim, legitimations)
    <2>1. c.request = Rebuilt(c.request, c.request.claim, c.request.legitimations)
      BY LegitimationIsWhole DEF IsWhole
    <2> QED BY <2>1, HoldingIs, Zenon
  <1>2. RearrangedWith(order, c, legitimations) = [c EXCEPT !.request = holding]
    BY DEF RearrangedWith
  <1> HIDE DEF holding, claim
  <1>3. [c EXCEPT !.request = holding] = [request |-> holding, attestation |-> c.attestation]
    BY LegitimationIsWhole
  <1> QED BY <1>1, <1>2, <1>3 DEF claim

RearrangedHeld(order, r) ==
    [i \in DOMAIN r.legitimations |-> LegitimationsIn(order)[r.legitimations[i]]]

LEMMA LegitimationRearranged ==
    ASSUME NEW order, NEW c \in Legitimation
    PROVE  LegitimationsIn(order)[c]
              = [request |-> Rebuilt(c.request, ClaimIn(order, c.request.claim),
                                     RearrangedHeld(order, c.request)),
                 attestation |-> c.attestation]
  <1> DEFINE R == LegitimationsIn(order)  held == RearrangedHeld(order, c.request)
  <1>1. R[c] = RearrangedWith(order, c, held)
    BY LegitimationsRearranged DEF Rearranges, RearrangedHeld
  <1> HIDE DEF R, held
  <1> QED BY <1>1, RearrangedIs DEF R, held

LEMMA HeldOfRearranged ==
    ASSUME NEW order, NEW c \in Legitimation, NEW x
    PROVE  x \in Held(LegitimationsIn(order)[c].request)
              <=> \E l \in Held(c.request) : x = LegitimationsIn(order)[l]
  <1> DEFINE R == LegitimationsIn(order)  held == RearrangedHeld(order, c.request)
  <1>1. R[c].request.legitimations = held
    <2>1. R[c] = [request |-> Rebuilt(c.request, ClaimIn(order, c.request.claim), held),
                  attestation |-> c.attestation]
      BY LegitimationRearranged, Zenon
    <2> HIDE DEF R, held
    <2> QED BY <2>1 DEF Rebuilt
  <1>2. x \in {held[i] : i \in DOMAIN held} <=> \E l \in Held(c.request) : x = R[l]
    BY DEF RearrangedHeld, Held
  <1> HIDE DEF R, held
  <1>3. Held(R[c].request) = {held[i] : i \in DOMAIN held}
    BY <1>1 DEF Held
  <1> QED BY <1>2, <1>3 DEF R

LEMMA HeldRearranged ==
    ASSUME NEW c \in Legitimation
    PROVE  /\ Held(SortedLegitimation[c].request)
                 = {SortedLegitimation[l] : l \in Held(c.request)}
           /\ Held(LeftLegitimation[c].request)
                 = {LeftLegitimation[l] : l \in Held(c.request)}
  <1>1. \A x : x \in Held(SortedLegitimation[c].request)
                  <=> \E l \in Held(c.request) : x = SortedLegitimation[l]
    BY HeldOfRearranged, Zenon DEF SortedLegitimation
  <1>2. \A x : x \in Held(LeftLegitimation[c].request)
                  <=> \E l \in Held(c.request) : x = LeftLegitimation[l]
    BY HeldOfRearranged, Zenon DEF LeftLegitimation
  <1> QED BY <1>1, <1>2

(* What requests can come to hold was made before them too.                 *)
LEMMA EarliestHeld ==
    ASSUME NEW S, S \subseteq HeldCredential, S # {}
    PROVE  \E c \in S : \A l \in Held(c.request) : l \notin S
  <1> DEFINE F == SortedLegitimation  G == LeftLegitimation
             T == {l \in Legitimation : l \in S \/ F[l] \in S \/ G[l] \in S}
  <1>1. T # {}
    BY DEF HeldCredential
  <1>2. PICK c \in T : \A l \in Held(c.request) : l \notin T
    <2> T \subseteq Legitimation
      OBVIOUS
    <2> HIDE DEF T
    <2> QED BY <1>1, Earliest
  <1>3. c \in Legitimation /\ Held(c.request) \subseteq Legitimation
    BY HeldAreLegitimations
  <1>4. Held(F[c].request) = {F[l] : l \in Held(c.request)}
    BY <1>3, HeldRearranged
  <1>5. Held(G[c].request) = {G[l] : l \in Held(c.request)}
    BY <1>3, HeldRearranged
  <1> HIDE DEF F, G
  <1>6. \A l \in Held(c.request) : l \notin S /\ F[l] \notin S /\ G[l] \notin S
    BY <1>2, <1>3
  <1>7. c \in S \/ F[c] \in S \/ G[c] \in S
    OBVIOUS
  <1> QED BY <1>4, <1>5, <1>6, <1>7

LEMMA HeldAreHeld ==
    ASSUME NEW c \in HeldCredential
    PROVE  Held(c.request) \subseteq HeldCredential
  <1> DEFINE F == SortedLegitimation  G == LeftLegitimation
  <1>1. \A l \in Legitimation :
           /\ Held(l.request) \subseteq Legitimation
           /\ Held(F[l].request) = {F[k] : k \in Held(l.request)}
           /\ Held(G[l].request) = {G[k] : k \in Held(l.request)}
    BY HeldAreLegitimations, HeldRearranged, Zenon
  <1>2. \E l \in Legitimation : c = l \/ c = F[l] \/ c = G[l]
    BY DEF HeldCredential
  <1>3. \A l \in Legitimation : {l, F[l], G[l]} \subseteq HeldCredential
    BY DEF HeldCredential
  <1> HIDE DEF F, G
  <1> QED BY <1>1, <1>2, <1>3

(* What the constructor of a credential accepts.                            *)
LEMMA AcceptedIs ==
    ASSUME NEW c, CredentialErrorCheck(c) = Valid
    PROVE  /\ c.attestation # Absent /\ c.request # Absent
           /\ ~ IsError(AttestationErrorCheck(c.attestation))
           /\ ~ IsError(RequestErrorCheck(c.request))
           /\ Attests(c.attestation, c.request)
  BY Errors DEF CredentialErrorCheck, Then

LEMMA AcceptedRequestIs ==
    ASSUME NEW r, ~ IsError(RequestErrorCheck(r))
    PROVE  /\ r.claim # Absent /\ r.claim.owner # Absent
           /\ r.legitimations # Absent /\ r.claimNonceMap # Absent
           /\ ~ IsError(ClaimErrorCheck(r.claim))
           /\ ~ IsError(RequestVerifyData(r))
           /\ r.rootHash = CalculateRootHash(r)
           /\ ~ IsError(VerifyDisclosedAttributes(r.claim, r.claimNonceMap, r.claimHashes))
  <1>1. ~ IsError(RequestVerifyData(r))
    BY Errors DEF RequestErrorCheck, Then
  <1> QED BY <1>1, Errors DEF RequestErrorCheck, RequestVerifyData, RequestDataVerified, Then

LEMMA VerifiedWhenHeldAre ==
    ASSUME NEW c \in Legitimation, NEW results, results \subseteq {Valid}
    PROVE  CredentialDataVerified(c, results) = Valid
  <1>1. CredentialErrorCheck(c) = Valid
    BY LegitimationAssumption
  <1>2. ~ IsError(All(results))
    BY AllValid, Errors
  <1>3. \A r \in results : r.valid
    BY DEF Valid
  <1> QED BY <1>1, <1>2, <1>3, AcceptedIs, AcceptedRequestIs DEF CredentialDataVerified,
     RequestDataVerified, Then

(* Verification, likewise.                                                  *)
Checks(f, T) ==
    /\ T \subseteq HeldCredential
    /\ \A c \in T : Held(c.request) \subseteq T
    /\ f = [c \in T |-> CredentialDataVerified(c, {f[l] : l \in Held(c.request)})]

LEMMA VerificationIsOne ==
    ASSUME NEW f, NEW T, Checks(f, T), NEW g, NEW U, Checks(g, U)
    PROVE  \A c \in T \cap U : f[c] = g[c]
  <1> DEFINE bad == {c \in T \cap U : f[c] # g[c]}
  <1>1. SUFFICES ASSUME bad # {} PROVE FALSE
    OBVIOUS
  <1>2. PICK c \in bad : \A l \in Held(c.request) : l \notin bad
    <2>1. bad \subseteq HeldCredential
      BY DEF Checks
    <2> HIDE DEF bad
    <2> QED BY <1>1, <2>1, EarliestHeld
  <1>3. c \in HeldCredential /\ Held(c.request) \subseteq T \cap U
    BY DEF Checks
  <1>4. \A l \in Held(c.request) : f[l] = g[l]
    BY <1>2, <1>3
  <1>5. {f[l] : l \in Held(c.request)}
            = {g[l] : l \in Held(c.request)}
    BY <1>4
  <1>6. /\ f[c] = CredentialDataVerified(c, {f[l] : l \in Held(c.request)})
        /\ g[c] = CredentialDataVerified(c, {g[l] : l \in Held(c.request)})
    BY DEF Checks
  <1> QED BY <1>5, <1>6

LEMMA VerificationExists == \E f : Checks(f, HeldCredential)
  <1> DEFINE Covered(c) == \E T, f : c \in T /\ Checks(f, T)
             h == [c \in HeldCredential |->
                      CHOOSE v : \E T, f : c \in T /\ Checks(f, T) /\ v = f[c]]
             known == {c \in HeldCredential : Covered(c)}
             k == [c \in known |-> h[c]]
  <1>1. ASSUME NEW T, NEW f, Checks(f, T)
        PROVE  /\ T \subseteq known
               /\ \A c \in T : h[c] = f[c]
    <2>1. T \subseteq known
      <3>1. T \subseteq HeldCredential
        BY <1>1 DEF Checks
      <3>2. \A c \in T : Covered(c)
        BY <1>1
      <3> QED BY <3>1, <3>2
    <2>2. ASSUME NEW c \in T PROVE h[c] = f[c]
      <3>1. \E v : \E U, g : c \in U /\ Checks(g, U) /\ v = g[c]
        BY <1>1
      <3>2. PICK U, g : c \in U /\ Checks(g, U) /\ h[c] = g[c]
        BY <2>1, <3>1
      <3> QED BY <1>1, <3>2, VerificationIsOne
    <2> QED BY <2>1, <2>2
  <1>2. Checks(k, known)
    <2>1. ASSUME NEW c \in known
          PROVE  /\ Held(c.request) \subseteq known
                 /\ k[c] = CredentialDataVerified(c, {k[l] : l \in Held(c.request)})
      <3>1. PICK T, f : c \in T /\ Checks(f, T)
        OBVIOUS
      <3>2. Held(c.request) \subseteq T
        BY <3>1 DEF Checks
      <3>3. T \subseteq known /\ \A l \in T : k[l] = f[l]
        <4>1. T \subseteq known /\ \A l \in T : h[l] = f[l]
          <5> HIDE DEF h, known
          <5> QED BY <1>1, <3>1, Zenon
        <4>2. \A l \in known : k[l] = h[l]
          OBVIOUS
        <4> HIDE DEF k, h, known
        <4> QED BY <4>1, <4>2
      <3>4. {k[l] : l \in Held(c.request)}
              = {f[l] : l \in Held(c.request)}
        <4>1. \A l \in Held(c.request) : k[l] = f[l]
          BY <3>2, <3>3
        <4> HIDE DEF k
        <4> QED BY <4>1
      <3>5. f[c] = CredentialDataVerified(c, {f[l] : l \in Held(c.request)})
        BY <3>1 DEF Checks
      <3> HIDE DEF k
      <3> QED BY <3>1, <3>2, <3>3, <3>4, <3>5
    <2>2. known \subseteq HeldCredential
      OBVIOUS
    <2>3. k = [c \in known |-> k[c]]
      OBVIOUS
    <2> HIDE DEF k, known
    <2> QED BY <2>1, <2>2, <2>3 DEF Checks
  <1>3. known = HeldCredential
    <2> DEFINE rest == HeldCredential \ known
    <2>1. SUFFICES ASSUME rest # {} PROVE FALSE
      OBVIOUS
    <2>2. PICK c \in rest : \A l \in Held(c.request) : l \notin rest
      <3>1. rest \subseteq HeldCredential
        OBVIOUS
      <3> HIDE DEF rest
      <3> QED BY <2>1, <3>1, EarliestHeld
    <2>3. Held(c.request) \subseteq known
      BY <2>2, HeldAreHeld
    <2> DEFINE T == known \cup {c}
               Next(x) == CredentialDataVerified(x, {k[l] : l \in Held(x.request)})
               f == [x \in T |-> Next(x)]
    <2>4. \A l \in known : f[l] = k[l]
      BY <1>2 DEF Checks
    <2>5. ASSUME NEW x \in T
          PROVE  {k[l] : l \in Held(x.request)}
                   = {f[l] : l \in Held(x.request)}
      <3>1. Held(x.request) \subseteq known
        BY <1>2, <2>3 DEF Checks
      <3> HIDE DEF f, k, known
      <3> QED BY <2>4, <3>1
    <2>6. f = [x \in T |-> CredentialDataVerified(x, {f[l] : l \in Held(x.request)})]
      <3>1. ASSUME NEW x \in T
            PROVE  f[x] = CredentialDataVerified(x, {f[l] : l \in Held(x.request)})
        <4>1. f[x] = Next(x)
          OBVIOUS
        <4> HIDE DEF f
        <4> QED BY <2>5, <4>1
      <3>2. f = [x \in T |-> f[x]]
        OBVIOUS
      <3> HIDE DEF f
      <3> QED BY <3>1, <3>2
    <2>7. \A x \in T : Held(x.request) \subseteq T
      BY <1>2, <2>3 DEF Checks
    <2>8. Checks(f, T)
      <3> HIDE DEF f
      <3> QED BY <2>6, <2>7 DEF Checks
    <2> QED BY <2>2, <2>8
  <1> HIDE DEF k, known
  <1> QED BY <1>2, <1>3

LEMMA LegitimationsVerify ==
    \A c \in Legitimation : LegitimationVerifyData[c] = Valid
  <1> DEFINE F == LegitimationVerifyData
             bad == {c \in Legitimation : F[c] # Valid}
  <1>1. PICK f : Checks(f, HeldCredential)
    BY VerificationExists
  <1>2. F = [c \in HeldCredential |-> CredentialDataVerified(c, {F[l] : l \in Held(c.request)})]
    BY <1>1 DEF LegitimationVerifyData, Checks
  <1>3. SUFFICES ASSUME bad # {} PROVE FALSE
    OBVIOUS
  <1>4. PICK c \in bad : \A l \in Held(c.request) : l \notin bad
    <2> HIDE DEF F
    <2>1. bad \subseteq Legitimation
      OBVIOUS
    <2> HIDE DEF bad
    <2> QED BY <1>3, <2>1, Earliest
  <1>5. {F[l] : l \in Held(c.request)} \subseteq {Valid}
    BY <1>4, HeldAreLegitimations
  <1>6. F[c] = CredentialDataVerified(c, {F[l] : l \in Held(c.request)})
    BY <1>2 DEF HeldCredential
  <1> HIDE DEF F
  <1>7. F[c] = Valid
    BY <1>5, <1>6, VerifiedWhenHeldAre
  <1> QED BY <1>7

(* Compression, likewise.                                                   *)
Compresses(f, T) ==
    /\ T \subseteq Legitimation
    /\ \A c \in T : Held(c.request) \subseteq T
    /\ f = [c \in T |-> CompressCredentialWith(c,
                           [i \in DOMAIN c.request.legitimations |->
                               f[c.request.legitimations[i]]])]

LEMMA CompressionIsOne ==
    ASSUME NEW f, NEW T, Compresses(f, T), NEW g, NEW U, Compresses(g, U)
    PROVE  \A c \in T \cap U : f[c] = g[c]
  <1> DEFINE bad == {c \in T \cap U : f[c] # g[c]}
  <1>1. SUFFICES ASSUME bad # {} PROVE FALSE
    OBVIOUS
  <1>2. PICK c \in bad : \A l \in Held(c.request) : l \notin bad
    <2>1. bad \subseteq Legitimation
      BY DEF Compresses
    <2> HIDE DEF bad
    <2> QED BY <1>1, <2>1, Earliest
  <1>3. c \in Legitimation /\ Held(c.request) \subseteq T \cap U
    BY DEF Compresses
  <1>4. \A i \in DOMAIN c.request.legitimations :
           f[c.request.legitimations[i]] = g[c.request.legitimations[i]]
    BY <1>2, <1>3, HeldAreLegitimations
  <1>5. [i \in DOMAIN c.request.legitimations |-> f[c.request.legitimations[i]]]
            = [i \in DOMAIN c.request.legitimations |-> g[c.request.legitimations[i]]]
    BY <1>4
  <1>6. /\ f[c] = CompressCredentialWith(c, [i \in DOMAIN c.request.legitimations |->
                                                f[c.request.legitimations[i]]])
        /\ g[c] = CompressCredentialWith(c, [i \in DOMAIN c.request.legitimations |->
                                                g[c.request.legitimations[i]]])
    BY DEF Compresses
  <1> QED BY <1>5, <1>6

LEMMA CompressionExists == \E f : Compresses(f, Legitimation)
  <1> DEFINE Covered(c) == \E T, f : c \in T /\ Compresses(f, T)
             h == [c \in Legitimation |->
                      CHOOSE v : \E T, f : c \in T /\ Compresses(f, T) /\ v = f[c]]
             known == {c \in Legitimation : Covered(c)}
             k == [c \in known |-> h[c]]
  <1>1. ASSUME NEW T, NEW f, Compresses(f, T)
        PROVE  /\ T \subseteq known
               /\ \A c \in T : h[c] = f[c]
    <2>1. T \subseteq known
      <3>1. T \subseteq Legitimation
        BY <1>1 DEF Compresses
      <3>2. \A c \in T : Covered(c)
        BY <1>1
      <3> QED BY <3>1, <3>2
    <2>2. ASSUME NEW c \in T PROVE h[c] = f[c]
      <3>1. \E v : \E U, g : c \in U /\ Compresses(g, U) /\ v = g[c]
        BY <1>1
      <3>2. PICK U, g : c \in U /\ Compresses(g, U) /\ h[c] = g[c]
        BY <2>1, <3>1
      <3> QED BY <1>1, <3>2, CompressionIsOne
    <2> QED BY <2>1, <2>2
  <1>2. Compresses(k, known)
    <2>1. ASSUME NEW c \in known
          PROVE  /\ Held(c.request) \subseteq known
                 /\ k[c] = CompressCredentialWith(c, [i \in DOMAIN c.request.legitimations |->
                                                         k[c.request.legitimations[i]]])
      <3>1. PICK T, f : c \in T /\ Compresses(f, T)
        OBVIOUS
      <3>2. Held(c.request) \subseteq T
        BY <3>1 DEF Compresses
      <3>3. T \subseteq known /\ \A l \in T : k[l] = f[l]
        <4>1. T \subseteq known /\ \A l \in T : h[l] = f[l]
          BY <1>1, <3>1
        <4>2. \A l \in known : k[l] = h[l]
          OBVIOUS
        <4> HIDE DEF k, h, known
        <4> QED BY <4>1, <4>2
      <3>4. [i \in DOMAIN c.request.legitimations |-> k[c.request.legitimations[i]]]
              = [i \in DOMAIN c.request.legitimations |-> f[c.request.legitimations[i]]]
        BY <3>2, <3>3, HeldAreLegitimations
      <3>5. f[c] = CompressCredentialWith(c, [i \in DOMAIN c.request.legitimations |->
                                                 f[c.request.legitimations[i]]])
        BY <3>1 DEF Compresses
      <3> HIDE DEF k
      <3> QED BY <3>1, <3>2, <3>3, <3>4, <3>5
    <2>2. known \subseteq Legitimation
      OBVIOUS
    <2>3. k = [c \in known |-> k[c]]
      OBVIOUS
    <2> HIDE DEF k, known
    <2> QED BY <2>1, <2>2, <2>3 DEF Compresses
  <1>3. known = Legitimation
    <2> DEFINE rest == Legitimation \ known
    <2>1. SUFFICES ASSUME rest # {} PROVE FALSE
      OBVIOUS
    <2>2. PICK c \in rest : \A l \in Held(c.request) : l \notin rest
      <3>1. rest \subseteq Legitimation
        OBVIOUS
      <3> HIDE DEF rest
      <3> QED BY <2>1, <3>1, Earliest
    <2>3. Held(c.request) \subseteq known
      BY <2>2, HeldAreLegitimations
    <2> DEFINE T == known \cup {c}
               Next(x) == CompressCredentialWith(x, [i \in DOMAIN x.request.legitimations |->
                                                        k[x.request.legitimations[i]]])
               f == [x \in T |-> Next(x)]
    <2>4. \A l \in known : f[l] = k[l]
      BY <1>2 DEF Compresses
    <2>5. ASSUME NEW x \in T
          PROVE  [i \in DOMAIN x.request.legitimations |-> k[x.request.legitimations[i]]]
                   = [i \in DOMAIN x.request.legitimations |-> f[x.request.legitimations[i]]]
      <3>1. Held(x.request) \subseteq known
        BY <1>2, <2>3 DEF Compresses
      <3>2. \A i \in DOMAIN x.request.legitimations : x.request.legitimations[i] \in known
        BY <3>1, HeldAreLegitimations
      <3> HIDE DEF f, k, known
      <3> QED BY <2>4, <3>2
    <2>6. f = [x \in T |-> CompressCredentialWith(x, [i \in DOMAIN x.request.legitimations |->
                                                         f[x.request.legitimations[i]]])]
      <3>1. ASSUME NEW x \in T
            PROVE  f[x] = CompressCredentialWith(x, [i \in DOMAIN x.request.legitimations |->
                                                         f[x.request.legitimations[i]]])
        <4>1. f[x] = Next(x)
          OBVIOUS
        <4> HIDE DEF f
        <4> QED BY <2>5, <4>1
      <3>2. f = [x \in T |-> f[x]]
        OBVIOUS
      <3> HIDE DEF f
      <3> QED BY <3>1, <3>2
    <2>7. \A x \in T : Held(x.request) \subseteq T
      BY <1>2, <2>3 DEF Compresses
    <2>8. Compresses(f, T)
      <3> HIDE DEF f
      <3> QED BY <2>6, <2>7 DEF Compresses
    <2> QED BY <2>2, <2>8
  <1> HIDE DEF k, known
  <1> QED BY <1>2, <1>3

LEMMA LegitimationsCompress == Compresses(CompressedLegitimation, Legitimation)
  <1>1. PICK f : Compresses(f, Legitimation)
    BY CompressionExists
  <1>2. f = [c \in Legitimation |->
                CompressCredentialWith(c, [i \in DOMAIN c.request.legitimations |->
                                              f[c.request.legitimations[i]]])]
    BY <1>1 DEF Compresses
  <1>3. CompressedLegitimation
          = [c \in Legitimation |->
                CompressCredentialWith(c, [i \in DOMAIN c.request.legitimations |->
                                       CompressedLegitimation[c.request.legitimations[i]]])]
    BY <1>2 DEF CompressedLegitimation
  <1> QED BY <1>1, <1>3 DEF Compresses

(* The compressed form of a request whose legitimations are compressed, and *)
(* of an attestation.                                                       *)
SortedContents(claim) == ClaimIn(SortObj, claim).contents
Compact(r, legitimations) ==
    Array(<<Array(<<r.claim.cTypeHash, r.claim.owner, SortedContents(r.claim)>>),
            r.claimNonceMap, r.claimerSignature, r.claimHashes, r.rootHash,
            Array(legitimations), r.delegationId>>)
CompactAttestation(a) ==
    Array(<<a.claimHash, a.cTypeHash, a.owner, a.revoked, a.delegationId>>)
CompactCredential(c, legitimations) ==
    Array(<<Compact(c.request, legitimations), CompactAttestation(c.attestation)>>)

LEMMA CollectIs ==
    ASSUME NEW results, \A i \in DOMAIN results : ~ IsError(results[i])
    PROVE  Collect(results) = Array(results)
  <1>1. \A r \in {Check(results[i]) : i \in DOMAIN results} : ~ IsError(r)
    BY CheckIs, Errors
  <1> QED BY <1>1, AllValid DEF Collect, Then

LEMMA ArrayOfIs ==
    ASSUME NEW parts, NEW fallible, \A i \in fallible : ~ IsError(parts[i])
    PROVE  ArrayOf(parts, fallible) = Array(parts)
  <1>1. \A r \in {Check(parts[i]) : i \in fallible} : ~ IsError(r)
    BY CheckIs, Errors
  <1> QED BY <1>1, AllValid DEF ArrayOf, Then

LEMMA CompressRequestIs ==
    ASSUME NEW r, ~ IsError(RequestErrorCheck(r)),
           NEW legitimations, \A i \in DOMAIN legitimations : ~ IsError(legitimations[i])
    PROVE  CompressRequestWith(r, legitimations) = Compact(r, legitimations)
  <1> DEFINE parts == <<CompressClaim(r.claim), r.claimNonceMap, r.claimerSignature,
                        r.claimHashes, r.rootHash, Collect(legitimations), r.delegationId>>
  <1>1. CompressClaim(r.claim)
           = Array(<<r.claim.cTypeHash, r.claim.owner, SortedContents(r.claim)>>)
    BY AcceptedRequestIs DEF CompressClaim, Then, SortedContents
  <1>2. Collect(legitimations) = Array(legitimations)
    BY CollectIs
  <1>3. parts[6] = Array(legitimations)
    BY <1>2
  <1>4. ArrayOf(parts, {6}) = Array(parts)
    <2>1. \A i \in {6} : ~ IsError(parts[i])
      BY <1>3, Errors
    <2> HIDE DEF parts
    <2> QED BY <2>1, ArrayOfIs
  <1> QED BY <1>1, <1>2, <1>4 DEF CompressRequestWith, Then, Compact

LEMMA CompressCredentialIs ==
    ASSUME NEW c, CredentialErrorCheck(c) = Valid,
           NEW legitimations, \A i \in DOMAIN legitimations : ~ IsError(legitimations[i])
    PROVE  CompressCredentialWith(c, legitimations) = CompactCredential(c, legitimations)
  <1> DEFINE parts == <<CompressRequestWith(c.request, legitimations),
                        CompressAttestation(c.attestation)>>
  <1>1. /\ ~ IsError(AttestationErrorCheck(c.attestation))
        /\ ~ IsError(RequestErrorCheck(c.request))
        /\ ~ IsError(CredentialErrorCheck(c))
    BY AcceptedIs, Errors
  <1>2. parts[1] = Compact(c.request, legitimations)
    BY <1>1, CompressRequestIs
  <1>3. parts[2] = CompactAttestation(c.attestation)
    BY <1>1 DEF CompressAttestation, Then, CompactAttestation
  <1>4. parts = <<Compact(c.request, legitimations), CompactAttestation(c.attestation)>>
    BY <1>2, <1>3
  <1>5. ArrayOf(parts, {1}) = Array(parts)
    <2>1. ~ IsError(parts[1])
      BY <1>2, Errors DEF Compact
    <2> HIDE DEF parts
    <2> QED BY <2>1, ArrayOfIs
  <1> QED BY <1>1, <1>4, <1>5 DEF CompressCredentialWith, Then, CompactCredential

CompressedHeld(r) ==
    [i \in DOMAIN r.legitimations |-> CompressedLegitimation[r.legitimations[i]]]

LEMMA LegitimationCompressed ==
    ASSUME NEW c \in Legitimation
    PROVE  /\ CompressedLegitimation[c] = CompactCredential(c, CompressedHeld(c.request))
           /\ ~ IsError(CompressedLegitimation[c])
           /\ IsArray(CompressedLegitimation[c])
  <1> DEFINE C == CompressedLegitimation
             Good(l) == C[l] = CompactCredential(l, CompressedHeld(l.request))
             bad == {l \in Legitimation : ~ Good(l)}
  <1>1. ASSUME NEW l \in Legitimation, \A k \in Held(l.request) : ~ IsError(C[k])
        PROVE  Good(l)
    <2>1. C[l] = CompressCredentialWith(l, CompressedHeld(l.request))
      BY LegitimationsCompress DEF Compresses, CompressedHeld
    <2>2. \A i \in DOMAIN CompressedHeld(l.request) : ~ IsError(CompressedHeld(l.request)[i])
      BY <1>1, HeldAreLegitimations DEF CompressedHeld
    <2>3. CredentialErrorCheck(l) = Valid
      BY LegitimationAssumption
    <2> QED BY <2>1, <2>2, <2>3, CompressCredentialIs
  <1>2. ASSUME NEW l \in Legitimation, Good(l) PROVE ~ IsError(C[l]) /\ IsArray(C[l])
    BY <1>2, Errors DEF CompactCredential
  <1>3. bad = {}
    <2>1. SUFFICES ASSUME bad # {} PROVE FALSE
      OBVIOUS
    <2>2. PICK l \in bad : \A k \in Held(l.request) : k \notin bad
      <3>1. bad \subseteq Legitimation
        OBVIOUS
      <3> HIDE DEF bad
      <3> QED BY <2>1, <3>1, Earliest
    <2>3. \A k \in Held(l.request) : k \in Legitimation /\ Good(k)
      <3>1. Held(l.request) \subseteq Legitimation
        BY HeldAreLegitimations
      <3> QED BY <2>2, <3>1
    <2>4. \A k \in Held(l.request) : ~ IsError(C[k])
      <3> HIDE DEF Good
      <3> QED BY <2>3, <1>2
    <2>5. Good(l)
      <3> HIDE DEF Good, C
      <3> QED BY <2>4, <1>1
    <2> QED BY <2>2, <2>5
  <1>4. Good(c)
    BY <1>3
  <1> QED BY <1>2, <1>4

(* What is decompressed is what was compressed, sorted.                     *)
LEMMA DecompressRequestIs ==
    ASSUME NEW r, IsClaim(r.claim), NEW compressed, NEW legitimations
    PROVE  DecompressRequestWith(Compact(r, compressed), legitimations)
              = Rebuilt(r, ClaimIn(SortObj, r.claim), legitimations)
  <1> DEFINE c == Compact(r, compressed)
             claim == ClaimIn(SortObj, r.claim)
  <1>1. /\ IsArray(c) /\ Len(c.array) = 7
        /\ At(c, 1) = Array(<<r.claim.cTypeHash, r.claim.owner, SortedContents(r.claim)>>)
        /\ At(c, 2) = r.claimNonceMap /\ At(c, 3) = r.claimerSignature
        /\ At(c, 4) = r.claimHashes /\ At(c, 5) = r.rootHash /\ At(c, 7) = r.delegationId
    BY Errors DEF Compact, At, Array
  <1>2. claim = [cTypeHash |-> r.claim.cTypeHash, owner |-> r.claim.owner,
                 contents |-> SortedContents(r.claim)]
    BY ClaimInIs DEF SortedContents
  <1> HIDE DEF claim
  <1>3. DecompressClaim(At(c, 1)) = claim
    <2> DEFINE a == Array(<<r.claim.cTypeHash, r.claim.owner, SortedContents(r.claim)>>)
    <2>1. /\ IsArray(a) /\ Len(a.array) = 3 /\ At(a, 1) = r.claim.cTypeHash
          /\ At(a, 2) = r.claim.owner /\ At(a, 3) = SortedContents(r.claim)
      BY Errors DEF At, Array
    <2> QED BY <1>1, <1>2, <2>1 DEF DecompressClaim, Decompress
  <1>4. ~ IsError(claim)
    BY <1>2 DEF IsError
  <1> HIDE DEF c
  <1> QED BY <1>1, <1>3, <1>4 DEF DecompressRequestWith, Decompress, Then, Rebuilt, c, claim

LEMMA DecompressAttestationIs ==
    ASSUME NEW a,
           a = [claimHash |-> a.claimHash, cTypeHash |-> a.cTypeHash,
                delegationId |-> a.delegationId, owner |-> a.owner, revoked |-> a.revoked]
    PROVE  DecompressAttestation(CompactAttestation(a)) = a
  <1> DEFINE c == CompactAttestation(a)
  <1>1. /\ IsArray(c) /\ Len(c.array) = 5
        /\ At(c, 1) = a.claimHash /\ At(c, 2) = a.cTypeHash /\ At(c, 3) = a.owner
        /\ At(c, 4) = a.revoked /\ At(c, 5) = a.delegationId
    BY Errors DEF CompactAttestation, At, Array
  <1> HIDE DEF c
  <1> QED BY <1>1 DEF DecompressAttestation, Decompress, c

LEMMA DecompressCredentialIs ==
    ASSUME NEW c \in Legitimation, NEW compressed
    PROVE  DecompressCredentialWith(CompactCredential(c, compressed),
                                    RearrangedHeld(SortObj, c.request)) = SortedLegitimation[c]
  <1> DEFINE a == CompactCredential(c, compressed)
             held == RearrangedHeld(SortObj, c.request)
             r == Rebuilt(c.request, ClaimIn(SortObj, c.request.claim), held)
  <1>1. /\ IsArray(a) /\ Len(a.array) = 2
        /\ At(a, 1) = Compact(c.request, compressed)
        /\ At(a, 2) = CompactAttestation(c.attestation)
    BY Errors DEF CompactCredential, At, Array
  <1>2. DecompressRequestWith(At(a, 1), held) = r
    BY <1>1, LegitimationIsWhole, DecompressRequestIs DEF IsWhole
  <1>3. DecompressAttestation(At(a, 2)) = c.attestation
    BY <1>1, DecompressAttestationIs, LegitimationAssumption
  <1>4. ~ IsError(r) /\ ~ IsError(c.attestation)
    <2>1. ~ IsError(r)
      BY DEF IsError, Rebuilt
    <2> DEFINE t == c.attestation
    <2>2. t = [claimHash |-> t.claimHash, cTypeHash |-> t.cTypeHash,
               delegationId |-> t.delegationId, owner |-> t.owner, revoked |-> t.revoked]
      BY LegitimationAssumption
    <2> HIDE DEF t
    <2>3. ~ IsError(t)
      BY <2>2 DEF IsError
    <2> QED BY <2>1, <2>3 DEF t
  <1>5. SortedLegitimation[c] = [request |-> r, attestation |-> c.attestation]
    BY LegitimationRearranged DEF SortedLegitimation
  <1> HIDE DEF a, r, held
  <1> QED BY <1>1, <1>2, <1>3, <1>4, <1>5 DEF DecompressCredentialWith, Decompress, Then, a, held

LEMMA CompactHolds ==
    ASSUME NEW c, NEW compressed
    PROVE  At(At(CompactCredential(c, compressed), 1), 6).array = compressed
  BY DEF CompactCredential, Compact, At, Array

(* Legitimations that are compressed to the same are alike, once sorted.    *)
LEMMA CompressedAlike ==
    ASSUME NEW c \in Legitimation, NEW d \in Legitimation,
           CompressedLegitimation[c] = CompressedLegitimation[d]
    PROVE  SortedLegitimation[c] = SortedLegitimation[d]
  <1> DEFINE C == CompressedLegitimation  F == SortedLegitimation
             bad == {l \in Legitimation : \E k \in Legitimation : C[l] = C[k] /\ F[l] # F[k]}
  <1>1. SUFFICES ASSUME bad # {} PROVE FALSE
    OBVIOUS
  <1>2. PICK l \in bad : \A k \in Held(l.request) : k \notin bad
    <2>1. bad \subseteq Legitimation
      OBVIOUS
    <2> HIDE DEF bad
    <2> QED BY <1>1, <2>1, Earliest
  <1>3. PICK k \in Legitimation : C[l] = C[k] /\ F[l] # F[k]
    OBVIOUS
  <1>4. CompactCredential(l, CompressedHeld(l.request))
            = CompactCredential(k, CompressedHeld(k.request))
    <2>1. l \in Legitimation
      OBVIOUS
    <2> QED BY <1>3, <2>1, LegitimationCompressed
  <1>5. RearrangedHeld(SortObj, l.request) = RearrangedHeld(SortObj, k.request)
    <2> DEFINE ls == l.request.legitimations  ks == k.request.legitimations
    <2>1. CompressedHeld(l.request) = CompressedHeld(k.request)
      BY <1>4, CompactHolds
    <2>2. DOMAIN ls = DOMAIN ks
      BY <2>1 DEF CompressedHeld
    <2>3. ASSUME NEW i \in DOMAIN ls PROVE F[ls[i]] = F[ks[i]]
      <3>1. C[ls[i]] = C[ks[i]]
        <4>1. /\ CompressedHeld(l.request)[i] = C[ls[i]]
              /\ CompressedHeld(k.request)[i] = C[ks[i]]
          BY <2>2, <2>3 DEF CompressedHeld
        <4> QED BY <2>1, <4>1
      <3>2. /\ ls[i] \in Held(l.request) /\ ls[i] \in Legitimation
            /\ ks[i] \in Legitimation
        <4>1. l \in Legitimation
          OBVIOUS
        <4>2. i \in DOMAIN l.request.legitimations /\ i \in DOMAIN k.request.legitimations
          BY <2>2, <2>3
        <4> QED BY <4>1, <4>2, HeldAreLegitimations
      <3> QED BY <1>2, <3>1, <3>2
    <2> HIDE DEF ls, ks, F
    <2>4. [i \in DOMAIN ls |-> F[ls[i]]] = [i \in DOMAIN ks |-> F[ks[i]]]
      BY <2>2, <2>3
    <2> QED BY <2>4 DEF RearrangedHeld, SortedLegitimation, F, ls, ks
  <1> DEFINE held == RearrangedHeld(SortObj, l.request)
  <1>6. /\ DecompressCredentialWith(CompactCredential(l, CompressedHeld(l.request)), held) = F[l]
        /\ DecompressCredentialWith(CompactCredential(k, CompressedHeld(k.request)), held) = F[k]
    <2>1. l \in Legitimation
      OBVIOUS
    <2> QED BY <1>5, <2>1, DecompressCredentialIs
  <1> QED BY <1>3, <1>4, <1>6

LEMMA LegitimationsDecompress ==
    \A c \in Legitimation :
       DecompressedLegitimation[CompressedLegitimation[c]] = SortedLegitimation[c]
  <1> DEFINE C == CompressedLegitimation  S == SortedLegitimation
             Image == {C[l] : l \in Legitimation}
             Parts(x) == At(At(x, 1), 6).array
             back == [x \in Image |-> S[CHOOSE l \in Legitimation : C[l] = x]]
             D == DecompressedLegitimation
  <1>1. \A l \in Legitimation : Parts(C[l]) = CompressedHeld(l.request)
    BY LegitimationCompressed, CompactHolds
  <1>2. ASSUME NEW l \in Legitimation PROVE back[C[l]] = S[l]
    <2> DEFINE k == CHOOSE k \in Legitimation : C[k] = C[l]
    <2>1. k \in Legitimation /\ C[k] = C[l]
      OBVIOUS
    <2>2. back[C[l]] = S[k]
      OBVIOUS
    <2> HIDE DEF k, back
    <2> QED BY <2>1, <2>2, CompressedAlike
  <1>3. ASSUME NEW F, NEW l \in Legitimation, \A k \in Held(l.request) : F[C[k]] = S[k]
        PROVE  DecompressCredentialWith(C[l], [i \in DOMAIN Parts(C[l]) |-> F[Parts(C[l])[i]]])
                  = S[l]
    <2>1. DOMAIN Parts(C[l]) = DOMAIN l.request.legitimations
      BY <1>1 DEF CompressedHeld
    <2>2. \A i \in DOMAIN l.request.legitimations :
             F[Parts(C[l])[i]] = S[l.request.legitimations[i]]
      <3>1. ASSUME NEW i \in DOMAIN l.request.legitimations
            PROVE  /\ Parts(C[l])[i] = C[l.request.legitimations[i]]
                   /\ l.request.legitimations[i] \in Held(l.request)
        <4>1. CompressedHeld(l.request)[i] = C[l.request.legitimations[i]]
          BY DEF CompressedHeld
        <4> QED BY <1>1, <4>1, HeldAreLegitimations
      <3> HIDE DEF Parts, C, S
      <3> QED BY <1>3, <3>1
    <2>3. [i \in DOMAIN Parts(C[l]) |-> F[Parts(C[l])[i]]] = RearrangedHeld(SortObj, l.request)
      <3>1. RearrangedHeld(SortObj, l.request)
               = [i \in DOMAIN l.request.legitimations |-> S[l.request.legitimations[i]]]
        BY DEF RearrangedHeld, SortedLegitimation
      <3> HIDE DEF Parts, C, S
      <3> QED BY <2>1, <2>2, <3>1
    <2> HIDE DEF Parts
    <2> QED BY <2>3, LegitimationCompressed, DecompressCredentialIs
  <1>4. back = [x \in Image |->
                   DecompressCredentialWith(x, [i \in DOMAIN Parts(x) |-> back[Parts(x)[i]]])]
    <2>1. ASSUME NEW x \in Image
          PROVE  back[x] = DecompressCredentialWith(x, [i \in DOMAIN Parts(x) |-> back[Parts(x)[i]]])
      <3>1. PICK l \in Legitimation : x = C[l]
        OBVIOUS
      <3>2. \A k \in Held(l.request) : back[C[k]] = S[k]
        BY <1>2, HeldAreLegitimations
      <3> HIDE DEF back, Parts, C, S
      <3> QED BY <1>2, <1>3, <3>1, <3>2
    <2>2. back = [x \in Image |-> back[x]]
      OBVIOUS
    <2> HIDE DEF back, Parts
    <2> QED BY <2>1, <2>2
  <1>5. D = [x \in Image |->
                DecompressCredentialWith(x, [i \in DOMAIN Parts(x) |-> D[Parts(x)[i]]])]
    BY <1>4 DEF DecompressedLegitimation, CompactLegitimation
  <1> DEFINE bad == {l \in Legitimation : D[C[l]] # S[l]}
  <1>6. SUFFICES ASSUME bad # {} PROVE FALSE
    OBVIOUS
  <1>7. PICK l \in bad : \A k \in Held(l.request) : k \notin bad
    <2>1. bad \subseteq Legitimation
      OBVIOUS
    <2> HIDE DEF bad
    <2> QED BY <1>6, <2>1, Earliest
  <1>8. l \in Legitimation /\ \A k \in Held(l.request) : D[C[k]] = S[k]
    BY <1>7, HeldAreLegitimations
  <1>9. D[C[l]] = DecompressCredentialWith(C[l], [i \in DOMAIN Parts(C[l]) |-> D[Parts(C[l])[i]]])
    BY <1>5, <1>8
  <1> HIDE DEF D, C, S, Parts
  <1>10. D[C[l]] = S[l]
    BY <1>3, <1>8, <1>9
  <1> QED BY <1>10

-----------------------------------------------------------------------------
(* The DIDs of the three. *)

ClaimerKey == AuthenticationKey(Claimer)
ClaimerEncryptionKey == EncryptionKey(Claimer)
SigningKeys == {ClaimerKey, NextAuthenticationKey}
EncryptionKeys == {ClaimerEncryptionKey, NextEncryptionKey}

LightEncoded == Encoded({"e"}, AsKey(ClaimerEncryptionKey), <<>>)
LightUri(fragment) ==
    [type |-> "light", account |-> ClaimerKey, encoding |-> EncodingFor(KeyType(ClaimerKey)),
     encoded |-> LightEncoded, fragment |-> fragment]
AccountUri(p, fragment) ==
    [type |-> "full", account |-> AuthenticationKey(p), encoding |-> Absent,
     encoded |-> Absent, fragment |-> fragment]

LightRecord ==
    [uri |-> LightUri(Absent),
     identifier |-> ClaimerKey,
     keys |-> [id \in {"authentication", "encryption"} |->
                  IF id = "encryption" THEN AsKey(ClaimerEncryptionKey) ELSE AsKey(ClaimerKey)],
     relationships |-> [r \in {"authentication", "keyAgreement"} |->
                           IF r = "keyAgreement" THEN {"encryption"} ELSE {"authentication"}],
     endpoints |-> <<>>]
FullRecord(p, k, e) ==
    [uri |-> AccountUri(p, Absent),
     identifier |-> AuthenticationKey(p),
     keys |-> [id \in {k, e} |-> AsKey(id)],
     relationships |-> [r \in {"authentication", "keyAgreement"} |->
                           IF r = "authentication" THEN {k} ELSE {e}],
     endpoints |-> <<>>]

LEMMA Keys ==
    /\ ClaimerKey \in PublicKey /\ ClaimerEncryptionKey \in PublicKey
    /\ SigningKeys \subseteq PublicKey /\ EncryptionKeys \subseteq PublicKey
    /\ \A p \in Party : AuthenticationKey(p) \in PublicKey /\ EncryptionKey(p) \in PublicKey
    /\ \A k \in SigningKeys : KeyType(k) \in VerificationKeyType
    /\ \A e \in EncryptionKeys : KeyType(e) = "x25519"
    /\ \A p \in Party : /\ KeyType(AuthenticationKey(p)) \in VerificationKeyType
                        /\ KeyType(EncryptionKey(p)) = "x25519"
    /\ \A key \in PublicKey : key # "authentication" /\ key # "encryption"
    /\ {Claimer, Attester, Verifier} = Party
  BY ExchangeAssumption DEF ClaimerKey, ClaimerEncryptionKey, SigningKeys, EncryptionKeys,
     PublicKey, Party

LEMMA ClaimerKeyType == KeyType(ClaimerKey) \in {"sr25519", "ed25519"}
  BY ExchangeAssumption DEF EncodingFor, ClaimerKey

LEMMA NoText ==
    /\ \A type \in AnyKeyType : type # Absent
    /\ \A id \in KeyId : id # Absent
    /\ "salt" # Absent
  BY AbsentAssumption

(* What is undefined is none of the objects of a DID.                       *)
LEMMA NoObject ==
    /\ \A x : x \in Uri \cup KnownDetails => x # Absent
    /\ \A k, t : k \in PublicKey /\ t \in AnyKeyType => [publicKey |-> k, type |-> t] # Absent
    /\ \A id, k, t : id \in KeyId /\ k \in PublicKey /\ t \in AnyKeyType =>
          [id |-> id, publicKey |-> k, type |-> t] # Absent
    /\ \A c, u, k, t : c \in Uri /\ u \in Uri /\ k \in PublicKey /\ t \in AnyKeyType =>
          [controller |-> c, uri |-> u, publicKey |-> k, type |-> t] # Absent
    /\ \A d, c, b : d \in KnownDetails \cup {Absent} /\ c \in Uri \cup {Absent} /\ b \in BOOLEAN =>
          Document(d, c, b) # Absent
  <1>1. \A x : x \in Uri \cup KnownDetails => x # Absent
    BY AbsentAssumption
  <1>2. \A k, t : k \in PublicKey /\ t \in AnyKeyType => [publicKey |-> k, type |-> t] # Absent
    <2>1. Absent \notin [publicKey : PublicKey, type : AnyKeyType]
      BY AbsentAssumption
    <2> QED BY <2>1
  <1>3. \A id, k, t : id \in KeyId /\ k \in PublicKey /\ t \in AnyKeyType =>
           [id |-> id, publicKey |-> k, type |-> t] # Absent
    <2>1. Absent \notin [id : KeyId, publicKey : PublicKey, type : AnyKeyType]
      BY AbsentAssumption
    <2> QED BY <2>1
  <1>4. \A c, u, k, t : c \in Uri /\ u \in Uri /\ k \in PublicKey /\ t \in AnyKeyType =>
           [controller |-> c, uri |-> u, publicKey |-> k, type |-> t] # Absent
    <2>1. Absent \notin [controller : Uri, uri : Uri, publicKey : PublicKey, type : AnyKeyType]
      BY AbsentAssumption
    <2> QED BY <2>1
  <1>5. \A d, c, b : d \in KnownDetails \cup {Absent} /\ c \in Uri \cup {Absent} /\ b \in BOOLEAN =>
           Document(d, c, b) # Absent
    <2>1. Absent \notin [details : KnownDetails \cup {Absent}, canonicalId : Uri \cup {Absent},
                         deactivated : BOOLEAN]
      BY AbsentAssumption
    <2> QED BY <2>1 DEF Document
  <1> QED BY <1>1, <1>2, <1>3, <1>4, <1>5

(* Keys are known by their type, which is a text.                           *)
LEMMA KeyTypes ==
    /\ \A k \in SigningKeys \cup EncryptionKeys : KeyType(k) \in AnyKeyType
    /\ \A p \in Party : KeyType(AuthenticationKey(p)) \in AnyKeyType /\ KeyType(EncryptionKey(p)) \in AnyKeyType
    /\ \A k \in SigningKeys, e \in EncryptionKeys : k # e
  BY Keys DEF VerificationKeyType, EncryptionKeyType, AnyKeyType

LEMMA CheckedDid ==
    ASSUME NEW d, NEW k,
           ~ IsError(ValidateKiltDidUri(d.uri, FALSE)),
           DOMAIN d.relationships = {"authentication", "keyAgreement"},
           d.relationships["authentication"] = {k},
           d.relationships["authentication"] \subseteq DOMAIN d.keys,
           d.relationships["keyAgreement"] \subseteq DOMAIN d.keys
    PROVE  CheckDidCreationDetails(d) = d
  <1>1. Cardinality(d.relationships["authentication"]) = 1
    BY FS_Singleton
  <1>2. UNION {d.relationships[r] : r \in DOMAIN d.relationships} \subseteq DOMAIN d.keys
    OBVIOUS
  <1>3. DOMAIN d.relationships \subseteq KeyRelationship \cup {"none"}
    BY DEF KeyRelationship, VerificationRelationship
  <1>4. "authentication" \in DOMAIN d.relationships
    OBVIOUS
  <1> QED BY <1>1, <1>2, <1>3, <1>4 DEF CheckDidCreationDetails

LEMMA UriAccounts ==
    /\ \A f : AccountOf(LightUri(f)) = ClaimerKey
    /\ \A p, f : AccountOf(AccountUri(p, f)) = AuthenticationKey(p)
    /\ \A p : GetKiltDidFromIdentifier(AuthenticationKey(p), "full", Absent) = AccountUri(p, Absent)
    /\ \A f : ParseDidUri(LightUri(f)).did = LightUri(Absent)
    /\ \A p, f : ParseDidUri(AccountUri(p, f)).did = AccountUri(p, Absent)
    /\ \A f : ~ IsError(ParseDidUri(LightUri(f))) /\ ParseDidUri(LightUri(f)).fragment = f
    /\ \A p, f : ~ IsError(ParseDidUri(AccountUri(p, f))) /\ ParseDidUri(AccountUri(p, f)).fragment = f
  BY DEF AccountOf, LightUri, AccountUri, ParseDidUri, LightIdentifier, GetKiltDidFromIdentifier,
     IsError

LEMMA UrisAreValid ==
    /\ \A f : ~ IsError(ValidateKiltDidUri(LightUri(f), TRUE))
    /\ ~ IsError(ValidateKiltDidUri(LightUri(Absent), FALSE))
    /\ \A p \in Party : \A f : ~ IsError(ValidateKiltDidUri(AccountUri(p, f), TRUE))
    /\ \A p \in Party : ~ IsError(ValidateKiltDidUri(AccountUri(p, Absent), FALSE))
  BY UriAccounts, ExchangeAssumption, Errors DEF ValidateKiltDidUri, ClaimerKey, Valid, Party

LEMMA LightDidIs == LightDid = LightRecord
  <1> DEFINE k == AsKey(ClaimerKey)  e == AsKey(ClaimerEncryptionKey)
  <1>1. e # Absent
    BY NoObject, Keys, KeyTypes DEF AsKey, EncryptionKeys
  <1>2. DOMAIN (<<>>) = {}
    OBVIOUS
  <1>3. ~ IsError(CheckLightDidCreationDetails(k, e, <<>>))
    <2>1. EncodingFor(k.type) # Absent
      BY ExchangeAssumption DEF AsKey, ClaimerKey
    <2>2. IsEncryptionKey(e)
      BY Keys, ExchangeAssumption DEF AsKey, IsEncryptionKey, EncryptionKeyType, ClaimerEncryptionKey, Party
    <2> HIDE DEF k, e
    <2> QED BY <1>2, <2>1, <2>2, Errors DEF CheckLightDidCreationDetails, Valid
  <1>4. SerializeAndEncode(e, <<>>) = LightEncoded
    <2>1. (IF e # Absent THEN {"e"} ELSE {}) \cup (IF DOMAIN (<<>>) # {} THEN {"s"} ELSE {}) = {"e"}
      BY <1>1, <1>2
    <2> QED BY <2>1 DEF SerializeAndEncode, LightEncoded
  <1>5. LightDid = CheckDidCreationDetails(LightRecord)
    <2>1. LightDid = CheckDidCreationDetails(
               [uri |-> GetKiltDidFromIdentifier(
                            LightIdentifier(EncodingFor(k.type), k.publicKey), "light",
                            SerializeAndEncode(e, <<>>)),
                identifier |-> k.publicKey,
                keys |-> [id \in {"authentication", "encryption"} |->
                             IF id = "encryption" THEN e ELSE k],
                relationships |->
                    [r \in {"authentication", "keyAgreement"} |->
                        IF r = "keyAgreement" THEN {"encryption"} ELSE {"authentication"}],
                endpoints |-> <<>>])
      <3>1. LightDid = LightDidFromDetails(k, e, <<>>)
        BY DEF LightDid, ClaimerKey, ClaimerEncryptionKey
      <3>2. {"authentication"} \cup (IF e # Absent THEN {"encryption"} ELSE {})
                = {"authentication", "encryption"}
        BY <1>1
      <3>3. {"authentication"} \cup (IF e # Absent THEN {"keyAgreement"} ELSE {})
                = {"authentication", "keyAgreement"}
        BY <1>1
      <3> HIDE DEF k, e
      <3> QED BY <1>3, <3>1, <3>2, <3>3 DEF LightDidFromDetails
    <2>2. GetKiltDidFromIdentifier(LightIdentifier(EncodingFor(k.type), k.publicKey), "light",
                            SerializeAndEncode(e, <<>>)) = LightUri(Absent)
      BY <1>4 DEF GetKiltDidFromIdentifier, LightIdentifier, LightUri, AsKey
    <2>3. k.publicKey = ClaimerKey
      BY DEF AsKey
    <2> HIDE DEF k
    <2> QED BY <2>1, <2>2, <2>3 DEF LightRecord, k
  <1>6. CheckDidCreationDetails(LightRecord) = LightRecord
    <2> DEFINE d == LightRecord
    <2>1. /\ d.uri = LightUri(Absent)
          /\ DOMAIN d.relationships = {"authentication", "keyAgreement"}
          /\ d.relationships["authentication"] = {"authentication"}
          /\ d.relationships["keyAgreement"] = {"encryption"}
          /\ DOMAIN d.keys = {"authentication", "encryption"}
      BY DEF LightRecord
    <2> HIDE DEF d
    <2> QED BY <2>1, UrisAreValid, CheckedDid DEF d
  <1> QED BY <1>5, <1>6

LEMMA FullDidIs ==
    ASSUME NEW p \in Party, NEW k, NEW e
    PROVE  DetailsOfRecord(AccountUri(p, Absent), ChainRecord(k, e), <<>>) = FullRecord(p, k, e)
  <1> DEFINE d == FullRecord(p, k, e)  r == ChainRecord(k, e)
  <1>1. DetailsOfRecord(AccountUri(p, Absent), r, <<>>) = CheckDidCreationDetails(d)
    <2>1. {r.authenticationKey} \cup r.keyAgreementKeys
              \cup ({r.attestationKey, r.delegationKey} \ {Absent}) = {k, e}
      BY DEF ChainRecord
    <2>2. {"authentication", "keyAgreement"}
              \cup (IF r.attestationKey # Absent THEN {"assertionMethod"} ELSE {})
              \cup (IF r.delegationKey # Absent THEN {"capabilityDelegation"} ELSE {})
            = {"authentication", "keyAgreement"}
      BY DEF ChainRecord
    <2>3. [rel \in {"authentication", "keyAgreement"} |->
              CASE rel = "authentication" -> {r.authenticationKey}
                [] rel = "keyAgreement" -> r.keyAgreementKeys
                [] rel = "assertionMethod" -> {r.attestationKey}
                [] OTHER -> {r.delegationKey}]
            = [rel \in {"authentication", "keyAgreement"} |->
                  IF rel = "authentication" THEN {k} ELSE {e}]
      BY DEF ChainRecord
    <2>4. AccountUri(p, Absent).account = AuthenticationKey(p)
      BY DEF AccountUri
    <2> HIDE DEF r
    <2> QED BY <2>1, <2>2, <2>3, <2>4 DEF DetailsOfRecord, FullRecord, AsKey
  <1>2. /\ d.uri = AccountUri(p, Absent)
        /\ DOMAIN d.relationships = {"authentication", "keyAgreement"}
        /\ d.relationships["authentication"] = {k}
        /\ d.relationships["keyAgreement"] = {e}
        /\ DOMAIN d.keys = {k, e}
    BY DEF FullRecord
  <1>3. CheckDidCreationDetails(d) = d
    <2> HIDE DEF d
    <2> QED BY <1>2, UrisAreValid, CheckedDid
  <1> QED BY <1>1, <1>3

IdKey(id, key) == [id |-> id, publicKey |-> key, type |-> KeyType(key)]

LEMMA IdKeys ==
    ASSUME NEW id \in KeyId,
           NEW key \in SigningKeys \cup EncryptionKeys \cup {AuthenticationKey(p) : p \in Party}
                           \cup {EncryptionKey(p) : p \in Party}
    PROVE  IdKey(id, key) # Absent
  <1>1. key \in PublicKey /\ KeyType(key) \in AnyKeyType
    BY Keys, KeyTypes
  <1> QED BY <1>1, NoObject DEF IdKey

LEMMA LightKeys ==
    LET d == LightRecord
    IN  /\ \A id : GetKey(d, id) =
              IF id = "authentication" THEN IdKey(id, ClaimerKey)
              ELSE IF id = "encryption" THEN IdKey(id, ClaimerEncryptionKey) ELSE Absent
        /\ GetKeysOf(d, "authentication") = {IdKey("authentication", ClaimerKey)}
        /\ FirstKey(d, "authentication") = IdKey("authentication", ClaimerKey)
        /\ FirstKey(d, "keyAgreement") = IdKey("encryption", ClaimerEncryptionKey)
        /\ DOMAIN d.keys = {"authentication", "encryption"}
  <1> DEFINE d == LightRecord
  <1>1. ASSUME NEW id
        PROVE  GetKey(d, id) =
                  IF id = "authentication" THEN IdKey(id, ClaimerKey)
                  ELSE IF id = "encryption" THEN IdKey(id, ClaimerEncryptionKey) ELSE Absent
    BY DEF LightRecord, GetKey, AsKey, IdKey
  <1>2. /\ DOMAIN d.relationships = {"authentication", "keyAgreement"}
        /\ d.relationships["authentication"] = {"authentication"}
        /\ d.relationships["keyAgreement"] = {"encryption"}
        /\ DOMAIN d.keys = {"authentication", "encryption"}
    BY DEF LightRecord
  <1> HIDE DEF d
  <1>3. GetKeysOf(d, "authentication") = {IdKey("authentication", ClaimerKey)}
    BY <1>1, <1>2 DEF GetKeysOf
  <1>4. GetKeysOf(d, "keyAgreement") = {IdKey("encryption", ClaimerEncryptionKey)}
    BY <1>1, <1>2 DEF GetKeysOf
  <1>5. /\ FirstKey(d, "authentication") = IdKey("authentication", ClaimerKey)
        /\ FirstKey(d, "keyAgreement") = IdKey("encryption", ClaimerEncryptionKey)
    BY <1>3, <1>4 DEF FirstKey
  <1> QED BY <1>1, <1>2, <1>3, <1>5 DEF d

LEMMA FullKeys ==
    ASSUME NEW p, NEW k, NEW e
    PROVE  LET d == FullRecord(p, k, e)
           IN  /\ \A id : GetKey(d, id) = IF id \in {k, e} THEN IdKey(id, id) ELSE Absent
               /\ GetKeysOf(d, "authentication") = {IdKey(k, k)}
               /\ FirstKey(d, "authentication") = IdKey(k, k)
               /\ FirstKey(d, "keyAgreement") = IdKey(e, e)
               /\ DOMAIN d.keys = {k, e}
  <1> DEFINE d == FullRecord(p, k, e)
  <1>1. \A id : GetKey(d, id) = IF id \in {k, e} THEN IdKey(id, id) ELSE Absent
    BY DEF FullRecord, GetKey, AsKey, IdKey
  <1>2. /\ DOMAIN d.relationships = {"authentication", "keyAgreement"}
        /\ d.relationships["authentication"] = {k}
        /\ d.relationships["keyAgreement"] = {e}
        /\ DOMAIN d.keys = {k, e}
    BY DEF FullRecord
  <1> HIDE DEF d
  <1>3. GetKeysOf(d, "authentication") = {IdKey(k, k)}
    BY <1>1, <1>2 DEF GetKeysOf
  <1>4. GetKeysOf(d, "keyAgreement") = {IdKey(e, e)}
    BY <1>1, <1>2 DEF GetKeysOf
  <1>5. FirstKey(d, "authentication") = IdKey(k, k) /\ FirstKey(d, "keyAgreement") = IdKey(e, e)
    BY <1>3, <1>4 DEF FirstKey
  <1> QED BY <1>1, <1>2, <1>3, <1>5 DEF d

(* The text of the light DID, under any fragment, says all there is of it.  *)
LEMMA LightRoundTrip ==
    \A f : LightDidFromUri(LightUri(f), FALSE) = LightRecord
  <1> TAKE f
  <1> DEFINE uri == LightUri(f)
             parsed == ParseDidUri(uri)
  <1>1. KeyTypeForEncoding(uri.encoding) = KeyType(ClaimerKey) /\ KeyType(ClaimerKey) # Absent
    <2>1. EncodingFor("sr25519") = "00" /\ EncodingFor("ed25519") = "01"
      BY DEF EncodingFor
    <2>2. KeyTypeForEncoding("00") = "sr25519" /\ KeyTypeForEncoding("01") = "ed25519"
      BY DEF KeyTypeForEncoding
    <2>3. uri.encoding = EncodingFor(KeyType(ClaimerKey))
      BY DEF LightUri
    <2>4. KeyType(ClaimerKey) # Absent
      BY NoText, KeyTypes DEF SigningKeys
    <2> HIDE DEF uri
    <2> QED BY <2>1, <2>2, <2>3, <2>4, ClaimerKeyType
  <1>2. /\ ~ IsError(parsed) /\ parsed.type = "light" /\ parsed.encoded = LightEncoded
        /\ uri.account = ClaimerKey
    BY DEF LightUri, ParseDidUri, IsError
  <1>3. LightEncoded # Absent
    <2>1. LightEncoded = LightDid.uri.encoded
      BY LightDidIs DEF LightRecord, LightUri
    <2> QED BY <2>1, AbsentAssumption
  <1>4. DecodeAndDeserialize(LightEncoded)
            = [encryptionKey |-> AsKey(ClaimerEncryptionKey), services |-> <<>>]
    <2>1. /\ LightEncoded.flag = 0 /\ DOMAIN LightEncoded.map = {"e"}
          /\ LightEncoded.map["e"] = AsKey(ClaimerEncryptionKey)
      BY DEF LightEncoded, Encoded
    <2> QED BY <2>1 DEF DecodeAndDeserialize
  <1>5. ~ IsError(DecodeAndDeserialize(LightEncoded))
    BY <1>4 DEF IsError
  <1> HIDE DEF uri, parsed
  <1>6. LightDidFromUri(uri, FALSE)
            = LightDidFromDetails([publicKey |-> uri.account,
                                   type |-> KeyTypeForEncoding(uri.encoding)],
                                  DecodeAndDeserialize(LightEncoded).encryptionKey,
                                  DecodeAndDeserialize(LightEncoded).services)
    BY <1>1, <1>2, <1>3, <1>5 DEF LightDidFromUri, parsed
  <1>7. LightDidFromUri(uri, FALSE)
            = LightDidFromDetails(AsKey(ClaimerKey), AsKey(ClaimerEncryptionKey), <<>>)
    <2>1. [publicKey |-> uri.account, type |-> KeyTypeForEncoding(uri.encoding)]
             = AsKey(ClaimerKey)
      BY <1>1, <1>2 DEF AsKey
    <2>2. /\ DecodeAndDeserialize(LightEncoded).encryptionKey = AsKey(ClaimerEncryptionKey)
          /\ DecodeAndDeserialize(LightEncoded).services = <<>>
      BY <1>4
    <2> QED BY <1>6, <2>1, <2>2
  <1>8. LightDidFromUri(uri, FALSE) = LightDid
    BY <1>7 DEF LightDid, ClaimerKey, ClaimerEncryptionKey
  <1> QED BY <1>8, LightDidIs DEF uri

(* What is on the chain of the DID of each: the claimer's comes and goes.   *)
DidOK(record) ==
    record = Absent \/ \E k \in SigningKeys, e \in EncryptionKeys : record = ChainRecord(k, e)

LEMMA Records ==
    /\ \A k \in PublicKey, e \in PublicKey : ChainRecord(k, e) # Absent
    /\ \A k, e : /\ ChainRecord(k, e).authenticationKey = k
                 /\ ChainRecord(k, e).keyAgreementKeys = {e}
    /\ \A p \in Party : FirstRecord[p] = ChainRecord(AuthenticationKey(p), EncryptionKey(p))
    /\ \A p \in Party : FirstRecord[p] # Absent
  <1>1. ASSUME NEW k \in PublicKey, NEW e \in PublicKey PROVE ChainRecord(k, e) # Absent
    <2>1. Absent \notin [authenticationKey : PublicKey, keyAgreementKeys : SUBSET PublicKey,
                         attestationKey : {Absent}, delegationKey : {Absent}]
      BY AbsentAssumption
    <2> QED BY <2>1 DEF ChainRecord
  <1>2. \A p \in Party : FirstRecord[p] = ChainRecord(AuthenticationKey(p), EncryptionKey(p))
    BY DEF FirstRecord
  <1>3. \A k, e : /\ ChainRecord(k, e).authenticationKey = k
                  /\ ChainRecord(k, e).keyAgreementKeys = {e}
    BY DEF ChainRecord
  <1> QED BY <1>1, <1>2, <1>3, Keys

LEMMA RecordsOf ==
    /\ \A f : RecordOf(LightUri(f)) = did /\ (IsDeleted(LightUri(f)) <=> deleted)
    /\ \A f : /\ RecordOf(AccountUri(Claimer, f)) = did
              /\ IsDeleted(AccountUri(Claimer, f)) <=> deleted
    /\ \A f : \A p \in {Attester, Verifier} :
          /\ RecordOf(AccountUri(p, f)) = ChainRecord(AuthenticationKey(p), EncryptionKey(p))
          /\ ~ IsDeleted(AccountUri(p, f))
    /\ \A uri : IsDeleted(uri) \in BOOLEAN
  <1>1. /\ AuthenticationKey(Claimer) # AuthenticationKey(Attester)
        /\ AuthenticationKey(Claimer) # AuthenticationKey(Verifier)
        /\ AuthenticationKey(Attester) # AuthenticationKey(Verifier)
    BY ExchangeAssumption DEF Party
  <1>2. \A p \in {Attester, Verifier} : p \in Party
    BY DEF Party
  <1>3. ASSUME NEW uri, AccountOf(uri) = ClaimerKey
        PROVE  RecordOf(uri) = did /\ (IsDeleted(uri) <=> deleted)
    <2>1. RecordOf(uri) = did
      BY <1>1, <1>3 DEF RecordOf, ClaimerKey
    <2>2. IsDeleted(uri) <=> deleted
      BY <1>3 DEF IsDeleted, ClaimerKey
    <2> QED BY <2>1, <2>2
  <1>4. ASSUME NEW f, NEW p \in {Attester, Verifier}
        PROVE  /\ RecordOf(AccountUri(p, f)) = ChainRecord(AuthenticationKey(p), EncryptionKey(p))
               /\ ~ IsDeleted(AccountUri(p, f))
    <2>1. AccountOf(AccountUri(p, f)) = AuthenticationKey(p)
      BY UriAccounts
    <2>2. RecordOf(AccountUri(p, f)) = FirstRecord[p]
      BY <1>1, <2>1 DEF RecordOf
    <2>3. ~ IsDeleted(AccountUri(p, f))
      BY <1>1, <2>1 DEF IsDeleted
    <2> QED BY <1>2, <2>2, <2>3, Records
  <1>5. \A f : RecordOf(LightUri(f)) = did /\ (IsDeleted(LightUri(f)) <=> deleted)
    BY <1>3, UriAccounts
  <1>6. \A f : /\ RecordOf(AccountUri(Claimer, f)) = did
               /\ IsDeleted(AccountUri(Claimer, f)) <=> deleted
    BY <1>3, UriAccounts DEF ClaimerKey
  <1>7. \A uri : IsDeleted(uri) \in BOOLEAN
    BY DEF IsDeleted
  <1> QED BY <1>4, <1>5, <1>6, <1>7

LEMMA UrisTyped ==
    /\ \A f \in KeyId \cup {Absent} : LightUri(f) \in Uri
    /\ \A p \in Party, f \in KeyId \cup {Absent} : AccountUri(p, f) \in Uri
  <1>1. EncodingFor(KeyType(ClaimerKey)) \in {"00", "01"}
    BY ClaimerKeyType DEF EncodingFor
  <1>2. LightEncoded = LightDid.uri.encoded
    BY LightDidIs DEF LightRecord, LightUri
  <1> QED BY <1>1, <1>2, Keys DEF Uri, LightUri, AccountUri

LEMMA DetailsKnown ==
    /\ LightRecord \in KnownDetails
    /\ \A p \in Party, k \in PublicKey, e \in PublicKey : FullRecord(p, k, e) \in KnownDetails
  <1>1. \A p \in Party : FullUri[p] = AccountUri(p, Absent)
    BY UriAccounts DEF FullUri
  <1> QED BY <1>1, LightDidIs, FullDidIs DEF KnownDetails, FullDid

(* What the resolver answers.                                               *)
LEMMA LightDocument ==
    ASSUME NEW f, NEW record, NEW gone \in BOOLEAN, gone => record = Absent
    PROVE  LET doc == ResolveDoc(LightUri(f), record, gone)
           IN  /\ record # Absent => doc = Document(LightRecord, AccountUri(Claimer, Absent), FALSE)
               /\ record = Absent /\ gone => doc = Document(Absent, Absent, TRUE)
               /\ record = Absent /\ ~ gone => doc = Document(LightRecord, Absent, FALSE)
               /\ doc # Absent
  <1>1. /\ GetKiltDidFromIdentifier(AccountOf(LightUri(f)), "full", Absent)
              = AccountUri(Claimer, Absent)
        /\ LightUri(f).type # "full"
    BY UriAccounts DEF ClaimerKey, LightUri
  <1>2. \A d \in {LightRecord, Absent}, c \in {Absent, AccountUri(Claimer, Absent)}, b \in BOOLEAN :
           Document(d, c, b) # Absent
    <2>1. AccountUri(Claimer, Absent) \in Uri
      BY UrisTyped DEF Party
    <2> QED BY <2>1, DetailsKnown, NoObject
  <1> DEFINE doc == ResolveDoc(LightUri(f), record, gone)
  <1>3. CASE record # Absent
    <2>1. doc = Document(LightRecord, AccountUri(Claimer, Absent), FALSE)
      BY <1>1, <1>3, LightRoundTrip DEF ResolveDoc
    <2> QED BY <1>2, <1>3, <2>1
  <1>4. CASE record = Absent /\ gone
    <2>1. doc = Document(Absent, Absent, TRUE)
      BY <1>1, <1>4, LightRoundTrip DEF ResolveDoc
    <2> QED BY <1>2, <1>4, <2>1
  <1>5. CASE record = Absent /\ ~ gone
    <2>1. doc = Document(LightRecord, Absent, FALSE)
      BY <1>1, <1>5, LightRoundTrip DEF ResolveDoc
    <2> QED BY <1>2, <1>5, <2>1
  <1> QED BY <1>3, <1>4, <1>5

LEMMA FullDocument ==
    ASSUME NEW p \in Party, NEW f, NEW k \in PublicKey, NEW e \in PublicKey,
           NEW gone \in BOOLEAN, ~ gone
    PROVE  LET doc == ResolveDoc(AccountUri(p, f), ChainRecord(k, e), gone)
           IN  doc = Document(FullRecord(p, k, e), Absent, FALSE) /\ doc # Absent
  <1>1. /\ GetKiltDidFromIdentifier(AccountOf(AccountUri(p, f)), "full", Absent)
              = AccountUri(p, Absent)
        /\ AccountUri(p, f).type = "full"
    BY UriAccounts DEF AccountUri
  <1>2. Document(FullRecord(p, k, e), Absent, FALSE) # Absent
    BY DetailsKnown, NoObject
  <1>3. ChainRecord(k, e) # Absent
    BY Records
  <1>4. ResolveDoc(AccountUri(p, f), ChainRecord(k, e), gone)
           = Document(DetailsOfRecord(AccountUri(p, Absent), ChainRecord(k, e), <<>>), Absent, FALSE)
    BY <1>1, <1>3 DEF ResolveDoc
  <1> QED BY <1>2, <1>4, FullDidIs

LEMMA GoneDocument ==
    ASSUME NEW p \in Party, NEW f, NEW gone \in BOOLEAN
    PROVE  LET doc == ResolveDoc(AccountUri(p, f), Absent, gone)
           IN  /\ gone => doc = Document(Absent, Absent, TRUE)
               /\ ~ gone => doc = Absent
  BY DEF ResolveDoc, AccountUri

ResolvedKey(did_, uri, key) ==
    [controller |-> did_, uri |-> uri, publicKey |-> key, type |-> KeyType(key)]

LEMMA ResolvedKeys ==
    ASSUME NEW d \in Uri, NEW uri \in Uri,
           NEW key \in SigningKeys \cup EncryptionKeys \cup {AuthenticationKey(p) : p \in Party}
                           \cup {EncryptionKey(p) : p \in Party}
    PROVE  ResolvedKey(d, uri, key) # Absent
  <1>1. key \in PublicKey /\ KeyType(key) \in AnyKeyType
    BY Keys, KeyTypes
  <1> QED BY <1>1, NoObject DEF ResolvedKey

LEMMA KeyIsResolved ==
    ASSUME NEW uri, NEW record, NEW gone, NEW d, NEW key,
           ResolveDoc(uri, record, gone) # Absent,
           ResolveDoc(uri, record, gone).details = d, d # Absent,
           GetKey(d, uri.fragment) = IdKey(uri.fragment, key), IdKey(uri.fragment, key) # Absent
    PROVE  ResolveKey(uri, record, gone) = ResolvedKey(ParseDidUri(uri).did, uri, key)
  BY DEF ResolveKey, ResolvedKey, IdKey

LightKeyOf(id) == IF id = "authentication" THEN ClaimerKey ELSE ClaimerEncryptionKey

LEMMA LightKeyResolves ==
    ASSUME NEW id \in {"authentication", "encryption"}, NEW record, NEW gone \in BOOLEAN,
           gone => record = Absent
    PROVE  LET key == ResolveKey(LightUri(id), record, gone)
           IN  /\ gone => key = Absent
               /\ ~ gone => /\ key = ResolvedKey(LightUri(Absent), LightUri(id), LightKeyOf(id))
                            /\ key # Absent
  <1> DEFINE uri == LightUri(id)  doc == ResolveDoc(uri, record, gone)
  <1>1. uri.fragment = id /\ ParseDidUri(uri).did = LightUri(Absent)
    BY UriAccounts DEF LightUri
  <1>2. CASE gone
    <2>1. doc = Document(Absent, Absent, TRUE) /\ doc # Absent
      BY <1>2, LightDocument
    <2>2. doc.details = Absent
      BY <2>1 DEF Document
    <2> HIDE DEF doc
    <2> QED BY <1>2, <2>2 DEF ResolveKey, doc
  <1>3. CASE ~ gone
    <2>1. doc # Absent /\ doc.details = LightRecord
      BY <1>3, LightDocument DEF Document
    <2>2. GetKey(LightRecord, id) = IdKey(id, LightKeyOf(id)) /\ IdKey(id, LightKeyOf(id)) # Absent
      BY LightKeys, IdKeys DEF LightKeyOf, KeyId, SigningKeys, EncryptionKeys
    <2>3. LightRecord # Absent
      BY DetailsKnown, NoObject
    <2>4. ResolveKey(uri, record, gone) = ResolvedKey(LightUri(Absent), uri, LightKeyOf(id))
      <3> HIDE DEF doc, uri
      <3> QED BY <1>1, <2>1, <2>2, <2>3, KeyIsResolved DEF doc
    <2>5. /\ LightUri(Absent) \in Uri /\ uri \in Uri
          /\ LightKeyOf(id) \in SigningKeys \cup EncryptionKeys
      BY UrisTyped DEF LightKeyOf, KeyId, SigningKeys, EncryptionKeys
    <2>6. ResolvedKey(LightUri(Absent), uri, LightKeyOf(id)) # Absent
      <3> HIDE DEF uri
      <3> QED BY <2>5, ResolvedKeys
    <2> QED BY <1>3, <2>4, <2>6
  <1> QED BY <1>2, <1>3

(* The keys of the three: those that sign, and those that encrypt.          *)
SigningKeyOf(p, k) == IF p = Claimer THEN k \in SigningKeys ELSE k = AuthenticationKey(p)
EncryptionKeyFor(p, e) == IF p = Claimer THEN e \in EncryptionKeys ELSE e = EncryptionKey(p)

LEMMA KeysOfThem ==
    ASSUME NEW p \in Party, NEW k, SigningKeyOf(p, k), NEW e, EncryptionKeyFor(p, e)
    PROVE  /\ k \in PublicKey /\ e \in PublicKey
           /\ KeyType(k) \in VerificationKeyType /\ KeyType(e) = "x25519" /\ k # e
           /\ \A id \in {k, e}, d \in Uri, uri \in Uri :
                 IdKey(id, id) # Absent /\ ResolvedKey(d, uri, id) # Absent
  <1>1. /\ k \in SigningKeys \cup {AuthenticationKey(q) : q \in Party}
        /\ e \in EncryptionKeys \cup {EncryptionKey(q) : q \in Party}
    BY DEF SigningKeyOf, EncryptionKeyFor
  <1>2. /\ k \in PublicKey /\ e \in PublicKey
        /\ KeyType(k) \in VerificationKeyType /\ KeyType(e) = "x25519"
    BY <1>1, Keys
  <1>3. k # e
    BY <1>2 DEF VerificationKeyType
  <1>4. \A id \in {k, e}, d \in Uri, uri \in Uri :
           IdKey(id, id) # Absent /\ ResolvedKey(d, uri, id) # Absent
    BY <1>1, <1>2, IdKeys, ResolvedKeys DEF KeyId
  <1> QED BY <1>2, <1>3, <1>4

LEMMA FullKeyResolves ==
    ASSUME NEW p \in Party, NEW k, SigningKeyOf(p, k), NEW e, EncryptionKeyFor(p, e),
           NEW id \in KeyId, NEW gone \in BOOLEAN, ~ gone
    PROVE  LET key == ResolveKey(AccountUri(p, id), ChainRecord(k, e), gone)
           IN  /\ id \in {k, e} => /\ key = ResolvedKey(AccountUri(p, Absent), AccountUri(p, id), id)
                                   /\ key # Absent
               /\ id \notin {k, e} => key = Absent
  <1> DEFINE uri == AccountUri(p, id)  doc == ResolveDoc(uri, ChainRecord(k, e), gone)
             d == FullRecord(p, k, e)
  <1>1. uri.fragment = id /\ ParseDidUri(uri).did = AccountUri(p, Absent)
    BY UriAccounts DEF AccountUri
  <1>2. k \in PublicKey /\ e \in PublicKey
    BY KeysOfThem
  <1>3. doc # Absent /\ doc.details = d
    <2>1. doc = Document(d, Absent, FALSE) /\ doc # Absent
      BY <1>2, FullDocument
    <2>2. Document(d, Absent, FALSE).details = d
      BY DEF Document
    <2> QED BY <2>1, <2>2
  <1>4. d # Absent
    BY <1>2, DetailsKnown, NoObject
  <1>5. CASE id \in {k, e}
    <2>1. GetKey(d, id) = IdKey(id, id) /\ IdKey(id, id) # Absent
      <3>1. GetKey(d, id) = IdKey(id, id)
        BY <1>5, FullKeys
      <3>2. AccountUri(p, Absent) \in Uri
        BY UrisTyped
      <3> QED BY <1>5, <3>1, <3>2, KeysOfThem
    <2>2. ResolveKey(uri, ChainRecord(k, e), gone) = ResolvedKey(AccountUri(p, Absent), uri, id)
      <3> HIDE DEF doc, d, uri
      <3> QED BY <1>1, <1>3, <1>4, <2>1, KeyIsResolved DEF doc
    <2>3. ResolvedKey(AccountUri(p, Absent), uri, id) # Absent
      <3>1. AccountUri(p, Absent) \in Uri /\ uri \in Uri
        BY UrisTyped
      <3> HIDE DEF uri
      <3> QED BY <1>5, <3>1, KeysOfThem
    <2> QED BY <1>5, <2>2, <2>3
  <1>6. CASE id \notin {k, e}
    <2>1. GetKey(d, id) = Absent
      BY <1>6, FullKeys
    <2>2. ResolveKey(uri, ChainRecord(k, e), gone) = Absent
      <3> HIDE DEF doc, d, uri
      <3> QED BY <1>1, <1>3, <2>1 DEF ResolveKey, doc
    <2> QED BY <1>6, <2>2
  <1> QED BY <1>5, <1>6

LEMMA FullKeyFound ==
    ASSUME NEW p \in Party, NEW k, SigningKeyOf(p, k), NEW e, EncryptionKeyFor(p, e),
           NEW id \in {k, e}, NEW gone \in BOOLEAN, ~ gone
    PROVE  /\ ResolveKey(AccountUri(p, id), ChainRecord(k, e), gone)
                 = ResolvedKey(AccountUri(p, Absent), AccountUri(p, id), id)
           /\ ResolvedKey(AccountUri(p, Absent), AccountUri(p, id), id) # Absent
  <1>1. id \in KeyId
    BY KeysOfThem DEF KeyId
  <1> QED BY <1>1, FullKeyResolves

LEMMA FullKeyMissing ==
    ASSUME NEW p \in Party, NEW k, SigningKeyOf(p, k), NEW e, EncryptionKeyFor(p, e),
           NEW id \in KeyId, id # k, id # e, NEW gone \in BOOLEAN, ~ gone
    PROVE  ResolveKey(AccountUri(p, id), ChainRecord(k, e), gone) = Absent
  <1> QED BY FullKeyResolves

LEMMA GoneKey ==
    ASSUME NEW p \in Party, NEW f, NEW gone \in BOOLEAN
    PROVE  ResolveKey(AccountUri(p, f), Absent, gone) = Absent
  <1> DEFINE doc == ResolveDoc(AccountUri(p, f), Absent, gone)
  <1>1. doc = Absent \/ doc = Document(Absent, Absent, TRUE)
    BY GoneDocument
  <1>2. doc = Absent \/ doc.details = Absent
    BY <1>1 DEF Document
  <1> HIDE DEF doc
  <1> QED BY <1>2 DEF ResolveKey, doc

-----------------------------------------------------------------------------
(* Keys that are held, and what is signed with them. *)

AlgorithmKeyType(type) == KeyTypeFor(SigningAlgorithmFor, SigningAlgorithmFor[type])

LEMMA Algorithms ==
    /\ \A type \in VerificationKeyType :
          /\ SigningSupported(SigningAlgorithmFor[type])
          /\ AlgorithmKeyType(type) = type
    /\ ~ SigningSupported(NaclBox) /\ EncryptionSupported(NaclBox)
    /\ EncryptionAlgorithmFor["x25519"] = NaclBox
  <1>1. DOMAIN SigningAlgorithmFor = VerificationKeyType
    BY DEF SigningAlgorithmFor, VerificationKeyType
  <1>2. /\ SigningAlgorithmFor["ed25519"] = "ed25519"
        /\ SigningAlgorithmFor["sr25519"] = "sr25519"
        /\ SigningAlgorithmFor["ecdsa"] = "ecdsa-secp256k1"
    BY DEF SigningAlgorithmFor
  <1>3. \A s, t \in VerificationKeyType : SigningAlgorithmFor[s] = SigningAlgorithmFor[t] => s = t
    BY <1>2 DEF VerificationKeyType
  <1>4. ASSUME NEW type \in VerificationKeyType PROVE AlgorithmKeyType(type) = type
    BY <1>1, <1>3 DEF AlgorithmKeyType, KeyTypeFor
  <1>5. \A type \in VerificationKeyType : SigningSupported(SigningAlgorithmFor[type])
    BY <1>1 DEF SigningSupported
  <1>6. ~ SigningSupported(NaclBox)
    BY <1>1, <1>2 DEF SigningSupported, NaclBox, VerificationKeyType
  <1>7. EncryptionSupported(NaclBox) /\ EncryptionAlgorithmFor["x25519"] = NaclBox
    BY DEF EncryptionSupported, NaclBox, EncryptionAlgorithmFor
  <1> QED BY <1>4, <1>5, <1>6, <1>7

Signed(uri, key, data) == [keyUri |-> uri, hex |-> TRUE, by |-> key, over |-> data]

LEMMA SignsWith ==
    ASSUME NEW d, NEW id, NEW key, NEW store, NEW payload,
           FirstKey(d, "authentication") = IdKey(id, key), GetKey(d, id) = IdKey(id, key),
           IdKey(id, key) # Absent, KeyType(key) \in VerificationKeyType,
           AsKey(key) \in store.signing
    PROVE  SignAsDid(payload, d, store) = Signed(AssembleKeyUri(d.uri, id), key, payload)
  <1> DEFINE first == IdKey(id, key)
  <1>1. /\ ~ IsError(first) /\ first.id = id /\ first.publicKey = key
        /\ first.type = KeyType(key)
    BY DEF IdKey, IsError
  <1>2. HoldsSigningKey(store, key, SigningAlgorithmFor[KeyType(key)])
    <2>1. KeyTypeFor(SigningAlgorithmFor, SigningAlgorithmFor[KeyType(key)]) = KeyType(key)
      BY Algorithms DEF AlgorithmKeyType
    <2> QED BY <2>1, Algorithms DEF HoldsSigningKey, AsKey
  <1>3. Sign(store, key, SigningAlgorithmFor[KeyType(key)], payload)
            = [by |-> key, over |-> payload]
    BY <1>2 DEF Sign
  <1> DEFINE signature == Sign(store, key, SigningAlgorithmFor[KeyType(key)], payload)
  <1>4. ~ IsError(signature) /\ signature.by = key /\ signature.over = payload
    BY <1>3 DEF IsError
  <1> HIDE DEF first, signature
  <1>5. SignPayload(store, d, payload, id) = Signed(AssembleKeyUri(d.uri, id), key, payload)
    BY <1>1, <1>4 DEF SignPayload, IsVerificationKey, Signed, first, signature
  <1> QED BY <1>1, <1>5 DEF SignAsDid, Then, first

LEMMA AssembledUris ==
    /\ \A id : AssembleKeyUri(LightUri(Absent), id) = LightUri(id)
    /\ \A p, id : AssembleKeyUri(AccountUri(p, Absent), id) = AccountUri(p, id)
  <1>1. \A id : [LightUri(Absent) EXCEPT !.fragment = id] = LightUri(id)
    BY DEF LightUri
  <1>2. \A p, id : [AccountUri(p, Absent) EXCEPT !.fragment = id] = AccountUri(p, id)
    BY DEF AccountUri
  <1> QED BY <1>1, <1>2, UriAccounts DEF AssembleKeyUri

LEMMA LightSigns ==
    ASSUME NEW store, AsKey(ClaimerKey) \in store.signing, NEW payload
    PROVE  SignAsDid(payload, LightRecord, store)
               = Signed(LightUri("authentication"), ClaimerKey, payload)
  <1>1. /\ FirstKey(LightRecord, "authentication") = IdKey("authentication", ClaimerKey)
        /\ GetKey(LightRecord, "authentication") = IdKey("authentication", ClaimerKey)
    BY LightKeys
  <1>2. IdKey("authentication", ClaimerKey) # Absent /\ KeyType(ClaimerKey) \in VerificationKeyType
    BY IdKeys, Keys DEF KeyId, SigningKeys
  <1>3. LightRecord.uri = LightUri(Absent)
    BY DEF LightRecord
  <1>4. SignAsDid(payload, LightRecord, store)
           = Signed(AssembleKeyUri(LightRecord.uri, "authentication"), ClaimerKey, payload)
    BY <1>1, <1>2, SignsWith
  <1> QED BY <1>3, <1>4, AssembledUris

LEMMA FullSigns ==
    ASSUME NEW p \in Party, NEW k, SigningKeyOf(p, k), NEW e, EncryptionKeyFor(p, e),
           NEW store, AsKey(k) \in store.signing, NEW payload
    PROVE  SignAsDid(payload, FullRecord(p, k, e), store) = Signed(AccountUri(p, k), k, payload)
  <1> DEFINE d == FullRecord(p, k, e)
  <1>1. FirstKey(d, "authentication") = IdKey(k, k) /\ GetKey(d, k) = IdKey(k, k)
    BY FullKeys
  <1>2. IdKey(k, k) # Absent /\ KeyType(k) \in VerificationKeyType
    <2>1. AccountUri(p, Absent) \in Uri
      BY UrisTyped
    <2> QED BY <2>1, KeysOfThem
  <1>3. d.uri = AccountUri(p, Absent)
    BY DEF FullRecord
  <1> HIDE DEF d
  <1>4. SignAsDid(payload, d, store) = Signed(AssembleKeyUri(d.uri, k), k, payload)
    BY <1>1, <1>2, SignsWith
  <1> QED BY <1>3, <1>4, AssembledUris DEF d

(* The keystores at the start.                                              *)
LEMMA FirstKeys ==
    ASSUME NEW p \in Party
    PROVE  FirstKeystore[p] = [signing |-> {AsKey(AuthenticationKey(p))},
                               encryption |-> {EncryptionKey(p)}]
  <1> DEFINE k == AuthenticationKey(p)  alg == SigningKeyAlg(k)
             one == [signing |-> {AsKey(k)}, encryption |-> {}]
  <1>1. SigningSupported(alg) /\ KeyTypeFor(SigningAlgorithmFor, alg) = KeyType(k)
    BY Keys, Algorithms DEF SigningKeyAlg, AlgorithmKeyType
  <1>2. AddKeypair(EmptyKeystore, k, alg) = one
    <2>1. AddKeypair(EmptyKeystore, k, alg) = AddSigningKeypair(EmptyKeystore, k, alg)
      <3>1. ~ EncryptionSupported(alg)
        <4>1. alg \in {"ed25519", "sr25519", "ecdsa-secp256k1"}
          BY Keys DEF SigningKeyAlg, SigningAlgorithmFor, VerificationKeyType
        <4> HIDE DEF alg
        <4> QED BY <4>1 DEF EncryptionSupported, EncryptionAlgorithmFor
      <3> QED BY <1>1, <3>1 DEF AddKeypair
    <2>2. AddSigningKeypair(EmptyKeystore, k, alg) = PutSigningKey(EmptyKeystore, k, alg)
      BY DEF AddSigningKeypair, EmptyKeystore
    <2>3. PutSigningKey(EmptyKeystore, k, alg) = one
      BY <1>1 DEF PutSigningKey, EmptyKeystore, AsKey
    <2> QED BY <2>1, <2>2, <2>3
  <1>3. GenerateKeypair(one, EncryptionKey(p), NaclBox)
           = [signing |-> {AsKey(k)}, encryption |-> {EncryptionKey(p)}]
    <2>1. GenerateKeypair(one, EncryptionKey(p), NaclBox)
             = AddEncryptionKeypair(one, EncryptionKey(p))
      BY Algorithms DEF GenerateKeypair
    <2>2. AddEncryptionKeypair(one, EncryptionKey(p))
             = [signing |-> {AsKey(k)}, encryption |-> {EncryptionKey(p)}]
      BY DEF AddEncryptionKeypair
    <2> QED BY <2>1, <2>2
  <1>4. FirstKeystore[p] = GenerateKeypair(AddKeypair(EmptyKeystore, k, alg), EncryptionKey(p), NaclBox)
    BY DEF FirstKeystore
  <1> HIDE DEF one
  <1> QED BY <1>2, <1>3, <1>4

-----------------------------------------------------------------------------
(* The claim, with some of its attributes, and its hashes. *)

LEMMA Whole ==
    /\ CType.hash # Absent /\ CType.hash # Malformed /\ Root # Absent /\ Root # Malformed
    /\ Legitimations # Absent /\ Legitimations \in Seq(Legitimation)
    /\ \A attributes \in SUBSET Attribute :
          /\ Shown(attributes) # Absent /\ Shown(attributes).contents # Absent
          /\ NoncesOf(attributes) # Absent
    /\ LightUri(Absent) # Absent
  <1>1. LightUri(Absent) # Absent
    BY UrisTyped, NoObject
  <1>2. Legitimations # Absent /\ Legitimations \in Seq(Legitimation)
    BY ExchangeAssumption, AbsentAssumption
  <1>3. CType.hash # Absent /\ CType.hash # Malformed /\ Root # Absent /\ Root # Malformed
    BY ExchangeAssumption, AbsentAssumption
  <1> QED BY <1>1, <1>2, <1>3, AbsentAssumption

LEMMA ShownIs ==
    ASSUME NEW A \in SUBSET Attribute
    PROVE  /\ Shown(A) = [cTypeHash |-> CType.hash, owner |-> LightUri(Absent),
                          contents |-> [a \in A |-> Contents[a]]]
           /\ AttributesOf(Shown(A)) = A
           /\ \A a \in A : Shown(A).contents[a] = Contents[a]
  <1>1. LightDid.uri = LightUri(Absent)
    BY LightDidIs DEF LightRecord
  <1>2. Shown(A) = [cTypeHash |-> CType.hash, owner |-> LightUri(Absent),
                    contents |-> [a \in A |-> Contents[a]]]
    BY <1>1 DEF Shown, ClaimOf
  <1>3. Shown(A).contents = [a \in A |-> Contents[a]]
    BY <1>2
  <1>4. AttributesOf(Shown(A)) = A
    BY <1>3, Whole DEF AttributesOf
  <1> QED BY <1>2, <1>3, <1>4

StatementOf(a) == << <<CType.hash, a>>, Contents[a] >>
OwnerStatement == << <<"@id">>, LightUri(Absent) >>

LEMMA StatementsAre ==
    ASSUME NEW A \in SUBSET Attribute
    PROVE  Statements(Shown(A)) = {StatementOf(a) : a \in A} \cup {OwnerStatement}
  <1> DEFINE claim == Shown(A)
  <1>1. /\ claim.cTypeHash = CType.hash /\ claim.owner = LightUri(Absent)
        /\ AttributesOf(claim) = A /\ \A a \in A : claim.contents[a] = Contents[a]
    BY ShownIs
  <1> HIDE DEF claim
  <1>2. Statements(claim) = {<< <<CType.hash, a>>, claim.contents[a] >> : a \in A}
            \cup {OwnerStatement}
    BY <1>1, Whole DEF Statements, OwnerStatement
  <1>3. {<< <<CType.hash, a>>, claim.contents[a] >> : a \in A} = {StatementOf(a) : a \in A}
    BY <1>1 DEF StatementOf
  <1> QED BY <1>2, <1>3 DEF claim

DigestsOf(A) == Digests(Statements(Shown(A)))

LEMMA DigestsGrow ==
    ASSUME NEW A \in SUBSET Attribute, NEW B \in SUBSET A
    PROVE  /\ DigestsOf(B) \subseteq DigestsOf(A)
           /\ DigestsOf(A) # {}
           /\ NoncesOf(A) = [d \in DigestsOf(A) |-> "salt"]
           /\ DOMAIN NoncesOf(A) = DigestsOf(A)
           /\ \A d \in DigestsOf(A) : NoncesOf(A)[d] = "salt"
  <1>1. Statements(Shown(B)) \subseteq Statements(Shown(A)) /\ OwnerStatement \in Statements(Shown(A))
    BY StatementsAre
  <1>2. NoncesOf(A) = [d \in DigestsOf(A) |-> "salt"]
    BY DEF NoncesOf, NewNonces, DigestsOf
  <1> QED BY <1>1, <1>2 DEF DigestsOf, Digests

LEMMA Hashed ==
    ASSUME NEW B \in SUBSET Attribute, NEW A \in SUBSET B
    PROVE  LET hashed == HashClaimContents(Shown(A), NoncesOf(B))
           IN  /\ hashed = [hashes |-> {SaltedHash(d, "salt") : d \in DigestsOf(A)},
                            nonceMap |-> NoncesOf(A)]
               /\ ~ IsError(hashed)
  <1> DEFINE processed == HashStatements(Statements(Shown(A)), NoncesOf(B))
  <1>1. \A d \in DigestsOf(A) : NonceOf(NoncesOf(B), d) = "salt" /\ NoncesOf(B)[d] = "salt"
    BY DigestsGrow DEF NonceOf
  <1>2. processed = {[digest |-> d, nonce |-> "salt", saltedHash |-> SaltedHash(d, "salt")] :
                        d \in DigestsOf(A)}
    BY <1>1 DEF HashStatements, DigestsOf
  <1>3. /\ \A p \in processed : p.nonce # Absent
        /\ {p.saltedHash : p \in processed} = {SaltedHash(d, "salt") : d \in DigestsOf(A)}
    <2>1. \A p \in processed : p.nonce # Absent
      BY <1>2, NoText
    <2>2. {p.saltedHash : p \in processed} \subseteq {SaltedHash(d, "salt") : d \in DigestsOf(A)}
      BY <1>2
    <2>3. ASSUME NEW d \in DigestsOf(A)
          PROVE  SaltedHash(d, "salt") \in {p.saltedHash : p \in processed}
      <3>1. [digest |-> d, nonce |-> "salt", saltedHash |-> SaltedHash(d, "salt")] \in processed
        BY <1>2
      <3>2. [digest |-> d, nonce |-> "salt", saltedHash |-> SaltedHash(d, "salt")].saltedHash
                = SaltedHash(d, "salt")
        OBVIOUS
      <3> HIDE DEF processed
      <3> QED BY <3>1, <3>2
    <2> HIDE DEF processed
    <2> QED BY <2>1, <2>2, <2>3
  <1>4. [d \in DigestsOf(A) |-> NoncesOf(B)[d]] = NoncesOf(A)
    BY <1>1, DigestsGrow
  <1> HIDE DEF processed
  <1>5. HashClaimContents(Shown(A), NoncesOf(B))
            = [hashes |-> {SaltedHash(d, "salt") : d \in DigestsOf(A)}, nonceMap |-> NoncesOf(A)]
    BY <1>3, <1>4 DEF HashClaimContents, DigestsOf, processed
  <1> QED BY <1>5 DEF IsError

LEMMA Disclosed ==
    ASSUME NEW B \in SUBSET Attribute, NEW A \in SUBSET B
    PROVE  VerifyDisclosedAttributes(Shown(A), NoncesOf(B), Root.claimHashes) = Valid
  <1> DEFINE processed == HashStatements(Statements(Shown(A)), NoncesOf(B))
  <1>1. \A d \in DigestsOf(A) : NonceOf(NoncesOf(B), d) = "salt"
    BY DigestsGrow DEF NonceOf
  <1>2. processed = {[digest |-> d, nonce |-> "salt", saltedHash |-> SaltedHash(d, "salt")] :
                        d \in DigestsOf(A)}
    BY <1>1 DEF HashStatements, DigestsOf
  <1>3. DigestsOf(A) \subseteq DigestsOf(Attribute)
    BY DigestsGrow
  <1>4. Root.claimHashes = {SaltedHash(d, "salt") : d \in DigestsOf(Attribute)}
    BY DigestsGrow DEF Root
  <1>5. \A p \in processed : p.nonce # Absent /\ p.saltedHash \in Root.claimHashes
    BY <1>2, <1>3, <1>4, NoText
  <1> HIDE DEF processed
  <1> QED BY <1>5 DEF VerifyDisclosedAttributes, processed

LEMMA ClaimAccepted ==
    ASSUME NEW A \in SUBSET Attribute
    PROVE  ~ IsError(ClaimErrorCheck(Shown(A)))
  <1> DEFINE claim == Shown(A)
  <1>1. /\ claim.cTypeHash = CType.hash /\ claim.owner = LightUri(Absent)
        /\ AttributesOf(claim) = A /\ \A a \in A : claim.contents[a] = Contents[a]
    BY ShownIs
  <1>2. \A a \in A : Contents[a] # Malformed
    BY ExchangeAssumption
  <1>3. ValidateHash(CType.hash) = Valid
    BY Whole DEF ValidateHash
  <1> HIDE DEF claim
  <1> QED BY <1>1, <1>2, <1>3, Whole, UrisAreValid, Errors DEF ClaimErrorCheck, Then, claim

-----------------------------------------------------------------------------
(* The request and the credential. *)

(* The URI of a key that can sign for the claimer, and what it signs.       *)
Signs(uri, key) ==
    \/ uri = LightUri("authentication") /\ key = ClaimerKey
    \/ key \in SigningKeys /\ uri = AccountUri(Claimer, key)
DataFor(challenge) == [rootHash |-> Root, challenge |-> challenge]
Signing(uri, key, challenge) ==
    [by |-> key, over |-> DataFor(challenge), hex |-> TRUE, keyUri |-> uri,
     challenge |-> challenge]
SignatureOK(s) ==
    \E uri, key, c : c \in Challenge /\ Signs(uri, key) /\ s = Signing(uri, key, c)
CredentialWith(A, B, s) == [request |-> RequestWith(A, B, s), attestation |-> Attested]

LEMMA Signers ==
    ASSUME NEW uri, NEW key, Signs(uri, key)
    PROVE  /\ uri \in Uri /\ uri.fragment # Absent /\ key \in SigningKeys
           /\ ~ IsError(ValidateKiltDidUri(uri, TRUE))
  <1>1. CASE uri = LightUri("authentication") /\ key = ClaimerKey
    <2>1. uri.fragment = "authentication" /\ "authentication" \in KeyId
      BY <1>1 DEF LightUri, KeyId
    <2> QED BY <1>1, <2>1, UrisTyped, UrisAreValid, NoText DEF SigningKeys
  <1>2. CASE key \in SigningKeys /\ uri = AccountUri(Claimer, key)
    <2>1. uri.fragment = key /\ key \in KeyId /\ Claimer \in Party
      BY <1>2, Keys DEF AccountUri, KeyId, Party
    <2> QED BY <1>2, <2>1, UrisTyped, UrisAreValid, NoText
  <1> QED BY <1>1, <1>2 DEF Signs

LEMMA Signatures ==
    ASSUME NEW s, SignatureOK(s)
    PROVE  s \in SignatureSet /\ s # Absent /\ ~ IsError(ValidateDidSignature(s))
  <1>1. PICK uri, key, c : c \in Challenge /\ Signs(uri, key) /\ s = Signing(uri, key, c)
    BY DEF SignatureOK
  <1>2. s \in SignatureSet
    <2>1. key \in PublicKey /\ uri \in Uri
      BY <1>1, Signers, Keys
    <2> QED BY <1>1, <2>1 DEF SignatureSet, Signing, DataFor
  <1>3. s # Absent
    BY <1>2, AbsentAssumption
  <1>4. ~ IsError(ValidateDidSignature(s))
    <2>1. s.hex = TRUE /\ s.keyUri = uri
      BY <1>1 DEF Signing
    <2> QED BY <1>1, <2>1, Signers, Errors DEF ValidateDidSignature, Valid
  <1> QED BY <1>2, <1>3, <1>4

LEMMA RequestIs ==
    ASSUME NEW A, NEW B, NEW s
    PROVE  LET r == RequestWith(A, B, s)
           IN  /\ r.claim = Shown(A) /\ r.claimNonceMap = NoncesOf(B)
               /\ r.claimHashes = Root.claimHashes /\ r.claimerSignature = s
               /\ r.rootHash = Root /\ r.legitimations = Legitimations
               /\ r.delegationId = Delegation
               /\ ~ IsError(r)
  BY DEF RequestWith, IsError

LEMMA AttestedIs ==
    /\ Attested.claimHash = Root /\ Attested.cTypeHash = CType.hash
    /\ Attested.delegationId = Delegation /\ Attested.owner = AccountUri(Attester, Absent)
    /\ Attested.revoked = FALSE
    /\ Attested # Absent
    /\ FullUri[Attester] = AccountUri(Attester, Absent)
  <1>1. FullUri[Attester] = AccountUri(Attester, Absent)
    BY UriAccounts DEF FullUri, Party
  <1>2. Attested \in AttestationSet
    BY DEF Attested, AttestationSet, FullUri, AttesterDids, AttesterKeys, Party
  <1> QED BY <1>1, <1>2, AbsentAssumption DEF Attested

LEMMA RootIs ==
    ASSUME NEW r, r.claimHashes = Root.claimHashes, r.legitimations = Legitimations,
           r.delegationId = Delegation
    PROVE  CalculateRootHash(r) = Root
  BY DEF CalculateRootHash, Root

LEMMA RequestData ==
    ASSUME NEW B \in SUBSET Attribute, NEW A \in SUBSET B, NEW s
    PROVE  LET r == RequestWith(A, B, s)
               results == {LegitimationVerifyData[l] : l \in Held(r)}
           IN  RequestDataVerified(r, results) = Valid
  <1> DEFINE r == RequestWith(A, B, s)
             results == {LegitimationVerifyData[l] : l \in Held(r)}
  <1>1. results \subseteq {Valid}
    <2>1. Held(r) \subseteq Legitimation
      <3>1. r.legitimations = Legitimations
        BY RequestIs
      <3>2. \A i \in DOMAIN Legitimations : Legitimations[i] \in Legitimation
        BY Whole
      <3> HIDE DEF r
      <3> QED BY <3>1, <3>2 DEF Held
    <2> HIDE DEF r
    <2> QED BY <2>1, LegitimationsVerify
  <1>2. CalculateRootHash(r) = Root
    <2>1. /\ r.claimHashes = Root.claimHashes /\ r.legitimations = Legitimations
          /\ r.delegationId = Delegation
      BY RequestIs
    <2> HIDE DEF r
    <2> QED BY <2>1, RootIs
  <1>3. VerifyDisclosedAttributes(r.claim, r.claimNonceMap, r.claimHashes) = Valid
    BY Disclosed, RequestIs
  <1>4. ~ IsError(All(results)) /\ \A x \in results : x.valid
    <2>1. \A x \in results : x.valid
      BY <1>1 DEF Valid
    <2>2. \A x \in results : ~ IsError(x)
      BY <1>1, Errors
    <2> HIDE DEF results
    <2> QED BY <2>1, <2>2, AllValid
  <1>5. r.rootHash = Root
    BY RequestIs
  <1> HIDE DEF r, results
  <1> QED BY <1>2, <1>3, <1>4, <1>5, Errors DEF RequestDataVerified, Then, r, results

LEMMA RequestAccepted ==
    ASSUME NEW B \in SUBSET Attribute, NEW A \in SUBSET B, NEW s, s = Absent \/ SignatureOK(s)
    PROVE  RequestErrorCheck(RequestWith(A, B, s)) = Valid
  <1> DEFINE r == RequestWith(A, B, s)
  <1>1. RequestVerifyData(r) = Valid
    BY RequestData DEF RequestVerifyData
  <1>2. /\ r.claim # Absent /\ r.claim.owner # Absent
        /\ ~ IsError(ClaimErrorCheck(r.claim))
        /\ r.legitimations # Absent /\ r.claimNonceMap # Absent
    <2>1. A \in SUBSET Attribute
      OBVIOUS
    <2>2. r.claim = Shown(A) /\ r.legitimations = Legitimations /\ r.claimNonceMap = NoncesOf(B)
      BY RequestIs
    <2>3. Shown(A).owner = LightUri(Absent)
      BY <2>1, ShownIs
    <2> HIDE DEF r
    <2> QED BY <2>1, <2>2, <2>3, Whole, ClaimAccepted
  <1>3. ~ \E d \in DOMAIN r.claimNonceMap : r.claimNonceMap[d] = Absent
    <2>1. r.claimNonceMap = NoncesOf(B)
      BY RequestIs
    <2> HIDE DEF r
    <2> QED BY <2>1, DigestsGrow, NoText
  <1>4. r.claimerSignature = Absent \/ ~ IsError(ValidateDidSignature(r.claimerSignature))
    <2>1. r.claimerSignature = s
      BY RequestIs
    <2> HIDE DEF r
    <2> QED BY <2>1, Signatures
  <1> DEFINE signed == IF r.claimerSignature = Absent THEN Valid
                       ELSE ValidateDidSignature(r.claimerSignature)
  <1>5. ~ IsError(signed)
    BY <1>4, Errors
  <1> HIDE DEF r, signed
  <1>6. RequestErrorCheck(r) = Then(ClaimErrorCheck(r.claim), Then(signed, RequestVerifyData(r)))
    BY <1>2, <1>3, Errors DEF RequestErrorCheck, Then, signed
  <1> QED BY <1>1, <1>2, <1>5, <1>6 DEF Then, r

LEMMA AttestedAccepted ==
    /\ AttestationErrorCheck(Attested) = Valid
    /\ \A A \in SUBSET Attribute : \A B, s :
          /\ Attests(Attested, RequestWith(A, B, s))
          /\ AttestationFromRequestAndDid(RequestWith(A, B, s), FullUri[Attester]) = Attested
  <1>1. AttestationErrorCheck(Attested) = Valid
    <2>1. ValidateHash(CType.hash) = Valid /\ ValidateHash(Root) = Valid
      BY Whole DEF ValidateHash
    <2>2. AccountUri(Attester, Absent) # Absent
      BY UrisTyped, NoObject DEF Party
    <2>3. ~ IsError(ValidateKiltDidUri(AccountUri(Attester, Absent), FALSE))
      <3>1. Attester \in Party
        BY DEF Party
      <3> QED BY <3>1, UrisAreValid
    <2> QED BY <2>1, <2>2, <2>3, AttestedIs, Whole, Errors DEF AttestationErrorCheck, Then
  <1>2. ASSUME NEW A \in SUBSET Attribute, NEW B, NEW s
        PROVE  /\ Attests(Attested, RequestWith(A, B, s))
               /\ AttestationFromRequestAndDid(RequestWith(A, B, s), FullUri[Attester]) = Attested
    <2> DEFINE r == RequestWith(A, B, s)
    <2>1. r.claim.cTypeHash = CType.hash /\ r.rootHash = Root /\ r.delegationId = Delegation
      BY RequestIs, ShownIs
    <2>2. Attests(Attested, r)
      <3> HIDE DEF r
      <3> QED BY <2>1, AttestedIs DEF Attests
    <2>3. AttestationFromRequestAndDid(r, FullUri[Attester]) = NewAttestation(Attested)
      <3> HIDE DEF r
      <3> QED BY <2>1 DEF AttestationFromRequestAndDid, Attested
    <2> QED BY <1>1, <2>2, <2>3, Errors DEF NewAttestation, Then
  <1> QED BY <1>1, <1>2

LEMMA CredentialAccepted ==
    ASSUME NEW B \in SUBSET Attribute, NEW A \in SUBSET B, NEW s, s = Absent \/ SignatureOK(s)
    PROVE  /\ CredentialErrorCheck(CredentialWith(A, B, s)) = Valid
           /\ CredentialVerifyData(CredentialWith(A, B, s)) = Valid
  <1> DEFINE c == CredentialWith(A, B, s)
  <1>1. c.request = RequestWith(A, B, s) /\ c.attestation = Attested
    BY DEF CredentialWith
  <1>2. RequestWith(A, B, s) # Absent
    <2>1. RequestWith(A, B, s) \in RequestSet
      BY Signatures DEF RequestSet, RequestWith
    <2> QED BY <2>1, AbsentAssumption
  <1>3. RequestErrorCheck(c.request) = Valid /\ c.request # Absent
    BY <1>1, <1>2, RequestAccepted
  <1>4. /\ AttestationErrorCheck(c.attestation) = Valid /\ c.attestation # Absent
        /\ Attests(c.attestation, c.request)
    BY <1>1, AttestedAccepted, AttestedIs
  <1>5. RequestDataVerified(c.request, {LegitimationVerifyData[l] : l \in Held(c.request)}) = Valid
    BY <1>1, RequestData
  <1> HIDE DEF c
  <1>6. CredentialErrorCheck(c) = Valid
    BY <1>3, <1>4, Errors DEF CredentialErrorCheck, Then
  <1>7. CredentialVerifyData(c) = Valid
    BY <1>4, <1>5 DEF CredentialVerifyData, CredentialDataVerified
  <1> QED BY <1>6, <1>7 DEF c

(* What is left of the request when attributes are removed, and of a        *)
(* credential when some are selected; a signature added.                    *)
Kept(A, selected) == IF selected = Absent THEN A ELSE A \cap selected

LEMMA Removed ==
    ASSUME NEW B \in SUBSET Attribute, NEW A \in SUBSET B, NEW s, NEW properties
    PROVE  LET rest == A \ properties
           IN  RemoveClaimProperties(RequestWith(A, B, s), properties) = RequestWith(rest, rest, s)
  <1> DEFINE r == RequestWith(A, B, s)  rest == A \ properties
             contents == [a \in AttributesOf(r.claim) \ properties |-> r.claim.contents[a]]
             claim == [r.claim EXCEPT !.contents = contents]
             hashed == HashClaimContents(claim, r.claimNonceMap)
  <1>1. r.claim = Shown(A) /\ r.claimNonceMap = NoncesOf(B)
    BY RequestIs
  <1>2. contents = [a \in rest |-> Contents[a]]
    BY <1>1, ShownIs
  <1>3. claim = Shown(rest)
    <2>1. /\ Shown(A) = [cTypeHash |-> CType.hash, owner |-> LightUri(Absent),
                         contents |-> [a \in A |-> Contents[a]]]
          /\ Shown(rest) = [cTypeHash |-> CType.hash, owner |-> LightUri(Absent),
                            contents |-> [a \in rest |-> Contents[a]]]
      BY ShownIs
    <2> HIDE DEF contents, rest, r
    <2> QED BY <1>1, <1>2, <2>1
  <1>4. hashed.nonceMap = NoncesOf(rest) /\ ~ IsError(hashed)
    <2>1. rest \in SUBSET B
      OBVIOUS
    <2> HIDE DEF claim, rest, r
    <2> QED BY <1>1, <1>3, <2>1, Hashed
  <1>5. [r EXCEPT !.claim = Shown(rest), !.claimNonceMap = NoncesOf(rest)]
            = RequestWith(rest, rest, s)
    <2> HIDE DEF rest, contents
    <2> DEFINE one == [r EXCEPT !.claim = Shown(rest)]
    <2>1. one = RequestWith(rest, B, s)
      BY DEF RequestWith
    <2>2. [RequestWith(rest, B, s) EXCEPT !.claimNonceMap = NoncesOf(rest)]
             = RequestWith(rest, rest, s)
      BY DEF RequestWith
    <2> QED BY <2>1, <2>2
  <1>6. RemoveClaimProperties(r, properties)
            = [r EXCEPT !.claim = claim, !.claimNonceMap = hashed.nonceMap]
    <2>1. RemoveClaimProperties(r, properties)
             = Then(hashed, [r EXCEPT !.claim = claim, !.claimNonceMap = hashed.nonceMap])
      BY DEF RemoveClaimProperties
    <2> HIDE DEF hashed, claim, r
    <2> QED BY <1>4, <2>1 DEF Then
  <1> HIDE DEF hashed, claim
  <1> QED BY <1>3, <1>4, <1>5, <1>6

LEMMA Selected ==
    ASSUME NEW B \in SUBSET Attribute, NEW A \in SUBSET B, NEW s, s = Absent \/ SignatureOK(s),
           NEW selected
    PROVE  LET kept == Kept(A, selected)
           IN  PresentationOf(CredentialWith(A, B, s), selected) = CredentialWith(kept, kept, s)
  <1> DEFINE c == CredentialWith(A, B, s)  kept == Kept(A, selected)
             excluded == IF selected = Absent THEN {} ELSE AttributesOf(c.request.claim) \ selected
             r == RemoveClaimProperties(c.request, excluded)
  <1>1. c.request = RequestWith(A, B, s) /\ c.attestation = Attested
    BY DEF CredentialWith
  <1>2. AttributesOf(c.request.claim) = A
    BY <1>1, RequestIs, ShownIs
  <1>3. A \ excluded = kept
    BY <1>2 DEF Kept
  <1>4. r = RequestWith(kept, kept, s)
    <2> HIDE DEF c, kept, excluded
    <2> QED BY <1>1, <1>3, Removed
  <1>5. CredentialErrorCheck(c) = Valid
    BY CredentialAccepted
  <1>6. [c EXCEPT !.request = RequestWith(kept, kept, s)] = CredentialWith(kept, kept, s)
    BY DEF CredentialWith
  <1>7. PresentationOf(c, selected) = Then(CredentialErrorCheck(c), Then(r, [c EXCEPT !.request = r]))
    BY DEF PresentationOf
  <1>8. ~ IsError(r)
    BY <1>4, RequestIs
  <1> HIDE DEF c, r, kept
  <1> QED BY <1>4, <1>5, <1>6, <1>7, <1>8, Errors DEF Then, c, kept

LEMMA Added ==
    ASSUME NEW A, NEW B, NEW old, NEW uri, NEW key, NEW c
    PROVE  /\ AddSignature(RequestWith(A, B, old), Signed(uri, key, DataFor(c)), c)
                 = RequestWith(A, B, Signing(uri, key, c))
           /\ MakeSigningData(RequestWith(A, B, old), c) = DataFor(c)
  <1>1. AddSignature(RequestWith(A, B, old), Signed(uri, key, DataFor(c)), c)
            = RequestWith(A, B, Signing(uri, key, c))
    <2> DEFINE signed == Signed(uri, key, DataFor(c))
    <2>1. [by |-> signed.by, over |-> signed.over, hex |-> signed.hex, keyUri |-> signed.keyUri,
           challenge |-> c] = Signing(uri, key, c)
      BY DEF Signed, Signing
    <2>2. [RequestWith(A, B, old) EXCEPT !.claimerSignature = Signing(uri, key, c)]
             = RequestWith(A, B, Signing(uri, key, c))
      BY DEF RequestWith
    <2> HIDE DEF signed
    <2> QED BY <2>1, <2>2 DEF AddSignature, signed
  <1> QED BY <1>1, RequestIs DEF MakeSigningData, DataFor

-----------------------------------------------------------------------------
(* The credential exported. *)

SelfSigned(s) ==
    [type |-> "KILTSelfSigned2020", verificationMethod |-> s.keyUri,
     signature |-> [by |-> s.by, over |-> s.over], challenge |-> s.challenge]
AttestedProof == [type |-> "KILTAttestation2020", attester |-> AccountUri(Attester, Absent)]
DigestProof(B) == [type |-> "KILTCredentialDigest2020", nonces |-> NoncesOf(B),
                   claimHashes |-> Root.claimHashes]
ProofsOf(B, s) ==
    (IF s = Absent THEN <<>> ELSE <<SelfSigned(s)>>) \o <<AttestedProof, DigestProof(B)>>
LegitimationRoots == [i \in DOMAIN Legitimations |-> Legitimations[i].request.rootHash]
Exported(A, B, s) == FromCredential(CredentialWith(A, B, s), CType)

LEMMA Concatenated ==
    ASSUME NEW x, NEW y, NEW z
    PROVE  <<x>> \o <<y, z>> = <<x, y, z>> /\ <<>> \o <<y, z>> = <<y, z>>
  <1> DEFINE S == {x, y, z}  a == <<x>> \o <<y, z>>  b == <<>> \o <<y, z>>
  <1>1. /\ a \in Seq(S) /\ <<x, y, z>> \in Seq(S) /\ Len(a) = Len(<<x, y, z>>)
        /\ \A i \in 1..Len(a) : a[i] = <<x, y, z>>[i]
    OBVIOUS
  <1>2. /\ b \in Seq(S) /\ <<y, z>> \in Seq(S) /\ Len(b) = Len(<<y, z>>)
        /\ \A i \in 1..Len(b) : b[i] = <<y, z>>[i]
    OBVIOUS
  <1> HIDE DEF a, b
  <1>3. a = <<x, y, z>>
    BY <1>1, SeqEqual
  <1>4. b = <<y, z>>
    BY <1>2, SeqEqual
  <1> QED BY <1>3, <1>4 DEF a, b

LEMMA ExportedIs ==
    ASSUME NEW A, NEW B, NEW s
    PROVE  LET vc == Exported(A, B, s)
           IN  /\ vc.credentialSubject = CredentialSubject(Shown(A))
               /\ vc.issuer = AccountUri(Attester, Absent)
               /\ vc.delegationId = Delegation
               /\ vc.legitimationIds = LegitimationRoots
               /\ FromCredentialIRI(vc.id) = Root
               /\ vc.proof = ProofsOf(B, s)
               /\ {"proof", "credentialSubject"} \subseteq DOMAIN vc
               /\ ~ IsError(vc)
  <1> DEFINE c == CredentialWith(A, B, s)  r == RequestWith(A, B, s)  vc == Exported(A, B, s)
  <1>1. c.request = r /\ c.attestation = Attested
    BY DEF CredentialWith
  <1>2. /\ r.claim = Shown(A) /\ r.claimNonceMap = NoncesOf(B)
        /\ r.claimHashes = Root.claimHashes /\ r.claimerSignature = s
        /\ r.rootHash = Root /\ r.legitimations = Legitimations
        /\ r.delegationId = Delegation
    BY RequestIs
  <1> HIDE DEF r, c
  <1>3. vc = [id |-> ToCredentialIRI(Root), credentialSubject |-> CredentialSubject(Shown(A)),
              legitimationIds |-> LegitimationRoots,
              delegationId |-> Delegation, issuer |-> AccountUri(Attester, Absent),
              proof |-> ProofsOf(B, s),
              credentialSchema |->
                  IF CType = Absent THEN Absent
                  ELSE [id |-> CType.schema["$id"], schema |-> CType.schema, author |-> CType.owner]]
    BY <1>1, <1>2, AttestedIs DEF Exported, FromCredential, SelfSigned, AttestedProof, DigestProof,
       ProofsOf, LegitimationRoots, c
  <1>4. FromCredentialIRI(ToCredentialIRI(Root)) = Root
    <2>1. IsHex(Root)
      BY Whole DEF IsHex
    <2>2. ToCredentialIRI(Root) = [iri |-> Root]
      BY <2>1 DEF ToCredentialIRI
    <2>3. ToCredentialIRI(Root).iri = Root
      BY <2>2
    <2> QED BY <2>1, <2>3 DEF FromCredentialIRI
  <1> HIDE DEF vc
  <1>5. /\ vc.credentialSubject = CredentialSubject(Shown(A))
        /\ vc.issuer = AccountUri(Attester, Absent)
        /\ vc.delegationId = Delegation
        /\ vc.legitimationIds = LegitimationRoots
        /\ FromCredentialIRI(vc.id) = Root
        /\ vc.proof = ProofsOf(B, s)
    BY <1>3, <1>4
  <1>6. {"proof", "credentialSubject"} \subseteq DOMAIN vc /\ ~ IsError(vc)
    BY <1>3 DEF IsError
  <1> QED BY <1>5, <1>6 DEF vc

LEMMA ExportedProofs ==
    ASSUME NEW A, NEW B, NEW s
    PROVE  /\ s # Absent => Exported(A, B, s).proof
                               = <<SelfSigned(s), AttestedProof, DigestProof(B)>>
           /\ s = Absent => Exported(A, B, s).proof = <<AttestedProof, DigestProof(B)>>
  <1>1. Exported(A, B, s).proof = ProofsOf(B, s)
    BY ExportedIs
  <1>2. CASE s # Absent
    BY <1>1, <1>2, Concatenated DEF ProofsOf
  <1>3. CASE s = Absent
    BY <1>1, <1>3, Concatenated DEF ProofsOf
  <1> QED BY <1>2, <1>3

Subject(A) == [id |-> LightUri(Absent), vocabulary |-> CType.hash,
               properties |-> [a \in A |-> Contents[a]]]

LEMMA SubjectIs ==
    ASSUME NEW A \in SUBSET Attribute
    PROVE  /\ CredentialSubject(Shown(A)) = Subject(A)
           /\ Digests(StatementsOf(Subject(A))) = DigestsOf(A)
  <1>1. /\ Shown(A).owner = LightUri(Absent) /\ Shown(A).cTypeHash = CType.hash
        /\ AttributesOf(Shown(A)) = A /\ \A a \in A : Shown(A).contents[a] = Contents[a]
    BY ShownIs
  <1>2. CredentialSubject(Shown(A)) = Subject(A)
    <2>1. [a \in A |-> Shown(A).contents[a]] = [a \in A |-> Contents[a]]
      BY <1>1
    <2> QED BY <1>1, <2>1 DEF CredentialSubject, Subject
  <1>3. StatementsOf(Subject(A)) = {StatementOf(a) : a \in A} \cup {OwnerStatement}
    <2> DEFINE subject == Subject(A)
    <2>1. /\ subject.id = LightUri(Absent) /\ subject.vocabulary = CType.hash
          /\ DOMAIN subject.properties = A /\ \A a \in A : subject.properties[a] = Contents[a]
      BY DEF Subject
    <2> HIDE DEF subject
    <2>2. {<< <<subject.vocabulary, a>>, subject.properties[a] >> : a \in DOMAIN subject.properties}
             = {StatementOf(a) : a \in A}
      BY <2>1 DEF StatementOf
    <2> QED BY <2>1, <2>2, Whole DEF StatementsOf, OwnerStatement, subject
  <1> QED BY <1>2, <1>3, StatementsAre DEF DigestsOf

LEMMA DigestVerifies ==
    ASSUME NEW B \in SUBSET Attribute, NEW A \in SUBSET B, NEW s
    PROVE  VerifyCredentialDigestProof(Exported(A, B, s), DigestProof(B))
  <1> DEFINE vc == Exported(A, B, s)  proof == DigestProof(B)
  <1>1. /\ vc.credentialSubject = Subject(A) /\ vc.delegationId = Delegation
        /\ vc.legitimationIds = LegitimationRoots
        /\ FromCredentialIRI(vc.id) = Root
    BY ExportedIs, SubjectIs
  <1>2. /\ proof.type = "KILTCredentialDigest2020" /\ proof.claimHashes = Root.claimHashes
        /\ proof.nonces = NoncesOf(B)
    BY DEF DigestProof
  <1>3. vc.legitimationIds = Root.legitimations
    <2>1. ASSUME NEW i \in DOMAIN Legitimations
          PROVE  Legitimations[i].request.rootHash = Legitimations[i].attestation.claimHash
      <3>1. Legitimations[i] \in Legitimation
        BY Whole
      <3>2. CredentialErrorCheck(Legitimations[i]) = Valid
        BY <3>1, LegitimationAssumption
      <3> QED BY <3>2, AcceptedIs DEF Attests
    <2>2. Root.legitimations = [i \in DOMAIN Legitimations |-> Legitimations[i].attestation.claimHash]
      BY DEF Root
    <2> HIDE DEF vc
    <2> QED BY <1>1, <2>1, <2>2 DEF LegitimationRoots
  <1>4. Root = [claimHashes |-> Root.claimHashes, legitimations |-> Root.legitimations,
                delegationId |-> Delegation]
    BY DEF Root
  <1>5. \A d \in DigestsOf(A) : d \in DOMAIN NoncesOf(B)
                                /\ SaltedHash(d, NoncesOf(B)[d]) \in Root.claimHashes
    <2>1. Root.claimHashes = {SaltedHash(d, "salt") : d \in DigestsOf(Attribute)}
      BY DigestsGrow DEF Root
    <2>2. DigestsOf(B) \subseteq DigestsOf(Attribute)
      BY DigestsGrow
    <2> QED BY <2>1, <2>2, DigestsGrow
  <1>6. Digests(StatementsOf(vc.credentialSubject)) = DigestsOf(A)
    BY <1>1, SubjectIs
  <1> HIDE DEF vc, proof
  <1> QED BY <1>1, <1>2, <1>3, <1>4, <1>5, <1>6 DEF VerifyCredentialDigestProof, vc, proof

(* What is made of the proofs of an exported credential: the digest proof   *)
(* is the one of its kind, and the new one comes last.                      *)
LEMMA ProofsAre ==
    ASSUME NEW A, NEW B, NEW s
    PROVE  LET proof == Exported(A, B, s).proof
           IN  /\ Len(proof) \in {2, 3} /\ DOMAIN proof = 1..Len(proof)
               /\ proof[Len(proof)] = DigestProof(B)
               /\ {i \in DOMAIN proof : proof[i].type = "KILTCredentialDigest2020"} = {Len(proof)}
  <1> DEFINE proof == Exported(A, B, s).proof
             digests == {i \in DOMAIN proof : proof[i].type = "KILTCredentialDigest2020"}
  <1>1. /\ SelfSigned(s).type = "KILTSelfSigned2020" /\ AttestedProof.type = "KILTAttestation2020"
        /\ DigestProof(B).type = "KILTCredentialDigest2020"
    BY DEF SelfSigned, AttestedProof, DigestProof
  <1>2. CASE s = Absent
    <2>1. proof = <<AttestedProof, DigestProof(B)>>
      BY <1>2, ExportedProofs
    <2>2. /\ Len(proof) = 2 /\ DOMAIN proof = 1..2
          /\ proof[1] = AttestedProof /\ proof[2] = DigestProof(B)
      BY <2>1
    <2> HIDE DEF proof
    <2>3. digests = {2}
      BY <1>1, <2>2
    <2> QED BY <2>2, <2>3 DEF proof
  <1>3. CASE s # Absent
    <2>1. proof = <<SelfSigned(s), AttestedProof, DigestProof(B)>>
      BY <1>3, ExportedProofs
    <2>2. /\ Len(proof) = 3 /\ DOMAIN proof = 1..3
          /\ proof[1] = SelfSigned(s) /\ proof[2] = AttestedProof /\ proof[3] = DigestProof(B)
      BY <2>1
    <2> HIDE DEF proof
    <2>3. digests = {3}
      BY <1>1, <2>2
    <2> QED BY <2>2, <2>3 DEF proof
  <1> QED BY <1>2, <1>3

LEMMA Appended ==
    ASSUME NEW n \in Nat, NEW s, s = [i \in 1..n |-> s[i]], NEW x
    PROVE  Append(s, x)[Len(Append(s, x))] = x
  <1>1. s \in Seq({s[i] : i \in 1..n})
    OBVIOUS
  <1> QED BY <1>1

LEMMA ExportPresents ==
    ASSUME NEW B \in SUBSET Attribute, NEW A \in SUBSET B, NEW s,
           NEW selected \in SUBSET A, selected # Absent
    PROVE  LET vc == MakePresentation(Exported(A, B, s), selected).verifiableCredential
           IN  /\ vc.credentialSubject = Subject(selected)
               /\ vc.proof[Len(vc.proof)] = DigestProof(selected)
  <1> DEFINE vc == Exported(A, B, s)
             kept == DOMAIN vc.credentialSubject.properties \cap selected
             copied == [vc EXCEPT !.credentialSubject.properties =
                           [a \in kept |-> vc.credentialSubject.properties[a]]]
             old == {i \in DOMAIN vc.proof : vc.proof[i].type = "KILTCredentialDigest2020"}
             at == CHOOSE i \in old : TRUE
             others == [i \in 1..Len(vc.proof) - 1 |-> vc.proof[IF i < at THEN i ELSE i + 1]]
             new == UpdateCredentialDigestProof(copied, vc.proof[at])
             result == [copied EXCEPT !.proof = Append(others, new)]
  <1>1. vc.credentialSubject = Subject(A) /\ "proof" \in DOMAIN vc /\ "credentialSubject" \in DOMAIN vc
    BY ExportedIs, SubjectIs
  <1>2. /\ DOMAIN Subject(A).properties = A
        /\ \A a \in A : Subject(A).properties[a] = Contents[a]
    BY DEF Subject
  <1>3. kept = selected
    BY <1>1, <1>2
  <1>4. copied.credentialSubject = Subject(selected) /\ "proof" \in DOMAIN copied
    <2>1. [a \in selected |-> vc.credentialSubject.properties[a]] = [a \in selected |-> Contents[a]]
      BY <1>1, <1>2
    <2>2. [Subject(A) EXCEPT !.properties = [a \in selected |-> Contents[a]]] = Subject(selected)
      <3>1. ASSUME NEW x, NEW y
            PROVE  [[id |-> LightUri(Absent), vocabulary |-> CType.hash, properties |-> x]
                       EXCEPT !.properties = y]
                   = [id |-> LightUri(Absent), vocabulary |-> CType.hash, properties |-> y]
        OBVIOUS
      <3> QED BY <3>1 DEF Subject
    <2> HIDE DEF vc, kept
    <2>3. copied.credentialSubject
             = [vc.credentialSubject EXCEPT !.properties =
                   [a \in selected |-> vc.credentialSubject.properties[a]]]
      BY <1>1, <1>3
    <2> QED BY <1>1, <2>1, <2>2, <2>3
  <1>5. /\ old = {Len(vc.proof)} /\ at = Len(vc.proof) /\ vc.proof[at] = DigestProof(B)
        /\ Len(vc.proof) \in {2, 3}
    BY ProofsAre
  <1>6. new = DigestProof(selected)
    <2>1. selected \in SUBSET Attribute
      OBVIOUS
    <2>2. Digests(StatementsOf(copied.credentialSubject)) = DigestsOf(selected)
      <3> HIDE DEF copied
      <3> QED BY <1>4, <2>1, SubjectIs
    <2>3. /\ DigestsOf(selected) # {} /\ DigestsOf(selected) \subseteq DOMAIN NoncesOf(B)
          /\ \A d \in DigestsOf(selected) : NoncesOf(B)[d] = "salt"
          /\ NoncesOf(selected) = [d \in DigestsOf(selected) |-> "salt"]
      BY DigestsGrow
    <2>4. [d \in DigestsOf(selected) |-> NoncesOf(B)[d]] = NoncesOf(selected)
      BY <2>3
    <2>5. DigestProof(B).nonces = NoncesOf(B)
      BY DEF DigestProof
    <2>6. [DigestProof(B) EXCEPT !.nonces = NoncesOf(selected)] = DigestProof(selected)
      BY DEF DigestProof
    <2> HIDE DEF copied, vc, at
    <2> QED BY <1>5, <2>2, <2>3, <2>4, <2>5, <2>6 DEF UpdateCredentialDigestProof
  <1>7. ~ IsError(new)
    BY <1>6 DEF DigestProof, IsError
  <1>8. RemoveProperties(vc, selected) = result
    <2>1. selected \subseteq PropertyNames(vc)
      <3> HIDE DEF vc
      <3> QED BY <1>1, <1>2 DEF PropertyNames
    <2>2. Cardinality(old) = 1
      <3> HIDE DEF old
      <3> QED BY <1>5, FS_Singleton
    <2>3. RemoveProperties(vc, selected)
             = IF ~ selected \subseteq PropertyNames(vc) THEN Error("Error")
               ELSE IF Cardinality(old) # 1 THEN Error("Error") ELSE Then(new, result)
      BY DEF RemoveProperties
    <2> HIDE DEF vc, old, new, result
    <2> QED BY <1>7, <2>1, <2>2, <2>3 DEF Then
  <1>9. /\ result.credentialSubject = Subject(selected)
        /\ result.proof[Len(result.proof)] = DigestProof(selected)
    <2>1. result.proof = Append(others, new)
      <3> HIDE DEF copied, new, others
      <3> QED BY <1>4
    <2>2. result.credentialSubject = copied.credentialSubject
      <3> HIDE DEF copied, new, others
      <3> QED OBVIOUS
    <2>3. Append(others, new)[Len(Append(others, new))] = new
      <3>1. Len(vc.proof) - 1 \in Nat /\ others = [i \in 1..Len(vc.proof) - 1 |-> others[i]]
        BY <1>5
      <3> HIDE DEF others, new, vc
      <3> QED BY <3>1, Appended
    <2> HIDE DEF result, others, new, copied
    <2> QED BY <1>4, <1>6, <2>1, <2>2, <2>3
  <1>10. ~ IsError(result)
    <2>1. DOMAIN result = DOMAIN vc /\ ~ IsError(vc)
      BY ExportedIs
    <2> HIDE DEF result, vc
    <2> QED BY <2>1 DEF IsError
  <1> HIDE DEF result, vc
  <1> QED BY <1>8, <1>9, <1>10 DEF MakePresentation, Then, vc

-----------------------------------------------------------------------------
(* The invariant. *)

(* What is on the chain, what the claimer knows of it, and the keys held:   *)
(* the claimer holds every key its DID has had.                             *)
Has(store, k, e) == AsKey(k) \in store.signing /\ e \in store.encryption
Stored(attester, delegationId, revoked) ==
    [ctypeHash |-> CType.hash, attester |-> attester, delegationId |-> delegationId,
     revoked |-> revoked]
StoredOK(a) ==
    \E b \in BOOLEAN : \/ a = Stored(AuthenticationKey(Attester), Delegation, b)
                       \/ a = Stored(OtherAccount, Absent, b)

ChainOK ==
    /\ deleted \in BOOLEAN /\ (deleted => did = Absent)
    /\ keystore = [signing |-> keystore.signing, encryption |-> keystore.encryption]
    /\ Has(keystore, ClaimerKey, ClaimerEncryptionKey)
    /\ \/ did = Absent
       \/ \E k \in SigningKeys, e \in EncryptionKeys :
             did = ChainRecord(k, e) /\ Has(keystore, k, e)
    /\ \/ details = LightRecord
       \/ \E k \in SigningKeys, e \in EncryptionKeys :
             details = FullRecord(Claimer, k, e) /\ Has(keystore, k, e)
AttestedOK == attested = Absent \/ StoredOK(attested)

(* The claimer's request, its credential, and the calls of the claimer's.   *)
SignedOrNot(s) == s = Absent \/ SignatureOK(s)
IsRequest(r) == \E A, s : A \in SUBSET Attribute /\ SignedOrNot(s) /\ r = RequestWith(A, A, s)
IsCredential(c, A, B, s) ==
    B \in SUBSET Attribute /\ A \in SUBSET B /\ SignedOrNot(s) /\ c = CredentialWith(A, B, s)
RequestOK ==
    /\ IsRequest(request)
    /\ credential # Absent =>
          \E A, B, s : IsCredential(credential, A, B, s) /\ request.claim = Shown(A)

IsSigning(s) ==
    \E uri, key, c : /\ c \in Challenge /\ Signs(uri, key)
                     /\ s = [signature |-> Signed(uri, key, DataFor(c)), challenge |-> c]
IsPresenting(p) ==
    \E A, B, s, uri, key, c, selected :
       /\ IsCredential(p.of, A, B, s) /\ c \in Challenge /\ Signs(uri, key)
       /\ p = [credential |-> CredentialWith(Kept(A, selected), Kept(A, selected), s),
               signature |-> Signed(uri, key, DataFor(c)), challenge |-> c,
               selected |-> selected, of |-> p.of]
IsPresentation(p) ==
    \E A, B, s, uri, key, c, selected :
       /\ IsCredential(p.of, A, B, s) /\ c \in Challenge /\ Signs(uri, key)
       /\ p = [credential |-> CredentialWith(Kept(A, selected), Kept(A, selected),
                                             Signing(uri, key, c)),
               challenge |-> c, selected |-> selected, of |-> p.of]
CallsOK ==
    /\ \A s \in signing : IsSigning(s)
    /\ \A p \in presenting : IsPresenting(p)
    /\ \A p \in presentations : IsPresentation(p)

(* Messages, and what has come of them.                                     *)
Encrypts(uri, key, from) ==
    \/ uri = LightUri("encryption") /\ key = ClaimerEncryptionKey /\ from = LightUri(Absent)
    \/ /\ key \in EncryptionKeys /\ uri = AccountUri(Claimer, key)
       /\ from = AccountUri(Claimer, Absent)
KeyUri(p) == AccountUri(p, EncryptionKey(p))
Sealed(uri, key, toUri, toKey, type, content, from, receiver) ==
    [senderKeyUri |-> uri, receiverKeyUri |-> toUri,
     ciphertext |-> [keys |-> {key, toKey},
                     data |-> [body |-> [type |-> type, content |-> content],
                               sender |-> from, receiver |-> receiver]]]
IsPresented(c) == \E A, s : A \in SUBSET Attribute /\ SignatureOK(s) /\ c = CredentialWith(A, A, s)

AsksFor(e) ==
    \E uri, key, from, r :
       /\ Encrypts(uri, key, from) /\ IsRequest(r)
       /\ e = [to |-> Attester, encrypted |->
                  Sealed(uri, key, KeyUri(Attester), EncryptionKey(Attester),
                         "request-attestation", [requestForAttestation |-> r, quote |-> Absent],
                         from, AccountUri(Attester, Absent))]
Answers(e) ==
    \E uri, key, to :
       /\ Encrypts(uri, key, to)
       /\ e = [to |-> Claimer, encrypted |->
                  Sealed(KeyUri(Attester), EncryptionKey(Attester), uri, key,
                         "submit-attestation", [attestation |-> Attested],
                         AccountUri(Attester, Absent), to)]
Presents(e) ==
    \E uri, key, from, c :
       /\ Encrypts(uri, key, from) /\ IsPresented(c)
       /\ e = [to |-> Verifier, encrypted |->
                  Sealed(uri, key, KeyUri(Verifier), EncryptionKey(Verifier),
                         "submit-credential", Array(<<c>>), from, AccountUri(Verifier, Absent))]
MailOK ==
    /\ \A e \in sent : AsksFor(e) \/ Answers(e) \/ Presents(e)
    /\ asked # Absent => IsRequest(asked.request)
                         /\ \E key, from : Encrypts(asked.senderKeyUri, key, from)
    /\ shown # Absent => IsPresented(shown)

ExchangeInv == ChainOK /\ AttestedOK /\ RequestOK /\ CallsOK /\ MailOK

(* Which actions change what.                                               *)
LEMMA Steps ==
    ASSUME [ExchangeNext]_exchangeVars
    PROVE  /\ UNCHANGED <<did, deleted, keystore, details>>
                \/ Migrate \/ ReplaceKey \/ Delete \/ Refresh
           /\ UNCHANGED attested \/ AttestationChanges \/ Attest
           /\ UNCHANGED <<request, credential>>
                \/ (\E s \in signing : SignatureMade(s))
                \/ (\E properties \in Selection \ {Absent} : HideProperties(properties))
                \/ (\E e \in sent : Deliver(e))
           /\ UNCHANGED signing
                \/ (\E c \in Challenge : SignWithDidKey(c))
                \/ (\E s \in signing : SignatureMade(s))
           /\ UNCHANGED <<presenting, presentations>>
                \/ (\E s \in Selection, c \in Challenge : CreatePresentation(s, c))
                \/ (\E p \in presenting : PresentationMade(p))
           /\ UNCHANGED sent \/ SendRequest \/ SendAttestation \/ SendPresentation
           /\ UNCHANGED <<asked, shown>> \/ (\E e \in sent : Deliver(e))
           /\ UNCHANGED composed \/ Compose
  <1> USE DEF chain, own, mail, Alone, Call, Transaction, Observe
  <1>1. CASE UNCHANGED exchangeVars
    BY <1>1 DEF exchangeVars
  <1>2. CASE Migrate
    BY <1>2 DEF Migrate
  <1>3. CASE ReplaceKey
    BY <1>3 DEF ReplaceKey
  <1>4. CASE Delete
    BY <1>4 DEF Delete
  <1>5. CASE AttestationChanges
    BY <1>5 DEF AttestationChanges
  <1>6. CASE Attest
    BY <1>6 DEF Attest
  <1>7. CASE Refresh
    BY <1>7 DEF Refresh
  <1>8. CASE \E c \in Challenge : SignWithDidKey(c)
    BY <1>8 DEF SignWithDidKey
  <1>9. CASE \E s \in signing : SignatureMade(s)
    BY <1>9 DEF SignatureMade
  <1>10. CASE \E properties \in Selection \ {Absent} : HideProperties(properties)
    BY <1>10 DEF HideProperties
  <1>11. CASE \E s \in Selection, c \in Challenge : CreatePresentation(s, c)
    BY <1>11 DEF CreatePresentation
  <1>12. CASE \E p \in presenting : PresentationMade(p)
    BY <1>12 DEF PresentationMade
  <1>13. CASE SendRequest
    BY <1>13 DEF SendRequest, Send
  <1>14. CASE SendAttestation
    BY <1>14 DEF SendAttestation, Send
  <1>15. CASE SendPresentation
    BY <1>15 DEF SendPresentation, Send
  <1>16. CASE \E e \in sent : Deliver(e)
    BY <1>16 DEF Deliver
  <1>17. CASE \E kind \in {"credential", "vc"}, c \in Challenge : Verify(kind, c)
    BY <1>17 DEF Verify
  <1>18. CASE ResolveSigner
    BY <1>18 DEF ResolveSigner
  <1>19. CASE QueryAttestation
    BY <1>19 DEF QueryAttestation
  <1>20. CASE Compose
    BY <1>20 DEF Compose
  <1> QED BY <1>1, <1>2, <1>3, <1>4, <1>5, <1>6, <1>7, <1>8, <1>9, <1>10, <1>11, <1>12, <1>13,
     <1>14, <1>15, <1>16, <1>17, <1>18, <1>19, <1>20 DEF ExchangeNext

LEMMA GeneratedKeys ==
    ASSUME NEW store, store = [signing |-> store.signing, encryption |-> store.encryption],
           NEW key, ~ HasKeys(store, {key})[key],
           NEW made,
           \/ KeyType(key) \in VerificationKeyType /\ made = GenerateKeypair(store, key, SigningKeyAlg(key))
           \/ KeyType(key) = "x25519" /\ made = GenerateKeypair(store, key, NaclBox)
    PROVE  /\ made = [signing |-> made.signing, encryption |-> made.encryption]
           /\ \A k, e : Has(store, k, e) => Has(made, k, e)
           /\ KeyType(key) \in VerificationKeyType => AsKey(key) \in made.signing
           /\ KeyType(key) = "x25519" => key \in made.encryption
  <1>1. key \notin {p.publicKey : p \in store.signing} /\ key \notin store.encryption
    BY DEF HasKeys
  <1>2. CASE /\ KeyType(key) \in VerificationKeyType
             /\ made = GenerateKeypair(store, key, SigningKeyAlg(key))
    <2> DEFINE alg == SigningKeyAlg(key)  others == {k \in store.signing : k.publicKey # key}
    <2>1. SigningSupported(alg) /\ KeyTypeFor(SigningAlgorithmFor, alg) = KeyType(key)
      BY <1>2, Algorithms DEF SigningKeyAlg, AlgorithmKeyType
    <2>2. ~ EncryptionSupported(alg)
      <3>1. alg \in {"ed25519", "sr25519", "ecdsa-secp256k1"}
        BY <1>2 DEF SigningKeyAlg, SigningAlgorithmFor, VerificationKeyType
      <3> HIDE DEF alg
      <3> QED BY <3>1 DEF EncryptionSupported, EncryptionAlgorithmFor
    <2>3. made = PutSigningKey(store, key, alg)
      BY <1>2, <2>1, <2>2 DEF GenerateKeypair
    <2>4. others = store.signing
      BY <1>1
    <2>5. made = [store EXCEPT !.signing = others \cup {AsKey(key)}]
      BY <2>1, <2>3 DEF PutSigningKey, AsKey
    <2>6. made.signing = store.signing \cup {AsKey(key)} /\ made.encryption = store.encryption
          /\ made = [signing |-> made.signing, encryption |-> made.encryption]
      <3> HIDE DEF others
      <3> QED BY <2>4, <2>5
    <2>7. KeyType(key) # "x25519"
      BY <1>2 DEF VerificationKeyType
    <2> QED BY <2>6, <2>7 DEF Has
  <1>3. CASE KeyType(key) = "x25519" /\ made = GenerateKeypair(store, key, NaclBox)
    <2>1. made = AddEncryptionKeypair(store, key)
      BY <1>3, Algorithms DEF GenerateKeypair
    <2>2. made = [store EXCEPT !.encryption = @ \cup {key}]
      BY <1>1, <2>1 DEF AddEncryptionKeypair
    <2>3. made.signing = store.signing /\ made.encryption = store.encryption \cup {key}
          /\ made = [signing |-> made.signing, encryption |-> made.encryption]
      BY <2>2
    <2>4. KeyType(key) \notin VerificationKeyType
      BY <1>3 DEF VerificationKeyType
    <2> QED BY <2>3, <2>4 DEF Has
  <1> QED BY <1>2, <1>3

LEMMA ChainInit == ExchangeInit => ChainOK /\ AttestedOK
  <1> SUFFICES ASSUME ExchangeInit PROVE ChainOK /\ AttestedOK
    OBVIOUS
  <1>1. keystore = [signing |-> {AsKey(ClaimerKey)}, encryption |-> {ClaimerEncryptionKey}]
    BY FirstKeys DEF ExchangeInit, ClaimerKey, ClaimerEncryptionKey, Party
  <1>2. details = LightRecord
    BY LightDidIs DEF ExchangeInit
  <1>3. did = Absent /\ deleted = FALSE /\ attested = Absent
    BY DEF ExchangeInit
  <1>4. deleted \in BOOLEAN /\ ~ deleted
    BY <1>3
  <1>5. /\ keystore = [signing |-> keystore.signing, encryption |-> keystore.encryption]
        /\ Has(keystore, ClaimerKey, ClaimerEncryptionKey)
    BY <1>1 DEF Has
  <1> QED BY <1>2, <1>3, <1>4, <1>5 DEF ChainOK, AttestedOK

LEMMA ChainStep ==
    ASSUME ChainOK, [ExchangeNext]_exchangeVars
    PROVE  ChainOK'
  <1>1. ClaimerKey \in SigningKeys /\ ClaimerEncryptionKey \in EncryptionKeys /\ Claimer \in Party
    BY DEF SigningKeys, EncryptionKeys, Party
  <1>2. CASE UNCHANGED <<did, deleted, keystore, details>>
    BY <1>2 DEF ChainOK
  <1>3. CASE Migrate
    <2>1. did' = ChainRecord(ClaimerKey, ClaimerEncryptionKey) /\ UNCHANGED <<deleted, details, keystore>>
          /\ ~ deleted
      BY <1>1, <1>3, Records DEF Migrate, ClaimerKey, ClaimerEncryptionKey
    <2> QED BY <1>1, <2>1 DEF ChainOK
  <1>4. CASE ReplaceKey
    <2>1. PICK k \in SigningKeys, e \in EncryptionKeys : did = ChainRecord(k, e) /\ Has(keystore, k, e)
      BY <1>4 DEF ReplaceKey, ChainOK
    <2>2. /\ KeyType(NextAuthenticationKey) \in VerificationKeyType
          /\ KeyType(NextEncryptionKey) = "x25519"
          /\ NextAuthenticationKey \in SigningKeys /\ NextEncryptionKey \in EncryptionKeys
      BY Keys DEF SigningKeys, EncryptionKeys
    <2>3. UNCHANGED <<deleted, details>> /\ did # Absent
      BY <1>4 DEF ReplaceKey
    <2>4. /\ keystore' = [signing |-> keystore'.signing, encryption |-> keystore'.encryption]
          /\ \A x, y : Has(keystore, x, y) => Has(keystore', x, y)
          /\ \E x \in SigningKeys, y \in EncryptionKeys :
                did' = ChainRecord(x, y) /\ Has(keystore', x, y)
      <3>1. CASE /\ ~ HasKeys(keystore, {NextAuthenticationKey})[NextAuthenticationKey]
                 /\ keystore' = GenerateKeypair(keystore, NextAuthenticationKey,
                                                SigningKeyAlg(NextAuthenticationKey))
                 /\ did' = [did EXCEPT !.authenticationKey = NextAuthenticationKey]
        <4>1. /\ keystore' = [signing |-> keystore'.signing, encryption |-> keystore'.encryption]
              /\ \A x, y : Has(keystore, x, y) => Has(keystore', x, y)
              /\ AsKey(NextAuthenticationKey) \in keystore'.signing
          BY <2>2, <3>1, GeneratedKeys DEF ChainOK
        <4>2. did' = ChainRecord(NextAuthenticationKey, e)
          BY <2>1, <3>1 DEF ChainRecord
        <4>3. Has(keystore', NextAuthenticationKey, e)
          BY <2>1, <4>1 DEF Has
        <4> QED BY <2>2, <4>1, <4>2, <4>3
      <3>2. CASE /\ ~ HasKeys(keystore, {NextEncryptionKey})[NextEncryptionKey]
                 /\ keystore' = GenerateKeypair(keystore, NextEncryptionKey, NaclBox)
                 /\ did' = [did EXCEPT !.keyAgreementKeys = {NextEncryptionKey}]
        <4>1. /\ keystore' = [signing |-> keystore'.signing, encryption |-> keystore'.encryption]
              /\ \A x, y : Has(keystore, x, y) => Has(keystore', x, y)
              /\ NextEncryptionKey \in keystore'.encryption
          BY <2>2, <3>2, GeneratedKeys DEF ChainOK
        <4>2. did' = ChainRecord(k, NextEncryptionKey)
          BY <2>1, <3>2 DEF ChainRecord
        <4>3. Has(keystore', k, NextEncryptionKey)
          BY <2>1, <4>1 DEF Has
        <4> QED BY <2>2, <4>1, <4>2, <4>3
      <3> QED BY <1>4, <3>1, <3>2 DEF ReplaceKey
    <2>5. ~ deleted'
      BY <2>3 DEF ChainOK
    <2> QED BY <2>3, <2>4, <2>5 DEF ChainOK
  <1>5. CASE Delete
    BY <1>5 DEF Delete, ChainOK
  <1>6. CASE Refresh
    <2>1. PICK k \in SigningKeys, e \in EncryptionKeys : did = ChainRecord(k, e) /\ Has(keystore, k, e)
      BY <1>6 DEF Refresh, ChainOK
    <2>2. FullUri[Claimer] = AccountUri(Claimer, Absent)
      BY <1>1, UriAccounts DEF FullUri
    <2>3. details' = FullRecord(Claimer, k, e)
      BY <1>1, <1>6, <2>1, <2>2, FullDidIs DEF Refresh
    <2>4. UNCHANGED <<did, deleted, keystore>>
      BY <1>6 DEF Refresh, Alone, chain
    <2> QED BY <2>1, <2>3, <2>4 DEF ChainOK
  <1> QED BY <1>2, <1>3, <1>4, <1>5, <1>6, Steps

(* What the claimer signs with now, and what it encrypts with.              *)
LEMMA ClaimerSigns ==
    ASSUME ChainOK, NEW payload
    PROVE  \E uri, key : Signs(uri, key) /\ SignAsDid(payload, details, keystore)
                                                = Signed(uri, key, payload)
  <1>1. CASE details = LightRecord
    <2>1. AsKey(ClaimerKey) \in keystore.signing
      BY DEF ChainOK, Has
    <2> QED BY <1>1, <2>1, LightSigns DEF Signs
  <1>2. ASSUME NEW k \in SigningKeys, NEW e \in EncryptionKeys,
               details = FullRecord(Claimer, k, e), Has(keystore, k, e)
        PROVE  \E uri, key : Signs(uri, key) /\ SignAsDid(payload, details, keystore)
                                                     = Signed(uri, key, payload)
    <2>1. Claimer \in Party /\ SigningKeyOf(Claimer, k) /\ EncryptionKeyFor(Claimer, e)
      BY DEF Party, SigningKeyOf, EncryptionKeyFor
    <2>2. SignAsDid(payload, details, keystore) = Signed(AccountUri(Claimer, k), k, payload)
      BY <1>2, <2>1, FullSigns DEF Has
    <2>3. Signs(AccountUri(Claimer, k), k)
      BY DEF Signs
    <2> QED BY <2>2, <2>3
  <1> QED BY <1>1, <1>2 DEF ChainOK

(* A request, and a credential, is made of what there is.                   *)
LEMMA RequestMade ==
    ASSUME NEW B \in SUBSET Attribute, NEW A \in SUBSET B, NEW s, SignedOrNot(s)
    PROVE  NewRequest(RequestWith(A, B, s)) = RequestWith(A, B, s)
  <1> DEFINE made == RequestWith(A, B, s)
  <1>1. RequestErrorCheck(made) = Valid
    BY RequestAccepted DEF SignedOrNot
  <1>2. made.legitimations = Legitimations
    BY RequestIs
  <1> DEFINE checked == {Check(CredentialErrorCheck(Legitimations[i])) : i \in DOMAIN Legitimations}
  <1>3. \A x \in checked : ~ IsError(x)
    <2>1. ASSUME NEW i \in DOMAIN Legitimations
          PROVE  ~ IsError(Check(CredentialErrorCheck(Legitimations[i])))
      <3>1. Legitimations[i] \in Legitimation
        BY Whole
      <3>2. CredentialErrorCheck(Legitimations[i]) = Valid
        BY <3>1, LegitimationAssumption
      <3> QED BY <3>2, Errors, CheckIs
    <2> QED BY <2>1
  <1>4. ~ IsError(All(checked))
    <2> HIDE DEF checked
    <2> QED BY <1>3, AllValid
  <1>5. NewRequest(made) = Then(RequestErrorCheck(made), Then(All(checked), made))
    BY <1>2 DEF NewRequest
  <1> HIDE DEF made, checked
  <1>6. NewRequest(made) = made
    BY <1>1, <1>4, <1>5, Errors DEF Then
  <1> QED BY <1>6 DEF made

LEMMA RequestInit == ExchangeInit => RequestOK /\ CallsOK /\ MailOK
  <1> SUFFICES ASSUME ExchangeInit PROVE RequestOK /\ CallsOK /\ MailOK
    OBVIOUS
  <1> DEFINE claim == ClaimOf(Contents)
             hashed == HashClaimContents(claim, NewNonces(claim, "salt"))
             r == [claim |-> claim, claimNonceMap |-> hashed.nonceMap,
                   claimHashes |-> hashed.hashes, claimerSignature |-> Absent,
                   rootHash |-> Absent, legitimations |-> Legitimations,
                   delegationId |-> Delegation]
             whole == [r EXCEPT !.rootHash = CalculateRootHash(r)]
             made == RequestWith(Attribute, Attribute, Absent)
  <1>1. claim = Shown(Attribute)
    BY ExchangeAssumption DEF Shown
  <1>2. NewNonces(claim, "salt") = NoncesOf(Attribute)
    BY <1>1 DEF NoncesOf
  <1>3. /\ hashed.hashes = Root.claimHashes /\ hashed.nonceMap = NoncesOf(Attribute)
        /\ ~ IsError(hashed)
    <2>1. Root.claimHashes = {SaltedHash(d, "salt") : d \in DigestsOf(Attribute)}
      BY DigestsGrow DEF Root
    <2> HIDE DEF claim
    <2> QED BY <1>1, <1>2, <2>1, Hashed
  <1>4. CalculateRootHash(r) = Root
    <2>1. /\ r.claimHashes = Root.claimHashes /\ r.legitimations = Legitimations
          /\ r.delegationId = Delegation
      BY <1>3
    <2> HIDE DEF r
    <2> QED BY <2>1, RootIs
  <1>5. whole = made
    <2> HIDE DEF hashed, claim
    <2>1. r = [claim |-> Shown(Attribute), claimNonceMap |-> NoncesOf(Attribute),
               claimHashes |-> Root.claimHashes, claimerSignature |-> Absent,
               rootHash |-> Absent, legitimations |-> Legitimations, delegationId |-> Delegation]
      BY <1>1, <1>3
    <2> HIDE DEF r
    <2>2. [r EXCEPT !.rootHash = Root] = made
      BY <2>1 DEF RequestWith
    <2> QED BY <1>4, <2>2
  <1>6. NewRequest(made) = made
    BY RequestMade DEF SignedOrNot
  <1>7. request = made
    <2>1. RequestFromClaim(claim, Legitimations, Delegation, "salt") = Then(hashed, NewRequest(whole))
      BY DEF RequestFromClaim
    <2> HIDE DEF hashed, whole, made
    <2> QED BY <1>3, <1>5, <1>6, <2>1 DEF ExchangeInit, Then
  <1>8. IsRequest(request)
    BY <1>7 DEF IsRequest, SignedOrNot
  <1>9. /\ credential = Absent /\ signing = {} /\ presenting = {} /\ presentations = {}
        /\ sent = {} /\ asked = Absent /\ shown = Absent
    BY DEF ExchangeInit
  <1> QED BY <1>8, <1>9 DEF RequestOK, CallsOK, MailOK

-----------------------------------------------------------------------------
(* Messages: the keys they are sealed with, and what comes of them. *)

LEMMA EncryptingKeys ==
    ASSUME NEW uri, NEW key, NEW from, Encrypts(uri, key, from)
    PROVE  /\ key \in EncryptionKeys /\ KeyType(key) = "x25519"
           /\ uri \in Uri /\ from \in Uri /\ uri.fragment \in KeyId /\ uri.fragment # Absent
           /\ ParseDidUri(uri).did = from
           /\ AccountOf(uri) = ClaimerKey /\ AccountOf(from) = ClaimerKey
           /\ ~ IsError(ValidateKiltDidUri(from, FALSE))
           /\ RecordOf(uri) = did /\ (IsDeleted(uri) <=> deleted) /\ IsDeleted(uri) \in BOOLEAN
           /\ IdKey(uri.fragment, key) # Absent /\ ResolvedKey(from, uri, key) # Absent
  <1>1. Claimer \in Party /\ ClaimerEncryptionKey \in EncryptionKeys
    BY DEF Party, EncryptionKeys
  <1>2. CASE /\ uri = LightUri("encryption") /\ key = ClaimerEncryptionKey
             /\ from = LightUri(Absent)
    <2>1. /\ uri \in Uri /\ from \in Uri /\ uri.fragment = "encryption" /\ "encryption" \in KeyId
          /\ ParseDidUri(uri).did = from
          /\ AccountOf(uri) = ClaimerKey /\ AccountOf(from) = ClaimerKey
          /\ ~ IsError(ValidateKiltDidUri(from, FALSE))
      BY <1>2, UrisTyped, UriAccounts, UrisAreValid DEF KeyId, LightUri
    <2>2. RecordOf(uri) = did /\ (IsDeleted(uri) <=> deleted) /\ IsDeleted(uri) \in BOOLEAN
      BY <1>2, RecordsOf
    <2>3. key \in EncryptionKeys /\ KeyType(key) = "x25519"
      BY <1>1, <1>2, Keys
    <2> QED BY <2>1, <2>2, <2>3, IdKeys, ResolvedKeys, NoText
  <1>3. CASE /\ key \in EncryptionKeys /\ uri = AccountUri(Claimer, key)
             /\ from = AccountUri(Claimer, Absent)
    <2>1. key \in KeyId /\ KeyType(key) = "x25519"
      BY <1>3, Keys DEF KeyId
    <2>2. /\ uri \in Uri /\ from \in Uri /\ uri.fragment = key
          /\ ParseDidUri(uri).did = from
          /\ AccountOf(uri) = ClaimerKey /\ AccountOf(from) = ClaimerKey
          /\ ~ IsError(ValidateKiltDidUri(from, FALSE))
      BY <1>1, <1>3, <2>1, UrisTyped, UriAccounts, UrisAreValid DEF AccountUri, ClaimerKey
    <2>3. RecordOf(uri) = did /\ (IsDeleted(uri) <=> deleted) /\ IsDeleted(uri) \in BOOLEAN
      BY <1>3, RecordsOf
    <2> QED BY <1>3, <2>1, <2>2, <2>3, IdKeys, ResolvedKeys, NoText
  <1> QED BY <1>2, <1>3 DEF Encrypts

(* Whether a key of the claimer's resolves.                                 *)
ClaimerResolves(uri) ==
    \/ uri.type = "light" /\ ~ deleted
    \/ did # Absent /\ uri.fragment \in did.keyAgreementKeys

LEMMA ClaimerKeyResolves ==
    ASSUME ChainOK, NEW uri, NEW key, NEW from, Encrypts(uri, key, from)
    PROVE  LET found == ResolveKey(uri, RecordOf(uri), IsDeleted(uri))
           IN  /\ ClaimerResolves(uri) => found = ResolvedKey(from, uri, key)
               /\ ~ ClaimerResolves(uri) => found = Absent
  <1> DEFINE gone == IsDeleted(uri)  found == ResolveKey(uri, RecordOf(uri), gone)
  <1>1. /\ RecordOf(uri) = did /\ (gone <=> deleted) /\ gone \in BOOLEAN /\ deleted \in BOOLEAN
        /\ (deleted => did = Absent)
    BY EncryptingKeys DEF ChainOK
  <1> HIDE DEF gone
  <1>2. CASE /\ uri = LightUri("encryption") /\ key = ClaimerEncryptionKey
             /\ from = LightUri(Absent)
    <2>1. /\ gone => found = Absent
          /\ ~ gone => found = ResolvedKey(LightUri(Absent), uri, LightKeyOf("encryption"))
      BY <1>1, <1>2, LightKeyResolves
    <2>2. LightKeyOf("encryption") = key
      BY <1>2 DEF LightKeyOf
    <2>3. ClaimerResolves(uri) <=> ~ deleted
      <3>1. uri.type = "light" /\ uri.fragment = "encryption"
        BY <1>2 DEF LightUri
      <3> QED BY <1>1, <3>1 DEF ClaimerResolves
    <2> QED BY <1>1, <1>2, <2>1, <2>2, <2>3 DEF gone
  <1>3. CASE /\ key \in EncryptionKeys /\ uri = AccountUri(Claimer, key)
             /\ from = AccountUri(Claimer, Absent)
    <2>1. Claimer \in Party /\ uri.type = "full" /\ uri.fragment = key /\ key \in KeyId
      BY <1>3, Keys DEF Party, AccountUri, KeyId
    <2>2. CASE did = Absent
      <3>1. found = Absent
        BY <1>1, <1>3, <2>1, <2>2, GoneKey
      <3>2. ~ ClaimerResolves(uri)
        BY <2>1, <2>2 DEF ClaimerResolves
      <3> QED BY <3>1, <3>2 DEF gone
    <2>3. ASSUME NEW k \in SigningKeys, NEW e \in EncryptionKeys, did = ChainRecord(k, e)
          PROVE  /\ ClaimerResolves(uri) => found = ResolvedKey(from, uri, key)
                 /\ ~ ClaimerResolves(uri) => found = Absent
      <3>1. SigningKeyOf(Claimer, k) /\ EncryptionKeyFor(Claimer, e)
        BY DEF SigningKeyOf, EncryptionKeyFor
      <3>2. did # Absent /\ did.keyAgreementKeys = {e}
        BY <2>3, Records, Keys
      <3>3. gone \in BOOLEAN /\ ~ gone
        BY <1>1, <3>2
      <3>4. found = ResolveKey(AccountUri(Claimer, key), ChainRecord(k, e), gone)
        BY <1>1, <1>3, <2>3
      <3>5. key # k
        BY <1>3, KeyTypes
      <3>6. /\ key = e => found = ResolvedKey(AccountUri(Claimer, Absent), AccountUri(Claimer, key), key)
            /\ key # e => found = Absent
        <4> HIDE DEF found
        <4>1. CASE key = e
          BY <2>1, <3>1, <3>3, <3>4, <4>1, FullKeyFound
        <4>2. CASE key # e
          BY <2>1, <3>1, <3>3, <3>4, <3>5, <4>2, FullKeyMissing
        <4> QED BY <4>1, <4>2
      <3>7. ClaimerResolves(uri) <=> key = e
        BY <2>1, <3>2 DEF ClaimerResolves
      <3> QED BY <1>3, <3>6, <3>7
    <2> QED BY <2>2, <2>3 DEF ChainOK, gone
  <1> QED BY <1>2, <1>3 DEF Encrypts, gone

LEMMA OthersRecord ==
    ASSUME NEW p \in {Attester, Verifier}, NEW f
    PROVE  /\ RecordOf(AccountUri(p, f)) = ChainRecord(AuthenticationKey(p), EncryptionKey(p))
           /\ ~ IsDeleted(AccountUri(p, f)) /\ IsDeleted(AccountUri(p, f)) \in BOOLEAN
  <1> QED BY RecordsOf

LEMMA OthersKeys ==
    ASSUME NEW p \in {Attester, Verifier}
    PROVE  /\ FirstDetails[p] = FullRecord(p, AuthenticationKey(p), EncryptionKey(p))
           /\ DetailsOf(p) = FirstDetails[p] /\ KeystoreOf(p) = FirstKeystore[p]
           /\ EncryptionKeyOf(p) = EncryptionKey(p) /\ KeyUriOf(p) = KeyUri(p)
           /\ ParseDidUri(KeyUri(p)).did = AccountUri(p, Absent)
           /\ AccountOf(KeyUri(p)) # ClaimerKey
           /\ ~ IsError(ValidateKiltDidUri(AccountUri(p, Absent), FALSE))
           /\ IdKey(EncryptionKey(p), EncryptionKey(p)) # Absent
           /\ KeyUri(p).fragment = EncryptionKey(p) /\ EncryptionKey(p) # Absent
           /\ KeyType(EncryptionKey(p)) = "x25519"
           /\ ResolveKey(KeyUri(p), RecordOf(KeyUri(p)), IsDeleted(KeyUri(p)))
                 = ResolvedKey(AccountUri(p, Absent), KeyUri(p), EncryptionKey(p))
           /\ ResolvedKey(AccountUri(p, Absent), KeyUri(p), EncryptionKey(p)) # Absent
  <1> DEFINE k == AuthenticationKey(p)  e == EncryptionKey(p)
  <1>1. /\ p \in Party /\ p # Claimer /\ Claimer \in Party
        /\ SigningKeyOf(p, k) /\ EncryptionKeyFor(p, e)
    BY ExchangeAssumption DEF Party, SigningKeyOf, EncryptionKeyFor
  <1>2. k \in PublicKey /\ e \in PublicKey /\ e \in KeyId /\ KeyType(e) = "x25519" /\ e # Absent
    BY <1>1, Keys, NoText DEF KeyId
  <1>3. FirstDetails[p] = FullRecord(p, k, e)
    <2>1. FullUri[p] = AccountUri(p, Absent) /\ FirstRecord[p] = ChainRecord(k, e)
      BY <1>1, UriAccounts, Records DEF FullUri
    <2> QED BY <1>1, <2>1, FullDidIs DEF FirstDetails
  <1>4. DetailsOf(p) = FirstDetails[p] /\ KeystoreOf(p) = FirstKeystore[p]
    BY <1>1 DEF DetailsOf, KeystoreOf
  <1>5. EncryptionKeyOf(p) = e
    <2>1. FirstKey(FullRecord(p, k, e), "keyAgreement") = IdKey(e, e)
      BY FullKeys
    <2> QED BY <1>3, <1>4, <2>1 DEF EncryptionKeyOf, IdKey
  <1>6. KeyUriOf(p) = KeyUri(p)
    <2>1. FullRecord(p, k, e).uri = AccountUri(p, Absent)
      BY DEF FullRecord
    <2> QED BY <1>3, <1>4, <1>5, <2>1, AssembledUris DEF KeyUriOf, KeyUri
  <1>7. /\ ParseDidUri(KeyUri(p)).did = AccountUri(p, Absent) /\ KeyUri(p).fragment = e
        /\ AccountOf(KeyUri(p)) # ClaimerKey
        /\ ~ IsError(ValidateKiltDidUri(AccountUri(p, Absent), FALSE))
    <2>1. AuthenticationKey(p) # AuthenticationKey(Claimer)
      BY <1>1, ExchangeAssumption
    <2> QED BY <1>1, <2>1, UriAccounts, UrisAreValid DEF KeyUri, AccountUri, ClaimerKey
  <1>8. /\ IdKey(e, e) # Absent /\ ResolvedKey(AccountUri(p, Absent), KeyUri(p), e) # Absent
    <2>1. AccountUri(p, Absent) \in Uri /\ KeyUri(p) \in Uri
      BY <1>1, <1>2, UrisTyped DEF KeyUri
    <2> QED BY <1>1, <1>2, <2>1, KeysOfThem
  <1>9. ResolveKey(KeyUri(p), RecordOf(KeyUri(p)), IsDeleted(KeyUri(p)))
           = ResolvedKey(AccountUri(p, Absent), KeyUri(p), e)
    <2> DEFINE gone == IsDeleted(AccountUri(p, e))
    <2>1. /\ RecordOf(AccountUri(p, e)) = ChainRecord(k, e)
          /\ ~ gone /\ gone \in BOOLEAN
      BY OthersRecord
    <2> HIDE DEF gone
    <2>2. ResolveKey(AccountUri(p, e), ChainRecord(k, e), gone)
             = ResolvedKey(AccountUri(p, Absent), AccountUri(p, e), e)
      BY <1>1, <2>1, FullKeyFound
    <2>3. KeyUri(p) = AccountUri(p, e)
      BY DEF KeyUri
    <2> QED BY <2>1, <2>2, <2>3 DEF gone
  <1> HIDE DEF k, e
  <1> QED BY <1>2, <1>3, <1>4, <1>5, <1>6, <1>7, <1>8, <1>9 DEF k, e

(* What is encrypted is sealed for two keys, and opened with either.        *)
MessageOf(type, content, from, to) ==
    [body |-> [type |-> type, content |-> content], sender |-> from, receiver |-> to]

LEMMA NewMessageIs ==
    ASSUME NEW type, NEW content, NEW from, NEW to
    PROVE  /\ NewMessage([type |-> type, content |-> content], from, to)
                 = MessageOf(type, content, from, to)
           /\ MessageOf(type, content, from, to).body.type = type
           /\ MessageOf(type, content, from, to).body.content = content
           /\ MessageOf(type, content, from, to).sender = from
           /\ MessageOf(type, content, from, to).receiver = to
           /\ ~ IsError(MessageOf(type, content, from, to))
  BY DEF NewMessage, MessageOf, IsArray, IsError

Box(key, peer, data) == [keys |-> {key, peer}, data |-> data]

LEMMA Boxes ==
    ASSUME NEW store, NEW key, key \in store.encryption, NEW peer, NEW data
    PROVE  /\ SealBox(store, key, NaclBox, peer, data) = Box(key, peer, data)
           /\ OpenBox(store, key, NaclBox, peer, Box(peer, key, data)) = [data |-> data]
           /\ ~ IsError(Box(key, peer, data)) /\ ~ IsError([data |-> data])
  <1>1. HoldsEncryptionKey(store, key, NaclBox)
    BY Algorithms DEF HoldsEncryptionKey
  <1>2. SealBox(store, key, NaclBox, peer, data) = Box(key, peer, data)
    BY <1>1, Zenon DEF SealBox, Box
  <1>3. Box(peer, key, data).keys = {key, peer} /\ Box(peer, key, data).data = data
    BY DEF Box
  <1>4. OpenBox(store, key, NaclBox, peer, Box(peer, key, data)) = [data |-> data]
    BY <1>1, <1>3 DEF OpenBox
  <1>5. ~ IsError(Box(key, peer, data)) /\ ~ IsError([data |-> data])
    BY DEF Box, IsError
  <1> QED BY <1>2, <1>4, <1>5

(* Every message there is passes the checks of the one who gets it.         *)
Accepted(type, content, from, to) ==
    /\ ~ IsError(ErrorCheckMessage(MessageOf(type, content, from, to)))
    /\ ~ IsError(EnsureOwnerIsSender([type |-> type, content |-> content], from))

LEMMA EncryptIs ==
    ASSUME NEW type, NEW content, NEW to, NEW id, NEW d, NEW store, NEW uri, NEW key,
           NEW toUri, NEW toKey, NEW received,
           GetKey(d, id) = IdKey(id, key), IdKey(id, key) # Absent, KeyType(key) = "x25519",
           AssembleKeyUri(d.uri, id) = uri, key \in store.encryption,
           received = Absent \/ received = ResolvedKey(to, toUri, toKey),
           NEW encrypted,
           encrypted = Encrypt(NewMessage([type |-> type, content |-> content], d.uri, to),
                               id, d, store, received),
           ~ IsError(encrypted)
    PROVE  encrypted = Sealed(uri, key, toUri, toKey, type, content, d.uri, to)
  <1> DEFINE m == MessageOf(type, content, d.uri, to)
             box == Box(key, toKey, m)
             k == IdKey(id, key)
  <1>1. encrypted = Encrypt(m, id, d, store, received)
    BY NewMessageIs
  <1>2. m.sender = d.uri /\ m.receiver = to
    BY NewMessageIs
  <1>3. /\ k.publicKey = key /\ k.type = "x25519"
        /\ EncryptionAlgorithmFor[k.type] = NaclBox
    BY Algorithms DEF IdKey
  <1>4. IsEncryptionKey(k)
    BY <1>3 DEF IsEncryptionKey, EncryptionKeyType
  <1>5. SealBox(store, key, NaclBox, toKey, m) = box /\ ~ IsError(box)
    BY Boxes
  <1>6. received # Absent
    BY <1>1, Errors DEF Encrypt
  <1>7. received.controller = to /\ received.uri = toUri /\ received.publicKey = toKey
    BY <1>6 DEF ResolvedKey
  <1> HIDE DEF m, box, k
  <1>8. Encrypt(m, id, d, store, received)
           = Envelope(uri, toUri, SealBox(store, key, NaclBox, toKey, m))
    BY <1>2, <1>3, <1>4, <1>6, <1>7 DEF Encrypt, k
  <1>9. Envelope(uri, toUri, box)
           = [senderKeyUri |-> uri, receiverKeyUri |-> toUri, ciphertext |-> box]
    BY <1>5 DEF Envelope, Then
  <1> QED BY <1>1, <1>5, <1>8, <1>9 DEF Sealed, m, box, Box, MessageOf

LEMMA DecryptIs ==
    ASSUME NEW type, NEW content, NEW from, NEW to, NEW uri, NEW key, NEW toUri, NEW toKey,
           NEW sender, NEW d, NEW store,
           sender = Absent \/ sender = ResolvedKey(from, uri, key),
           toUri.fragment # Absent,
           \/ GetKey(d, toUri.fragment) = Absent
           \/ /\ GetKey(d, toUri.fragment) = IdKey(toUri.fragment, toKey)
              /\ KeyType(toKey) = "x25519" /\ toKey \in store.encryption,
           Accepted(type, content, from, to), NEW result,
           result = Decrypt(Sealed(uri, key, toUri, toKey, type, content, from, to),
                            sender, store, d)
    PROVE  /\ sender # Absent /\ GetKey(d, toUri.fragment) # Absent =>
                 result = MessageOf(type, content, from, to)
           /\ sender = Absent \/ GetKey(d, toUri.fragment) = Absent => IsError(result)
  <1> DEFINE m == MessageOf(type, content, from, to)
             box == Box(key, toKey, m)
             e == Sealed(uri, key, toUri, toKey, type, content, from, to)
             k == GetKey(d, toUri.fragment)
             id == toUri.fragment
  <1>1. e.receiverKeyUri = toUri /\ e.ciphertext = box
    BY DEF Sealed, MessageOf, Box
  <1>2. m.sender = from /\ m.body = [type |-> type, content |-> content]
    BY DEF MessageOf
  <1>3. /\ ~ IsError([data |-> m])
        /\ k # Absent => OpenBox(store, toKey, NaclBox, key, box) = [data |-> m]
    <2>1. k # Absent => toKey \in store.encryption
      OBVIOUS
    <2>2. ~ IsError([data |-> m])
      BY DEF IsError
    <2> HIDE DEF m, k
    <2> QED BY <2>1, <2>2, Boxes
  <1> HIDE DEF m, box, e, k
  <1>4. sender = Absent \/ k = Absent => IsError(result)
    BY <1>1, Errors DEF Decrypt, k, e
  <1>5. ASSUME sender # Absent, k # Absent PROVE result = m
    <2>1. k = IdKey(id, toKey) /\ KeyType(toKey) = "x25519"
      BY <1>5 DEF k
    <2>2. /\ k.publicKey = toKey /\ k.type = "x25519"
          /\ EncryptionAlgorithmFor[k.type] = NaclBox
      BY <2>1, Algorithms DEF IdKey
    <2>3. IsEncryptionKey(k)
      BY <2>2 DEF IsEncryptionKey, EncryptionKeyType
    <2>4. sender.controller = from /\ sender.publicKey = key
      BY <1>5 DEF ResolvedKey
    <2>5. result = Parsed(OpenBox(store, toKey, NaclBox, key, box), sender)
      BY <1>1, <1>5, <2>2, <2>3, <2>4 DEF Decrypt, k, e
    <2>6. Parsed([data |-> m], sender) = m
      BY <1>2, <1>3, <2>4 DEF Parsed, Accepted, m
    <2> QED BY <1>3, <1>5, <2>5, <2>6
  <1> QED BY <1>4, <1>5 DEF m, k

LEMMA MessageAccepted ==
    ASSUME NEW type, NEW content, NEW from, NEW to,
           ~ IsError(ValidateKiltDidUri(from, FALSE)), ~ IsError(ValidateKiltDidUri(to, FALSE)),
           ErrorCheckMessageBody([type |-> type, content |-> content]) = Valid
    PROVE  ~ IsError(ErrorCheckMessage(MessageOf(type, content, from, to)))
  <1>1. /\ MessageOf(type, content, from, to).body = [type |-> type, content |-> content]
        /\ MessageOf(type, content, from, to).sender = from
        /\ MessageOf(type, content, from, to).receiver = to
    BY DEF MessageOf
  <1> QED BY <1>1, Errors DEF ErrorCheckMessage, Then

LEMMA RequestMessage ==
    ASSUME NEW uri, NEW key, NEW from, Encrypts(uri, key, from), NEW r, IsRequest(r)
    PROVE  Accepted("request-attestation", [requestForAttestation |-> r, quote |-> Absent],
                    from, AccountUri(Attester, Absent))
  <1> DEFINE content == [requestForAttestation |-> r, quote |-> Absent]
             body == [type |-> "request-attestation", content |-> content]
  <1>1. /\ ~ IsError(ValidateKiltDidUri(from, FALSE)) /\ AccountOf(from) = ClaimerKey
        /\ ~ IsError(ValidateKiltDidUri(AccountUri(Attester, Absent), FALSE))
    BY EncryptingKeys, UrisAreValid DEF Party
  <1>2. PICK A, s : A \in SUBSET Attribute /\ SignedOrNot(s) /\ r = RequestWith(A, A, s)
    BY DEF IsRequest
  <1>3. RequestErrorCheck(r) = Valid /\ r.claim.owner = LightUri(Absent)
    <2>1. RequestErrorCheck(RequestWith(A, A, s)) = Valid
      BY <1>2, RequestAccepted DEF SignedOrNot
    <2>2. RequestWith(A, A, s).claim.owner = LightUri(Absent)
      BY <1>2, RequestIs, ShownIs
    <2> QED BY <1>2, <2>1, <2>2
  <1>4. ErrorCheckMessageBody(body) = Valid
    BY <1>3 DEF ErrorCheckMessageBody
  <1>5. ~ IsError(EnsureOwnerIsSender(body, from))
    <2>1. IsSameSubject(LightUri(Absent), from)
      BY <1>1, UriAccounts DEF IsSameSubject
    <2> QED BY <1>3, <2>1, Errors DEF EnsureOwnerIsSender
  <1> QED BY <1>1, <1>4, <1>5, MessageAccepted DEF Accepted

LEMMA AttestationMessage ==
    ASSUME NEW uri, NEW key, NEW to, Encrypts(uri, key, to)
    PROVE  Accepted("submit-attestation", [attestation |-> Attested],
                    AccountUri(Attester, Absent), to)
  <1> DEFINE content == [attestation |-> Attested]
             body == [type |-> "submit-attestation", content |-> content]
  <1>1. /\ ~ IsError(ValidateKiltDidUri(to, FALSE))
        /\ ~ IsError(ValidateKiltDidUri(AccountUri(Attester, Absent), FALSE))
    BY EncryptingKeys, UrisAreValid DEF Party
  <1>2. ErrorCheckMessageBody(body) = Valid
    BY AttestedAccepted DEF ErrorCheckMessageBody
  <1>3. ~ IsError(EnsureOwnerIsSender(body, AccountUri(Attester, Absent)))
    BY AttestedIs, Errors DEF EnsureOwnerIsSender, IsSameSubject
  <1> QED BY <1>1, <1>2, <1>3, MessageAccepted DEF Accepted

LEMMA PresentationMessage ==
    ASSUME NEW uri, NEW key, NEW from, Encrypts(uri, key, from), NEW c, IsPresented(c)
    PROVE  Accepted("submit-credential", Array(<<c>>), from, AccountUri(Verifier, Absent))
  <1> DEFINE body == [type |-> "submit-credential", content |-> Array(<<c>>)]
  <1>1. /\ ~ IsError(ValidateKiltDidUri(from, FALSE)) /\ AccountOf(from) = ClaimerKey
        /\ ~ IsError(ValidateKiltDidUri(AccountUri(Verifier, Absent), FALSE))
    BY EncryptingKeys, UrisAreValid DEF Party
  <1>2. PICK A, s : A \in SUBSET Attribute /\ SignatureOK(s) /\ c = CredentialWith(A, A, s)
    BY DEF IsPresented
  <1>3. CredentialErrorCheck(c) = Valid /\ c.request.claim.owner = LightUri(Absent)
    <2>1. CredentialErrorCheck(CredentialWith(A, A, s)) = Valid
      BY <1>2, CredentialAccepted
    <2>2. CredentialWith(A, A, s).request = RequestWith(A, A, s)
      BY DEF CredentialWith
    <2>3. RequestWith(A, A, s).claim.owner = LightUri(Absent)
      BY <1>2, RequestIs, ShownIs
    <2> QED BY <1>2, <2>1, <2>2, <2>3
  <1>4. Array(<<c>>).array = <<c>> /\ DOMAIN <<c>> = {1} /\ <<c>>[1] = c
    BY DEF Array
  <1>5. ErrorCheckMessageBody(body) = Valid
    <2>1. Each(<<c>>, CredentialErrorCheck) = Valid
      <3>1. Each(<<c>>, CredentialErrorCheck) = All({Check(CredentialErrorCheck(<<c>>[i])) : i \in DOMAIN <<c>>})
        BY DEF Each
      <3> DEFINE results == {Check(CredentialErrorCheck(<<c>>[i])) : i \in DOMAIN <<c>>}
      <3>2. \A x \in results : ~ IsError(x)
        BY <1>3, <1>4, Errors DEF Check
      <3> HIDE DEF results
      <3>3. All(results) = Valid
        BY <3>2, AllValid
      <3> QED BY <3>1, <3>3 DEF results
    <2> QED BY <1>4, <2>1 DEF ErrorCheckMessageBody
  <1>6. ~ IsError(EnsureOwnerIsSender(body, from))
    <2>1. IsSameSubject(LightUri(Absent), from)
      BY <1>1, UriAccounts DEF IsSameSubject
    <2>2. \A i \in DOMAIN Array(<<c>>).array :
             Array(<<c>>).array[i].request.claim.owner = LightUri(Absent)
      BY <1>3, <1>4
    <2> QED BY <2>1, <2>2, Errors DEF EnsureOwnerIsSender
  <1> QED BY <1>1, <1>5, <1>6, MessageAccepted DEF Accepted

(* What the three encrypt with.                                             *)
Ready(p, uri, key) ==
    /\ GetKey(DetailsOf(p), EncryptionKeyOf(p)) = IdKey(EncryptionKeyOf(p), key)
    /\ IdKey(EncryptionKeyOf(p), key) # Absent /\ KeyType(key) = "x25519"
    /\ AssembleKeyUri(DetailsOf(p).uri, EncryptionKeyOf(p)) = uri
    /\ key \in KeystoreOf(p).encryption

LEMMA ClaimerReady ==
    ASSUME ChainOK
    PROVE  \E uri, key : Encrypts(uri, key, details.uri) /\ Ready(Claimer, uri, key)
  <1>1. DetailsOf(Claimer) = details /\ KeystoreOf(Claimer) = keystore
    BY DEF DetailsOf, KeystoreOf
  <1>2. CASE details = LightRecord
    <2>1. EncryptionKeyOf(Claimer) = "encryption"
      <3>1. FirstKey(LightRecord, "keyAgreement") = IdKey("encryption", ClaimerEncryptionKey)
        BY LightKeys
      <3> QED BY <1>1, <1>2, <3>1 DEF EncryptionKeyOf, IdKey
    <2>2. details.uri = LightUri(Absent)
      BY <1>2 DEF LightRecord
    <2>3. GetKey(details, "encryption") = IdKey("encryption", ClaimerEncryptionKey)
      BY <1>2, LightKeys
    <2>4. Encrypts(LightUri("encryption"), ClaimerEncryptionKey, details.uri)
      BY <2>2 DEF Encrypts
    <2>5. /\ IdKey("encryption", ClaimerEncryptionKey) # Absent
          /\ KeyType(ClaimerEncryptionKey) = "x25519"
      <3>1. LightUri("encryption").fragment = "encryption"
        BY DEF LightUri
      <3> QED BY <2>4, <3>1, EncryptingKeys
    <2>6. ClaimerEncryptionKey \in keystore.encryption
      BY DEF ChainOK, Has
    <2>7. Ready(Claimer, LightUri("encryption"), ClaimerEncryptionKey)
      BY <1>1, <2>1, <2>2, <2>3, <2>5, <2>6, AssembledUris DEF Ready
    <2> QED BY <2>4, <2>7
  <1>3. ASSUME NEW k \in SigningKeys, NEW e \in EncryptionKeys,
               details = FullRecord(Claimer, k, e), Has(keystore, k, e)
        PROVE  \E uri, key : Encrypts(uri, key, details.uri) /\ Ready(Claimer, uri, key)
    <2>1. EncryptionKeyOf(Claimer) = e
      <3>1. FirstKey(FullRecord(Claimer, k, e), "keyAgreement") = IdKey(e, e)
        BY FullKeys
      <3> QED BY <1>1, <1>3, <3>1 DEF EncryptionKeyOf, IdKey
    <2>2. details.uri = AccountUri(Claimer, Absent)
      BY <1>3 DEF FullRecord
    <2>3. GetKey(details, e) = IdKey(e, e)
      BY <1>3, FullKeys
    <2>4. Encrypts(AccountUri(Claimer, e), e, details.uri)
      BY <2>2 DEF Encrypts
    <2>5. IdKey(e, e) # Absent /\ KeyType(e) = "x25519"
      <3>1. AccountUri(Claimer, e).fragment = e
        BY DEF AccountUri
      <3> QED BY <2>4, <3>1, EncryptingKeys
    <2>6. e \in keystore.encryption
      BY <1>3 DEF Has
    <2>7. Ready(Claimer, AccountUri(Claimer, e), e)
      BY <1>1, <2>1, <2>2, <2>3, <2>5, <2>6, AssembledUris DEF Ready
    <2> QED BY <2>4, <2>7
  <1> QED BY <1>2, <1>3 DEF ChainOK

LEMMA OthersReady ==
    ASSUME NEW p \in {Attester, Verifier}
    PROVE  Ready(p, KeyUri(p), EncryptionKey(p)) /\ DetailsOf(p).uri = AccountUri(p, Absent)
  <1> DEFINE k == AuthenticationKey(p)  e == EncryptionKey(p)
  <1>1. DetailsOf(p) = FullRecord(p, k, e) /\ EncryptionKeyOf(p) = e
    BY OthersKeys
  <1>2. /\ GetKey(FullRecord(p, k, e), e) = IdKey(e, e)
        /\ FullRecord(p, k, e).uri = AccountUri(p, Absent)
    <2>1. FullRecord(p, k, e).uri = AccountUri(p, Absent)
      BY DEF FullRecord
    <2> QED BY <2>1, FullKeys
  <1>3. e \in KeystoreOf(p).encryption
    <2>1. p \in Party
      BY DEF Party
    <2>2. KeystoreOf(p) = [signing |-> {AsKey(k)}, encryption |-> {e}]
      BY <2>1, OthersKeys, FirstKeys
    <2> QED BY <2>2
  <1>4. IdKey(e, e) # Absent /\ KeyType(e) = "x25519"
    BY OthersKeys
  <1> HIDE DEF k, e
  <1> QED BY <1>1, <1>2, <1>3, <1>4, AssembledUris DEF Ready, KeyUri, e

(* What comes of a message: the receiver's details still have the key, and  *)
(* the sender's resolves, or not.                                           *)
SenderResolves(uri) == AccountOf(uri) # ClaimerKey \/ ClaimerResolves(uri)
Arrives(e) ==
    /\ SenderResolves(e.encrypted.senderKeyUri)
    /\ e.encrypted.receiverKeyUri.fragment \in DOMAIN DetailsOf(e.to).keys

LEMMA KeyHeld ==
    ASSUME NEW d, NEW id, (id \in DOMAIN d.keys) => GetKey(d, id) # Absent
    PROVE  GetKey(d, id) # Absent <=> id \in DOMAIN d.keys
  BY DEF GetKey

LEMMA ReceivedFromClaimer ==
    ASSUME ChainOK, NEW uri, NEW key, NEW from, Encrypts(uri, key, from),
           NEW p \in {Attester, Verifier}, NEW type, NEW content,
           Accepted(type, content, from, AccountUri(p, Absent)),
           NEW e, e = [to |-> p, encrypted |-> Sealed(uri, key, KeyUri(p), EncryptionKey(p),
                                                      type, content, from, AccountUri(p, Absent))]
    PROVE  /\ Arrives(e) => Received(e) = MessageOf(type, content, from, AccountUri(p, Absent))
           /\ ~ Arrives(e) => IsError(Received(e))
  <1> DEFINE d == DetailsOf(p)  toKey == EncryptionKey(p)
             sender == ResolveKey(uri, RecordOf(uri), IsDeleted(uri))
             sealed == Sealed(uri, key, KeyUri(p), toKey, type, content, from,
                              AccountUri(p, Absent))
  <1>1. e.to = p /\ e.encrypted = sealed /\ sealed.senderKeyUri = uri
        /\ sealed.receiverKeyUri = KeyUri(p)
    BY DEF Sealed
  <1>2. /\ KeyUri(p).fragment = toKey /\ toKey # Absent
        /\ EncryptionKeyOf(p) = toKey
    BY OthersKeys
  <1>3. /\ GetKey(d, toKey) = IdKey(toKey, toKey) /\ IdKey(toKey, toKey) # Absent
        /\ KeyType(toKey) = "x25519" /\ toKey \in KeystoreOf(p).encryption
    BY <1>2, OthersReady DEF Ready
  <1>4. toKey \in DOMAIN d.keys
    BY <1>3 DEF GetKey
  <1>5. AccountOf(uri) = ClaimerKey /\ ResolvedKey(from, uri, key) # Absent
    BY EncryptingKeys
  <1>6. /\ ClaimerResolves(uri) => sender = ResolvedKey(from, uri, key)
        /\ ~ ClaimerResolves(uri) => sender = Absent
    BY ClaimerKeyResolves
  <1>7. Arrives(e) <=> ClaimerResolves(uri)
    BY <1>1, <1>2, <1>4, <1>5 DEF Arrives, SenderResolves
  <1> HIDE DEF sender, sealed, d, toKey
  <1>8. Received(e) = Decrypt(sealed, sender, KeystoreOf(p), d)
    BY <1>1 DEF Received, sender, d
  <1>9. /\ sender # Absent /\ GetKey(d, toKey) # Absent =>
              Received(e) = MessageOf(type, content, from, AccountUri(p, Absent))
        /\ sender = Absent \/ GetKey(d, toKey) = Absent => IsError(Received(e))
    BY <1>2, <1>3, <1>6, <1>8, DecryptIs DEF sealed
  <1> QED BY <1>3, <1>5, <1>6, <1>7, <1>9

(* The key of the claimer's that a message is sealed with, in its details.  *)
LEMMA ClaimerHolds ==
    ASSUME ChainOK, NEW uri, NEW key, NEW from, Encrypts(uri, key, from)
    PROVE  LET id == uri.fragment
           IN  /\ GetKey(details, id) # Absent <=> id \in DOMAIN details.keys
               /\ \/ GetKey(details, id) = Absent
                  \/ GetKey(details, id) = IdKey(id, key) /\ key \in keystore.encryption
  <1> DEFINE id == uri.fragment
  <1>1. IdKey(id, key) # Absent /\ key \in EncryptionKeys
    BY EncryptingKeys
  <1>2. \/ id = "encryption" /\ key = ClaimerEncryptionKey
        \/ id = key /\ key # "authentication" /\ key # "encryption"
    BY <1>1, Keys DEF Encrypts, LightUri, AccountUri
  <1> HIDE DEF id
  <1>3. CASE details = LightRecord
    <2>1. DOMAIN details.keys = {"authentication", "encryption"}
      BY <1>3, LightKeys
    <2>2. CASE id = "encryption" /\ key = ClaimerEncryptionKey
      <3>1. GetKey(details, id) = IdKey(id, key)
        BY <1>3, <2>2, LightKeys
      <3>2. key \in keystore.encryption
        BY <2>2 DEF ChainOK, Has
      <3> QED BY <1>1, <2>1, <2>2, <3>1, <3>2 DEF id
    <2>3. CASE id = key /\ key # "authentication" /\ key # "encryption"
      <3>1. GetKey(details, id) = Absent
        BY <2>1, <2>3 DEF GetKey
      <3> QED BY <2>1, <2>3, <3>1 DEF id
    <2> QED BY <1>2, <2>2, <2>3
  <1>4. ASSUME NEW k \in SigningKeys, NEW e \in EncryptionKeys,
               details = FullRecord(Claimer, k, e), Has(keystore, k, e)
        PROVE  /\ GetKey(details, id) # Absent <=> id \in DOMAIN details.keys
               /\ \/ GetKey(details, id) = Absent
                  \/ GetKey(details, id) = IdKey(id, key) /\ key \in keystore.encryption
    <2>1. DOMAIN details.keys = {k, e}
      BY <1>4, FullKeys
    <2>2. k # "encryption" /\ e # "encryption" /\ key # k
      BY <1>1, Keys, KeyTypes
    <2>3. CASE id \notin {k, e}
      <3>1. GetKey(details, id) = Absent
        BY <2>1, <2>3 DEF GetKey
      <3> QED BY <2>1, <2>3, <3>1
    <2>4. CASE id \in {k, e}
      <3>1. id = key /\ key = e
        BY <1>2, <2>2, <2>4
      <3>2. GetKey(FullRecord(Claimer, k, e), e) = IdKey(e, e)
        BY FullKeys
      <3>3. GetKey(details, id) = IdKey(id, key) /\ key \in keystore.encryption
        BY <1>4, <3>1, <3>2 DEF Has
      <3> QED BY <1>1, <2>1, <2>4, <3>3 DEF id
    <2> QED BY <2>3, <2>4
  <1> QED BY <1>3, <1>4 DEF ChainOK, id

LEMMA ReceivedByClaimer ==
    ASSUME ChainOK, NEW uri, NEW key, NEW to, Encrypts(uri, key, to), NEW type, NEW content,
           Accepted(type, content, AccountUri(Attester, Absent), to),
           NEW e, e = [to |-> Claimer, encrypted |->
                          Sealed(KeyUri(Attester), EncryptionKey(Attester), uri, key,
                                 type, content, AccountUri(Attester, Absent), to)]
    PROVE  /\ Arrives(e) => Received(e) = MessageOf(type, content, AccountUri(Attester, Absent), to)
           /\ ~ Arrives(e) => IsError(Received(e))
  <1> DEFINE from == AccountUri(Attester, Absent)  fromKey == EncryptionKey(Attester)
             fromUri == KeyUri(Attester)
             sender == ResolveKey(fromUri, RecordOf(fromUri), IsDeleted(fromUri))
             sealed == Sealed(fromUri, fromKey, uri, key, type, content, from, to)
             id == uri.fragment
  <1>1. /\ e.to = Claimer /\ e.encrypted = sealed /\ sealed.senderKeyUri = fromUri
        /\ sealed.receiverKeyUri = uri
        /\ DetailsOf(Claimer) = details /\ KeystoreOf(Claimer) = keystore
    BY DEF Sealed, DetailsOf, KeystoreOf
  <1>2. id # Absent /\ KeyType(key) = "x25519"
    BY EncryptingKeys
  <1>3. /\ GetKey(details, id) # Absent <=> id \in DOMAIN details.keys
        /\ \/ GetKey(details, id) = Absent
           \/ GetKey(details, id) = IdKey(id, key) /\ key \in keystore.encryption
    BY ClaimerHolds
  <1>4. /\ AccountOf(fromUri) # ClaimerKey
        /\ sender = ResolvedKey(from, fromUri, fromKey) /\ sender # Absent
    BY OthersKeys
  <1>5. Arrives(e) <=> id \in DOMAIN details.keys
    BY <1>1, <1>4 DEF Arrives, SenderResolves
  <1> HIDE DEF sender, sealed, fromUri, fromKey, from
  <1>6. Received(e) = Decrypt(sealed, sender, keystore, details)
    BY <1>1 DEF Received, sender
  <1>7. /\ sender # Absent /\ GetKey(details, id) # Absent =>
              Received(e) = MessageOf(type, content, from, to)
        /\ sender = Absent \/ GetKey(details, id) = Absent => IsError(Received(e))
    BY <1>2, <1>3, <1>4, <1>6, DecryptIs DEF sealed, from
  <1> QED BY <1>3, <1>4, <1>5, <1>7 DEF from

(* What is sent, and the message that is in it.                             *)
LEMMA ReceivedIs ==
    ASSUME ChainOK, NEW e, AsksFor(e) \/ Answers(e) \/ Presents(e)
    PROVE  /\ Arrives(e) => Received(e) = e.encrypted.ciphertext.data
           /\ ~ Arrives(e) => IsError(Received(e))
  <1>1. CASE AsksFor(e)
    <2>1. PICK uri, key, from, r :
             /\ Encrypts(uri, key, from) /\ IsRequest(r)
             /\ e = [to |-> Attester, encrypted |->
                       Sealed(uri, key, KeyUri(Attester), EncryptionKey(Attester),
                              "request-attestation",
                              [requestForAttestation |-> r, quote |-> Absent],
                              from, AccountUri(Attester, Absent))]
      BY <1>1 DEF AsksFor
    <2> DEFINE content == [requestForAttestation |-> r, quote |-> Absent]
    <2>2. Accepted("request-attestation", content, from, AccountUri(Attester, Absent))
      BY <2>1, RequestMessage
    <2>3. e.encrypted.ciphertext.data
             = MessageOf("request-attestation", content, from, AccountUri(Attester, Absent))
      BY <2>1 DEF Sealed, MessageOf
    <2> HIDE DEF content
    <2> QED BY <2>1, <2>2, <2>3, ReceivedFromClaimer DEF content
  <1>2. CASE Answers(e)
    <2>1. PICK uri, key, to :
             /\ Encrypts(uri, key, to)
             /\ e = [to |-> Claimer, encrypted |->
                       Sealed(KeyUri(Attester), EncryptionKey(Attester), uri, key,
                              "submit-attestation", [attestation |-> Attested],
                              AccountUri(Attester, Absent), to)]
      BY <1>2 DEF Answers
    <2> DEFINE content == [attestation |-> Attested]
    <2>2. Accepted("submit-attestation", content, AccountUri(Attester, Absent), to)
      BY <2>1, AttestationMessage
    <2>3. e.encrypted.ciphertext.data
             = MessageOf("submit-attestation", content, AccountUri(Attester, Absent), to)
      BY <2>1 DEF Sealed, MessageOf
    <2> HIDE DEF content
    <2> QED BY <2>1, <2>2, <2>3, ReceivedByClaimer DEF content
  <1>3. CASE Presents(e)
    <2>1. PICK uri, key, from, c :
             /\ Encrypts(uri, key, from) /\ IsPresented(c)
             /\ e = [to |-> Verifier, encrypted |->
                       Sealed(uri, key, KeyUri(Verifier), EncryptionKey(Verifier),
                              "submit-credential", Array(<<c>>), from,
                              AccountUri(Verifier, Absent))]
      BY <1>3 DEF Presents
    <2> DEFINE content == Array(<<c>>)
    <2>2. Accepted("submit-credential", content, from, AccountUri(Verifier, Absent))
      BY <2>1, PresentationMessage
    <2>3. e.encrypted.ciphertext.data
             = MessageOf("submit-credential", content, from, AccountUri(Verifier, Absent))
      BY <2>1 DEF Sealed, MessageOf
    <2> HIDE DEF content
    <2> QED BY <2>1, <2>2, <2>3, ReceivedFromClaimer DEF content
  <1> QED BY <1>1, <1>2, <1>3

-----------------------------------------------------------------------------
(* What the steps keep of the request, the calls and the mail. *)

LEMMA SealedIs ==
    ASSUME NEW from, NEW uri, NEW key, Ready(from, uri, key), NEW keyUri, NEW to, NEW toKey,
           ParseDidUri(keyUri).did = to, NEW type, NEW content, NEW encrypted,
           LET found == ResolveKey(keyUri, RecordOf(keyUri), IsDeleted(keyUri))
           IN  /\ found = Absent \/ found = ResolvedKey(to, keyUri, toKey)
               /\ encrypted = Encrypt(NewMessage([type |-> type, content |-> content],
                                                 DetailsOf(from).uri, ParseDidUri(keyUri).did),
                                      EncryptionKeyOf(from), DetailsOf(from), KeystoreOf(from),
                                      found),
           ~ IsError(encrypted)
    PROVE  encrypted = Sealed(uri, key, keyUri, toKey, type, content, DetailsOf(from).uri, to)
  <1> DEFINE found == ResolveKey(keyUri, RecordOf(keyUri), IsDeleted(keyUri))
             d == DetailsOf(from)  id == EncryptionKeyOf(from)  store == KeystoreOf(from)
  <1>1. /\ GetKey(d, id) = IdKey(id, key) /\ IdKey(id, key) # Absent /\ KeyType(key) = "x25519"
        /\ AssembleKeyUri(d.uri, id) = uri /\ key \in store.encryption
    BY DEF Ready
  <1>2. /\ found = Absent \/ found = ResolvedKey(to, keyUri, toKey)
        /\ encrypted = Encrypt(NewMessage([type |-> type, content |-> content], d.uri, to),
                               id, d, store, found)
    OBVIOUS
  <1> HIDE DEF found, d, id, store
  <1>3. encrypted = Sealed(uri, key, keyUri, toKey, type, content, d.uri, to)
    BY <1>1, <1>2, EncryptIs
  <1> QED BY <1>3 DEF d

LEMMA SentByClaimer ==
    ASSUME ChainOK, NEW p \in {Attester, Verifier}, NEW type, NEW content, NEW encrypted,
           encrypted = Encrypt(NewMessage([type |-> type, content |-> content],
                                          DetailsOf(Claimer).uri, ParseDidUri(KeyUriOf(p)).did),
                               EncryptionKeyOf(Claimer), DetailsOf(Claimer), KeystoreOf(Claimer),
                               ResolveKey(KeyUriOf(p), RecordOf(KeyUriOf(p)),
                                          IsDeleted(KeyUriOf(p)))),
           ~ IsError(encrypted)
    PROVE  \E uri, key, from :
              /\ Encrypts(uri, key, from)
              /\ encrypted = Sealed(uri, key, KeyUri(p), EncryptionKey(p), type, content,
                                    from, AccountUri(p, Absent))
  <1> DEFINE found == ResolveKey(KeyUri(p), RecordOf(KeyUri(p)), IsDeleted(KeyUri(p)))
  <1>1. PICK uri, key : Encrypts(uri, key, details.uri) /\ Ready(Claimer, uri, key)
    BY ClaimerReady
  <1>2. /\ KeyUriOf(p) = KeyUri(p) /\ ParseDidUri(KeyUri(p)).did = AccountUri(p, Absent)
        /\ found = ResolvedKey(AccountUri(p, Absent), KeyUri(p), EncryptionKey(p))
    BY OthersKeys
  <1>3. DetailsOf(Claimer) = details
    BY DEF DetailsOf
  <1>4. encrypted = Sealed(uri, key, KeyUri(p), EncryptionKey(p), type, content,
                           DetailsOf(Claimer).uri, AccountUri(p, Absent))
    BY <1>1, <1>2, SealedIs
  <1> QED BY <1>1, <1>3, <1>4

LEMMA SentByAttester ==
    ASSUME ChainOK, NEW keyUri, NEW toKey, NEW to, Encrypts(keyUri, toKey, to),
           NEW type, NEW content, NEW encrypted,
           encrypted = Encrypt(NewMessage([type |-> type, content |-> content],
                                          DetailsOf(Attester).uri, ParseDidUri(keyUri).did),
                               EncryptionKeyOf(Attester), DetailsOf(Attester),
                               KeystoreOf(Attester),
                               ResolveKey(keyUri, RecordOf(keyUri), IsDeleted(keyUri))),
           ~ IsError(encrypted)
    PROVE  encrypted = Sealed(KeyUri(Attester), EncryptionKey(Attester), keyUri, toKey,
                              type, content, AccountUri(Attester, Absent), to)
  <1> DEFINE found == ResolveKey(keyUri, RecordOf(keyUri), IsDeleted(keyUri))
  <1>1. /\ Ready(Attester, KeyUri(Attester), EncryptionKey(Attester))
        /\ DetailsOf(Attester).uri = AccountUri(Attester, Absent)
    BY OthersReady
  <1>2. ParseDidUri(keyUri).did = to
    BY EncryptingKeys
  <1>3. found = Absent \/ found = ResolvedKey(to, keyUri, toKey)
    BY ClaimerKeyResolves
  <1>4. encrypted = Sealed(KeyUri(Attester), EncryptionKey(Attester), keyUri, toKey,
                           type, content, DetailsOf(Attester).uri, to)
    BY <1>1, <1>2, <1>3, SealedIs
  <1> QED BY <1>1, <1>4

LEMMA AttestedFrom ==
    ASSUME NEW r, IsRequest(r)
    PROVE  AttestationFromRequestAndDid(r, FullUri[Attester]) = Attested
  BY AttestedAccepted DEF IsRequest

LEMMA PresentedIs ==
    ASSUME NEW p, IsPresentation(p)
    PROVE  IsPresented(p.credential)
  <1>1. PICK A, B, s, uri, key, c, selected :
           /\ IsCredential(p.of, A, B, s) /\ c \in Challenge /\ Signs(uri, key)
           /\ p = [credential |-> CredentialWith(Kept(A, selected), Kept(A, selected),
                                                 Signing(uri, key, c)),
                   challenge |-> c, selected |-> selected, of |-> p.of]
    BY DEF IsPresentation
  <1>2. Kept(A, selected) \in SUBSET Attribute
    BY <1>1 DEF Kept, IsCredential
  <1>3. SignatureOK(Signing(uri, key, c))
    BY <1>1 DEF SignatureOK
  <1>4. p.credential = CredentialWith(Kept(A, selected), Kept(A, selected), Signing(uri, key, c))
    BY <1>1
  <1> QED BY <1>2, <1>3, <1>4 DEF IsPresented

LEMMA SentStep ==
    ASSUME ExchangeInv, SendRequest \/ SendAttestation \/ SendPresentation
    PROVE  \A e \in sent' : AsksFor(e) \/ Answers(e) \/ Presents(e)
  <1>1. ChainOK /\ RequestOK /\ CallsOK /\ MailOK
    BY DEF ExchangeInv
  <1>2. CASE SendRequest
    <2> DEFINE content == [requestForAttestation |-> request, quote |-> Absent]
               encrypted == Encrypt(NewMessage([type |-> "request-attestation", content |-> content],
                                               DetailsOf(Claimer).uri,
                                               ParseDidUri(KeyUriOf(Attester)).did),
                                    EncryptionKeyOf(Claimer), DetailsOf(Claimer),
                                    KeystoreOf(Claimer),
                                    ResolveKey(KeyUriOf(Attester), RecordOf(KeyUriOf(Attester)),
                                               IsDeleted(KeyUriOf(Attester))))
    <2>1. ~ IsError(encrypted) /\ sent' = sent \cup {[to |-> Attester, encrypted |-> encrypted]}
      BY <1>2 DEF SendRequest, Send
    <2> HIDE DEF content
    <2>2. PICK uri, key, from :
             /\ Encrypts(uri, key, from)
             /\ encrypted = Sealed(uri, key, KeyUri(Attester), EncryptionKey(Attester),
                                   "request-attestation", content, from,
                                   AccountUri(Attester, Absent))
      BY <1>1, <2>1, SentByClaimer
    <2>3. IsRequest(request)
      BY <1>1 DEF RequestOK
    <2> HIDE DEF encrypted
    <2>4. AsksFor([to |-> Attester, encrypted |-> encrypted])
      BY <2>2, <2>3 DEF AsksFor, content
    <2> QED BY <1>1, <2>1, <2>4 DEF MailOK
  <1>3. CASE SendAttestation
    <2> DEFINE keyUri == asked.senderKeyUri
               content == [attestation |->
                              AttestationFromRequestAndDid(asked.request, FullUri[Attester])]
               encrypted == Encrypt(NewMessage([type |-> "submit-attestation", content |-> content],
                                               DetailsOf(Attester).uri, ParseDidUri(keyUri).did),
                                    EncryptionKeyOf(Attester), DetailsOf(Attester),
                                    KeystoreOf(Attester),
                                    ResolveKey(keyUri, RecordOf(keyUri), IsDeleted(keyUri)))
    <2>1. /\ asked # Absent
          /\ ~ IsError(encrypted) /\ sent' = sent \cup {[to |-> Claimer, encrypted |-> encrypted]}
      BY <1>3 DEF SendAttestation, Send
    <2>2. IsRequest(asked.request)
      BY <1>1, <2>1 DEF MailOK
    <2>3. content = [attestation |-> Attested]
      BY <2>2, AttestedFrom
    <2>4. PICK key, to : Encrypts(keyUri, key, to)
      BY <1>1, <2>1 DEF MailOK
    <2> HIDE DEF content, keyUri
    <2>5. encrypted = Sealed(KeyUri(Attester), EncryptionKey(Attester), keyUri, key,
                             "submit-attestation", content, AccountUri(Attester, Absent), to)
      BY <1>1, <2>1, <2>4, SentByAttester
    <2> HIDE DEF encrypted
    <2>6. Answers([to |-> Claimer, encrypted |-> encrypted])
      BY <2>3, <2>4, <2>5 DEF Answers
    <2> QED BY <1>1, <2>1, <2>6 DEF MailOK
  <1>4. CASE SendPresentation
    <2>1. PICK p \in presentations :
             Send(Claimer, Verifier, KeyUriOf(Verifier),
                  [type |-> "submit-credential", content |-> Array(<<p.credential>>)])
      BY <1>4 DEF SendPresentation
    <2> DEFINE content == Array(<<p.credential>>)
               encrypted == Encrypt(NewMessage([type |-> "submit-credential", content |-> content],
                                               DetailsOf(Claimer).uri,
                                               ParseDidUri(KeyUriOf(Verifier)).did),
                                    EncryptionKeyOf(Claimer), DetailsOf(Claimer),
                                    KeystoreOf(Claimer),
                                    ResolveKey(KeyUriOf(Verifier), RecordOf(KeyUriOf(Verifier)),
                                               IsDeleted(KeyUriOf(Verifier))))
    <2>2. ~ IsError(encrypted) /\ sent' = sent \cup {[to |-> Verifier, encrypted |-> encrypted]}
      BY <2>1 DEF Send
    <2> HIDE DEF content
    <2>3. PICK uri, key, from :
             /\ Encrypts(uri, key, from)
             /\ encrypted = Sealed(uri, key, KeyUri(Verifier), EncryptionKey(Verifier),
                                   "submit-credential", content, from,
                                   AccountUri(Verifier, Absent))
      BY <1>1, <2>2, SentByClaimer
    <2>4. IsPresented(p.credential)
      BY <1>1, PresentedIs DEF CallsOK
    <2> HIDE DEF encrypted
    <2>5. Presents([to |-> Verifier, encrypted |-> encrypted])
      BY <2>3, <2>4 DEF Presents, content
    <2> QED BY <1>1, <2>2, <2>5 DEF MailOK
  <1> QED BY <1>2, <1>3, <1>4

(* What the claimer makes of the attestation is its credential.             *)
LEMMA CredentialMade ==
    ASSUME NEW A \in SUBSET Attribute, NEW s, SignedOrNot(s)
    PROVE  /\ NewCredential(RequestWith(A, A, s), Attested) = CredentialWith(A, A, s)
           /\ ~ IsError(CredentialWith(A, A, s))
  <1> DEFINE r == RequestWith(A, A, s)  c == CredentialWith(A, A, s)
  <1>1. CredentialErrorCheck(c) = Valid
    BY CredentialAccepted DEF SignedOrNot
  <1>2. NewRequest(r) = r /\ ~ IsError(r)
    BY RequestMade, RequestIs
  <1>3. [request |-> r, attestation |-> Attested] = c
    BY DEF CredentialWith
  <1>4. ~ IsError(c)
    BY DEF CredentialWith, IsError
  <1> HIDE DEF r, c
  <1>5. NewCredential(r, Attested) = c
    BY <1>1, <1>2, <1>3, Errors DEF NewCredential, Then
  <1> QED BY <1>4, <1>5 DEF r, c

LEMMA Delivered ==
    ASSUME ExchangeInv, NEW e \in sent, Deliver(e)
    PROVE  /\ ~ IsError(Received(e)) /\ Received(e) = e.encrypted.ciphertext.data
           /\ Receive(e.to, e.encrypted.ciphertext.data.body.content, e.encrypted.senderKeyUri)
           /\ AsksFor(e) \/ Answers(e) \/ Presents(e)
  <1>1. AsksFor(e) \/ Answers(e) \/ Presents(e)
    BY DEF ExchangeInv, MailOK
  <1>2. /\ ~ IsError(Received(e))
        /\ Receive(e.to, Received(e).body.content, e.encrypted.senderKeyUri)
    BY DEF Deliver
  <1>3. Received(e) = e.encrypted.ciphertext.data
    BY <1>1, <1>2, ReceivedIs DEF ExchangeInv
  <1> QED BY <1>1, <1>2, <1>3

LEMMA DeliveredStep ==
    ASSUME ExchangeInv, NEW e \in sent, Deliver(e)
    PROVE  /\ asked' = asked \/ ( /\ IsRequest(asked'.request)
                                  /\ \E key, from : Encrypts(asked'.senderKeyUri, key, from))
           /\ shown' = shown \/ IsPresented(shown')
           /\ \/ credential' = credential
              \/ \E A, s : /\ A \in SUBSET Attribute /\ SignedOrNot(s)
                           /\ request = RequestWith(A, A, s)
                           /\ credential' = CredentialWith(A, A, s)
           /\ request' = request
  <1> DEFINE content == e.encrypted.ciphertext.data.body.content
             keyUri == e.encrypted.senderKeyUri
  <1>1. Receive(e.to, content, keyUri) /\ (AsksFor(e) \/ Answers(e) \/ Presents(e))
    BY Delivered
  <1>2. Claimer # Attester /\ Claimer # Verifier /\ Attester # Verifier
    BY ExchangeAssumption
  <1>3. request' = request
    BY DEF Deliver
  <1>4. CASE AsksFor(e)
    <2>1. PICK uri, key, from, r :
             /\ Encrypts(uri, key, from) /\ IsRequest(r)
             /\ e = [to |-> Attester, encrypted |->
                       Sealed(uri, key, KeyUri(Attester), EncryptionKey(Attester),
                              "request-attestation",
                              [requestForAttestation |-> r, quote |-> Absent],
                              from, AccountUri(Attester, Absent))]
      BY <1>4 DEF AsksFor
    <2>2. /\ e.to = Attester /\ content.requestForAttestation = r /\ keyUri = uri
      BY <2>1 DEF Sealed
    <2> HIDE DEF content, keyUri
    <2>3. /\ asked' = [request |-> r, senderKeyUri |-> uri]
          /\ credential' = credential /\ shown' = shown
      BY <1>1, <1>2, <2>2 DEF Receive
    <2> QED BY <1>3, <2>1, <2>3
  <1>5. CASE Answers(e)
    <2>1. PICK uri, key, to :
             /\ Encrypts(uri, key, to)
             /\ e = [to |-> Claimer, encrypted |->
                       Sealed(KeyUri(Attester), EncryptionKey(Attester), uri, key,
                              "submit-attestation", [attestation |-> Attested],
                              AccountUri(Attester, Absent), to)]
      BY <1>5 DEF Answers
    <2>2. e.to = Claimer /\ content.attestation = Attested
      BY <2>1 DEF Sealed
    <2>3. PICK A, s : A \in SUBSET Attribute /\ SignedOrNot(s) /\ request = RequestWith(A, A, s)
      BY DEF ExchangeInv, RequestOK, IsRequest
    <2>4. NewCredential(request, Attested) = CredentialWith(A, A, s) /\ ~ IsError(CredentialWith(A, A, s))
      BY <2>3, CredentialMade
    <2> HIDE DEF content, keyUri
    <2>5. asked' = asked /\ shown' = shown /\ credential' = CredentialWith(A, A, s)
      BY <1>1, <1>2, <2>2, <2>4 DEF Receive
    <2> QED BY <1>3, <2>3, <2>5
  <1>6. CASE Presents(e)
    <2>1. PICK uri, key, from, c :
             /\ Encrypts(uri, key, from) /\ IsPresented(c)
             /\ e = [to |-> Verifier, encrypted |->
                       Sealed(uri, key, KeyUri(Verifier), EncryptionKey(Verifier),
                              "submit-credential", Array(<<c>>), from,
                              AccountUri(Verifier, Absent))]
      BY <1>6 DEF Presents
    <2>2. e.to = Verifier /\ content = Array(<<c>>)
      BY <2>1 DEF Sealed
    <2>3. At(Array(<<c>>), 1) = c
      BY Errors
    <2> HIDE DEF content, keyUri
    <2>4. asked' = asked /\ credential' = credential /\ shown' = c
      BY <1>1, <1>2, <2>2, <2>3 DEF Receive
    <2> QED BY <1>3, <2>1, <2>4
  <1> QED BY <1>1, <1>4, <1>5, <1>6

(* The predicates are of what is given them alone, whatever the state.      *)
LEMMA MailStep ==
    ASSUME ExchangeInv, [ExchangeNext]_exchangeVars
    PROVE  MailOK'
  <1>1. MailOK
    BY DEF ExchangeInv
  <1>2. \A e \in sent' : AsksFor(e) \/ Answers(e) \/ Presents(e)
    BY <1>1, Steps, SentStep DEF MailOK
  <1>3. /\ asked' # Absent => IsRequest(asked'.request)
                              /\ \E key, from : Encrypts(asked'.senderKeyUri, key, from)
        /\ shown' # Absent => IsPresented(shown')
    <2>1. CASE UNCHANGED <<asked, shown>>
      BY <1>1, <2>1 DEF MailOK
    <2>2. CASE \E e \in sent : Deliver(e)
      BY <1>1, <2>2, DeliveredStep DEF MailOK
    <2> QED BY <2>1, <2>2, Steps
  <1> QED BY <1>2, <1>3 DEF MailOK

LEMMA RequestStep ==
    ASSUME ExchangeInv, [ExchangeNext]_exchangeVars
    PROVE  RequestOK'
  <1>1. RequestOK /\ CallsOK
    BY DEF ExchangeInv
  <1>2. PICK A, old : A \in SUBSET Attribute /\ SignedOrNot(old) /\ request = RequestWith(A, A, old)
    BY <1>1 DEF RequestOK, IsRequest
  <1>3. CASE UNCHANGED <<request, credential>>
    BY <1>1, <1>3 DEF RequestOK
  <1>4. ASSUME NEW s \in signing, SignatureMade(s) PROVE RequestOK'
    <2>1. request' = AddSignature(request, s.signature, s.challenge) /\ credential' = credential
      BY <1>4 DEF SignatureMade
    <2>2. PICK uri, key, c :
             /\ c \in Challenge /\ Signs(uri, key)
             /\ s = [signature |-> Signed(uri, key, DataFor(c)), challenge |-> c]
      BY <1>1 DEF CallsOK, IsSigning
    <2>3. request' = RequestWith(A, A, Signing(uri, key, c))
      <3>1. s.signature = Signed(uri, key, DataFor(c)) /\ s.challenge = c
        BY <2>2
      <3> QED BY <1>2, <2>1, <3>1, Added
    <2>4. SignedOrNot(Signing(uri, key, c))
      BY <2>2 DEF SignedOrNot, SignatureOK
    <2>5. IsRequest(request')
      BY <1>2, <2>3, <2>4 DEF IsRequest
    <2>6. request'.claim = request.claim
      BY <1>2, <2>3, RequestIs
    <2> QED BY <1>1, <2>1, <2>5, <2>6 DEF RequestOK
  <1>5. ASSUME NEW properties \in Selection \ {Absent}, HideProperties(properties) PROVE RequestOK'
    <2> DEFINE reduced == RemoveClaimProperties(request, properties)  rest == A \ properties
    <2>1. /\ request' = reduced
          /\ credential' = IF credential = Absent THEN Absent
                           ELSE [credential EXCEPT !.request.claim = reduced.claim]
      BY <1>5 DEF HideProperties
    <2>2. reduced = RequestWith(rest, rest, old) /\ reduced.claim = Shown(rest)
      <3>1. reduced = RequestWith(rest, rest, old)
        BY <1>2, Removed
      <3> HIDE DEF reduced
      <3> QED BY <3>1, RequestIs
    <2>3. IsRequest(request') /\ rest \in SUBSET Attribute
      BY <1>2, <2>1, <2>2 DEF IsRequest
    <2> HIDE DEF reduced
    <2>4. ASSUME credential' # Absent
          PROVE  \E A2, B2, s2 : IsCredential(credential', A2, B2, s2) /\ request'.claim = Shown(A2)
      <3>1. credential # Absent
        BY <2>1, <2>4
      <3>2. PICK A1, B1, s1 : IsCredential(credential, A1, B1, s1) /\ request.claim = Shown(A1)
        BY <1>1, <3>1 DEF RequestOK
      <3>3. request.claim = Shown(A)
        BY <1>2, RequestIs
      <3>4. A1 = A
        <4>1. AttributesOf(Shown(A1)) = A1 /\ AttributesOf(Shown(A)) = A
          BY <1>2, <3>2, ShownIs DEF IsCredential
        <4> QED BY <3>2, <3>3, <4>1
      <3>5. credential' = CredentialWith(rest, B1, s1)
        <4>1. credential' = [credential EXCEPT !.request.claim = Shown(rest)]
          BY <2>1, <2>2, <3>1
        <4>2. credential = CredentialWith(A1, B1, s1)
          BY <3>2 DEF IsCredential
        <4> HIDE DEF rest
        <4>3. [CredentialWith(A1, B1, s1) EXCEPT !.request.claim = Shown(rest)]
                 = CredentialWith(rest, B1, s1)
          BY DEF CredentialWith, RequestWith
        <4> QED BY <4>1, <4>2, <4>3
      <3>6. IsCredential(credential', rest, B1, s1)
        BY <3>2, <3>4, <3>5 DEF IsCredential
      <3> QED BY <2>1, <2>2, <3>6
    <2> QED BY <2>3, <2>4 DEF RequestOK
  <1>6. ASSUME NEW e \in sent, Deliver(e) PROVE RequestOK'
    <2>1. request' = request
      BY <1>6, DeliveredStep
    <2>2. CASE credential' = credential
      BY <1>1, <2>1, <2>2 DEF RequestOK
    <2>3. ASSUME NEW A2, NEW s2, A2 \in SUBSET Attribute, SignedOrNot(s2),
                 request = RequestWith(A2, A2, s2), credential' = CredentialWith(A2, A2, s2)
          PROVE  RequestOK'
      <3>1. IsCredential(credential', A2, A2, s2)
        BY <2>3 DEF IsCredential
      <3>2. request'.claim = Shown(A2)
        BY <2>1, <2>3, RequestIs
      <3> QED BY <1>1, <2>1, <3>1, <3>2 DEF RequestOK
    <2> QED BY <1>6, <2>2, <2>3, DeliveredStep
  <1> QED BY <1>3, <1>4, <1>5, <1>6, Steps

LEMMA SignedBy ==
    ASSUME ChainOK, NEW A, NEW B, NEW old, NEW c
    PROVE  \E uri, key :
              /\ Signs(uri, key)
              /\ SignAsDid(MakeSigningData(RequestWith(A, B, old), c), details, keystore)
                    = Signed(uri, key, DataFor(c))
  <1>1. MakeSigningData(RequestWith(A, B, old), c) = DataFor(c)
    BY Added
  <1> QED BY <1>1, ClaimerSigns

LEMMA CallsStep ==
    ASSUME ExchangeInv, [ExchangeNext]_exchangeVars
    PROVE  CallsOK'
  <1>1. ChainOK /\ RequestOK /\ CallsOK
    BY DEF ExchangeInv
  <1>2. \A s \in signing' : IsSigning(s)
    <2>1. CASE UNCHANGED signing
      BY <1>1, <2>1 DEF CallsOK
    <2>2. ASSUME NEW c \in Challenge, SignWithDidKey(c)
          PROVE  \A s \in signing' : IsSigning(s)
      <3> DEFINE signature == SignAsDid(MakeSigningData(request, c), details, keystore)
      <3>1. signing' = signing \cup {[signature |-> signature, challenge |-> c]}
        BY <2>2 DEF SignWithDidKey
      <3>2. PICK A, old : request = RequestWith(A, A, old)
        BY <1>1 DEF RequestOK, IsRequest
      <3>3. PICK uri, key : Signs(uri, key) /\ signature = Signed(uri, key, DataFor(c))
        BY <1>1, <3>2, SignedBy
      <3> HIDE DEF signature
      <3>4. IsSigning([signature |-> signature, challenge |-> c])
        BY <3>3 DEF IsSigning
      <3> QED BY <1>1, <3>1, <3>4 DEF CallsOK
    <2>3. ASSUME NEW s \in signing, SignatureMade(s)
          PROVE  \A t \in signing' : IsSigning(t)
      <3>1. signing' \subseteq signing
        BY <2>3 DEF SignatureMade
      <3> QED BY <1>1, <3>1 DEF CallsOK
    <2> QED BY <2>1, <2>2, <2>3, Steps
  <1>3. (\A p \in presenting' : IsPresenting(p)) /\ (\A p \in presentations' : IsPresentation(p))
    <2>1. CASE UNCHANGED <<presenting, presentations>>
      BY <1>1, <2>1 DEF CallsOK
    <2>2. ASSUME NEW selected \in Selection, NEW c \in Challenge, CreatePresentation(selected, c)
          PROVE  /\ \A p \in presenting' : IsPresenting(p)
                 /\ \A p \in presentations' : IsPresentation(p)
      <3> DEFINE copy == PresentationOf(credential, selected)
                 signature == SignAsDid(MakeSigningData(copy.request, c), details, keystore)
                 new == [credential |-> copy, signature |-> signature, challenge |-> c,
                         selected |-> selected, of |-> credential]
      <3>1. /\ credential # Absent /\ presentations' = presentations
            /\ presenting' = presenting \cup {new}
        BY <2>2 DEF CreatePresentation
      <3>2. PICK A, B, s : IsCredential(credential, A, B, s)
        BY <1>1, <3>1 DEF RequestOK
      <3> DEFINE kept == Kept(A, selected)
      <3>3. copy = CredentialWith(kept, kept, s)
        BY <3>2, Selected DEF IsCredential, SignedOrNot
      <3>4. copy.request = RequestWith(kept, kept, s)
        BY <3>3 DEF CredentialWith
      <3>5. PICK uri, key : Signs(uri, key) /\ signature = Signed(uri, key, DataFor(c))
        <4> HIDE DEF copy, kept
        <4> QED BY <1>1, <3>4, SignedBy
      <3> HIDE DEF copy, signature, kept
      <3>6. /\ new.of = credential
            /\ new = [credential |-> CredentialWith(kept, kept, s),
                      signature |-> Signed(uri, key, DataFor(c)), challenge |-> c,
                      selected |-> selected, of |-> new.of]
        BY <3>3, <3>5
      <3> HIDE DEF new
      <3>7. IsPresenting(new)
        BY <3>2, <3>5, <3>6 DEF IsPresenting, kept
      <3> QED BY <1>1, <3>1, <3>7 DEF CallsOK
    <2>3. ASSUME NEW p \in presenting, PresentationMade(p)
          PROVE  /\ \A q \in presenting' : IsPresenting(q)
                 /\ \A q \in presentations' : IsPresentation(q)
      <3> DEFINE signed == [p.credential EXCEPT !.request = AddSignature(@, p.signature, p.challenge)]
                 new == [credential |-> signed, challenge |-> p.challenge,
                         selected |-> p.selected, of |-> p.of]
      <3>1. presenting' \subseteq presenting /\ presentations' = presentations \cup {new}
        BY <2>3 DEF PresentationMade
      <3>2. PICK A, B, s, uri, key, c, selected :
               /\ IsCredential(p.of, A, B, s) /\ c \in Challenge /\ Signs(uri, key)
               /\ p = [credential |-> CredentialWith(Kept(A, selected), Kept(A, selected), s),
                       signature |-> Signed(uri, key, DataFor(c)), challenge |-> c,
                       selected |-> selected, of |-> p.of]
        BY <1>1 DEF CallsOK, IsPresenting
      <3> DEFINE kept == Kept(A, selected)
      <3>3. /\ p.credential = CredentialWith(kept, kept, s) /\ p.challenge = c
            /\ p.signature = Signed(uri, key, DataFor(c)) /\ p.selected = selected
        BY <3>2
      <3> HIDE DEF kept
      <3>4. signed = CredentialWith(kept, kept, Signing(uri, key, c))
        <4>1. AddSignature(RequestWith(kept, kept, s), Signed(uri, key, DataFor(c)), c)
                 = RequestWith(kept, kept, Signing(uri, key, c))
          BY Added
        <4>2. p.credential = [request |-> RequestWith(kept, kept, s), attestation |-> Attested]
          BY <3>3 DEF CredentialWith
        <4>3. signed = [request |-> AddSignature(RequestWith(kept, kept, s), p.signature, p.challenge),
                        attestation |-> Attested]
          BY <4>2
        <4> QED BY <3>3, <4>1, <4>3 DEF CredentialWith
      <3> HIDE DEF signed
      <3>5. /\ new.of = p.of
            /\ new = [credential |-> CredentialWith(kept, kept, Signing(uri, key, c)),
                      challenge |-> c, selected |-> selected, of |-> new.of]
        BY <3>3, <3>4
      <3> HIDE DEF new
      <3>6. IsPresentation(new)
        BY <3>2, <3>5 DEF IsPresentation, kept
      <3> QED BY <1>1, <3>1, <3>6 DEF CallsOK
    <2> QED BY <2>1, <2>2, <2>3, Steps
  <1> QED BY <1>2, <1>3 DEF CallsOK

LEMMA AttestedStep ==
    ASSUME ExchangeInv, [ExchangeNext]_exchangeVars
    PROVE  AttestedOK'
  <1>1. AttestedOK /\ MailOK
    BY DEF ExchangeInv
  <1>2. CASE UNCHANGED attested
    BY <1>1, <1>2 DEF AttestedOK
  <1>3. CASE AttestationChanges
    <2>1. CASE attested = Absent
      <3>1. attested' = Stored(OtherAccount, Absent, FALSE)
        BY <1>3, <2>1 DEF AttestationChanges, Stored
      <3> QED BY <3>1 DEF AttestedOK, StoredOK
    <2>2. CASE attested # Absent
      <3>1. attested' = Absent \/ attested' = [attested EXCEPT !.revoked = TRUE]
        BY <1>3, <2>2 DEF AttestationChanges
      <3>2. ASSUME NEW a, NEW d, NEW b \in BOOLEAN, attested = Stored(a, d, b),
                   attested' = [attested EXCEPT !.revoked = TRUE]
            PROVE  attested' = Stored(a, d, TRUE)
        BY <3>2 DEF Stored
      <3>3. StoredOK(attested)
        BY <1>1, <2>2 DEF AttestedOK
      <3>4. ASSUME attested' = [attested EXCEPT !.revoked = TRUE] PROVE StoredOK(attested')
        BY <3>2, <3>3, <3>4 DEF StoredOK
      <3> QED BY <3>1, <3>4 DEF AttestedOK
    <2> QED BY <2>1, <2>2
  <1>4. CASE Attest
    <2>1. asked # Absent
      BY <1>4 DEF Attest
    <2>2. AttestationFromRequestAndDid(asked.request, FullUri[Attester]) = Attested
      BY <1>1, <2>1, AttestedFrom DEF MailOK
    <2>3. StoreTx(Attested).ctypeHash = CType.hash /\ StoreTx(Attested).delegationId = Delegation
      BY AttestedIs DEF StoreTx
    <2>4. attested' = Stored(AuthenticationKey(Attester), Delegation, FALSE)
      BY <1>4, <2>2, <2>3 DEF Attest, Stored
    <2> QED BY <2>4 DEF AttestedOK, StoredOK
  <1> QED BY <1>2, <1>3, <1>4, Steps

(* What holds throughout the exchange: the claimer holds the keys of its    *)
(* DID; the request, the credential and all that is made of them say what   *)
(* was attested, with what is signed for them; and every message is sealed  *)
(* with keys of the two that it is between.                                 *)
THEOREM ExchangeInvariant == ExchangeSpec => []ExchangeInv
  <1>1. ExchangeInit => ExchangeInv
    BY ChainInit, RequestInit DEF ExchangeInv
  <1>2. ExchangeInv /\ [ExchangeNext]_exchangeVars => ExchangeInv'
    BY ChainStep, AttestedStep, RequestStep, CallsStep, MailStep DEF ExchangeInv
  <1> QED BY <1>1, <1>2, PTL DEF ExchangeSpec

-----------------------------------------------------------------------------
(* What the invariant says. *)

(* A message comes as it was sent, whenever and however often, while its    *)
(* sender's key resolves and the receiver's details still have theirs, and  *)
(* not at all otherwise; the owner of a claim, a light DID, is its sender   *)
(* when the full DID of the same account sends it.                          *)
THEOREM MessagesComeAsSent == ExchangeSpec => []ComesAsSent
  <1>1. ExchangeInv => ComesAsSent
    <2> SUFFICES ASSUME ExchangeInv PROVE ComesAsSent
      OBVIOUS
    <2>1. ASSUME NEW e \in sent
          PROVE  LET encrypted == e.encrypted
                     uri == encrypted.senderKeyUri
                     resolves == \/ AccountOf(uri) # AuthenticationKey(Claimer)
                                 \/ uri.type = "light" /\ ~ deleted
                                 \/ did # Absent /\ uri.fragment \in did.keyAgreementKeys
                     held == encrypted.receiverKeyUri.fragment \in DOMAIN DetailsOf(e.to).keys
                 IN  IF resolves /\ held THEN Received(e) = encrypted.ciphertext.data
                     ELSE IsError(Received(e))
      <3>1. /\ Arrives(e) => Received(e) = e.encrypted.ciphertext.data
            /\ ~ Arrives(e) => IsError(Received(e))
        BY ReceivedIs DEF ExchangeInv, MailOK
      <3> QED BY <3>1 DEF Arrives, SenderResolves, ClaimerResolves, ClaimerKey
    <2> QED BY <2>1 DEF ComesAsSent
  <1> QED BY <1>1, ExchangeInvariant, PTL

LEMMA PresentationShows ==
    ASSUME NEW p, IsPresentation(p)
    PROVE  LET r == p.credential.request
               held == AttributesOf(p.of.request.claim)
               vc == FromCredential(p.credential, CType)
               exported == MakePresentation(FromCredential(p.of, CType), p.selected)
           IN  /\ AttributesOf(r.claim) = IF p.selected = Absent THEN held
                                          ELSE held \cap p.selected
               /\ DOMAIN r.claimNonceMap = Digests(Statements(r.claim))
               /\ r.claimerSignature.over =
                     [rootHash |-> p.of.attestation.claimHash, challenge |-> p.challenge]
               /\ \E i \in DOMAIN vc.proof : VerifyCredentialDigestProof(vc, vc.proof[i])
               /\ p.selected # Absent /\ p.selected \subseteq held =>
                     LET shownVc == exported.verifiableCredential
                     IN  /\ shownVc.credentialSubject = vc.credentialSubject
                         /\ shownVc.proof[Len(shownVc.proof)] = vc.proof[Len(vc.proof)]
  <1>1. PICK A, B, s, uri, key, c, selected :
           /\ IsCredential(p.of, A, B, s) /\ c \in Challenge /\ Signs(uri, key)
           /\ p = [credential |-> CredentialWith(Kept(A, selected), Kept(A, selected),
                                                 Signing(uri, key, c)),
                   challenge |-> c, selected |-> selected, of |-> p.of]
    BY DEF IsPresentation
  <1> DEFINE kept == Kept(A, selected)  signature == Signing(uri, key, c)
             vc == Exported(kept, kept, signature)
             shownVc == MakePresentation(Exported(A, B, s), selected).verifiableCredential
  <1>2. kept \in SUBSET A /\ A \in SUBSET Attribute /\ kept \in SUBSET Attribute
        /\ B \in SUBSET Attribute /\ A \in SUBSET B
    BY <1>1 DEF Kept, IsCredential
  <1>3. /\ p.credential.request = RequestWith(kept, kept, signature)
        /\ FromCredential(p.credential, CType) = vc
        /\ p.selected = selected /\ p.challenge = c
    BY <1>1 DEF CredentialWith, Exported
  <1>4. /\ p.of.request = RequestWith(A, B, s) /\ p.of.attestation = Attested
        /\ FromCredential(p.of, CType) = Exported(A, B, s)
    BY <1>1 DEF CredentialWith, Exported, IsCredential
  <1> HIDE DEF kept, signature, vc, shownVc
  <1>5. /\ RequestWith(kept, kept, signature).claim = Shown(kept)
        /\ RequestWith(kept, kept, signature).claimNonceMap = NoncesOf(kept)
        /\ RequestWith(kept, kept, signature).claimerSignature = signature
        /\ RequestWith(A, B, s).claim = Shown(A)
    BY RequestIs
  <1>6. AttributesOf(Shown(kept)) = kept /\ AttributesOf(Shown(A)) = A
    BY <1>2, ShownIs
  <1>7. kept = IF selected = Absent THEN A ELSE A \cap selected
    BY DEF Kept, kept
  <1>8. DOMAIN NoncesOf(kept) = Digests(Statements(Shown(kept)))
    BY <1>2, DigestsGrow DEF DigestsOf
  <1>9. signature.over = [rootHash |-> Attested.claimHash, challenge |-> c]
    BY AttestedIs DEF signature, Signing, DataFor
  <1>10. /\ Len(vc.proof) \in DOMAIN vc.proof /\ vc.proof[Len(vc.proof)] = DigestProof(kept)
         /\ VerifyCredentialDigestProof(vc, DigestProof(kept))
    <2>1. /\ Len(vc.proof) \in {2, 3} /\ DOMAIN vc.proof = 1..Len(vc.proof)
          /\ vc.proof[Len(vc.proof)] = DigestProof(kept)
      BY ProofsAre DEF vc
    <2>2. VerifyCredentialDigestProof(vc, DigestProof(kept))
      BY <1>2, DigestVerifies DEF vc
    <2>3. \A n \in {2, 3} : n \in 1..n
      OBVIOUS
    <2>4. Len(vc.proof) \in DOMAIN vc.proof
      BY <2>1, <2>3
    <2> QED BY <2>1, <2>2, <2>4, Zenon
  <1>11. ASSUME selected # Absent, selected \subseteq A
         PROVE  /\ shownVc.credentialSubject = vc.credentialSubject
                /\ shownVc.proof[Len(shownVc.proof)] = vc.proof[Len(vc.proof)]
    <2>1. kept = selected
      BY <1>7, <1>11
    <2>2. /\ shownVc.credentialSubject = Subject(selected)
          /\ shownVc.proof[Len(shownVc.proof)] = DigestProof(selected)
      BY <1>2, <1>11, ExportPresents DEF shownVc
    <2>3. vc.credentialSubject = Subject(kept)
      BY <1>2, ExportedIs, SubjectIs DEF vc
    <2> QED BY <1>10, <2>1, <2>2, <2>3
  <1>12. MakePresentation(FromCredential(p.of, CType), p.selected).verifiableCredential = shownVc
    BY <1>3, <1>4 DEF shownVc
  <1> QED BY <1>3, <1>4, <1>5, <1>6, <1>7, <1>8, <1>9, <1>10, <1>11, <1>12

(* Whatever runs beside it, a presentation shows what was selected of what  *)
(* the credential had, and no nonce of anything else, and is signed for its *)
(* own challenge over the hash that was attested; one of the exported       *)
(* credential shows and proves the same.                                    *)
THEOREM PresentationsShowWhatIsSelected == ExchangeSpec => []PresentsWhatIsSelected
  <1>1. ExchangeInv => PresentsWhatIsSelected
    <2> SUFFICES ASSUME ExchangeInv PROVE PresentsWhatIsSelected
      OBVIOUS
    <2>1. ASSUME request.claimerSignature # Absent
          PROVE  request.claimerSignature.over =
                    MakeSigningData(request, request.claimerSignature.challenge)
      <3>1. PICK A, s : A \in SUBSET Attribute /\ SignedOrNot(s) /\ request = RequestWith(A, A, s)
        BY DEF ExchangeInv, RequestOK, IsRequest
      <3>2. request.claimerSignature = s
        BY <3>1, RequestIs
      <3>3. PICK uri, key, c : s = Signing(uri, key, c)
        BY <2>1, <3>1, <3>2 DEF SignedOrNot, SignatureOK
      <3>4. s.over = DataFor(c) /\ s.challenge = c
        BY <3>3 DEF Signing
      <3>5. MakeSigningData(request, c) = DataFor(c)
        BY <3>1, Added
      <3> QED BY <3>2, <3>4, <3>5
    <2>2. \A p \in presentations : IsPresentation(p)
      BY DEF ExchangeInv, CallsOK
    <2> QED BY <2>1, <2>2, PresentationShows DEF PresentsWhatIsSelected
  <1> QED BY <1>1, ExchangeInvariant, PTL

-----------------------------------------------------------------------------
(* The verification: what made a signature, and what was attested, at a     *)
(* moment.                                                                  *)

SignerIn(kind, uri, record, gone) ==
    IF uri.type = "light" THEN ~ gone /\ (kind = "credential" => record = Absent)
    ELSE record # Absent /\ record.authenticationKey = uri.fragment

LEMMA DetailsVerify ==
    ASSUME NEW d, NEW uri, NEW key, NEW c,
           GetKey(d, uri.fragment) = IdKey(uri.fragment, key), IdKey(uri.fragment, key) # Absent,
           GetKeysOf(d, "authentication") = {IdKey(uri.fragment, key)}
    PROVE  VerifyDidSignatureFromDetails(DataFor(c), Signing(uri, key, c), "authentication", d)
  <1> DEFINE s == Signing(uri, key, c)
  <1>1. s.keyUri = uri /\ s.by = key /\ s.over = DataFor(c)
    BY DEF Signing
  <1>2. IdKey(uri.fragment, key).publicKey = key
    BY DEF IdKey
  <1> HIDE DEF s
  <1>3. VerifyDidSignatureFromDetails(DataFor(c), s, "authentication", d)
    BY <1>1, <1>2 DEF VerifyDidSignatureFromDetails
  <1> QED BY <1>3 DEF s

LEMMA SignatureVerified ==
    ASSUME NEW A, NEW B, NEW uri, NEW key, NEW c, NEW doc
    PROVE  VerifySignature(RequestWith(A, B, Signing(uri, key, c)), doc)
              <=> /\ uri.fragment # Absent
                  /\ doc # Absent
                  /\ ~ doc.deactivated /\ doc.canonicalId = Absent
                  /\ VerifyDidSignatureFromDetails(DataFor(c), Signing(uri, key, c),
                                                   "authentication", doc.details)
  <1> DEFINE s == Signing(uri, key, c)  r == RequestWith(A, B, s)
  <1>1. r.claimerSignature = s /\ s.challenge = c /\ s.keyUri = uri
    BY RequestIs DEF Signing
  <1>2. MakeSigningData(r, c) = DataFor(c)
    BY Added
  <1> HIDE DEF s, r
  <1>3. VerifySignature(r, doc) <=> VerifyDidSignature(DataFor(c), s, "authentication", doc)
    BY <1>1, <1>2 DEF VerifySignature
  <1> QED BY <1>1, <1>3 DEF VerifyDidSignature, s, r

LEMMA SignerVerified ==
    ASSUME NEW A, NEW B, NEW uri, NEW key, Signs(uri, key), NEW c,
           NEW record, DidOK(record), NEW gone \in BOOLEAN, gone => record = Absent
    PROVE  VerifySignature(RequestWith(A, B, Signing(uri, key, c)), ResolveDoc(uri, record, gone))
              <=> SignerIn("credential", uri, record, gone)
  <1> DEFINE doc == ResolveDoc(uri, record, gone)
             verified == VerifySignature(RequestWith(A, B, Signing(uri, key, c)), doc)
  <1>1. /\ uri.fragment # Absent /\ key \in SigningKeys
        /\ Claimer \in Party /\ AccountUri(Claimer, Absent) # Absent
    BY Signers, UrisTyped, NoObject DEF Party
  <1>2. CASE uri = LightUri("authentication") /\ key = ClaimerKey
    <2>1. uri.fragment = "authentication" /\ uri.type = "light"
      BY <1>2 DEF LightUri
    <2>2. CASE record # Absent
      <3>1. doc.canonicalId # Absent
        BY <1>1, <1>2, <2>2, LightDocument DEF Document
      <3>2. ~ verified
        <4> HIDE DEF doc
        <4> QED BY <3>1, SignatureVerified
      <3> QED BY <2>1, <2>2, <3>2 DEF SignerIn
    <2>3. CASE record = Absent /\ gone
      <3>1. doc = Document(Absent, Absent, TRUE)
        BY <1>2, <2>3, LightDocument
      <3>2. doc.deactivated
        BY <3>1 DEF Document
      <3>3. ~ verified
        <4> HIDE DEF doc
        <4> QED BY <3>2, SignatureVerified
      <3> QED BY <2>1, <2>3, <3>3 DEF SignerIn
    <2>4. CASE record = Absent /\ ~ gone
      <3>1. doc = Document(LightRecord, Absent, FALSE) /\ doc # Absent
        BY <1>2, <2>4, LightDocument
      <3>2. ~ doc.deactivated /\ doc.canonicalId = Absent /\ doc.details = LightRecord
        BY <3>1 DEF Document
      <3>3. /\ GetKey(LightRecord, uri.fragment) = IdKey(uri.fragment, key)
            /\ GetKeysOf(LightRecord, "authentication") = {IdKey(uri.fragment, key)}
            /\ IdKey(uri.fragment, key) # Absent
        BY <1>1, <1>2, <2>1, LightKeys, IdKeys DEF KeyId
      <3>4. VerifyDidSignatureFromDetails(DataFor(c), Signing(uri, key, c), "authentication",
                                          LightRecord)
        BY <3>3, DetailsVerify
      <3>5. verified
        <4> HIDE DEF doc
        <4> QED BY <1>1, <3>1, <3>2, <3>4, SignatureVerified
      <3> QED BY <2>1, <2>4, <3>5 DEF SignerIn
    <2> QED BY <2>2, <2>3, <2>4
  <1>3. CASE key \in SigningKeys /\ uri = AccountUri(Claimer, key)
    <2>1. uri.fragment = key /\ uri.type = "full"
      BY <1>3 DEF AccountUri
    <2>2. CASE record = Absent
      <3>1. doc = Absent \/ doc = Document(Absent, Absent, TRUE)
        BY <1>1, <1>3, <2>2, GoneDocument
      <3>2. doc = Absent \/ doc.deactivated
        BY <3>1 DEF Document
      <3>3. ~ verified
        <4> HIDE DEF doc
        <4> QED BY <3>2, SignatureVerified
      <3> QED BY <2>1, <2>2, <3>3 DEF SignerIn
    <2>3. ASSUME NEW k \in SigningKeys, NEW e \in EncryptionKeys, record = ChainRecord(k, e)
          PROVE  verified <=> SignerIn("credential", uri, record, gone)
      <3>1. /\ record # Absent /\ record.authenticationKey = k
            /\ k \in PublicKey /\ e \in PublicKey /\ key # e
        BY <2>3, <1>1, Records, Keys, KeyTypes
      <3>2. ~ gone
        BY <3>1
      <3>3. doc = Document(FullRecord(Claimer, k, e), Absent, FALSE) /\ doc # Absent
        BY <1>1, <1>3, <2>3, <3>1, <3>2, FullDocument
      <3>4. /\ ~ doc.deactivated /\ doc.canonicalId = Absent
            /\ doc.details = FullRecord(Claimer, k, e)
        BY <3>3 DEF Document
      <3>5. CASE key = k
        <4>1. /\ GetKey(FullRecord(Claimer, k, e), key) = IdKey(key, key)
              /\ GetKeysOf(FullRecord(Claimer, k, e), "authentication") = {IdKey(key, key)}
          BY <3>5, FullKeys
        <4>2. IdKey(key, key) # Absent
          BY <1>1, Keys, IdKeys DEF KeyId
        <4>3. VerifyDidSignatureFromDetails(DataFor(c), Signing(uri, key, c), "authentication",
                                            FullRecord(Claimer, k, e))
          BY <2>1, <4>1, <4>2, DetailsVerify
        <4>4. verified
          <5> HIDE DEF doc
          <5> QED BY <1>1, <3>3, <3>4, <4>3, SignatureVerified
        <4> QED BY <2>1, <3>1, <3>5, <4>4 DEF SignerIn
      <3>6. CASE key # k
        <4>1. GetKey(FullRecord(Claimer, k, e), uri.fragment) = Absent
          BY <2>1, <3>1, <3>6, FullKeys
        <4>2. ~ VerifyDidSignatureFromDetails(DataFor(c), Signing(uri, key, c), "authentication",
                                              FullRecord(Claimer, k, e))
          <5>1. Signing(uri, key, c).keyUri = uri
            BY DEF Signing
          <5> QED BY <4>1, <5>1 DEF VerifyDidSignatureFromDetails
        <4>3. ~ verified
          <5> HIDE DEF doc
          <5> QED BY <3>4, <4>2, SignatureVerified
        <4> QED BY <2>1, <3>1, <3>6, <4>3 DEF SignerIn
      <3> QED BY <3>5, <3>6
    <2> QED BY <2>2, <2>3 DEF DidOK
  <1> QED BY <1>2, <1>3 DEF Signs

(* For an exported credential, any key that resolves.                       *)
LEMMA SignerKey ==
    ASSUME NEW uri, NEW key, Signs(uri, key),
           NEW record, DidOK(record), NEW gone \in BOOLEAN, gone => record = Absent
    PROVE  LET found == ResolveKey(uri, record, gone)
           IN  /\ SignerIn("vc", uri, record, gone) =>
                     /\ found # Absent /\ found.publicKey = key
                     /\ found.type \in VerificationKeyType
               /\ ~ SignerIn("vc", uri, record, gone) => found = Absent
  <1> DEFINE found == ResolveKey(uri, record, gone)
  <1>1. key \in SigningKeys /\ Claimer \in Party /\ KeyType(key) \in VerificationKeyType
    BY Signers, Keys DEF Party
  <1>2. \A d : /\ ResolvedKey(d, uri, key).publicKey = key
               /\ ResolvedKey(d, uri, key).type \in VerificationKeyType
    BY <1>1 DEF ResolvedKey
  <1>3. CASE uri = LightUri("authentication") /\ key = ClaimerKey
    <2>1. uri.type = "light" /\ LightKeyOf("authentication") = key
      BY <1>3 DEF LightUri, LightKeyOf
    <2>2. /\ gone => found = Absent
          /\ ~ gone => found = ResolvedKey(LightUri(Absent), uri, key) /\ found # Absent
      BY <1>3, <2>1, LightKeyResolves
    <2> HIDE DEF found
    <2>3. /\ SignerIn("vc", uri, record, gone) =>
                found # Absent /\ found.publicKey = key /\ found.type \in VerificationKeyType
          /\ ~ SignerIn("vc", uri, record, gone) => found = Absent
      BY <1>2, <2>1, <2>2 DEF SignerIn
    <2> QED BY <2>3 DEF found
  <1>4. CASE key \in SigningKeys /\ uri = AccountUri(Claimer, key)
    <2>1. uri.fragment = key /\ uri.type = "full" /\ key \in KeyId
      BY <1>4, Keys DEF AccountUri, KeyId
    <2>2. CASE record = Absent
      <3>1. found = Absent
        BY <1>1, <1>4, <2>2, GoneKey
      <3> QED BY <2>1, <2>2, <3>1 DEF SignerIn
    <2>3. ASSUME NEW k \in SigningKeys, NEW e \in EncryptionKeys, record = ChainRecord(k, e)
          PROVE  /\ SignerIn("vc", uri, record, gone) =>
                       found # Absent /\ found.publicKey = key /\ found.type \in VerificationKeyType
                 /\ ~ SignerIn("vc", uri, record, gone) => found = Absent
      <3>1. /\ record # Absent /\ record.authenticationKey = k /\ key # e
            /\ SigningKeyOf(Claimer, k) /\ EncryptionKeyFor(Claimer, e)
        BY <2>3, <1>1, Records, Keys, KeyTypes DEF SigningKeyOf, EncryptionKeyFor
      <3>2. ~ gone
        BY <3>1
      <3> HIDE DEF found
      <3>3. CASE key = k
        <4>1. /\ found = ResolvedKey(AccountUri(Claimer, Absent), AccountUri(Claimer, key), key)
              /\ ResolvedKey(AccountUri(Claimer, Absent), AccountUri(Claimer, key), key) # Absent
          BY <1>1, <1>4, <2>3, <3>1, <3>2, <3>3, FullKeyFound DEF found
        <4> QED BY <1>2, <1>4, <2>1, <3>1, <3>3, <4>1 DEF SignerIn
      <3>4. CASE key # k
        <4>1. found = Absent
          BY <1>1, <1>4, <2>1, <2>3, <3>1, <3>2, <3>4, FullKeyMissing DEF found
        <4> QED BY <2>1, <3>1, <3>4, <4>1 DEF SignerIn
      <3> QED BY <3>3, <3>4
    <2> QED BY <2>2, <2>3 DEF DidOK
  <1> QED BY <1>3, <1>4 DEF Signs

AttestedIn(a) ==
    /\ a # Absent /\ ~ a.revoked
    /\ FullUri[Attester] = GetKiltDidFromIdentifier(a.attester, "full", Absent)
OnChain(k, delegationId, b) ==
    [claimHash |-> Root, cTypeHash |-> CType.hash,
     owner |-> GetKiltDidFromIdentifier(k, "full", Absent),
     delegationId |-> delegationId, revoked |-> b]

LEMMA Decoded ==
    ASSUME NEW k \in AttesterKeys, NEW delegationId \in {Delegation, Absent}, NEW b \in BOOLEAN
    PROVE  /\ DecodeAttestation(Stored(k, delegationId, b), Root) = OnChain(k, delegationId, b)
           /\ OnChain(k, delegationId, b) # Absent /\ Stored(k, delegationId, b) # Absent
  <1> DEFINE a == OnChain(k, delegationId, b)  stored == Stored(k, delegationId, b)
             owner == GetKiltDidFromIdentifier(k, "full", Absent)
  <1>1. stored \in StoredSet /\ a \in AttestationSet /\ owner \in AttesterDids
    BY DEF Stored, StoredSet, OnChain, AttestationSet, AttesterDids
  <1>2. stored # Absent /\ a # Absent /\ owner # Absent
    BY <1>1, AbsentAssumption
  <1>3. k \in Address
    BY ExchangeAssumption DEF AttesterKeys, Party
  <1>4. ~ IsError(ValidateKiltDidUri(owner, FALSE))
    <2>1. /\ owner = [type |-> "full", account |-> k, encoding |-> Absent, encoded |-> Absent,
                      fragment |-> Absent]
      BY DEF GetKiltDidFromIdentifier
    <2>2. ~ IsError(ParseDidUri(owner)) /\ ParseDidUri(owner).fragment = Absent /\ AccountOf(owner) = k
      BY <2>1 DEF ParseDidUri, AccountOf, GetKiltDidFromIdentifier, IsError
    <2> HIDE DEF owner
    <2> QED BY <1>3, <2>2, Errors DEF ValidateKiltDidUri, IsError
  <1>5. AttestationErrorCheck(a) = Valid
    <2>1. /\ a.claimHash = Root /\ a.cTypeHash = CType.hash /\ a.owner = owner
          /\ a.revoked = b
      BY DEF OnChain
    <2>2. ValidateHash(CType.hash) = Valid /\ ValidateHash(Root) = Valid
      BY Whole DEF ValidateHash
    <2> HIDE DEF a, owner
    <2> QED BY <1>2, <1>4, <2>1, <2>2, Whole, Errors DEF AttestationErrorCheck, Then
  <1>6. DecodeAttestation(stored, Root) = NewAttestation(a)
    <2>1. stored.ctypeHash = CType.hash /\ stored.attester = k /\ stored.delegationId = delegationId
          /\ stored.revoked = b
      BY DEF Stored
    <2> HIDE DEF stored
    <2> QED BY <1>2, <2>1 DEF DecodeAttestation, OnChain
  <1> QED BY <1>2, <1>5, <1>6, Errors DEF NewAttestation, Then

LEMMA AttestationVerified ==
    ASSUME NEW a, a = Absent \/ StoredOK(a), NEW A, NEW B, NEW s
    PROVE  LET onChain == DecodeAttestation(a, Root)
           IN  /\ CheckValidity(Attested, onChain) <=> AttestedIn(a)
               /\ VerifyAttestedProof(Exported(A, B, s), AttestedProof, onChain) <=> AttestedIn(a)
  <1> DEFINE onChain == DecodeAttestation(a, Root)  vc == Exported(A, B, s)
             status == AttestationStatus(vc, AttestedProof, onChain)
  <1>1. /\ vc.issuer = AccountUri(Attester, Absent) /\ vc.delegationId = Delegation
        /\ AttestedProof.type = "KILTAttestation2020"
        /\ AttestedProof.attester = AccountUri(Attester, Absent)
        /\ Attested.owner = AccountUri(Attester, Absent)
        /\ FullUri[Attester] = AccountUri(Attester, Absent)
    BY ExportedIs, AttestedIs DEF AttestedProof
  <1> HIDE DEF vc
  <1>2. CASE a = Absent
    <2>1. onChain = Absent
      BY <1>2 DEF DecodeAttestation
    <2>2. status = "invalid" /\ ~ CheckValidity(Attested, onChain)
      BY <1>1, <2>1 DEF AttestationStatus, CheckValidity
    <2> QED BY <1>2, <2>2 DEF AttestedIn, VerifyAttestedProof, vc
  <1>3. ASSUME NEW k \in AttesterKeys, NEW delegationId \in {Delegation, Absent},
               NEW b \in BOOLEAN, a = Stored(k, delegationId, b),
               k = AuthenticationKey(Attester) => delegationId = Delegation
        PROVE  /\ CheckValidity(Attested, onChain) <=> AttestedIn(a)
               /\ VerifyAttestedProof(vc, AttestedProof, onChain) <=> AttestedIn(a)
    <2> DEFINE o == OnChain(k, delegationId, b)
    <2>1. onChain = o /\ o # Absent /\ a # Absent
      BY <1>3, Decoded
    <2>2. /\ o.owner = GetKiltDidFromIdentifier(k, "full", Absent)
          /\ o.delegationId = delegationId /\ (o.revoked <=> b)
      BY DEF OnChain
    <2>3. a.attester = k /\ (a.revoked <=> b)
      BY <1>3 DEF Stored
    <2>4. o.owner = AccountUri(Attester, Absent) <=> k = AuthenticationKey(Attester)
      BY <2>2 DEF AccountUri, GetKiltDidFromIdentifier
    <2> HIDE DEF o, onChain
    <2>5. AttestedIn(a) <=> k = AuthenticationKey(Attester) /\ ~ b
      BY <1>1, <2>1, <2>2, <2>3, <2>4 DEF AttestedIn
    <2>6. CheckValidity(Attested, onChain) <=> k = AuthenticationKey(Attester) /\ ~ b
      BY <1>1, <2>1, <2>2, <2>4 DEF CheckValidity
    <2>7. VerifyAttestedProof(vc, AttestedProof, onChain) <=> k = AuthenticationKey(Attester) /\ ~ b
      BY <1>1, <1>3, <2>1, <2>2, <2>4 DEF VerifyAttestedProof, AttestationStatus
    <2> QED BY <2>5, <2>6, <2>7
  <1>4. CASE StoredOK(a)
    <2>1. PICK b \in BOOLEAN : \/ a = Stored(AuthenticationKey(Attester), Delegation, b)
                               \/ a = Stored(OtherAccount, Absent, b)
      BY <1>4 DEF StoredOK
    <2>2. OtherAccount # AuthenticationKey(Attester)
      BY ExchangeAssumption
    <2> HIDE DEF onChain
    <2> QED BY <1>3, <2>1, <2>2 DEF AttesterKeys, vc, onChain
  <1> QED BY <1>2, <1>4

(* All the proofs of an exported credential.                                *)
LEMMA ProofsVerify ==
    ASSUME NEW A \in SUBSET Attribute, NEW uri, NEW key, Signs(uri, key), NEW c,
           NEW found, NEW onChain, NEW v,
           v.credential = CredentialWith(A, A, Signing(uri, key, c)),
           v.key = found, v.onChain = onChain,
           c \in Challenge,
           found = Absent \/ (found.publicKey = key /\ found.type \in VerificationKeyType)
    PROVE  ProofsVerified(v) <=>
              /\ c = Absent /\ found # Absent
              /\ VerifyAttestedProof(Exported(A, A, Signing(uri, key, c)), AttestedProof, onChain)
  <1> DEFINE s == Signing(uri, key, c)  vc == Exported(A, A, s)
             attested_ == VerifyAttestedProof(vc, AttestedProof, onChain)
  <1>1. s # Absent
    BY Signatures DEF SignatureOK
  <1>2. /\ vc.proof = <<SelfSigned(s), AttestedProof, DigestProof(A)>>
        /\ FromCredentialIRI(vc.id) = Root
    BY <1>1, ExportedProofs, ExportedIs
  <1>3. FromCredential(v.credential, CType) = vc
    BY DEF Exported
  <1>4. VerifyCredentialDigestProof(vc, DigestProof(A))
    BY DigestVerifies
  <1>5. /\ SelfSigned(s).type = "KILTSelfSigned2020" /\ SelfSigned(s).signature.by = key
        /\ SelfSigned(s).signature.over = [rootHash |-> Root, challenge |-> c]
        /\ AttestedProof.type = "KILTAttestation2020"
        /\ DigestProof(A).type = "KILTCredentialDigest2020"
    BY DEF SelfSigned, Signing, DataFor, AttestedProof, DigestProof
  <1> HIDE DEF s, vc
  <1>6. SuiteVerifies(vc, SelfSigned(s), found, onChain) <=> c = Absent /\ found # Absent
    <2>1. [rootHash |-> Root, challenge |-> c] = [rootHash |-> Root, challenge |-> Absent] <=> c = Absent
      OBVIOUS
    <2>2. SuiteVerifies(vc, SelfSigned(s), found, onChain)
             <=> VerifySelfSignedProof(vc, SelfSigned(s), found)
      BY <1>5 DEF SuiteVerifies
    <2>3. VerifySelfSignedProof(vc, SelfSigned(s), found) <=> c = Absent /\ found # Absent
      BY <1>2, <1>5, <2>1 DEF VerifySelfSignedProof
    <2> QED BY <2>2, <2>3
  <1>7. SuiteVerifies(vc, AttestedProof, found, onChain) <=> attested_
    BY <1>5 DEF SuiteVerifies
  <1>8. SuiteVerifies(vc, DigestProof(A), found, onChain)
    BY <1>4, <1>5 DEF SuiteVerifies
  <1>9. ProofsVerified(v) <=> \A i \in DOMAIN vc.proof : SuiteVerifies(vc, vc.proof[i], found, onChain)
    BY <1>3 DEF ProofsVerified
  <1>10. /\ DOMAIN vc.proof = {1, 2, 3} /\ vc.proof[1] = SelfSigned(s)
         /\ vc.proof[2] = AttestedProof /\ vc.proof[3] = DigestProof(A)
    BY <1>2
  <1>11. ProofsVerified(v) <=> c = Absent /\ found # Absent /\ attested_
    <2> HIDE DEF attested_
    <2> QED BY <1>6, <1>7, <1>8, <1>9, <1>10
  <1> QED BY <1>11 DEF s, vc

(* The verification: what was asked of the chain was so at a moment that    *)
(* was seen, and so is the answer.                                          *)
MomentOK(m) ==
    /\ DidOK(m.did) /\ m.deleted \in BOOLEAN /\ (m.deleted => m.did = Absent)
    /\ m.attested = Absent \/ StoredOK(m.attested)

Right(v, moments) ==
    IF v.answer
    THEN ChallengeMet(v) /\ (\E m \in moments : SignerAt(m, v)) /\ (\E m \in moments : AttestedAt(m, v))
    ELSE ~ ChallengeMet(v) \/ \E m \in moments : ~ SignerAt(m, v) \/ ~ AttestedAt(m, v)

Verifies(v, A, uri, key, c) ==
    /\ A \in SUBSET Attribute /\ Signs(uri, key) /\ c \in Challenge
    /\ v.credential = CredentialWith(A, A, Signing(uri, key, c))
    /\ v = [kind |-> v.kind, credential |-> v.credential, challenge |-> v.challenge,
            key |-> v.key, onChain |-> v.onChain, answer |-> v.answer, todo |-> v.todo]
    /\ v.kind \in {"credential", "vc"} /\ v.todo \subseteq {"key", "attestation"}
    /\ v.answer \in BOOLEAN /\ (v.todo # {} => ~ v.answer)

\* Credential.verify: the signature first.
CredentialVerifies(v, moments) ==
    /\ v.todo # {} => ChallengeMet(v) /\ "attestation" \in v.todo
    /\ v.todo # {} /\ "key" \notin v.todo => \E m \in moments : SignerAt(m, v)

\* The suites: in any order.
SuitesVerify(v, key, moments) ==
    /\ v.challenge = Absent
    /\ "key" \notin v.todo =>
          /\ v.key = Absent \/ (v.key.publicKey = key /\ v.key.type \in VerificationKeyType)
          /\ \E m \in moments : SignerAt(m, v) <=> v.key # Absent
    /\ "attestation" \notin v.todo =>
          \E m \in moments : v.onChain = DecodeAttestation(m.attested, Root)

Verifying(v, moments) ==
    /\ v.todo = {} => Right(v, moments)
    /\ \E A, uri, key, c :
          /\ Verifies(v, A, uri, key, c)
          /\ v.kind = "credential" => CredentialVerifies(v, moments)
          /\ v.kind = "vc" => SuitesVerify(v, key, moments)

VerifyOK ==
    /\ \A m \in seen : MomentOK(m)
    /\ verifying # Idle => Verifying(verifying, seen) /\ (verifying.todo # {} => Moment \in seen)

(* The properties of a moment that the verification asks for.               *)
LEMMA MomentNow ==
    ASSUME ChainOK, AttestedOK
    PROVE  /\ Moment.did = did /\ Moment.deleted = deleted /\ Moment.attested = attested
           /\ MomentOK(Moment)
  <1>1. Moment.did = did /\ Moment.deleted = deleted /\ Moment.attested = attested
    BY DEF Moment
  <1>2. DidOK(did)
    BY DEF ChainOK, DidOK
  <1>3. deleted \in BOOLEAN /\ (deleted => did = Absent)
    BY DEF ChainOK
  <1>4. attested = Absent \/ StoredOK(attested)
    BY DEF AttestedOK
  <1> HIDE DEF Moment
  <1> QED BY <1>1, <1>2, <1>3, <1>4 DEF MomentOK

LEMMA SignerOf ==
    ASSUME NEW v, NEW A, NEW uri, NEW key, NEW c, Verifies(v, A, uri, key, c)
    PROVE  /\ SignerUri(v) = uri
           /\ v.credential.request = RequestWith(A, A, Signing(uri, key, c))
           /\ v.credential.attestation = Attested
           /\ v.credential.request.claimerSignature.challenge = c
           /\ AccountOf(uri) = ClaimerKey
           /\ \A m : SignerAt(m, v) <=> SignerIn(v.kind, uri, m.did, m.deleted)
           /\ \A m : AttestedAt(m, v) <=> AttestedIn(m.attested)
  <1>1. v.credential = CredentialWith(A, A, Signing(uri, key, c))
    BY DEF Verifies
  <1>2. /\ v.credential.request = RequestWith(A, A, Signing(uri, key, c))
        /\ v.credential.attestation = Attested
    BY <1>1 DEF CredentialWith
  <1>3. /\ RequestWith(A, A, Signing(uri, key, c)).claimerSignature = Signing(uri, key, c)
        /\ Signing(uri, key, c).keyUri = uri /\ Signing(uri, key, c).challenge = c
    BY RequestIs DEF Signing
  <1>4. SignerUri(v) = uri
    BY <1>2, <1>3 DEF SignerUri
  <1>5. AccountOf(uri) = ClaimerKey
    BY UriAccounts DEF Verifies, Signs, ClaimerKey
  <1>6. \A m : SignerAt(m, v) <=> SignerIn(v.kind, uri, m.did, m.deleted)
    BY <1>4 DEF SignerAt, SignerIn
  <1>7. \A m : AttestedAt(m, v) <=> AttestedIn(m.attested)
    BY DEF AttestedAt, AttestedIn
  <1> QED BY <1>2, <1>3, <1>4, <1>5, <1>6, <1>7

(* A moment more changes nothing of what is found.                          *)
LEMMA SeenGrows ==
    ASSUME NEW v, NEW few, NEW moments, few \subseteq moments, Verifying(v, few)
    PROVE  Verifying(v, moments)
  <1>1. Right(v, few) => Right(v, moments)
    BY DEF Right
  <1>2. CredentialVerifies(v, few) => CredentialVerifies(v, moments)
    BY DEF CredentialVerifies
  <1>3. \A key : SuitesVerify(v, key, few) => SuitesVerify(v, key, moments)
    <2> TAKE key
    <2> QED BY DEF SuitesVerify
  <1> QED BY <1>1, <1>2, <1>3 DEF Verifying

LEMMA NotIdle ==
    ASSUME NEW v, NEW A, NEW uri, NEW key, NEW c, Verifies(v, A, uri, key, c)
    PROVE  v # Idle
  <1>1. DOMAIN v = {"kind", "credential", "challenge", "key", "onChain", "answer", "todo"}
    BY DEF Verifies
  <1>2. DOMAIN Idle = {"todo"}
    BY DEF Idle
  <1> QED BY <1>1, <1>2

(* The start of it.                                                         *)
LEMMA Started ==
    ASSUME NEW kind \in {"credential", "vc"}, NEW challenge, kind = "vc" => challenge = Absent,
           NEW credential_, IsPresented(credential_), NEW m
    PROVE  LET refused == \/ ~ CredentialVerifyData(credential_).valid
                          \/ SignatureRefused(credential_.request, challenge)
               v == [kind |-> kind, credential |-> credential_, challenge |-> challenge,
                     key |-> Absent, onChain |-> Absent, answer |-> FALSE,
                     todo |-> IF kind = "credential" /\ refused THEN {}
                              ELSE {"key", "attestation"}]
           IN  Verifying(v, {m})
  <1> DEFINE refused == \/ ~ CredentialVerifyData(credential_).valid
                        \/ SignatureRefused(credential_.request, challenge)
             todo == IF kind = "credential" /\ refused THEN {} ELSE {"key", "attestation"}
             v == [kind |-> kind, credential |-> credential_, challenge |-> challenge,
                   key |-> Absent, onChain |-> Absent, answer |-> FALSE, todo |-> todo]
  <1>1. PICK A, uri, key, c :
           /\ A \in SUBSET Attribute /\ c \in Challenge /\ Signs(uri, key)
           /\ credential_ = CredentialWith(A, A, Signing(uri, key, c))
    BY DEF IsPresented, SignatureOK
  <1>2. /\ v.kind = kind /\ v.credential = credential_ /\ v.challenge = challenge
        /\ v.key = Absent /\ v.onChain = Absent /\ v.answer = FALSE /\ v.todo = todo
    OBVIOUS
  <1>3. v = [kind |-> v.kind, credential |-> v.credential, challenge |-> v.challenge,
             key |-> v.key, onChain |-> v.onChain, answer |-> v.answer, todo |-> v.todo]
    OBVIOUS
  <1>4. todo \subseteq {"key", "attestation"}
    OBVIOUS
  <1>5. Signing(uri, key, c) # Absent /\ SignatureOK(Signing(uri, key, c))
    BY <1>1, Signatures DEF SignatureOK
  <1>6. CredentialVerifyData(credential_) = Valid /\ Valid.valid
    BY <1>1, <1>5, CredentialAccepted DEF Valid
  <1> HIDE DEF v, todo
  <1>7. Verifies(v, A, uri, key, c)
    BY <1>1, <1>2, <1>3, <1>4 DEF Verifies
  <1>8. /\ v.credential.request = RequestWith(A, A, Signing(uri, key, c))
        /\ v.credential.request.claimerSignature = Signing(uri, key, c)
        /\ v.credential.request.claimerSignature.challenge = c
    BY <1>7, SignerOf, RequestIs
  <1>9. refused <=> SignatureRefused(credential_.request, challenge)
    BY <1>6
  <1>10. kind = "credential" => (refused <=> ~ ChallengeMet(v))
    BY <1>2, <1>5, <1>8, <1>9 DEF ChallengeMet, SignatureRefused
  <1> HIDE DEF refused
  <1>11. todo = {} <=> kind = "credential" /\ refused
    BY DEF todo
  <1>12. todo # {} => todo = {"key", "attestation"}
    BY DEF todo
  <1>13. v.todo = {} => Right(v, {m})
    BY <1>2, <1>10, <1>11 DEF Right
  <1>14. v.kind = "credential" => CredentialVerifies(v, {m})
    BY <1>2, <1>10, <1>11, <1>12 DEF CredentialVerifies
  <1>15. v.kind = "vc" => SuitesVerify(v, key, {m})
    BY <1>2, <1>11, <1>12 DEF SuitesVerify
  <1>16. Verifying(v, {m})
    BY <1>7, <1>13, <1>14, <1>15 DEF Verifying
  <1> QED BY <1>16 DEF v, todo, refused

\* What a step leaves of the verification, and makes of the rest.
Updated(v, key, onChain, answer, todo) ==
    [kind |-> v.kind, credential |-> v.credential, challenge |-> v.challenge,
     key |-> key, onChain |-> onChain, answer |-> answer, todo |-> todo]

LEMMA Updates ==
    ASSUME NEW v, NEW A, NEW uri, NEW key, NEW c, Verifies(v, A, uri, key, c),
           NEW k, NEW o, NEW b \in BOOLEAN, NEW t \in SUBSET {"key", "attestation"},
           t # {} => ~ b
    PROVE  LET w == Updated(v, k, o, b, t)
           IN  /\ Verifies(w, A, uri, key, c)
               /\ w.kind = v.kind /\ w.challenge = v.challenge /\ w.credential = v.credential
               /\ w.key = k /\ w.onChain = o /\ (w.answer <=> b) /\ w.todo = t
               /\ ChallengeMet(w) <=> ChallengeMet(v)
               /\ \A m : /\ SignerAt(m, w) <=> SignerAt(m, v)
                         /\ AttestedAt(m, w) <=> AttestedAt(m, v)
  <1> DEFINE w == Updated(v, k, o, b, t)
  <1>1. /\ w.kind = v.kind /\ w.challenge = v.challenge /\ w.credential = v.credential
        /\ w.key = k /\ w.onChain = o /\ w.answer = b /\ w.todo = t
    BY DEF Updated
  <1>2. w = [kind |-> w.kind, credential |-> w.credential, challenge |-> w.challenge,
             key |-> w.key, onChain |-> w.onChain, answer |-> w.answer, todo |-> w.todo]
    BY DEF Updated
  <1> HIDE DEF w
  <1>3. Verifies(w, A, uri, key, c)
    BY <1>1, <1>2 DEF Verifies
  <1>4. ChallengeMet(w) <=> ChallengeMet(v)
    BY <1>1 DEF ChallengeMet
  <1>5. SignerUri(w) = SignerUri(v)
    BY <1>1 DEF SignerUri
  <1>6. \A m : /\ SignerAt(m, w) <=> SignerAt(m, v)
               /\ AttestedAt(m, w) <=> AttestedAt(m, v)
    BY <1>1, <1>5 DEF SignerAt, AttestedAt
  <1> QED BY <1>1, <1>3, <1>4, <1>6 DEF w

LEMMA TodoUpdated ==
    ASSUME NEW v, NEW A, NEW uri, NEW key, NEW c, Verifies(v, A, uri, key, c), NEW t
    PROVE  [v EXCEPT !.todo = t] = Updated(v, v.key, v.onChain, v.answer, t)
  <1>1. PICK a \in BOOLEAN : v.answer = a
    BY DEF Verifies
  <1>2. PICK kind, credential_, challenge, k0, o0, t0 :
           v = [kind |-> kind, credential |-> credential_, challenge |-> challenge,
                key |-> k0, onChain |-> o0, answer |-> a, todo |-> t0]
    BY <1>1 DEF Verifies
  <1> QED BY <1>2 DEF Updated

LEMMA KeyUpdated ==
    ASSUME NEW v, NEW A, NEW uri, NEW key, NEW c, Verifies(v, A, uri, key, c), NEW t, NEW k
    PROVE  [Updated(v, v.key, v.onChain, v.answer, t) EXCEPT !.key = k]
              = Updated(v, k, v.onChain, v.answer, t)
  <1>1. PICK a \in BOOLEAN : v.answer = a
    BY DEF Verifies
  <1>2. PICK kind, credential_, challenge, k0, o0, t0 :
           v = [kind |-> kind, credential |-> credential_, challenge |-> challenge,
                key |-> k0, onChain |-> o0, answer |-> a, todo |-> t0]
    BY <1>1 DEF Verifies
  <1> QED BY <1>2 DEF Updated

LEMMA AnswerUpdated ==
    ASSUME NEW v, NEW A, NEW uri, NEW key, NEW c, Verifies(v, A, uri, key, c), NEW k, NEW o, NEW t,
           NEW b \in BOOLEAN
    PROVE  [Updated(v, k, o, v.answer, t) EXCEPT !.answer = b] = Updated(v, k, o, b, t)
  <1>1. PICK a \in BOOLEAN : v.answer = a
    BY DEF Verifies
  <1>2. PICK kind, credential_, challenge, k0, o0, t0 :
           v = [kind |-> kind, credential |-> credential_, challenge |-> challenge,
                key |-> k0, onChain |-> o0, answer |-> a, todo |-> t0]
    BY <1>1 DEF Verifies
  <1> QED BY <1>2 DEF Updated

LEMMA OnChainUpdated ==
    ASSUME NEW v, NEW A, NEW uri, NEW key, NEW c, Verifies(v, A, uri, key, c), NEW t, NEW o
    PROVE  [v EXCEPT !.todo = t, !.onChain = o] = Updated(v, v.key, o, v.answer, t)
  <1> DEFINE w == [v EXCEPT !.todo = t]
  <1>1. w = Updated(v, v.key, v.onChain, v.answer, t)
    BY TodoUpdated
  <1>2. v.answer \in BOOLEAN
    BY DEF Verifies
  <1> HIDE DEF w
  <1>3. [w EXCEPT !.onChain = o] = Updated(v, v.key, o, v.answer, t)
    BY <1>1, <1>2 DEF Updated
  <1> QED BY <1>3 DEF w

(* The answer of the suites.                                                *)
LEMMA SuitesAnswer ==
    ASSUME NEW v, NEW A, NEW uri, NEW key, NEW c, Verifies(v, A, uri, key, c),
           NEW moments, \A m \in moments : MomentOK(m),
           v.kind = "vc", v.todo = {}, SuitesVerify(v, key, moments)
    PROVE  LET b == ProofsVerified(v)
           IN  /\ b => /\ ChallengeMet(v) /\ \E m \in moments : SignerAt(m, v)
                       /\ \E m \in moments : AttestedAt(m, v)
               /\ ~ b => \/ ~ ChallengeMet(v)
                         \/ \E m \in moments : ~ SignerAt(m, v) \/ ~ AttestedAt(m, v)
  <1> DEFINE s == Signing(uri, key, c)
  <1>1. /\ v.key = Absent \/ (v.key.publicKey = key /\ v.key.type \in VerificationKeyType)
        /\ \E m \in moments : SignerAt(m, v) <=> v.key # Absent
        /\ \E m \in moments : v.onChain = DecodeAttestation(m.attested, Root)
    BY DEF SuitesVerify
  <1>2. PICK m1 \in moments : v.onChain = DecodeAttestation(m1.attested, Root)
    BY <1>1
  <1>3. m1.attested = Absent \/ StoredOK(m1.attested)
    BY DEF MomentOK
  <1>4. VerifyAttestedProof(Exported(A, A, s), AttestedProof, v.onChain) <=> AttestedIn(m1.attested)
    BY <1>2, <1>3, AttestationVerified
  <1>5. AttestedIn(m1.attested) <=> AttestedAt(m1, v)
    BY SignerOf
  <1>6. ProofsVerified(v) <=>
           /\ c = Absent /\ v.key # Absent
           /\ VerifyAttestedProof(Exported(A, A, s), AttestedProof, v.onChain)
    BY <1>1, ProofsVerify DEF Verifies
  <1>7. ChallengeMet(v) <=> c = Absent
    BY SignerOf DEF ChallengeMet
  <1> QED BY <1>1, <1>4, <1>5, <1>6, <1>7

LEMMA SuitesLeft ==
    ASSUME NEW v, NEW A, NEW uri, NEW key, NEW c, Verifies(v, A, uri, key, c),
           NEW moments, \A m \in moments : MomentOK(m),
           v.kind = "vc", ~ v.answer, SuitesVerify(v, key, moments)
    PROVE  Verifying(Answered(v), moments)
  <1>1. CASE v.todo # {}
    <2>1. Answered(v) = v
      BY <1>1 DEF Answered
    <2>2. v.kind # "credential"
      OBVIOUS
    <2> QED BY <1>1, <2>1, <2>2 DEF Verifying
  <1>2. CASE v.todo = {}
    <2> DEFINE b == ProofsVerified(v)
               w == Updated(v, v.key, v.onChain, b, v.todo)
    <2>1. b \in BOOLEAN
      BY DEF ProofsVerified
    <2>2. /\ b => /\ ChallengeMet(v) /\ \E m \in moments : SignerAt(m, v)
                  /\ \E m \in moments : AttestedAt(m, v)
          /\ ~ b => \/ ~ ChallengeMet(v)
                    \/ \E m \in moments : ~ SignerAt(m, v) \/ ~ AttestedAt(m, v)
      BY <1>2, SuitesAnswer
    <2>3. Answered(v) = [v EXCEPT !.answer = b]
      BY <1>2 DEF Answered
    <2> HIDE DEF b
    <2>4. Updated(v, v.key, v.onChain, v.answer, v.todo) = v
      BY DEF Verifies, Updated
    <2>5. [Updated(v, v.key, v.onChain, v.answer, v.todo) EXCEPT !.answer = b] = w
      BY <2>1, AnswerUpdated
    <2>6. Answered(v) = w
      BY <2>3, <2>4, <2>5
    <2>7. v.todo \in SUBSET {"key", "attestation"}
      BY DEF Verifies
    <2>8. /\ Verifies(w, A, uri, key, c)
          /\ w.kind = v.kind /\ w.challenge = v.challenge /\ w.credential = v.credential
          /\ w.key = v.key /\ w.onChain = v.onChain /\ (w.answer <=> b) /\ w.todo = v.todo
          /\ ChallengeMet(w) <=> ChallengeMet(v)
          /\ \A m : /\ SignerAt(m, w) <=> SignerAt(m, v)
                    /\ AttestedAt(m, w) <=> AttestedAt(m, v)
      BY <1>2, <2>1, <2>7, Updates
    <2> HIDE DEF w
    <2>9. Right(w, moments)
      BY <2>2, <2>8 DEF Right
    <2>10. SuitesVerify(w, key, moments)
      BY <2>8 DEF SuitesVerify
    <2>11. w.kind # "credential"
      BY <2>8
    <2> QED BY <2>6, <2>8, <2>9, <2>10, <2>11 DEF Verifying
  <1> QED BY <1>1, <1>2

\* The verification once the signer's key is resolved, or its attestation asked.
KeyAnswer(v, record, gone) ==
    LET uri == SignerUri(v)
        left == [v EXCEPT !.todo = @ \ {"key"}]
        signed == VerifySignature(v.credential.request, ResolveDoc(uri, record, gone))
    IN  CASE v.kind = "vc" -> Answered([left EXCEPT !.key = ResolveKey(uri, record, gone)])
          [] v.kind = "credential" /\ signed -> left
          [] OTHER -> [v EXCEPT !.todo = {}]
AttestationAnswer(v, a) ==
    LET onChain == DecodeAttestation(a, v.credential.attestation.claimHash)
        left == [v EXCEPT !.todo = @ \ {"attestation"}, !.onChain = onChain]
    IN  IF v.kind = "vc" THEN Answered(left)
        ELSE [left EXCEPT !.answer = CheckValidity(v.credential.attestation, onChain)]

LEMMA SignerAsked ==
    ASSUME NEW v, NEW moments, Verifying(v, moments), \A m \in moments : MomentOK(m),
           "key" \in v.todo, NEW m \in moments, NEW gone \in BOOLEAN, gone <=> m.deleted
    PROVE  Verifying(KeyAnswer(v, m.did, gone), moments)
  <1>1. PICK A, uri, key, c :
           /\ Verifies(v, A, uri, key, c)
           /\ v.kind = "credential" => CredentialVerifies(v, moments)
           /\ v.kind = "vc" => SuitesVerify(v, key, moments)
    BY DEF Verifying
  <1> DEFINE found == ResolveKey(uri, m.did, gone)
             signed == VerifySignature(v.credential.request, ResolveDoc(uri, m.did, gone))
             rest == v.todo \ {"key"}
             left == Updated(v, v.key, v.onChain, v.answer, rest)
             met == Updated(v, found, v.onChain, v.answer, rest)
             stopped == Updated(v, v.key, v.onChain, v.answer, {})
  <1>2. /\ SignerUri(v) = uri /\ Signs(uri, key)
        /\ v.credential.request = RequestWith(A, A, Signing(uri, key, c))
        /\ SignerAt(m, v) <=> SignerIn(v.kind, uri, m.did, m.deleted)
    BY <1>1, SignerOf DEF Verifies
  <1>3. DidOK(m.did) /\ (gone => m.did = Absent)
    BY DEF MomentOK
  <1>4. /\ [v EXCEPT !.todo = @ \ {"key"}] = left
        /\ [v EXCEPT !.todo = {}] = stopped
        /\ [left EXCEPT !.key = found] = met
    BY <1>1, TodoUpdated, KeyUpdated
  <1>5. /\ rest \in SUBSET {"key", "attestation"} /\ {} \in SUBSET {"key", "attestation"}
        /\ "key" \notin rest /\ ~ v.answer /\ v.answer \in BOOLEAN
        /\ "attestation" \in rest <=> "attestation" \in v.todo
    BY <1>1 DEF Verifies
  <1>6. SignerIn(v.kind, uri, m.did, m.deleted) <=> SignerIn(v.kind, uri, m.did, gone)
    BY DEF SignerIn
  <1> HIDE DEF rest
  <1>7. ASSUME NEW k, NEW t \in SUBSET {"key", "attestation"}
        PROVE  LET w == Updated(v, k, v.onChain, v.answer, t)
               IN  /\ Verifies(w, A, uri, key, c)
                   /\ w.kind = v.kind /\ w.challenge = v.challenge /\ w.credential = v.credential
                   /\ w.key = k /\ w.onChain = v.onChain /\ (w.answer <=> v.answer) /\ w.todo = t
                   /\ ChallengeMet(w) <=> ChallengeMet(v)
                   /\ \A n : /\ SignerAt(n, w) <=> SignerAt(n, v)
                             /\ AttestedAt(n, w) <=> AttestedAt(n, v)
    BY <1>1, <1>5, Updates
  <1>8. CASE v.kind = "vc"
    <2>1. /\ SignerIn("vc", uri, m.did, gone) =>
                found # Absent /\ found.publicKey = key /\ found.type \in VerificationKeyType
          /\ ~ SignerIn("vc", uri, m.did, gone) => found = Absent
      BY <1>2, <1>3, SignerKey
    <2> HIDE DEF found
    <2>2. /\ Verifies(met, A, uri, key, c)
          /\ met.kind = v.kind /\ met.challenge = v.challenge
          /\ met.key = found /\ met.onChain = v.onChain /\ (met.answer <=> v.answer) /\ met.todo = rest
          /\ \A n : SignerAt(n, met) <=> SignerAt(n, v)
      BY <1>5, <1>7
    <2> HIDE DEF met
    <2>3. SignerAt(m, met) <=> met.key # Absent
      BY <1>2, <1>6, <1>8, <2>1, <2>2
    <2>4. SuitesVerify(met, key, moments)
      BY <1>1, <1>5, <1>8, <2>1, <2>2, <2>3 DEF SuitesVerify
    <2>5. Verifying(Answered(met), moments)
      BY <1>5, <1>8, <2>2, <2>4, SuitesLeft
    <2>6. KeyAnswer(v, m.did, gone) = Answered([left EXCEPT !.key = found])
      BY <1>2, <1>4, <1>8 DEF KeyAnswer, found
    <2> QED BY <1>4, <2>5, <2>6
  <1>9. CASE v.kind = "credential"
    <2>1. signed <=> SignerIn("credential", uri, m.did, gone)
      BY <1>2, <1>3, SignerVerified
    <2> HIDE DEF signed
    <2>2. signed <=> SignerAt(m, v)
      BY <1>2, <1>6, <1>9, <2>1
    <2>3. ChallengeMet(v) /\ "attestation" \in v.todo
      BY <1>1, <1>9 DEF CredentialVerifies
    <2>4. CASE signed
      <3>1. /\ Verifies(left, A, uri, key, c) /\ left.kind = v.kind /\ left.todo = rest
            /\ ChallengeMet(left) <=> ChallengeMet(v)
            /\ \A n : SignerAt(n, left) <=> SignerAt(n, v)
        BY <1>5, <1>7
      <3> HIDE DEF left
      <3>2. CredentialVerifies(left, moments)
        BY <1>5, <2>2, <2>3, <2>4, <3>1 DEF CredentialVerifies
      <3>3. Verifying(left, moments)
        BY <1>5, <1>9, <2>3, <3>1, <3>2 DEF Verifying
      <3>4. KeyAnswer(v, m.did, gone) = left
        BY <1>2, <1>4, <1>9, <2>4 DEF KeyAnswer, signed
      <3> QED BY <3>3, <3>4
    <2>5. CASE ~ signed
      <3>1. /\ Verifies(stopped, A, uri, key, c) /\ stopped.kind = v.kind /\ stopped.todo = {}
            /\ (stopped.answer <=> v.answer)
            /\ \A n : SignerAt(n, stopped) <=> SignerAt(n, v)
        BY <1>5, <1>7
      <3> HIDE DEF stopped
      <3>2. Right(stopped, moments)
        BY <1>5, <2>2, <2>5, <3>1 DEF Right
      <3>3. CredentialVerifies(stopped, moments)
        BY <3>1 DEF CredentialVerifies
      <3>4. Verifying(stopped, moments)
        BY <1>9, <3>1, <3>2, <3>3 DEF Verifying
      <3>5. KeyAnswer(v, m.did, gone) = stopped
        BY <1>2, <1>4, <1>9, <2>5 DEF KeyAnswer, signed
      <3> QED BY <3>4, <3>5
    <2> QED BY <2>4, <2>5
  <1> QED BY <1>1, <1>8, <1>9 DEF Verifies

LEMMA AttestationAsked ==
    ASSUME NEW v, NEW moments, Verifying(v, moments), \A m \in moments : MomentOK(m),
           "attestation" \in v.todo, v.kind = "credential" => "key" \notin v.todo,
           NEW m \in moments
    PROVE  Verifying(AttestationAnswer(v, m.attested), moments)
  <1>1. PICK A, uri, key, c :
           /\ Verifies(v, A, uri, key, c)
           /\ v.kind = "credential" => CredentialVerifies(v, moments)
           /\ v.kind = "vc" => SuitesVerify(v, key, moments)
    BY DEF Verifying
  <1> DEFINE onChain == DecodeAttestation(m.attested, Root)
             rest == v.todo \ {"attestation"}
             left == Updated(v, v.key, onChain, v.answer, rest)
             valid == CheckValidity(Attested, onChain)
             done == Updated(v, v.key, onChain, valid, rest)
  <1>2. /\ v.credential.attestation = Attested /\ v.credential.attestation.claimHash = Root
        /\ AttestedAt(m, v) <=> AttestedIn(m.attested)
    BY <1>1, SignerOf, AttestedIs
  <1>3. valid <=> AttestedIn(m.attested)
    BY AttestationVerified DEF MomentOK
  <1>4. valid \in BOOLEAN
    BY DEF CheckValidity
  <1>5. /\ rest \in SUBSET {"key", "attestation"} /\ "attestation" \notin rest
        /\ "key" \in rest <=> "key" \in v.todo
        /\ ~ v.answer /\ v.answer \in BOOLEAN
        /\ v.kind = "credential" => rest = {}
    BY <1>1 DEF Verifies
  <1> HIDE DEF valid, onChain, rest
  <1>6. [v EXCEPT !.todo = @ \ {"attestation"}, !.onChain = onChain] = left
    BY <1>1, OnChainUpdated, Zenon DEF rest
  <1>7. [left EXCEPT !.answer = valid] = done
    BY <1>1, <1>4, AnswerUpdated
  <1>8. ASSUME NEW b \in BOOLEAN, rest # {} => ~ b
        PROVE  LET w == Updated(v, v.key, onChain, b, rest)
               IN  /\ Verifies(w, A, uri, key, c)
                   /\ w.kind = v.kind /\ w.challenge = v.challenge /\ w.credential = v.credential
                   /\ w.key = v.key /\ w.onChain = onChain /\ (w.answer <=> b) /\ w.todo = rest
                   /\ ChallengeMet(w) <=> ChallengeMet(v)
                   /\ \A n : /\ SignerAt(n, w) <=> SignerAt(n, v)
                             /\ AttestedAt(n, w) <=> AttestedAt(n, v)
    BY <1>1, <1>5, <1>8, Updates
  <1>9. CASE v.kind = "vc"
    <2>1. /\ Verifies(left, A, uri, key, c)
          /\ left.kind = v.kind /\ left.challenge = v.challenge
          /\ left.key = v.key /\ left.onChain = onChain /\ (left.answer <=> v.answer)
          /\ left.todo = rest
          /\ \A n : SignerAt(n, left) <=> SignerAt(n, v)
      BY <1>5, <1>8
    <2> HIDE DEF left
    <2>2. \E n \in moments : left.onChain = DecodeAttestation(n.attested, Root)
      BY <2>1 DEF onChain
    <2>3. /\ v.challenge = Absent
          /\ "key" \notin v.todo =>
                /\ v.key = Absent \/ (v.key.publicKey = key /\ v.key.type \in VerificationKeyType)
                /\ \E n \in moments : SignerAt(n, v) <=> v.key # Absent
      BY <1>1, <1>9 DEF SuitesVerify
    <2>4. SuitesVerify(left, key, moments)
      BY <1>5, <2>1, <2>2, <2>3 DEF SuitesVerify
    <2>5. Verifying(Answered(left), moments)
      BY <1>5, <1>9, <2>1, <2>4, SuitesLeft
    <2>6. AttestationAnswer(v, m.attested) = Answered(left)
      BY <1>2, <1>6, <1>9 DEF AttestationAnswer, onChain
    <2> QED BY <2>5, <2>6
  <1>10. CASE v.kind = "credential"
    <2>1. ChallengeMet(v) /\ \E n \in moments : SignerAt(n, v)
      BY <1>1, <1>10 DEF CredentialVerifies
    <2>2. /\ Verifies(done, A, uri, key, c) /\ done.kind = v.kind /\ done.todo = {}
          /\ (done.answer <=> valid)
          /\ ChallengeMet(done) <=> ChallengeMet(v)
          /\ \A n : /\ SignerAt(n, done) <=> SignerAt(n, v)
                    /\ AttestedAt(n, done) <=> AttestedAt(n, v)
      BY <1>4, <1>5, <1>8, <1>10
    <2> HIDE DEF done
    <2>3. Right(done, moments)
      BY <1>2, <1>3, <2>1, <2>2 DEF Right
    <2>4. CredentialVerifies(done, moments)
      BY <2>2 DEF CredentialVerifies
    <2>5. Verifying(done, moments)
      BY <1>10, <2>2, <2>3, <2>4 DEF Verifying
    <2>6. AttestationAnswer(v, m.attested) = [left EXCEPT !.answer = valid]
      BY <1>2, <1>6, <1>10 DEF AttestationAnswer, onChain, valid
    <2> QED BY <1>7, <2>5, <2>6
  <1> QED BY <1>1, <1>9, <1>10 DEF Verifies

(* What a step does to the verification.                                    *)
LEMMA VerifySteps ==
    ASSUME [ExchangeNext]_exchangeVars
    PROVE  \/ UNCHANGED <<verifying, seen, did, deleted, attested>>
           \/ UNCHANGED verifying /\ Observe
           \/ \E kind \in {"credential", "vc"}, c \in Challenge : Verify(kind, c)
           \/ ResolveSigner \/ QueryAttestation
  <1> USE DEF Alone, own, mail, chain
  <1>1. CASE UNCHANGED exchangeVars
    BY <1>1 DEF exchangeVars
  <1>2. ASSUME ExchangeNext,
               ~ \E kind \in {"credential", "vc"}, c \in Challenge : Verify(kind, c),
               ~ ResolveSigner, ~ QueryAttestation
        PROVE  \/ UNCHANGED <<verifying, seen, did, deleted, attested>>
               \/ UNCHANGED verifying /\ Observe
    <2>1. ASSUME Migrate \/ ReplaceKey \/ Delete \/ AttestationChanges \/ Attest
          PROVE  UNCHANGED verifying /\ Observe
      BY <2>1 DEF Migrate, ReplaceKey, Delete, AttestationChanges, Attest, Transaction
    <2>2. ASSUME Refresh \/ Compose
          PROVE  UNCHANGED <<verifying, seen, did, deleted, attested>>
      BY <2>2 DEF Refresh, Compose
    <2>3. \A c : SignWithDidKey(c) => UNCHANGED <<verifying, seen, did, deleted, attested>>
      BY DEF SignWithDidKey
    <2>4. \A s : SignatureMade(s) => UNCHANGED <<verifying, seen, did, deleted, attested>>
      BY DEF SignatureMade
    <2>5. \A p : HideProperties(p) => UNCHANGED <<verifying, seen, did, deleted, attested>>
      BY DEF HideProperties
    <2>6. \A s, c : CreatePresentation(s, c) => UNCHANGED <<verifying, seen, did, deleted, attested>>
      BY DEF CreatePresentation
    <2>7. \A p : PresentationMade(p) => UNCHANGED <<verifying, seen, did, deleted, attested>>
      BY DEF PresentationMade
    <2>8. \A from, to, keyUri, body :
             Send(from, to, keyUri, body) => UNCHANGED <<verifying, seen, did, deleted, attested>>
      BY DEF Send
    <2>9. ASSUME SendRequest \/ SendAttestation \/ SendPresentation
          PROVE  UNCHANGED <<verifying, seen, did, deleted, attested>>
      BY <2>8, <2>9 DEF SendRequest, SendAttestation, SendPresentation
    <2>10. \A e : Deliver(e) => UNCHANGED <<verifying, seen, did, deleted, attested>>
      BY DEF Deliver
    <2> QED BY <1>2, <2>1, <2>2, <2>3, <2>4, <2>5, <2>6, <2>7, <2>9, <2>10 DEF ExchangeNext
  <1> QED BY <1>1, <1>2

LEMMA VerifyInit == ExchangeInit => VerifyOK
  BY DEF ExchangeInit, VerifyOK

LEMMA AskedOf ==
    ASSUME NEW v, NEW moments, Verifying(v, moments)
    PROVE  /\ RecordOf(SignerUri(v)) = did
           /\ IsDeleted(SignerUri(v)) \in BOOLEAN /\ (IsDeleted(SignerUri(v)) <=> deleted)
           /\ v # Idle /\ v.kind \in {"credential", "vc"}
  <1>1. PICK A, uri, key, c : Verifies(v, A, uri, key, c)
    BY DEF Verifying
  <1>2. SignerUri(v) = uri /\ Signs(uri, key) /\ v.kind \in {"credential", "vc"}
    BY <1>1, SignerOf DEF Verifies
  <1>3. RecordOf(uri) = did /\ (IsDeleted(uri) <=> deleted) /\ IsDeleted(uri) \in BOOLEAN
    BY <1>2, RecordsOf DEF Signs
  <1> QED BY <1>1, <1>2, <1>3, NotIdle

LEMMA VerifyStep ==
    ASSUME ExchangeInv, ExchangeInv', VerifyOK, [ExchangeNext]_exchangeVars
    PROVE  VerifyOK'
  <1>1. MomentOK(Moment')
    <2>1. Moment'.did = did' /\ Moment'.deleted = deleted' /\ Moment'.attested = attested'
      BY DEF Moment
    <2>2. ChainOK' /\ AttestedOK'
      BY DEF ExchangeInv
    <2>3. DidOK(did') /\ deleted' \in BOOLEAN /\ (deleted' => did' = Absent)
      BY <2>2 DEF ChainOK, DidOK
    <2>4. attested' = Absent \/ StoredOK(attested')
      BY <2>2 DEF AttestedOK
    <2> QED BY <2>1, <2>3, <2>4 DEF MomentOK
  <1>2. Moment.did = did /\ Moment.deleted = deleted /\ Moment.attested = attested
    BY DEF Moment
  <1>3. CASE UNCHANGED <<verifying, seen, did, deleted, attested>>
    BY <1>3 DEF VerifyOK, Moment
  <1>4. CASE UNCHANGED verifying /\ Observe
    <2>1. seen \subseteq seen' /\ \A m \in seen' : MomentOK(m)
      BY <1>1, <1>4 DEF Observe, VerifyOK
    <2>2. verifying # Idle => Verifying(verifying, seen')
      BY <2>1, SeenGrows DEF VerifyOK
    <2>3. verifying.todo # {} => Moment' \in seen'
      BY <1>4 DEF Observe
    <2> QED BY <1>4, <2>1, <2>2, <2>3 DEF VerifyOK
  <1>5. ASSUME NEW kind \in {"credential", "vc"}, NEW c \in Challenge, Verify(kind, c)
        PROVE  VerifyOK'
    <2>1. IsPresented(shown)
      BY <1>5 DEF Verify, ExchangeInv, MailOK
    <2>2. Verifying(verifying', {Moment})
      BY <1>5, <2>1, Started DEF Verify
    <2>3. seen' = {Moment} /\ Moment' = Moment
      BY <1>5 DEF Verify, chain, Moment
    <2> QED BY <1>1, <2>2, <2>3 DEF VerifyOK
  <1>6. ASSUME ResolveSigner \/ QueryAttestation
        PROVE  /\ seen' = seen /\ Moment' = Moment
               /\ Verifying(verifying, seen) /\ \A m \in seen : MomentOK(m)
               /\ Moment \in seen
               /\ Verifying(verifying', seen') => VerifyOK'
    <2>1. seen' = seen /\ Moment' = Moment
      BY <1>6 DEF ResolveSigner, QueryAttestation, chain, Moment
    <2>2. verifying.todo # {}
      BY <1>6 DEF ResolveSigner, QueryAttestation
    <2>3. verifying # Idle
      BY <2>2 DEF Idle
    <2> QED BY <2>1, <2>2, <2>3 DEF VerifyOK
  <1>7. CASE ResolveSigner
    <2> DEFINE uri == SignerUri(verifying)  gone == IsDeleted(uri)
    <2>1. RecordOf(uri) = did /\ gone \in BOOLEAN /\ (gone <=> deleted)
      BY <1>6, <1>7, AskedOf
    <2>2. "key" \in verifying.todo
      BY <1>7 DEF ResolveSigner
    <2>3. verifying' = KeyAnswer(verifying, did, gone)
      BY <1>7, <2>1 DEF ResolveSigner, KeyAnswer
    <2> HIDE DEF gone
    <2>4. Verifying(KeyAnswer(verifying, Moment.did, gone), seen)
      BY <1>2, <1>6, <1>7, <2>1, <2>2, SignerAsked
    <2> QED BY <1>2, <1>6, <1>7, <2>3, <2>4
  <1>8. CASE QueryAttestation
    <2>1. /\ "attestation" \in verifying.todo
          /\ verifying.kind = "credential" => "key" \notin verifying.todo
      BY <1>8 DEF QueryAttestation
    <2>2. verifying' = AttestationAnswer(verifying, attested)
      BY <1>8 DEF QueryAttestation, AttestationAnswer
    <2>3. Verifying(AttestationAnswer(verifying, Moment.attested), seen)
      BY <1>6, <1>8, <2>1, AttestationAsked
    <2> QED BY <1>2, <1>6, <1>8, <2>2, <2>3
  <1> QED BY <1>3, <1>4, <1>5, <1>7, <1>8, VerifySteps

(* A verification that succeeds is right: what is shown was attested, by    *)
(* the attester named, was not revoked, and was signed by a key that was    *)
(* the claimer's, each at some moment between the call and its answer,      *)
(* for the challenge asked; one that fails has a reason that held at such   *)
(* a moment. So of a credential and of what it is exported as, whatever     *)
(* the chain does between the questions.                                    *)
THEOREM VerificationsAreRight == ExchangeSpec => []VerificationIsRight
  <1>1. VerifyOK => VerificationIsRight
    <2> SUFFICES ASSUME VerifyOK, verifying # Idle, verifying.todo = {}
                 PROVE  LET v == verifying
                            claim == v.credential.request.claim
                        IN  IF v.answer
                            THEN /\ ChallengeMet(v)
                                 /\ \E m \in seen : SignerAt(m, v)
                                 /\ \E m \in seen : AttestedAt(m, v)
                                 /\ \A a \in AttributesOf(claim) : claim.contents[a] = Contents[a]
                            ELSE \/ ~ ChallengeMet(v)
                                 \/ \E m \in seen : ~ SignerAt(m, v) \/ ~ AttestedAt(m, v)
      BY DEF VerificationIsRight
    <2>1. Right(verifying, seen)
      BY DEF VerifyOK, Verifying
    <2>2. PICK A, uri, key, c : Verifies(verifying, A, uri, key, c)
      BY DEF VerifyOK, Verifying
    <2>3. verifying.credential.request.claim = Shown(A) /\ A \in SUBSET Attribute
      BY <2>2, SignerOf, RequestIs DEF Verifies
    <2>4. \A a \in AttributesOf(Shown(A)) : Shown(A).contents[a] = Contents[a]
      BY <2>3, ShownIs
    <2> QED BY <2>1, <2>3, <2>4 DEF Right
  <1>2. ExchangeInit => ExchangeInv /\ VerifyOK
    BY ChainInit, RequestInit, VerifyInit DEF ExchangeInv
  <1>3. ExchangeInv /\ ExchangeInv' /\ VerifyOK /\ [ExchangeNext]_exchangeVars => VerifyOK'
    BY VerifyStep
  <1> QED BY <1>1, <1>2, <1>3, ExchangeInvariant, PTL DEF ExchangeSpec

-----------------------------------------------------------------------------
(* Bodies that are compressed. What fails when it is compressed fails when  *)
(* it is checked.                                                           *)

LEMMA Fails ==
    /\ \A a, b : IsError(Then(a, b)) <=> IsError(a) \/ IsError(b)
    /\ \A a, b : ~ IsError(a) => Then(a, b) = b
    /\ \A r : IsError(Check(r)) <=> IsError(r)
    /\ \A results : IsError(All(results)) <=> \E r \in results : IsError(r)
  <1>1. \A results : (\E r \in results : IsError(r)) => IsError(All(results))
    <2> TAKE results
    <2> HAVE \E r \in results : IsError(r)
    <2>1. All(results) = CHOOSE r \in results : IsError(r)
      BY DEF All
    <2> QED BY <2>1
  <1>2. \A results : (\A r \in results : ~ IsError(r)) => ~ IsError(All(results))
    BY AllValid
  <1>3. \A r : IsError(Check(r)) <=> IsError(r)
    BY Errors DEF Check
  <1>4. \A a, b : IsError(Then(a, b)) <=> IsError(a) \/ IsError(b)
    BY DEF Then
  <1>5. \A a, b : ~ IsError(a) => Then(a, b) = b
    BY DEF Then
  <1> QED BY <1>1, <1>2, <1>3, <1>4, <1>5

LEMMA CollectFails ==
    ASSUME NEW results
    PROVE  /\ IsError(Collect(results)) <=> \E i \in DOMAIN results : IsError(results[i])
           /\ ~ IsError(Collect(results)) => Collect(results) = Array(results)
  <1> DEFINE checks == {Check(results[i]) : i \in DOMAIN results}
  <1>1. (\E r \in checks : IsError(r)) <=> \E i \in DOMAIN results : IsError(results[i])
    BY Fails
  <1> HIDE DEF checks
  <1>2. IsError(Collect(results)) <=> \E r \in checks : IsError(r)
    BY Fails, Errors DEF Collect, checks
  <1>3. ~ IsError(Collect(results)) => Collect(results) = Array(results)
    BY Fails DEF Collect
  <1> QED BY <1>1, <1>2, <1>3

LEMMA ArrayOfFails ==
    ASSUME NEW parts, NEW fallible
    PROVE  /\ IsError(ArrayOf(parts, fallible)) <=> \E i \in fallible : IsError(parts[i])
           /\ ~ IsError(ArrayOf(parts, fallible)) => ArrayOf(parts, fallible) = Array(parts)
  <1> DEFINE checks == {Check(parts[i]) : i \in fallible}
  <1>1. (\E r \in checks : IsError(r)) <=> \E i \in fallible : IsError(parts[i])
    BY Fails
  <1> HIDE DEF checks
  <1>2. IsError(ArrayOf(parts, fallible)) <=> \E r \in checks : IsError(r)
    BY Fails, Errors DEF ArrayOf, checks
  <1>3. ~ IsError(ArrayOf(parts, fallible)) => ArrayOf(parts, fallible) = Array(parts)
    BY Fails DEF ArrayOf
  <1> QED BY <1>1, <1>2, <1>3

\* A body that fails to be compressed may do so.
Excused(type, c) ==
    \/ IsError(ErrorCheckMessageBody([type |-> type, content |-> c]))
    \/ type \in {"reject-attestation", "accept-credential", "reject-credential"}
    \/ c.quote # Absent /\ c.quote.cost.tax = 0
Restores(type, c) ==
    LET x == CompressContent(type, c)
    IN  IF IsError(x) THEN Excused(type, c)
        ELSE /\ DecompressContent(type, x) = SortedContent(type, c)
             /\ ~ IsError(SortedContent(type, c))

(* What there is to sort in a body.                                         *)
LEMMA NothingToSort ==
    \A c : /\ SortedContent("submit-attestation", c) = c
           /\ SortedContent("request-credential", c) = c
           /\ SortedContent("request-accept-delegation", c) = c
           /\ SortedContent("submit-accept-delegation", c) = c
           /\ SortedContent("reject-accept-delegation", c) = c
           /\ SortedContent("inform-create-delegation", c) = c
  BY DEF SortedContent, ContentIn

LEMMA SortedIs ==
    \A c : /\ SortedContent("request-terms", c) = ClaimIn(SortObj, c)
           /\ SortedContent("reject-terms", c)
                 = Holding(c, ClaimIn(SortObj, c.claim), CredentialsIn(SortObj, c.legitimations))
           /\ SortedContent("request-attestation", c)
                 = [c EXCEPT !.requestForAttestation = RequestIn(SortObj, @)]
           /\ SortedContent("submit-credential", c) = Array(CredentialsIn(SortObj, c.array))
  BY DEF SortedContent, ContentIn

LEMMA TermsHold ==
    ASSUME NEW c,
           c = [claim |-> c.claim, legitimations |-> c.legitimations,
                delegationId |-> c.delegationId],
           NEW claim, NEW legitimations
    PROVE  Holding(c, claim, legitimations)
              = [claim |-> claim, legitimations |-> legitimations,
                 delegationId |-> c.delegationId]
  <1> DEFINE one == [c EXCEPT !.claim = claim]
  <1>1. one = [claim |-> claim, legitimations |-> c.legitimations,
               delegationId |-> c.delegationId]
    OBVIOUS
  <1> HIDE DEF one
  <1>2. [one EXCEPT !.legitimations = legitimations]
           = [claim |-> claim, legitimations |-> legitimations, delegationId |-> c.delegationId]
    BY <1>1
  <1> QED BY <1>2 DEF one, Holding

LEMMA OfferedTermsHold ==
    ASSUME NEW c,
           c = [claim |-> c.claim, legitimations |-> c.legitimations,
                delegationId |-> c.delegationId, quote |-> c.quote, cTypes |-> c.cTypes],
           NEW claim, NEW legitimations
    PROVE  Holding(c, claim, legitimations)
              = [claim |-> claim, legitimations |-> legitimations,
                 delegationId |-> c.delegationId, quote |-> c.quote, cTypes |-> c.cTypes]
  <1> DEFINE one == [c EXCEPT !.claim = claim]
  <1>1. one = [claim |-> claim, legitimations |-> c.legitimations,
               delegationId |-> c.delegationId, quote |-> c.quote, cTypes |-> c.cTypes]
    OBVIOUS
  <1> HIDE DEF one
  <1>2. [one EXCEPT !.legitimations = legitimations]
           = [claim |-> claim, legitimations |-> legitimations,
              delegationId |-> c.delegationId, quote |-> c.quote, cTypes |-> c.cTypes]
    BY <1>1
  <1> QED BY <1>2 DEF one, Holding

(* The parts of bodies.                                                     *)
LEMMA ClaimRestored ==
    ASSUME NEW claim, IsClaim(claim)
    PROVE  /\ IsError(CompressClaim(claim)) <=> IsError(ClaimErrorCheck(claim))
           /\ ~ IsError(CompressClaim(claim)) =>
                 DecompressClaim(CompressClaim(claim)) = ClaimIn(SortObj, claim)
           /\ ~ IsError(ClaimIn(SortObj, claim))
  <1> DEFINE sorted == ClaimIn(SortObj, claim)
             a == Array(<<claim.cTypeHash, claim.owner, sorted.contents>>)
  <1>1. sorted = [cTypeHash |-> claim.cTypeHash, owner |-> claim.owner,
                  contents |-> sorted.contents]
    BY ClaimInIs
  <1>2. CompressClaim(claim) = Then(ClaimErrorCheck(claim), a)
    BY DEF CompressClaim
  <1> HIDE DEF sorted
  <1>3. /\ IsArray(a) /\ Len(a.array) = 3 /\ At(a, 1) = claim.cTypeHash
        /\ At(a, 2) = claim.owner /\ At(a, 3) = sorted.contents /\ ~ IsError(a)
    BY Errors DEF At, Array
  <1> HIDE DEF a
  <1>4. DecompressClaim(a) = sorted
    BY <1>1, <1>3 DEF DecompressClaim, Decompress
  <1>5. ~ IsError(sorted)
    BY <1>1 DEF IsError
  <1> QED BY <1>2, <1>3, <1>4, <1>5, Fails DEF sorted

LEMMA AttestationRestored ==
    ASSUME NEW a,
           a = [claimHash |-> a.claimHash, cTypeHash |-> a.cTypeHash,
                delegationId |-> a.delegationId, owner |-> a.owner, revoked |-> a.revoked]
    PROVE  /\ IsError(CompressAttestation(a)) <=> IsError(AttestationErrorCheck(a))
           /\ ~ IsError(CompressAttestation(a)) =>
                 DecompressAttestation(CompressAttestation(a)) = a
  <1>1. CompressAttestation(a) = Then(AttestationErrorCheck(a), CompactAttestation(a))
    BY DEF CompressAttestation, CompactAttestation
  <1>2. ~ IsError(CompactAttestation(a))
    BY Errors DEF CompactAttestation
  <1> QED BY <1>1, <1>2, Fails, DecompressAttestationIs

LEMMA SignatureRestored ==
    ASSUME NEW uri, NEW key, NEW data
    PROVE  LET s == Signed(uri, key, data)
           IN  /\ ~ IsError(CompressSignature(s))
               /\ DecompressSignature(CompressSignature(s)) = s
  <1> DEFINE s == Signed(uri, key, data)
             parts == [by |-> key, over |-> data, hex |-> TRUE]
             c == CompressSignature(s)
  <1>1. c = Array(<<parts, uri>>)
    BY DEF CompressSignature, Signed
  <1>2. parts.by = key /\ parts.over = data /\ parts.hex = TRUE
    OBVIOUS
  <1> HIDE DEF c, parts
  <1>3. ~ IsError(c) /\ At(c, 1) = parts /\ At(c, 2) = uri
    <2>1. ~ IsError(c) /\ \A i : At(c, i) = <<parts, uri>>[i]
      BY <1>1, Errors
    <2> QED BY <2>1
  <1>4. DecompressSignature(c) = [by |-> key, over |-> data, hex |-> TRUE, keyUri |-> uri]
    BY <1>2, <1>3 DEF DecompressSignature
  <1>5. s = [by |-> key, over |-> data, hex |-> TRUE, keyUri |-> uri]
    BY DEF Signed
  <1> QED BY <1>3, <1>4, <1>5 DEF c

LEMMA SchemaRestored ==
    ASSUME NEW schema, \A f \in SchemaFields : schema[f] # Absent
    PROVE  /\ ~ IsError(CompressSchema(schema))
           /\ ~ IsError(DecompressSchema(CompressSchema(schema)))
           /\ DecompressSchema(CompressSchema(schema)) = [f \in SchemaFields |-> schema[f]]
  <1> DEFINE c == CompressSchema(schema)
             items == <<schema["$id"], schema["$schema"], schema.title, schema.properties,
                        schema.type>>
  <1>1. c = Array(items)
    BY DEF CompressSchema
  <1>2. /\ ~ IsError(c) /\ IsArray(c) /\ c.array = items /\ Len(items) = 5
        /\ At(c, 1) = schema["$id"] /\ At(c, 2) = schema["$schema"] /\ At(c, 3) = schema.title
        /\ At(c, 4) = schema.properties /\ At(c, 5) = schema.type
    BY <1>1, Errors DEF Array
  <1> HIDE DEF c
  <1>3. DecompressSchema(c)
          = [f \in SchemaFields |->
               CASE f = "$id" -> At(c, 1) [] f = "$schema" -> At(c, 2) [] f = "title" -> At(c, 3)
                 [] f = "properties" -> At(c, 4) [] OTHER -> At(c, 5)]
    BY <1>2 DEF DecompressSchema, Decompress
  <1>4. \A f \in SchemaFields : DecompressSchema(c)[f] = schema[f]
    BY <1>2, <1>3 DEF SchemaFields
  <1>5. DecompressSchema(c) = [f \in SchemaFields |-> schema[f]]
    BY <1>3, <1>4
  <1>6. ~ IsError(DecompressSchema(c))
    <2>1. DOMAIN DecompressSchema(c) = SchemaFields /\ "error" \notin SchemaFields
      BY <1>5 DEF SchemaFields
    <2> QED BY <2>1 DEF IsError
  <1> QED BY <1>2, <1>5, <1>6 DEF c

LEMMA CTypeRestored ==
    ASSUME NEW ctype \in CTypes
    PROVE  /\ IsError(CompressCType(ctype)) <=> IsError(CTypeErrorCheck(ctype))
           /\ ~ IsError(CompressCType(ctype)) =>
                 DecompressCType(CompressCType(ctype)) = Stripped(ctype)
  <1> DEFINE schema == CompressSchema(ctype.schema)
             fiveOf == [f \in SchemaFields |-> ctype.schema[f]]
             parts == <<ctype.hash, ctype.owner, schema>>
             c == Array(parts)
  <1>1. /\ ctype = [hash |-> ctype.hash, owner |-> ctype.owner, schema |-> ctype.schema]
        /\ ctype.schema \in {CType.schema, Extended.schema}
    BY ExchangeAssumption DEF CTypes
  <1>2. \A f \in SchemaFields : ctype.schema[f] # Absent
    BY <1>1, ExchangeAssumption
  <1>3. /\ ~ IsError(schema) /\ ~ IsError(DecompressSchema(schema))
        /\ DecompressSchema(schema) = fiveOf
    BY <1>2, SchemaRestored
  <1>4. Stripped(ctype) = [hash |-> ctype.hash, owner |-> ctype.owner, schema |-> fiveOf]
    <2>1. Stripped(ctype) = [ctype EXCEPT !.schema = fiveOf]
      BY DEF Stripped
    <2> HIDE DEF fiveOf
    <2> QED BY <1>1, <2>1
  <1>5. CompressCType(ctype) = Then(CTypeErrorCheck(ctype), ArrayOf(parts, {3}))
    BY DEF CompressCType
  <1> HIDE DEF schema, fiveOf
  <1>6. parts[3] = schema
    OBVIOUS
  <1>7. ArrayOf(parts, {3}) = c
    <2> HIDE DEF parts
    <2> QED BY <1>3, <1>6, ArrayOfFails
  <1>8. /\ ~ IsError(c) /\ IsArray(c) /\ Len(c.array) = 3
        /\ At(c, 1) = ctype.hash /\ At(c, 2) = ctype.owner /\ At(c, 3) = schema
    BY Errors DEF Array
  <1>9. CompressCType(ctype) = Then(CTypeErrorCheck(ctype), c)
    BY <1>5, <1>7
  <1> HIDE DEF c
  <1>10. DecompressCType(c) = [hash |-> ctype.hash, owner |-> ctype.owner, schema |-> fiveOf]
    BY <1>3, <1>8, Fails DEF DecompressCType, Decompress
  <1> QED BY <1>4, <1>8, <1>9, <1>10, Fails

LEMMA CTypesRestored ==
    ASSUME NEW ctype \in CTypes
    PROVE  LET x == CompressEach(<<ctype>>, CompressCType)
           IN  /\ x # Absent
               /\ IsError(x) <=> IsError(Each(<<ctype>>, CTypeErrorCheck))
               /\ ~ IsError(x) => DecompressEach(x, DecompressCType) = <<Stripped(ctype)>>
  <1> DEFINE one == CompressCType(ctype)
             results == [i \in DOMAIN <<ctype>> |-> CompressCType(<<ctype>>[i])]
             x == CompressEach(<<ctype>>, CompressCType)
  <1>1. x = Collect(results)
    BY DEF CompressEach
  <1>2. results = <<one>>
    OBVIOUS
  <1>3. Each(<<ctype>>, CTypeErrorCheck) = All({Check(CTypeErrorCheck(ctype))})
    <2>1. {Check(CTypeErrorCheck(<<ctype>>[i])) : i \in DOMAIN <<ctype>>}
             = {Check(CTypeErrorCheck(ctype))}
      OBVIOUS
    <2> QED BY <2>1 DEF Each
  <1>4. IsError(Each(<<ctype>>, CTypeErrorCheck)) <=> IsError(one)
    BY <1>3, Fails, CTypeRestored
  <1> HIDE DEF results, one
  <1>5. DOMAIN results = {1} /\ results[1] = one
    BY <1>2
  <1>6. IsError(x) <=> IsError(one)
    BY <1>1, <1>5, CollectFails
  <1>7. ASSUME ~ IsError(x)
        PROVE  DecompressEach(x, DecompressCType) = <<Stripped(ctype)>>
    <2>1. x = Array(results)
      BY <1>1, <1>7, CollectFails
    <2>2. x.array = <<one>>
      BY <1>2, <2>1 DEF Array
    <2>3. DecompressCType(one) = Stripped(ctype)
      BY <1>6, <1>7, CTypeRestored DEF one
    <2> HIDE DEF x
    <2>4. DecompressEach(x, DecompressCType) = [i \in DOMAIN <<one>> |-> DecompressCType(<<one>>[i])]
      BY <2>2 DEF DecompressEach
    <2>5. DecompressEach(x, DecompressCType) = <<DecompressCType(one)>>
      BY <2>4
    <2> QED BY <2>3, <2>5
  <1>8. x # Absent
    BY CompressionAssumption
  <1> QED BY <1>4, <1>6, <1>7, <1>8

(* The legitimations of the request.                                        *)
LEMMA HeldDecompress ==
    ASSUME NEW compressed, NEW legitimations, legitimations \in Seq(Legitimation),
           At(compressed, 6).array
               = [i \in DOMAIN legitimations |-> CompressedLegitimation[legitimations[i]]]
    PROVE  DecompressLegitimations(compressed) = CredentialsIn(SortObj, legitimations)
  <1> DEFINE held == At(compressed, 6).array
  <1>1. /\ DOMAIN held = DOMAIN legitimations
        /\ \A i \in DOMAIN legitimations : held[i] = CompressedLegitimation[legitimations[i]]
    OBVIOUS
  <1>2. \A i \in DOMAIN legitimations : legitimations[i] \in Legitimation
    OBVIOUS
  <1> HIDE DEF held
  <1>3. \A i \in DOMAIN legitimations :
           DecompressedLegitimation[held[i]] = SortedLegitimation[legitimations[i]]
    BY <1>1, <1>2, LegitimationsDecompress
  <1>4. CredentialsIn(SortObj, legitimations)
           = [i \in DOMAIN legitimations |-> SortedLegitimation[legitimations[i]]]
    BY DEF CredentialsIn, SortedLegitimation
  <1>5. [i \in DOMAIN held |-> DecompressedLegitimation[held[i]]]
           = [i \in DOMAIN legitimations |-> SortedLegitimation[legitimations[i]]]
    BY <1>1, <1>3
  <1> QED BY <1>4, <1>5 DEF DecompressLegitimations, held

LEMMA LegitimationDecompressed ==
    ASSUME NEW l \in Legitimation
    PROVE  DecompressCredential(CompressedLegitimation[l]) = SortedLegitimation[l]
  <1>1. CompressedLegitimation[l] = CompactCredential(l, CompressedHeld(l.request))
    BY LegitimationCompressed
  <1>2. At(At(CompressedLegitimation[l], 1), 6).array = CompressedHeld(l.request)
    BY <1>1, CompactHolds
  <1>3. l.request.legitimations \in Seq(Legitimation)
    BY LegitimationAssumption
  <1>4. DecompressLegitimations(At(CompressedLegitimation[l], 1))
           = CredentialsIn(SortObj, l.request.legitimations)
    BY <1>2, <1>3, HeldDecompress DEF CompressedHeld
  <1>5. CredentialsIn(SortObj, l.request.legitimations) = RearrangedHeld(SortObj, l.request)
    BY DEF CredentialsIn, RearrangedHeld
  <1> QED BY <1>1, <1>4, <1>5, DecompressCredentialIs DEF DecompressCredential

CompactLegitimations(legitimations) ==
    Array([i \in DOMAIN legitimations |-> CompressedLegitimation[legitimations[i]]])

LEMMA LegitimationsRestored ==
    ASSUME NEW legitimations \in Seq(Legitimation)
    PROVE  LET x == CompactLegitimations(legitimations)
               sorted == CredentialsIn(SortObj, legitimations)
           IN  /\ ~ IsError(x)
               /\ CompressEach(legitimations, CompressedCredential) = x
               /\ CompressEach(legitimations, CompressCredential) = x
               /\ DecompressEach(x, DecompressedCredential) = sorted
               /\ DecompressEach(x, DecompressCredential) = sorted
  <1> DEFINE held == [i \in DOMAIN legitimations |-> CompressedLegitimation[legitimations[i]]]
             x == Array(held)
             sorted == CredentialsIn(SortObj, legitimations)
  <1>1. \A i \in DOMAIN legitimations : legitimations[i] \in Legitimation
    OBVIOUS
  <1>2. ASSUME NEW l \in Legitimation
        PROVE  /\ CompressCredential(l) = CompressedLegitimation[l]
               /\ CompressedCredential(l) = CompressedLegitimation[l]
               /\ DecompressCredential(CompressedLegitimation[l]) = SortedLegitimation[l]
               /\ DecompressedCredential(CompressedLegitimation[l]) = SortedLegitimation[l]
    <2>1. CompressCredential(l) = CompressedLegitimation[l]
      <3>1. CompressedLegitimation[l] = CompressCredentialWith(l, CompressedHeld(l.request))
        BY LegitimationsCompress DEF Compresses, CompressedHeld
      <3>2. CompressCredential(l) = CompressCredentialWith(l, CompressedHeld(l.request))
        BY DEF CompressCredential, CompressLegitimations, CompressedHeld
      <3> QED BY <3>1, <3>2
    <2>2. ~ IsArray(l)
      <3>1. l = [request |-> l.request, attestation |-> l.attestation]
        BY LegitimationAssumption
      <3>2. DOMAIN l = {"request", "attestation"}
        BY <3>1
      <3> QED BY <3>2 DEF IsArray
    <2>3. CompressedCredential(l) = CompressedLegitimation[l]
      BY <2>1, <2>2 DEF CompressedCredential
    <2>4. IsArray(CompressedLegitimation[l])
      BY LegitimationCompressed
    <2> QED BY <2>1, <2>3, <2>4, LegitimationDecompressed DEF DecompressedCredential
  <1>3. /\ DOMAIN held = DOMAIN legitimations
        /\ \A i \in DOMAIN legitimations : /\ held[i] = CompressedLegitimation[legitimations[i]]
                                           /\ ~ IsError(held[i])
    BY <1>1, LegitimationCompressed
  <1>4. held = [i \in DOMAIN legitimations |-> CompressCredential(legitimations[i])]
    BY <1>1, <1>2
  <1>5. held = [i \in DOMAIN legitimations |-> CompressedCredential(legitimations[i])]
    BY <1>1, <1>2
  <1>6. sorted = [i \in DOMAIN legitimations |-> SortedLegitimation[legitimations[i]]]
    BY DEF CredentialsIn, SortedLegitimation
  <1>7. x = CompactLegitimations(legitimations)
    BY DEF CompactLegitimations
  <1> HIDE DEF held, sorted
  <1>8. Collect(held) = x
    BY <1>3, CollectIs
  <1>9. x.array = held /\ ~ IsError(x)
    BY Errors DEF Array
  <1> HIDE DEF x
  <1>10. DecompressEach(x, DecompressedCredential) = sorted
    <2>1. DecompressEach(x, DecompressedCredential)
             = [i \in DOMAIN legitimations |-> DecompressedCredential(held[i])]
      BY <1>3, <1>9 DEF DecompressEach
    <2>2. \A i \in DOMAIN legitimations :
             DecompressedCredential(held[i]) = SortedLegitimation[legitimations[i]]
      BY <1>1, <1>2, <1>3
    <2> QED BY <1>6, <2>1, <2>2
  <1>11. DecompressEach(x, DecompressCredential) = sorted
    <2>1. DecompressEach(x, DecompressCredential)
             = [i \in DOMAIN legitimations |-> DecompressCredential(held[i])]
      BY <1>3, <1>9 DEF DecompressEach
    <2>2. \A i \in DOMAIN legitimations :
             DecompressCredential(held[i]) = SortedLegitimation[legitimations[i]]
      BY <1>1, <1>2, <1>3
    <2> QED BY <1>6, <2>1, <2>2
  <1>12. /\ CompressEach(legitimations, CompressedCredential) = x
         /\ CompressEach(legitimations, CompressCredential) = x
    BY <1>4, <1>5, <1>8 DEF CompressEach
  <1> QED BY <1>7, <1>9, <1>10, <1>11, <1>12 DEF DecompressEach, CompressEach, sorted

(* Quotes: the offer, signed by the attester, and the agreement to it.      *)
Fields == {"attesterDid", "cTypeHash", "cost", "currency", "termsAndConditions", "timeframe"}

LEMMA FieldsAre ==
    /\ DOMAIN QuoteFields = 1..6 /\ Len(QuoteFields) = 6
    /\ QuoteFields[1] = "attesterDid" /\ QuoteFields[2] = "cTypeHash" /\ QuoteFields[3] = "cost"
    /\ QuoteFields[4] = "currency" /\ QuoteFields[5] = "termsAndConditions"
    /\ QuoteFields[6] = "timeframe"
    /\ {QuoteFields[i] : i \in DOMAIN QuoteFields} = Fields
  <1>1. /\ DOMAIN QuoteFields = 1..6 /\ Len(QuoteFields) = 6
        /\ QuoteFields[1] = "attesterDid" /\ QuoteFields[2] = "cTypeHash" /\ QuoteFields[3] = "cost"
        /\ QuoteFields[4] = "currency" /\ QuoteFields[5] = "termsAndConditions"
        /\ QuoteFields[6] = "timeframe"
    BY DEF QuoteFields
  <1> HIDE DEF QuoteFields
  <1>2. \A i : i \in 1..6 <=> i \in {1, 2, 3, 4, 5, 6}
    OBVIOUS
  <1>3. {QuoteFields[i] : i \in {1, 2, 3, 4, 5, 6}} = Fields
    BY <1>1 DEF Fields
  <1>4. DOMAIN QuoteFields = {1, 2, 3, 4, 5, 6}
    BY <1>1, <1>2
  <1> QED BY <1>1, <1>3, <1>4

LEMMA WithIs ==
    ASSUME NEW quote, NEW field, NEW value
    PROVE  /\ DOMAIN With(quote, field, value) = DOMAIN quote \cup {field}
           /\ With(quote, field, value)[field] = value
           /\ \A f \in DOMAIN quote : f # field => With(quote, field, value)[f] = quote[f]
  BY DEF With

LEMMA OfferIs ==
    /\ DOMAIN Offer = Fields
    /\ Offer.attesterDid = AccountUri(Attester, Absent)
    /\ \A f \in Fields : Offer[f] # Absent
  <1>1. DOMAIN Offer = Fields
    BY ExchangeAssumption, FieldsAre DEF BasicQuote
  <1>2. \A f \in Fields : \E i \in DOMAIN QuoteFields : f = QuoteFields[i]
    BY FieldsAre
  <1>3. \A f \in Fields : Offer[f] # Absent
    BY <1>2, ExchangeAssumption
  <1>4. Offer["attesterDid"] = FullUri[Attester]
    BY DEF With, Offer
  <1> QED BY <1>1, <1>3, <1>4, AttestedIs

OfferSignature ==
    Signed(AccountUri(Attester, AuthenticationKey(Attester)), AuthenticationKey(Attester), Offer)

LEMMA SignedQuoteIs ==
    /\ SignedQuote = With(Offer, "attesterSignature", OfferSignature)
    /\ DOMAIN SignedQuote = Fields \cup {"attesterSignature"}
    /\ \A f \in Fields : SignedQuote[f] = Offer[f]
    /\ SignedQuote.attesterSignature = OfferSignature
    /\ OfferSignature # Absent /\ OfferSignature.keyUri # Absent
  <1> DEFINE k == AuthenticationKey(Attester)  e == EncryptionKey(Attester)
             store == FirstKeystore[Attester]
             offered == With(Offer, "attesterSignature", OfferSignature)
  <1>1. Attester \in Party /\ Attester \in {Attester, Verifier}
    BY DEF Party
  <1>2. FirstDetails[Attester] = FullRecord(Attester, k, e)
    BY <1>1, OthersKeys
  <1>3. store = [signing |-> {AsKey(k)}, encryption |-> {e}]
    BY <1>1, FirstKeys
  <1>4. AsKey(k) \in store.signing
    BY <1>3
  <1>5. SigningKeyOf(Attester, k) /\ EncryptionKeyFor(Attester, e)
    BY ExchangeAssumption DEF SigningKeyOf, EncryptionKeyFor
  <1> HIDE DEF store
  <1>6. SignAsDid(Offer, FirstDetails[Attester], store) = OfferSignature
    <2>1. SignAsDid(Offer, FullRecord(Attester, k, e), store) = OfferSignature
      BY <1>1, <1>4, <1>5, FullSigns DEF OfferSignature
    <2> QED BY <1>2, <2>1
  <1>7. ~ IsError(OfferSignature)
    BY DEF OfferSignature, Signed, IsError
  <1>8. FromQuoteDataAndIdentity(Offer, FirstDetails[Attester], store) = offered
    BY <1>6, <1>7, ExchangeAssumption, Fails
       DEF FromQuoteDataAndIdentity, CreateAttesterSignature
  <1>9. /\ DOMAIN offered = Fields \cup {"attesterSignature"}
        /\ \A f \in Fields : offered[f] = Offer[f]
        /\ offered["attesterSignature"] = OfferSignature
    BY OfferIs DEF With, Fields
  <1>10. BasicQuote(offered) = Offer
    <2>1. BasicQuote(offered) = [f \in Fields |-> offered[f]]
      BY FieldsAre DEF BasicQuote
    <2>2. Offer = [f \in Fields |-> Offer[f]]
      BY ExchangeAssumption, FieldsAre DEF BasicQuote
    <2> HIDE DEF offered
    <2> QED BY <1>9, <2>1, <2>2
  <1>11. FromAttesterSignedInput(offered) = offered
    <2>1. offered.attesterSignature = OfferSignature
      BY <1>9
    <2>2. FromAttesterSignedInput(offered)
             = IF ~ IsQuote(BasicQuote(offered)) THEN Error("ERROR_QUOTE_MALFORMED")
               ELSE With(BasicQuote(offered), "attesterSignature", offered.attesterSignature)
      BY DEF FromAttesterSignedInput
    <2>3. IsQuote(BasicQuote(offered))
      BY <1>10, ExchangeAssumption
    <2> QED BY <1>10, <2>1, <2>2, <2>3
  <1>12. SignedQuote = offered
    BY <1>8, <1>11 DEF SignedQuote, store
  <1>13. OfferSignature # Absent /\ OfferSignature.keyUri # Absent
    <2>1. k \in PublicKey /\ k \in KeyId
      BY <1>1, Keys DEF KeyId
    <2>2. AccountUri(Attester, k) \in Uri
      BY <1>1, <2>1, UrisTyped
    <2>3. AccountUri(Attester, k) # Absent
      BY <2>2, NoObject
    <2>4. OfferSignature \in QuoteSignature(Offer)
      BY <2>1, <2>2 DEF OfferSignature, Signed, QuoteSignature
    <2>5. OfferSignature.keyUri = AccountUri(Attester, k)
      BY DEF OfferSignature, Signed
    <2> QED BY <2>3, <2>4, <2>5, CompressionAssumption
  <1> HIDE DEF offered
  <1> QED BY <1>9, <1>12, <1>13 DEF offered

(* What a quote is compressed to, and its parts.                            *)
CompactCost == Array(<<Offer.cost.gross, Offer.cost.net, Offer.cost.tax>>)
QuoteParts ==
    <<Offer.attesterDid, Offer.cTypeHash, CompactCost, Offer.currency,
      Offer.termsAndConditions, Offer.timeframe>>

LEMMA CostRestored ==
    /\ CompressCost(Offer.cost) = CompactCost /\ ~ IsError(CompactCost)
    /\ DecompressCost(CompactCost) = Offer.cost /\ ~ IsError(Offer.cost)
  <1> DEFINE cost == Offer.cost
  <1>1. /\ cost = [gross |-> cost.gross, net |-> cost.net, tax |-> cost.tax]
        /\ cost.gross \notin {Absent, 0} /\ cost.net \notin {Absent, 0}
        /\ cost.tax \notin {Absent, 0}
    BY ExchangeAssumption
  <1>2. /\ IsArray(CompactCost) /\ Len(CompactCost.array) = 3 /\ ~ IsError(CompactCost)
        /\ At(CompactCost, 1) = cost.gross /\ At(CompactCost, 2) = cost.net
        /\ At(CompactCost, 3) = cost.tax
    BY Errors DEF CompactCost, Array
  <1>3. CompactCost = Array(<<cost.gross, cost.net, cost.tax>>)
    BY DEF CompactCost
  <1> HIDE DEF cost
  <1>4. CompressCost(cost) = CompactCost
    <2>1. \A part \in {"gross", "net", "tax"} : cost[part] \notin {Absent, 0}
      BY <1>1
    <2> QED BY <1>3, <2>1 DEF CompressCost
  <1>5. DecompressCost(CompactCost) = [gross |-> cost.gross, net |-> cost.net, tax |-> cost.tax]
    BY <1>2 DEF DecompressCost, Decompress
  <1>6. ~ IsError(cost)
    <2>1. DOMAIN cost = {"gross", "net", "tax"}
      BY <1>1
    <2> QED BY <2>1 DEF IsError
  <1> QED BY <1>1, <1>2, <1>4, <1>5, <1>6 DEF cost

LEMMA Joined ==
    ASSUME NEW S, NEW h \in Seq(S), NEW t \in Seq(S)
    PROVE  /\ Len(h \o t) = Len(h) + Len(t)
           /\ \A i \in 1..Len(h) : (h \o t)[i] = h[i]
           /\ \A i \in 1..Len(t) : (h \o t)[Len(h) + i] = t[i]
  OBVIOUS

LEMMA PartsJoined ==
    ASSUME NEW h, h = [i \in 1..6 |-> h[i]], NEW n \in Nat, NEW t, t = [i \in 1..n |-> t[i]]
    PROVE  /\ Len(h \o t) = 6 + n
           /\ \A i \in 1..6 : (h \o t)[i] = h[i]
           /\ \A i \in 1..n : (h \o t)[6 + i] = t[i]
  <1> DEFINE S == {h[i] : i \in 1..6} \cup {t[i] : i \in 1..n}
  <1>1. h \in Seq(S) /\ Len(h) = 6
    OBVIOUS
  <1>2. t \in Seq(S) /\ Len(t) = n
    OBVIOUS
  <1> HIDE DEF S
  <1> QED BY <1>1, <1>2, Joined

IsOffered(q) == \A f \in Fields : q[f] = Offer[f]
Tuple(t) == Len(t) \in Nat /\ t = [i \in 1..Len(t) |-> t[i]]
Compacted(x, tail) ==
    /\ ~ IsError(x) /\ IsArray(x) /\ Len(x.array) = 6 + Len(tail)
    /\ \A i \in 1..6 : At(x, i) = QuoteParts[i]
    /\ \A i \in 1..Len(tail) : At(x, 6 + i) = tail[i]

LEMMA QuoteCompressed ==
    ASSUME NEW q, IsOffered(q), NEW tail, Tuple(tail)
    PROVE  Compacted(CompressQuoteWith(q, tail), tail)
  <1> DEFINE head == [i \in DOMAIN QuoteFields |->
                        IF QuoteFields[i] = "cost" THEN CompressCost(q.cost)
                        ELSE q[QuoteFields[i]]]
             all == head \o tail
             x == CompressQuoteWith(q, tail)
             n == Len(tail)
  <1>0. /\ \A f \in Fields : q[f] = Offer[f]
        /\ n \in Nat /\ tail = [i \in 1..n |-> tail[i]]
    BY DEF IsOffered, Tuple
  <1>1. q.cost = Offer.cost /\ CompressCost(q.cost) = CompactCost
    BY <1>0, CostRestored DEF Fields
  <1>2. \A i \in 1..6 : head[i] = QuoteParts[i]
    <2>1. \A i : i \in 1..6 => i \in {1, 2, 3, 4, 5, 6}
      OBVIOUS
    <2>2. \A i \in 1..6 : head[i] = IF QuoteFields[i] = "cost" THEN CompactCost
                                    ELSE q[QuoteFields[i]]
      BY <1>1, FieldsAre
    <2> HIDE DEF head
    <2>3. /\ head[1] = Offer.attesterDid /\ head[2] = Offer.cTypeHash /\ head[3] = CompactCost
          /\ head[4] = Offer.currency /\ head[5] = Offer.termsAndConditions
          /\ head[6] = Offer.timeframe
      BY <1>0, <2>2, FieldsAre DEF Fields
    <2> QED BY <2>1, <2>3 DEF QuoteParts
  <1>3. head = [i \in 1..6 |-> head[i]]
    BY FieldsAre
  <1>4. \A i \in DOMAIN QuoteFields : q[QuoteFields[i]] # Absent
    <2>1. \A i \in DOMAIN QuoteFields : QuoteFields[i] \in Fields
      BY FieldsAre
    <2> QED BY <1>0, <2>1, OfferIs
  <1>5. x = ArrayOf(all, {3})
    BY <1>4 DEF CompressQuoteWith
  <1> HIDE DEF head
  <1>6. /\ Len(all) = 6 + n
        /\ \A i \in 1..6 : all[i] = QuoteParts[i]
        /\ \A i \in 1..n : all[6 + i] = tail[i]
    <2>1. /\ Len(head \o tail) = 6 + n
          /\ \A i \in 1..6 : (head \o tail)[i] = head[i]
          /\ \A i \in 1..n : (head \o tail)[6 + i] = tail[i]
      BY <1>0, <1>3, PartsJoined
    <2> QED BY <1>2, <2>1
  <1> HIDE DEF all, x
  <1>7. ~ IsError(all[3])
    <2>1. all[3] = QuoteParts[3]
      BY <1>6
    <2>2. QuoteParts[3] = CompactCost
      BY DEF QuoteParts
    <2> QED BY <2>1, <2>2, CostRestored
  <1>8. x = Array(all) /\ ~ IsError(x)
    BY <1>5, <1>7, ArrayOfFails, Errors
  <1>9. IsArray(x) /\ x.array = all /\ \A i : At(x, i) = all[i]
    BY <1>8, Errors DEF Array
  <1> QED BY <1>6, <1>8, <1>9 DEF x, Compacted

LEMMA NothingToPay ==
    ASSUME NEW q, q.cost.tax = 0,
           NEW tail, Tuple(tail)
    PROVE  IsError(CompressQuoteWith(q, tail))
  <1> DEFINE head == [i \in DOMAIN QuoteFields |->
                        IF QuoteFields[i] = "cost" THEN CompressCost(q.cost)
                        ELSE q[QuoteFields[i]]]
             all == head \o tail
  <1>1. IsError(CompressCost(q.cost))
    <2>1. q.cost["tax"] \in {Absent, 0}
      OBVIOUS
    <2> QED BY <2>1, Errors DEF CompressCost
  <1>2. head = [i \in 1..6 |-> head[i]] /\ head[3] = CompressCost(q.cost)
    BY FieldsAre
  <1>3. CompressQuoteWith(q, tail)
           = IF \E i \in DOMAIN QuoteFields : q[QuoteFields[i]] = Absent
             THEN Error("ERROR_COMPRESS_OBJECT") ELSE ArrayOf(all, {3})
    BY DEF CompressQuoteWith
  <1> HIDE DEF head
  <1>4. all[3] = head[3]
    BY <1>2, PartsJoined DEF Tuple
  <1> HIDE DEF all
  <1>5. IsError(ArrayOf(all, {3}))
    BY <1>1, <1>2, <1>4, ArrayOfFails
  <1> QED BY <1>3, <1>5, Errors

LEMMA QuotePartsRestored ==
    ASSUME NEW x, \A i \in 1..6 : At(x, i) = QuoteParts[i]
    PROVE  DecompressQuoteParts(x) = Offer /\ ~ IsError(DecompressCost(At(x, 3)))
  <1>1. /\ At(x, 1) = Offer.attesterDid /\ At(x, 2) = Offer.cTypeHash /\ At(x, 3) = CompactCost
        /\ At(x, 4) = Offer.currency /\ At(x, 5) = Offer.termsAndConditions
        /\ At(x, 6) = Offer.timeframe
    BY DEF QuoteParts
  <1>2. DecompressQuoteParts(x)
           = [attesterDid |-> Offer.attesterDid, cTypeHash |-> Offer.cTypeHash,
              cost |-> Offer.cost, currency |-> Offer.currency,
              termsAndConditions |-> Offer.termsAndConditions, timeframe |-> Offer.timeframe]
    BY <1>1, CostRestored DEF DecompressQuoteParts
  <1>3. Offer = [f \in Fields |-> Offer[f]]
    BY ExchangeAssumption, FieldsAre DEF BasicQuote
  <1>4. [f \in Fields |-> Offer[f]]
           = [attesterDid |-> Offer.attesterDid, cTypeHash |-> Offer.cTypeHash,
              cost |-> Offer.cost, currency |-> Offer.currency,
              termsAndConditions |-> Offer.termsAndConditions, timeframe |-> Offer.timeframe]
    BY DEF Fields
  <1> QED BY <1>1, <1>2, <1>3, <1>4, CostRestored

LEMMA SignedQuoteRestored ==
    LET x == CompressAttesterSignedQuote(SignedQuote)
    IN  x # Absent /\ ~ IsError(x) /\ DecompressAttesterSignedQuote(x) = SignedQuote
  <1> DEFINE x == CompressAttesterSignedQuote(SignedQuote)
             tail == <<CompressSignature(OfferSignature)>>
  <1>1. /\ SignedQuote.attesterSignature = OfferSignature
        /\ SignedQuote.attesterSignature.keyUri # Absent
    BY SignedQuoteIs
  <1>2. x = CompressQuoteWith(SignedQuote, tail)
    BY <1>1 DEF CompressAttesterSignedQuote
  <1>3. /\ Len(tail) = 1 /\ Tuple(tail)
        /\ tail[1] = CompressSignature(OfferSignature)
    BY DEF Tuple
  <1>4. x # Absent
    BY CompressionAssumption
  <1>5. DecompressSignature(CompressSignature(OfferSignature)) = OfferSignature
    BY SignatureRestored DEF OfferSignature
  <1> HIDE DEF tail, x
  <1>6. /\ ~ IsError(x) /\ IsArray(x) /\ Len(x.array) = 7
        /\ \A i \in 1..6 : At(x, i) = QuoteParts[i]
        /\ At(x, 7) = CompressSignature(OfferSignature)
    <2>1. IsOffered(SignedQuote)
      BY SignedQuoteIs DEF IsOffered
    <2>2. Compacted(x, tail)
      BY <1>2, <1>3, <2>1, QuoteCompressed
    <2>3. At(x, 6 + 1) = tail[1]
      BY <1>3, <2>2 DEF Compacted
    <2> QED BY <1>3, <2>2, <2>3 DEF Compacted
  <1>7. DecompressQuoteParts(x) = Offer /\ ~ IsError(DecompressCost(At(x, 3)))
    BY <1>6, QuotePartsRestored
  <1>8. DecompressAttesterSignedQuote(x) = With(Offer, "attesterSignature", OfferSignature)
    BY <1>5, <1>6, <1>7, Fails DEF DecompressAttesterSignedQuote, Decompress
  <1> QED BY <1>4, <1>6, <1>8, SignedQuoteIs DEF x

LEMMA WithCommutes ==
    ASSUME NEW quote, NEW f, NEW v, NEW g, NEW w, f # g
    PROVE  With(With(quote, f, v), g, w) = With(With(quote, g, w), f, v)
  <1> DEFINE a == With(With(quote, f, v), g, w)  b == With(With(quote, g, w), f, v)
             D == DOMAIN quote \cup {f, g}
  <1>1. a = [h \in D |-> IF h = g THEN w ELSE IF h = f THEN v ELSE quote[h]]
    BY DEF With
  <1>2. b = [h \in D |-> IF h = f THEN v ELSE IF h = g THEN w ELSE quote[h]]
    BY DEF With
  <1> HIDE DEF D
  <1> QED BY <1>1, <1>2

LEMMA AgreedKeeps ==
    ASSUME NEW q, NEW root, NEW s
    PROVE  \A f \in DOMAIN q \ {"rootHash", "claimerSignature"} : Agreed(q, root, s)[f] = q[f]
  BY DEF Agreed, With

LEMMA AgreedAdds ==
    ASSUME NEW q, NEW root, NEW s
    PROVE  Agreed(q, root, s).rootHash = root /\ Agreed(q, root, s).claimerSignature = s
  BY DEF Agreed, With

LEMMA AgreementMade ==
    ASSUME ChainOK, RequestOK, NEW root, NEW q, q.attesterDid = AccountUri(Attester, Absent)
    PROVE  \E uri, key :
              /\ Signs(uri, key)
              /\ CreateQuoteAgreement(q, root, FullUri[Attester], details, keystore)
                    = Agreed(q, root, Signed(uri, key, q))
  <1>1. PICK uri, key : Signs(uri, key) /\ SignAsDid(q, details, keystore) = Signed(uri, key, q)
    BY ClaimerSigns
  <1>2. ~ IsError(Signed(uri, key, q))
    BY DEF Signed, IsError
  <1>3. FullUri[Attester] = q.attesterDid
    BY AttestedIs
  <1>4. CreateQuoteAgreement(q, root, FullUri[Attester], details, keystore)
           = Agreed(q, root, Signed(uri, key, q))
    BY <1>1, <1>2, <1>3, Fails DEF CreateQuoteAgreement, Agreed
  <1> QED BY <1>1, <1>4

Roots == {Root} \cup {r.rootHash : r \in OtherRequests}

LEMMA AgreementRestored ==
    ASSUME NEW root \in Roots, NEW uri, NEW key, Signs(uri, key)
    PROVE  LET q == Agreed(SignedQuote, root, Signed(uri, key, SignedQuote))
               x == CompressQuoteAgreement(q)
           IN  x # Absent /\ ~ IsError(x) /\ DecompressQuoteAgreement(x) = q
  <1> DEFINE s == Signed(uri, key, SignedQuote)
             q == Agreed(SignedQuote, root, s)
             x == CompressQuoteAgreement(q)
             tail == <<CompressSignature(OfferSignature), CompressSignature(s), root>>
  <1>1. s \in QuoteSignature(SignedQuote)
    <2>1. uri \in Uri /\ key \in PublicKey
      BY Signers, Keys
    <2> QED BY <2>1 DEF Signed, QuoteSignature
  <1>2. DecompressSignature(CompressSignature(s)) = s
    BY SignatureRestored
  <1>3. DecompressSignature(CompressSignature(OfferSignature)) = OfferSignature
    BY SignatureRestored DEF OfferSignature
  <1> HIDE DEF s
  <1>4. x # Absent
    BY <1>1, CompressionAssumption DEF Roots
  <1>5. /\ \A f \in Fields : q[f] = Offer[f]
        /\ q.attesterSignature = OfferSignature /\ q.claimerSignature = s /\ q.rootHash = root
    <2>1. \A f \in Fields \cup {"attesterSignature"} :
             f \in DOMAIN SignedQuote \ {"rootHash", "claimerSignature"}
      BY SignedQuoteIs DEF Fields
    <2>2. \A f \in Fields \cup {"attesterSignature"} : q[f] = SignedQuote[f]
      <3>1. \A f \in DOMAIN SignedQuote \ {"rootHash", "claimerSignature"} :
               Agreed(SignedQuote, root, s)[f] = SignedQuote[f]
        BY AgreedKeeps
      <3> QED BY <2>1, <3>1
    <2>3. q.claimerSignature = s /\ q.rootHash = root
      BY AgreedAdds
    <2> HIDE DEF q
    <2>4. q["attesterSignature"] = OfferSignature
      BY <2>2, SignedQuoteIs
    <2> QED BY <2>2, <2>3, <2>4, SignedQuoteIs
  <1>6. q = With(With(With(Offer, "attesterSignature", OfferSignature), "claimerSignature", s),
                 "rootHash", root)
    BY SignedQuoteIs, WithCommutes DEF Agreed
  <1> HIDE DEF q
  <1>7. x = CompressQuoteWith(q, tail)
    BY <1>5, SignedQuoteIs DEF CompressQuoteAgreement
  <1>8. /\ Len(tail) = 3 /\ Tuple(tail)
        /\ tail[1] = CompressSignature(OfferSignature)
        /\ tail[2] = CompressSignature(s) /\ tail[3] = root
    BY DEF Tuple
  <1> HIDE DEF tail, x
  <1>9. /\ ~ IsError(x) /\ IsArray(x) /\ Len(x.array) = 9
        /\ \A i \in 1..6 : At(x, i) = QuoteParts[i]
        /\ At(x, 7) = CompressSignature(OfferSignature)
        /\ At(x, 8) = CompressSignature(s) /\ At(x, 9) = root
    <2>1. IsOffered(q)
      BY <1>5 DEF IsOffered
    <2>2. Compacted(x, tail)
      BY <1>7, <1>8, <2>1, QuoteCompressed
    <2>3. At(x, 6 + 1) = tail[1] /\ At(x, 6 + 2) = tail[2] /\ At(x, 6 + 3) = tail[3]
      BY <1>8, <2>2 DEF Compacted
    <2> QED BY <1>8, <2>2, <2>3 DEF Compacted
  <1>10. DecompressQuoteParts(x) = Offer /\ ~ IsError(DecompressCost(At(x, 3)))
    BY <1>9, QuotePartsRestored
  <1>11. DecompressQuoteAgreement(x) = q
    BY <1>2, <1>3, <1>6, <1>9, <1>10, Fails DEF DecompressQuoteAgreement, Decompress
  <1> QED BY <1>4, <1>9, <1>11 DEF x, q, s

(* What asks for nothing cannot be compressed, and is excused.              *)
TaxFree == [SignedQuote EXCEPT !.cost.tax = 0]

LEMMA TaxFreeIs ==
    /\ TaxFree.cost.tax = 0
    /\ TaxFree.attesterDid = AccountUri(Attester, Absent)
    /\ SignedQuote.attesterDid = AccountUri(Attester, Absent)
    /\ DOMAIN TaxFree = DOMAIN SignedQuote
    /\ {"rootHash", "claimerSignature"} \cap DOMAIN SignedQuote = {}
    /\ "cost" \in DOMAIN SignedQuote
  <1> DEFINE cost == [SignedQuote.cost EXCEPT !.tax = 0]
  <1>1. SignedQuote.cost = Offer.cost /\ SignedQuote.attesterDid = Offer.attesterDid
    BY SignedQuoteIs DEF Fields
  <1>2. "tax" \in DOMAIN SignedQuote.cost
    <2>1. Offer.cost = [gross |-> Offer.cost.gross, net |-> Offer.cost.net, tax |-> Offer.cost.tax]
      BY ExchangeAssumption
    <2> QED BY <1>1, <2>1
  <1>3. cost.tax = 0
    BY <1>2
  <1>4. TaxFree = [SignedQuote EXCEPT !.cost = cost]
    BY DEF TaxFree
  <1> HIDE DEF cost
  <1>5. /\ "cost" \in DOMAIN SignedQuote /\ "attesterDid" \in DOMAIN SignedQuote
        /\ {"rootHash", "claimerSignature"} \cap DOMAIN SignedQuote = {}
    BY SignedQuoteIs DEF Fields
  <1>6. TaxFree.cost = cost /\ TaxFree.attesterDid = SignedQuote.attesterDid
        /\ DOMAIN TaxFree = DOMAIN SignedQuote
    BY <1>4, <1>5
  <1> QED BY <1>1, <1>3, <1>5, <1>6, OfferIs

LEMMA QuoteRestored ==
    ASSUME NEW q \in Quotes, q # Absent
    PROVE  LET x == CompressAttesterSignedQuote(q)
           IN  \/ q.cost.tax = 0 /\ IsError(x)
               \/ ~ IsError(x) /\ x # Absent /\ DecompressAttesterSignedQuote(x) = q
  <1>1. q = SignedQuote \/ q = TaxFree
    BY DEF Quotes, TaxFree
  <1>2. CASE q = SignedQuote
    BY <1>2, SignedQuoteRestored
  <1>3. CASE q = TaxFree
    <2> DEFINE tail == <<CompressSignature(q.attesterSignature)>>
    <2>1. q.cost.tax = 0
      BY <1>3, TaxFreeIs
    <2>2. Tuple(tail)
      BY DEF Tuple
    <2>3. CompressAttesterSignedQuote(q)
             = IF q.attesterSignature.keyUri = Absent THEN Error("ERROR_COMPRESS_OBJECT")
               ELSE CompressQuoteWith(q, tail)
      BY DEF CompressAttesterSignedQuote
    <2> HIDE DEF tail
    <2>4. IsError(CompressQuoteWith(q, tail))
      BY <2>1, <2>2, NothingToPay
    <2> QED BY <2>1, <2>3, <2>4, Errors
  <1> QED BY <1>1, <1>2, <1>3

LEMMA AgreementsRestored ==
    ASSUME ChainOK, RequestOK, NEW r, r.rootHash \in Roots, NEW q \in Agreements(r), q # Absent
    PROVE  LET x == CompressQuoteAgreement(q)
           IN  \/ q.cost.tax = 0 /\ IsError(x)
               \/ ~ IsError(x) /\ x # Absent /\ DecompressQuoteAgreement(x) = q
  <1>1. PICK quote \in {SignedQuote, TaxFree} :
           q = CreateQuoteAgreement(quote, r.rootHash, FullUri[Attester], details, keystore)
    BY DEF Agreements, Quotes, TaxFree
  <1>2. quote.attesterDid = AccountUri(Attester, Absent)
    BY TaxFreeIs
  <1>3. PICK uri, key : Signs(uri, key) /\ q = Agreed(quote, r.rootHash, Signed(uri, key, quote))
    BY <1>1, <1>2, AgreementMade
  <1>4. CASE quote = SignedQuote
    BY <1>3, <1>4, AgreementRestored
  <1>5. CASE quote = TaxFree
    <2> DEFINE tail == <<CompressSignature(q.attesterSignature),
                         CompressSignature(q.claimerSignature), q.rootHash>>
    <2>1. q.cost.tax = 0
      <3>1. "cost" \in DOMAIN TaxFree \ {"rootHash", "claimerSignature"}
        BY TaxFreeIs
      <3>2. q["cost"] = TaxFree["cost"]
        BY <1>3, <1>5, <3>1, AgreedKeeps
      <3> QED BY <3>2, TaxFreeIs
    <2>2. Tuple(tail)
      BY DEF Tuple
    <2>3. CompressQuoteAgreement(q)
             = IF q.attesterSignature = Absent THEN Error("ERROR_COMPRESS_OBJECT")
               ELSE CompressQuoteWith(q, tail)
      BY DEF CompressQuoteAgreement
    <2> HIDE DEF tail
    <2>4. IsError(CompressQuoteWith(q, tail))
      BY <2>1, <2>2, NothingToPay
    <2> QED BY <2>1, <2>3, <2>4, Errors
  <1> QED BY <1>4, <1>5

LEMMA RequestRestored ==
    ASSUME NEW r, IsWhole(r)
    PROVE  /\ IsError(CompressRequest(r)) <=> IsError(RequestErrorCheck(r))
           /\ ~ IsError(CompressRequest(r)) =>
                 DecompressRequest(CompressRequest(r)) = RequestIn(SortObj, r)
  <1> DEFINE ls == r.legitimations
             held == CompressLegitimations(r)
             sorted == CredentialsIn(SortObj, ls)
             claim == ClaimIn(SortObj, r.claim)
             x == CompressRequest(r)
  <1>1. held = [i \in DOMAIN ls |-> CompressedLegitimation[ls[i]]]
    BY DEF CompressLegitimations
  <1>2. ls \in Seq(Legitimation) /\ IsClaim(r.claim) /\ r = Rebuilt(r, r.claim, r.legitimations)
    BY DEF IsWhole
  <1>3. \A i \in DOMAIN held : ~ IsError(held[i])
    <2>1. \A i \in DOMAIN ls : ls[i] \in Legitimation
      BY <1>2
    <2> HIDE DEF ls
    <2> QED BY <1>1, <2>1, LegitimationCompressed
  <1>4. x = CompressRequestWith(r, held)
    BY DEF CompressRequest
  <1>5. RequestIn(SortObj, r) = Rebuilt(r, claim, sorted)
    <2>1. RequestIn(SortObj, r) = Holding(r, claim, sorted)
      BY DEF RequestIn
    <2> HIDE DEF claim, sorted
    <2> QED BY <1>2, <2>1, HoldingIs, Zenon
  <1> HIDE DEF held, x
  <1>6. CASE IsError(RequestErrorCheck(r))
    BY <1>4, <1>6, Fails DEF CompressRequestWith, x
  <1>7. CASE ~ IsError(RequestErrorCheck(r))
    <2>1. x = Compact(r, held)
      BY <1>3, <1>4, <1>7, CompressRequestIs
    <2>2. ~ IsError(x)
      BY <2>1, Errors DEF Compact
    <2>3. At(x, 6).array = held
      BY <2>1, Errors DEF Compact, Array
    <2>4. DecompressLegitimations(x) = sorted
      BY <1>1, <1>2, <2>3, HeldDecompress
    <2>5. DecompressRequestWith(Compact(r, held), sorted) = Rebuilt(r, claim, sorted)
      BY <1>2, DecompressRequestIs
    <2> QED BY <1>5, <1>7, <2>1, <2>2, <2>4, <2>5 DEF DecompressRequest, x
  <1> QED BY <1>6, <1>7

(* What bodies are composed of: the claimer's request, or another.          *)
LEMMA ComposedRequestIs ==
    ASSUME RequestOK, NEW r \in {request} \cup OtherRequests
    PROVE  /\ IsWhole(r) /\ IsWhole([r EXCEPT !.delegationId = Malformed])
           /\ r.rootHash \in Roots
           /\ ~ IsError(AttestationFromRequestAndDid(r, FullUri[Attester]))
  <1>1. IsWhole(r) /\ r.rootHash \in Roots
    <2>1. CASE r = request
      <3>1. PICK A, s : A \in SUBSET Attribute /\ request = RequestWith(A, A, s)
        BY DEF RequestOK, IsRequest
      <3>2. r = [claim |-> Shown(A), claimNonceMap |-> NoncesOf(A),
                 claimHashes |-> Root.claimHashes, claimerSignature |-> s,
                 rootHash |-> Root, legitimations |-> Legitimations,
                 delegationId |-> Delegation]
        BY <2>1, <3>1 DEF RequestWith
      <3>3. IsClaim(Shown(A))
        BY DEF IsClaim, Shown, ClaimOf
      <3>4. r.claim = Shown(A) /\ r.legitimations = Legitimations /\ r.rootHash = Root
        BY <3>2
      <3>5. r = Rebuilt(r, r.claim, r.legitimations)
        BY <3>2 DEF Rebuilt
      <3> QED BY <3>3, <3>4, <3>5, Whole DEF IsWhole, Roots
    <2>2. CASE r \in OtherRequests
      BY <2>2, ExchangeAssumption DEF IsWhole, IsClaim, Rebuilt, Roots
    <2> QED BY <2>1, <2>2
  <1>2. IsWhole([r EXCEPT !.delegationId = Malformed])
    <2> DEFINE s == [r EXCEPT !.delegationId = Malformed]
    <2>1. r = Rebuilt(r, r.claim, r.legitimations)
      BY <1>1 DEF IsWhole
    <2>2. /\ s = Rebuilt(s, s.claim, s.legitimations)
          /\ s.claim = r.claim /\ s.legitimations = r.legitimations
      BY <2>1 DEF Rebuilt
    <2> HIDE DEF s
    <2>3. IsWhole(s)
      BY <1>1, <2>2 DEF IsWhole
    <2> QED BY <2>3 DEF s
  <1>3. ~ IsError(AttestationFromRequestAndDid(r, FullUri[Attester]))
    <2>1. CASE r = request
      <3>1. AttestationFromRequestAndDid(r, FullUri[Attester]) = Attested
        BY <2>1, AttestedFrom DEF RequestOK
      <3> QED BY <3>1 DEF Attested, IsError
    <2>2. CASE r \in OtherRequests
      BY <2>2, ExchangeAssumption
    <2> QED BY <2>1, <2>2
  <1> QED BY <1>1, <1>2, <1>3

(* Bodies, type by type.                                                    *)
LEMMA TermsRequested ==
    ASSUME NEW r, IsWhole(r), NEW c \in BodyContents("request-terms", r)
    PROVE  Restores("request-terms", c)
  <1> DEFINE x == CompressContent("request-terms", c)
             body == [type |-> "request-terms", content |-> c]
  <1>1. c \in {Partial, ClaimOf(Contents), r.claim}
    BY DEF BodyContents
  <1>2. IsClaim(c)
    BY <1>1 DEF Partial, ClaimOf, IsClaim, IsWhole
  <1>3. x = CompressClaim(c)
    BY DEF CompressContent
  <1>4. DecompressContent("request-terms", x) = DecompressClaim(x)
    BY DEF DecompressContent, DecompressEach
  <1>5. ErrorCheckMessageBody(body) = ClaimErrorCheck(c)
    BY DEF ErrorCheckMessageBody
  <1> HIDE DEF x, body
  <1>6. /\ IsError(x) <=> IsError(ClaimErrorCheck(c))
        /\ ~ IsError(x) => DecompressClaim(x) = ClaimIn(SortObj, c)
        /\ ~ IsError(ClaimIn(SortObj, c))
    BY <1>2, <1>3, ClaimRestored
  <1>7. IsError(x) => Excused("request-terms", c)
    BY <1>5, <1>6 DEF Excused, body
  <1>8. SortedContent("request-terms", c) = ClaimIn(SortObj, c)
    BY SortedIs
  <1> QED BY <1>4, <1>6, <1>7, <1>8 DEF Restores, x

LEMMA AttestationSubmitted ==
    ASSUME NEW r, ~ IsError(AttestationFromRequestAndDid(r, FullUri[Attester])),
           NEW c \in BodyContents("submit-attestation", r)
    PROVE  Restores("submit-attestation", c)
  <1> DEFINE x == CompressContent("submit-attestation", c)
             body == [type |-> "submit-attestation", content |-> c]
             a == c.attestation
  <1>1. c \in {[attestation |-> b] : b \in Attestations(r)}
    BY DEF BodyContents
  <1>2. c = [attestation |-> a] /\ a \in Attestations(r)
    BY <1>1
  <1> DEFINE made == AttestationFromRequestAndDid(r, FullUri[Attester])
  <1>3. made = [claimHash |-> r.rootHash, cTypeHash |-> r.claim.cTypeHash,
                delegationId |-> r.delegationId, owner |-> FullUri[Attester],
                revoked |-> FALSE]
    BY Fails DEF AttestationFromRequestAndDid, NewAttestation
  <1>4. a \in {made, [made EXCEPT !.owner = Absent], [made EXCEPT !.delegationId = Delegation]}
    BY <1>2 DEF Attestations
  <1> HIDE DEF made
  <1> HIDE DEF a
  <1>5. a = [claimHash |-> a.claimHash, cTypeHash |-> a.cTypeHash,
             delegationId |-> a.delegationId, owner |-> a.owner, revoked |-> a.revoked]
    BY <1>3, <1>4
  <1>6. x = CompressAttestation(a)
    BY <1>2 DEF CompressContent, a
  <1>7. DecompressContent("submit-attestation", x) = [attestation |-> DecompressAttestation(x)]
    BY DEF DecompressContent, DecompressEach
  <1>8. ErrorCheckMessageBody(body) = AttestationErrorCheck(a)
    BY <1>2 DEF ErrorCheckMessageBody, a
  <1> HIDE DEF x, body
  <1>9. /\ IsError(x) <=> IsError(AttestationErrorCheck(a))
        /\ ~ IsError(x) => DecompressAttestation(x) = a
    BY <1>5, <1>6, AttestationRestored
  <1>10. IsError(x) => Excused("submit-attestation", c)
    BY <1>8, <1>9 DEF Excused, body
  <1>11. ~ IsError(c)
    BY <1>2 DEF IsError
  <1> QED BY <1>2, <1>7, <1>9, <1>10, <1>11, NothingToSort DEF Restores, x

LEMMA DelegationCreated ==
    ASSUME NEW r, NEW c \in BodyContents("inform-create-delegation", r)
    PROVE  Restores("inform-create-delegation", c)
  <1> DEFINE x == CompressContent("inform-create-delegation", c)
  <1>1. c \in {[delegationId |-> h, isPCR |-> TRUE] : h \in Hashes(r)}
    BY DEF BodyContents
  <1>2. c = [delegationId |-> c.delegationId, isPCR |-> c.isPCR]
    BY <1>1
  <1>3. x = Array(<<c.delegationId, c.isPCR>>)
    BY DEF CompressContent
  <1>4. DecompressContent("inform-create-delegation", x)
           = [delegationId |-> At(x, 1), isPCR |-> At(x, 2)]
    BY DEF DecompressContent, DecompressEach
  <1> HIDE DEF x
  <1>5. ~ IsError(x) /\ At(x, 1) = c.delegationId /\ At(x, 2) = c.isPCR
    BY <1>3, Errors
  <1>6. ~ IsError(c)
    BY <1>2 DEF IsError
  <1> QED BY <1>2, <1>4, <1>5, <1>6, NothingToSort DEF Restores, x

LEMMA DelegationDataRestored ==
    ASSUME NEW d \in DelegationData
    PROVE  /\ ~ IsError(CompressDelegationData(d)) /\ ~ IsError(d)
           /\ DecompressDelegationData(CompressDelegationData(d)) = d
  <1> DEFINE x == CompressDelegationData(d)
  <1>1. d = [account |-> d.account, id |-> d.id, parentId |-> d.parentId,
             permissions |-> d.permissions, isPCR |-> d.isPCR]
    BY DEF DelegationData
  <1>2. x = Array(<<d.account, d.id, d.parentId, d.permissions, d.isPCR>>)
    BY DEF CompressDelegationData
  <1> HIDE DEF x
  <1>3. /\ ~ IsError(x) /\ At(x, 1) = d.account /\ At(x, 2) = d.id /\ At(x, 3) = d.parentId
        /\ At(x, 4) = d.permissions /\ At(x, 5) = d.isPCR
    BY <1>2, Errors
  <1>4. DecompressDelegationData(x) = d
    BY <1>1, <1>3 DEF DecompressDelegationData
  <1>5. ~ IsError(d)
    BY <1>1 DEF IsError
  <1> QED BY <1>3, <1>4, <1>5 DEF x

LEMMA DelegationRejected ==
    ASSUME NEW r, NEW c \in BodyContents("reject-accept-delegation", r)
    PROVE  Restores("reject-accept-delegation", c)
  <1> DEFINE x == CompressContent("reject-accept-delegation", c)
  <1>1. c \in DelegationData
    BY DEF BodyContents
  <1>2. x = CompressDelegationData(c)
    BY DEF CompressContent
  <1>3. DecompressContent("reject-accept-delegation", x) = DecompressDelegationData(x)
    BY DEF DecompressContent, DecompressEach
  <1> HIDE DEF x
  <1> QED BY <1>1, <1>2, <1>3, DelegationDataRestored, NothingToSort DEF Restores, x

\* The signatures of those who delegate, and of those they delegate to.
LEMMA DelegationSignatures ==
    ASSUME ChainOK
    PROVE  \E uri, key : /\ Signature = Signed(uri, key, "delegation")
                         /\ [Signature EXCEPT !.by = OtherAccount]
                               = Signed(uri, OtherAccount, "delegation")
  <1>1. PICK uri, key : SignAsDid("delegation", details, keystore) = Signed(uri, key, "delegation")
    BY ClaimerSigns
  <1>2. Signature = Signed(uri, key, "delegation")
    BY <1>1 DEF Signature
  <1> DEFINE a == Signed(uri, key, "delegation")  b == Signed(uri, OtherAccount, "delegation")
             changed == [a EXCEPT !.by = OtherAccount]
  <1>3. /\ DOMAIN a = {"keyUri", "hex", "by", "over"} /\ a.keyUri = uri
        /\ a.over = "delegation"
        /\ b = [keyUri |-> uri, hex |-> a.hex, by |-> OtherAccount, over |-> "delegation"]
    BY DEF Signed
  <1> HIDE DEF a, b
  <1>4. changed = [f \in DOMAIN a |-> IF f = "by" THEN OtherAccount ELSE a[f]]
    OBVIOUS
  <1>5. b = [f \in {"keyUri", "hex", "by", "over"} |-> IF f = "by" THEN OtherAccount ELSE a[f]]
    BY <1>3
  <1>6. changed = b
    BY <1>3, <1>4, <1>5
  <1> QED BY <1>2, <1>6 DEF a, b

LEMMA DelegationAsked ==
    ASSUME ChainOK, NEW r, NEW c \in BodyContents("request-accept-delegation", r)
    PROVE  Restores("request-accept-delegation", c)
  <1> DEFINE x == CompressContent("request-accept-delegation", c)
             d == c.delegationData  i == c.signatures.inviter  m == c.metaData
             data == CompressDelegationData(d)  inviter == CompressSignature(i)
  <1>1. c \in {[delegationData |-> data_, signatures |-> [inviter |-> Signature],
                metaData |-> m_] : data_ \in DelegationData, m_ \in {"metadata", Malformed}}
    BY DEF BodyContents
  <1>2. c = [delegationData |-> d, signatures |-> [inviter |-> i], metaData |-> m]
        /\ d \in DelegationData /\ i = Signature
    BY <1>1
  <1>3. x = Array(<<data, inviter, m>>)
    BY DEF CompressContent
  <1>4. DecompressContent("request-accept-delegation", x)
           = [delegationData |-> DecompressDelegationData(At(x, 1)),
              signatures |-> [inviter |-> DecompressSignature(At(x, 2))],
              metaData |-> At(x, 3)]
    BY DEF DecompressContent, DecompressEach
  <1> HIDE DEF x, d, i, m
  <1>5. DecompressDelegationData(data) = d
    BY <1>2, DelegationDataRestored
  <1>6. DecompressSignature(inviter) = i
    BY <1>2, DelegationSignatures, SignatureRestored
  <1> HIDE DEF data, inviter
  <1>7. ~ IsError(x) /\ At(x, 1) = data /\ At(x, 2) = inviter /\ At(x, 3) = m
    BY <1>3, Errors
  <1>8. ~ IsError(c)
    BY <1>2 DEF IsError
  <1> QED BY <1>2, <1>4, <1>5, <1>6, <1>7, <1>8, NothingToSort DEF Restores, x

LEMMA DelegationAccepted ==
    ASSUME ChainOK, NEW r, NEW c \in BodyContents("submit-accept-delegation", r)
    PROVE  Restores("submit-accept-delegation", c)
  <1> DEFINE x == CompressContent("submit-accept-delegation", c)
             d == c.delegationData  i == c.signatures.inviter  e == c.signatures.invitee
             data == CompressDelegationData(d)  inviter == CompressSignature(i)
             invitee == CompressSignature(e)
             other == [Signature EXCEPT !.by = OtherAccount]
  <1>0. PICK uri, key : Signature = Signed(uri, key, "delegation")
                        /\ other = Signed(uri, OtherAccount, "delegation")
    BY DelegationSignatures
  <1> HIDE DEF other
  <1>1. c \in {[delegationData |-> data_, signatures |-> [inviter |-> Signature, invitee |-> other]] :
                  data_ \in DelegationData}
    BY DEF BodyContents, other
  <1>2. c = [delegationData |-> d, signatures |-> [inviter |-> i, invitee |-> e]]
        /\ d \in DelegationData /\ i = Signature /\ e = other
    BY <1>1
  <1>3. x = Array(<<data, inviter, invitee>>)
    BY DEF CompressContent
  <1>4. DecompressContent("submit-accept-delegation", x)
           = [delegationData |-> DecompressDelegationData(At(x, 1)),
              signatures |-> [inviter |-> DecompressSignature(At(x, 2)),
                              invitee |-> DecompressSignature(At(x, 3))]]
    BY DEF DecompressContent, DecompressEach
  <1> HIDE DEF x, d, i, e
  <1>5. DecompressDelegationData(data) = d
    BY <1>2, DelegationDataRestored
  <1>6. DecompressSignature(inviter) = i /\ DecompressSignature(invitee) = e
    BY <1>0, <1>2, SignatureRestored
  <1> HIDE DEF data, inviter, invitee
  <1>7. ~ IsError(x) /\ At(x, 1) = data /\ At(x, 2) = inviter /\ At(x, 3) = invitee
    BY <1>3, Errors
  <1>8. ~ IsError(c)
    BY <1>2 DEF IsError
  <1> QED BY <1>2, <1>4, <1>5, <1>6, <1>7, <1>8, NothingToSort DEF Restores, x

LEMMA CredentialsSubmitted ==
    ASSUME NEW r, IsWhole(r), NEW c \in BodyContents("submit-credential", r)
    PROVE  Restores("submit-credential", c)
  <1> DEFINE x == CompressContent("submit-credential", c)
             ls == r.legitimations
             sorted == CredentialsIn(SortObj, ls)
             z == DecompressEach(x, DecompressedCredential)
  <1>1. c = Array(ls) /\ c.array = ls
    BY DEF BodyContents, Array
  <1>2. ls \in Seq(Legitimation)
    BY DEF IsWhole
  <1>3. x = CompressEach(ls, CompressedCredential)
    BY <1>1 DEF CompressContent, CompressEach
  <1>4. DecompressContent("submit-credential", x) = Array(z)
    BY DEF DecompressContent, DecompressEach
  <1>5. SortedContent("submit-credential", c) = Array(sorted)
    BY <1>1, SortedIs
  <1>6. /\ ~ IsError(CompactLegitimations(ls))
        /\ CompressEach(ls, CompressedCredential) = CompactLegitimations(ls)
        /\ DecompressEach(CompactLegitimations(ls), DecompressedCredential) = sorted
    BY <1>2, LegitimationsRestored DEF CompressEach, DecompressEach
  <1>7. ~ IsError(x) /\ x = CompactLegitimations(ls)
    BY <1>3, <1>6 DEF CompressEach
  <1> HIDE DEF x, ls, sorted
  <1>8. z = sorted
    BY <1>6, <1>7 DEF DecompressEach
  <1>9. ~ IsError(Array(sorted))
    BY Errors
  <1> HIDE DEF z
  <1> QED BY <1>4, <1>5, <1>7, <1>8, <1>9 DEF Restores, x

LEMMA TermsRejected ==
    ASSUME NEW r, IsWhole(r), NEW c \in BodyContents("reject-terms", r)
    PROVE  Restores("reject-terms", c)
  <1> DEFINE x == CompressContent("reject-terms", c)
             body == [type |-> "reject-terms", content |-> c]
             ls == r.legitimations
             sortedClaim == ClaimIn(SortObj, r.claim)
             sorted == CredentialsIn(SortObj, ls)
             claim == CompressClaim(r.claim)
             held == CompactLegitimations(ls)
             parts == <<claim, held, c.delegationId>>
             z == DecompressEach(At(x, 2), DecompressCredential)
  <1>1. /\ c = [claim |-> r.claim, legitimations |-> ls, delegationId |-> c.delegationId]
        /\ c.claim = r.claim /\ c.legitimations = ls
    <2>1. c \in {[claim |-> r.claim, legitimations |-> r.legitimations, delegationId |-> d] :
                    d \in {Absent, Delegation, Malformed}}
      BY DEF BodyContents
    <2> QED BY <2>1
  <1>2. IsClaim(r.claim) /\ ls \in Seq(Legitimation)
    BY DEF IsWhole
  <1>3. /\ ~ IsError(held) /\ CompressEach(ls, CompressCredential) = held
        /\ DecompressEach(held, DecompressCredential) = sorted
    BY <1>2, LegitimationsRestored DEF CompressEach, DecompressEach
  <1>4. x = ArrayOf(parts, {1, 2})
    <2>1. x = ArrayOf(<<CompressClaim(c.claim), CompressEach(c.legitimations, CompressCredential),
                        c.delegationId>>, {1, 2})
      BY DEF CompressContent, CompressEach
    <2>2. CompressEach(c.legitimations, CompressCredential)
             = CompressEach(ls, CompressCredential)
      BY <1>1 DEF CompressEach
    <2> QED BY <1>1, <1>3, <2>1, <2>2
  <1>5. DecompressContent("reject-terms", x)
           = [claim |-> DecompressClaim(At(x, 1)), legitimations |-> z, delegationId |-> At(x, 3)]
    BY DEF DecompressContent, DecompressEach
  <1>6. /\ IsError(claim) <=> IsError(ClaimErrorCheck(r.claim))
        /\ ~ IsError(claim) => DecompressClaim(claim) = sortedClaim
    BY <1>2, ClaimRestored
  <1>7. IsError(claim) => IsError(ErrorCheckMessageBody(body))
    <2>1. \E rest : ErrorCheckMessageBody(body) = Then(ClaimErrorCheck(c.claim), rest)
      BY DEF ErrorCheckMessageBody, Each
    <2> HIDE DEF claim, body
    <2> QED BY <1>1, <1>6, <2>1, Fails
  <1>8. SortedContent("reject-terms", c)
           = [claim |-> sortedClaim, legitimations |-> sorted, delegationId |-> c.delegationId]
    <2>1. c = [claim |-> c.claim, legitimations |-> c.legitimations,
               delegationId |-> c.delegationId]
      BY <1>1
    <2>2. SortedContent("reject-terms", c)
             = Holding(c, ClaimIn(SortObj, c.claim), CredentialsIn(SortObj, c.legitimations))
      BY SortedIs
    <2>3. SortedContent("reject-terms", c) = Holding(c, sortedClaim, sorted)
      BY <1>1, <2>2
    <2> HIDE DEF sortedClaim, sorted
    <2> QED BY <2>1, <2>3, TermsHold
  <1> HIDE DEF x, claim, held, body, ls, sorted, sortedClaim
  <1>9. parts[1] = claim /\ parts[2] = held /\ parts[3] = c.delegationId
    OBVIOUS
  <1> HIDE DEF parts
  <1>10. /\ IsError(x) <=> IsError(claim)
         /\ ~ IsError(x) => /\ At(x, 1) = claim /\ At(x, 2) = held /\ At(x, 3) = c.delegationId
    <2>1. IsError(x) <=> IsError(parts[1]) \/ IsError(parts[2])
      BY <1>4, ArrayOfFails
    <2>2. ~ IsError(x) => x = Array(parts)
      BY <1>4, ArrayOfFails
    <2> QED BY <1>3, <1>9, <2>1, <2>2, Errors
  <1>11. ~ IsError(x) => z = sorted
    BY <1>3, <1>10 DEF DecompressEach
  <1> HIDE DEF z
  <1>12. ~ IsError(SortedContent("reject-terms", c))
    BY <1>8 DEF IsError
  <1>13. CASE IsError(x)
    BY <1>7, <1>10, <1>13 DEF Restores, Excused, x, body
  <1>14. CASE ~ IsError(x)
    <2>1. DecompressContent("reject-terms", x) = SortedContent("reject-terms", c)
      BY <1>5, <1>6, <1>8, <1>10, <1>11, <1>14
    <2> QED BY <1>12, <1>14, <2>1 DEF Restores, x
  <1> QED BY <1>13, <1>14

LEMMA CredentialAsked ==
    ASSUME NEW r, NEW c \in BodyContents("request-credential", r)
    PROVE  Restores("request-credential", c)
  <1> DEFINE x == CompressContent("request-credential", c)
             t == c.cTypes[1]
             one == Array(<<t.cTypeHash, t.trustedAttesters, t.requiredProperties>>)
             results == [i \in DOMAIN c.cTypes |->
                           Array(<<c.cTypes[i].cTypeHash, c.cTypes[i].trustedAttesters,
                                   c.cTypes[i].requiredProperties>>)]
             back == [i \in DOMAIN At(x, 1).array |->
                        [cTypeHash |-> At(At(x, 1).array[i], 1),
                         trustedAttesters |-> At(At(x, 1).array[i], 2),
                         requiredProperties |-> At(At(x, 1).array[i], 3)]]
  <1>1. c = [cTypes |-> <<t>>, challenge |-> c.challenge]
        /\ t = [cTypeHash |-> t.cTypeHash, trustedAttesters |-> t.trustedAttesters,
                requiredProperties |-> t.requiredProperties]
    <2>1. PICK h \in Hashes(r), a \in {Absent, <<FullUri[Attester]>>} :
             c = [cTypes |-> <<[cTypeHash |-> h, trustedAttesters |-> a,
                                requiredProperties |-> Absent]>>, challenge |-> "challenge"]
      BY DEF BodyContents
    <2>2. t = [cTypeHash |-> h, trustedAttesters |-> a, requiredProperties |-> Absent]
      BY <2>1
    <2>3. c.cTypes = <<t>> /\ c = [cTypes |-> c.cTypes, challenge |-> c.challenge]
      BY <2>1, <2>2
    <2>4. t = [cTypeHash |-> t.cTypeHash, trustedAttesters |-> t.trustedAttesters,
               requiredProperties |-> t.requiredProperties]
      BY <2>2
    <2> QED BY <2>3, <2>4
  <1>2. x = Array(<<Collect(results), c.challenge>>)
    BY DEF CompressContent, CompressEach
  <1>3. DecompressContent("request-credential", x) = [cTypes |-> back, challenge |-> At(x, 2)]
    BY DEF DecompressContent, DecompressEach
  <1> HIDE DEF x
  <1>4. results = <<one>>
    <2>1. DOMAIN c.cTypes = {1} /\ c.cTypes[1] = t
      BY <1>1
    <2> HIDE DEF t
    <2>2. DOMAIN results = {1} /\ results[1] = one
      BY <2>1
    <2>3. <<one>> = [i \in {1} |-> one]
      <3> HIDE DEF one
      <3> QED OBVIOUS
    <2>4. results = [i \in {1} |-> results[i]]
      BY <2>1
    <2> HIDE DEF results, one
    <2> QED BY <2>2, <2>3, <2>4
  <1>5. ~ IsError(one) /\ At(one, 1) = t.cTypeHash /\ At(one, 2) = t.trustedAttesters
        /\ At(one, 3) = t.requiredProperties
    BY Errors
  <1> HIDE DEF one, results, t
  <1>6. Collect(results) = Array(<<one>>)
    <2>1. \A i \in DOMAIN results : ~ IsError(results[i])
      BY <1>4, <1>5
    <2> QED BY <1>4, <2>1, CollectIs
  <1>7. At(x, 1).array = <<one>> /\ At(x, 2) = c.challenge /\ ~ IsError(x)
    <2>1. At(x, 1) = Array(<<one>>) /\ At(x, 2) = c.challenge /\ ~ IsError(x)
      BY <1>2, <1>6, Errors
    <2> QED BY <2>1 DEF Array
  <1>8. back = <<t>>
    <2>1. back = [i \in DOMAIN <<one>> |->
                    [cTypeHash |-> At(<<one>>[i], 1), trustedAttesters |-> At(<<one>>[i], 2),
                     requiredProperties |-> At(<<one>>[i], 3)]]
      BY <1>7
    <2>2. [cTypeHash |-> At(one, 1), trustedAttesters |-> At(one, 2),
           requiredProperties |-> At(one, 3)] = t
      BY <1>1, <1>5
    <2>3. DOMAIN back = {1} /\ back[1] = t
      BY <2>1, <2>2
    <2>4. back = [i \in {1} |-> back[i]]
      BY <2>3
    <2>5. <<t>> = [i \in {1} |-> t]
      OBVIOUS
    <2> HIDE DEF back
    <2> QED BY <2>3, <2>4, <2>5
  <1> HIDE DEF back
  <1>9. ~ IsError(c)
    BY <1>1 DEF IsError
  <1> QED BY <1>1, <1>3, <1>7, <1>8, <1>9, NothingToSort DEF Restores, x

LEMMA NoForm ==
    ASSUME NEW type \in {"error", "reject", "request-payment", "confirm-payment",
                         "reject-attestation", "accept-credential", "reject-credential"},
           NEW c
    PROVE  Restores(type, c)
  <1> DEFINE body == [type |-> type, content |-> c]
  <1>1. CompressContent(type, c) = Error("ERROR_MESSAGE_BODY_MALFORMED")
    BY DEF CompressContent, CompressEach
  <1>2. CASE type \in {"reject-attestation", "accept-credential", "reject-credential"}
    BY <1>1, <1>2, Errors DEF Restores, Excused
  <1>3. CASE type \in {"error", "reject", "request-payment", "confirm-payment"}
    <2>1. body.type = type
      OBVIOUS
    <2> HIDE DEF body
    <2>2. ErrorCheckMessageBody(body) = Error("ERROR_MESSAGE_BODY_MALFORMED")
      BY <1>3, <2>1 DEF ErrorCheckMessageBody, Each
    <2> QED BY <1>1, <2>2, Errors DEF Restores, Excused, body
  <1> QED BY <1>2, <1>3

LEMMA AttestationRequested ==
    ASSUME ChainOK, RequestOK, NEW a, IsWhole(a), a.rootHash \in Roots,
           IsWhole([a EXCEPT !.delegationId = Malformed]),
           NEW c \in BodyContents("request-attestation", a)
    PROVE  Restores("request-attestation", c)
  <1> DEFINE x == CompressContent("request-attestation", c)
             body == [type |-> "request-attestation", content |-> c]
             r == c.requestForAttestation  q == c.quote
             one == CompressRequest(r)  two == CompressQuoteAgreement(q)
             parts == <<one, Optional(q, two)>>
             fallible == {1} \cup PartOf(q, 2)
  <1>1. c = [requestForAttestation |-> r, quote |-> q]
        /\ r \in {a, [a EXCEPT !.delegationId = Malformed]} /\ q \in Agreements(a)
    <2>1. c \in {[requestForAttestation |-> r_, quote |-> q_] :
                    r_ \in {a, [a EXCEPT !.delegationId = Malformed]},
                    q_ \in Agreements(a)}
      BY DEF BodyContents
    <2> QED BY <2>1
  <1>2. x = ArrayOf(parts, fallible)
    BY DEF CompressContent, CompressEach
  <1>3. DecompressContent("request-attestation", x)
           = [requestForAttestation |-> DecompressRequest(At(x, 1)),
              quote |-> Optional(At(x, 2), DecompressQuoteAgreement(At(x, 2)))]
    BY DEF DecompressContent, DecompressEach
  <1>4. ErrorCheckMessageBody(body) = RequestErrorCheck(r)
    BY DEF ErrorCheckMessageBody, Each
  <1> HIDE DEF x, r, body
  <1>5. /\ IsError(one) <=> IsError(RequestErrorCheck(r))
        /\ ~ IsError(one) => DecompressRequest(one) = RequestIn(SortObj, r)
    BY <1>1, RequestRestored
  <1>6. q # Absent => \/ q.cost.tax = 0 /\ IsError(two)
                      \/ ~ IsError(two) /\ two # Absent /\ DecompressQuoteAgreement(two) = q
    BY <1>1, AgreementsRestored
  <1> HIDE DEF one, two
  <1>7. parts[1] = one /\ parts[2] = Optional(q, two)
    OBVIOUS
  <1> HIDE DEF parts
  <1>8. IsError(x) <=> IsError(one) \/ (q # Absent /\ IsError(two))
    <2>1. IsError(x) <=> \E i \in fallible : IsError(parts[i])
      BY <1>2, ArrayOfFails
    <2>2. CASE q = Absent
      <3>1. fallible = {1}
        BY <2>2 DEF PartOf
      <3> QED BY <1>7, <2>1, <2>2, <3>1
    <2>3. CASE q # Absent
      <3>1. fallible = {1, 2} /\ parts[2] = two
        BY <1>7, <2>3 DEF PartOf, Optional
      <3> QED BY <1>7, <2>1, <2>3, <3>1
    <2> QED BY <2>2, <2>3
  <1>9. ~ IsError(x) => At(x, 1) = one /\ At(x, 2) = Optional(q, two)
    BY <1>2, <1>7, ArrayOfFails, Errors
  <1>10. /\ SortedContent("request-attestation", c)
              = [requestForAttestation |-> RequestIn(SortObj, r), quote |-> q]
         /\ ~ IsError(SortedContent("request-attestation", c))
    <2>1. SortedContent("request-attestation", c)
             = [c EXCEPT !.requestForAttestation = RequestIn(SortObj, @)]
      BY SortedIs
    <2>2. c.requestForAttestation = r
      BY DEF r
    <2> DEFINE sorted == RequestIn(SortObj, r)
    <2>3. SortedContent("request-attestation", c) = [c EXCEPT !.requestForAttestation = sorted]
      BY <2>1, <2>2
    <2> HIDE DEF sorted, q
    <2>4. SortedContent("request-attestation", c)
             = [requestForAttestation |-> sorted, quote |-> q]
      BY <1>1, <2>3
    <2>5. ~ IsError(SortedContent("request-attestation", c))
      BY <2>4 DEF IsError
    <2> QED BY <2>4, <2>5 DEF sorted
  <1> HIDE DEF fallible
  <1>11. CASE IsError(x)
    <2>1. Excused("request-attestation", c)
      BY <1>4, <1>5, <1>6, <1>8, <1>11 DEF Excused, body
    <2> QED BY <1>11, <2>1 DEF Restores, x
  <1>12. CASE ~ IsError(x)
    <2>1. Optional(At(x, 2), DecompressQuoteAgreement(At(x, 2))) = q
      BY <1>6, <1>8, <1>9, <1>12 DEF Optional
    <2>2. DecompressRequest(At(x, 1)) = RequestIn(SortObj, r)
      BY <1>5, <1>8, <1>9, <1>12
    <2> HIDE DEF q
    <2>3. DecompressContent("request-attestation", x) = SortedContent("request-attestation", c)
      BY <1>3, <1>10, <2>1, <2>2
    <2> QED BY <1>10, <1>12, <2>3 DEF Restores, x
  <1> QED BY <1>11, <1>12

LEMMA TermsSubmitted ==
    ASSUME NEW r, IsWhole(r), NEW c \in BodyContents("submit-terms", r)
    PROVE  Restores("submit-terms", c)
  <1> DEFINE x == CompressContent("submit-terms", c)
             body == [type |-> "submit-terms", content |-> c]
             q == c.quote  t == c.cTypes  ls == r.legitimations
             sortedClaim == ClaimIn(SortObj, Partial)
             sorted == CredentialsIn(SortObj, ls)
             stripped == [i \in DOMAIN t |-> Stripped(t[i])]
             claim == CompressClaim(Partial)
             held == CompactLegitimations(ls)
             quote == CompressAttesterSignedQuote(q)
             cTypes == CompressEach(t, CompressCType)
             checked == Each(t, CTypeErrorCheck)
             parts == <<claim, held, c.delegationId, Optional(q, quote), Optional(t, cTypes)>>
             fallible == {1, 2} \cup PartOf(q, 4) \cup PartOf(t, 5)
             heldBack == DecompressEach(At(x, 2), DecompressedCredential)
             cTypesBack == DecompressEach(At(x, 5), DecompressCType)
  <1>1. IsClaim(Partial) /\ ls \in Seq(Legitimation)
    BY DEF Partial, ClaimOf, IsClaim, IsWhole
  <1>2. /\ c = [claim |-> Partial, legitimations |-> ls,
                delegationId |-> c.delegationId, quote |-> q, cTypes |-> t]
        /\ c.claim = Partial /\ c.legitimations = ls
        /\ q \in Quotes /\ t \in {Absent} \cup {<<ctype>> : ctype \in CTypes}
    <2>1. c \in {[claim |-> Partial, legitimations |-> r.legitimations,
                  delegationId |-> d, quote |-> q_, cTypes |-> t_] :
                    d \in {Absent, Delegation}, q_ \in Quotes,
                    t_ \in {Absent} \cup {<<ctype>> : ctype \in CTypes}}
      BY DEF BodyContents
    <2> QED BY <2>1
  <1>3. /\ ~ IsError(held) /\ CompressEach(ls, CompressedCredential) = held
        /\ DecompressEach(held, DecompressedCredential) = sorted
    BY <1>1, LegitimationsRestored DEF CompressEach, DecompressEach
  <1>4. x = ArrayOf(parts, fallible)
    <2>1. x = ArrayOf(<<CompressClaim(c.claim),
                        CompressEach(c.legitimations, CompressedCredential), c.delegationId,
                        Optional(q, quote), Optional(t, cTypes)>>, fallible)
      BY DEF CompressContent, CompressEach
    <2>2. CompressEach(c.legitimations, CompressedCredential)
             = CompressEach(ls, CompressedCredential)
      BY <1>2 DEF CompressEach
    <2> HIDE DEF fallible, quote, cTypes, held
    <2> QED BY <1>2, <1>3, <2>1, <2>2
  <1>5. DecompressContent("submit-terms", x)
           = [claim |-> DecompressClaim(At(x, 1)), legitimations |-> heldBack,
              delegationId |-> At(x, 3),
              quote |-> Optional(At(x, 4), DecompressAttesterSignedQuote(At(x, 4))),
              cTypes |-> Optional(At(x, 5), cTypesBack)]
    BY DEF DecompressContent, DecompressEach
  <1>6. ErrorCheckMessageBody(body)
           = Then(ClaimErrorCheck(c.claim),
             Then(Each(c.legitimations, CredentialErrorCheck),
             Then(IfGiven(c.delegationId, ValidateHash(c.delegationId)), IfGiven(t, checked))))
    BY DEF ErrorCheckMessageBody, Each
  <1>7. /\ IsError(claim) <=> IsError(ClaimErrorCheck(c.claim))
        /\ ~ IsError(claim) => DecompressClaim(claim) = sortedClaim
    BY <1>1, <1>2, ClaimRestored
  <1>8. /\ SortedContent("submit-terms", c)
             = [claim |-> sortedClaim, legitimations |-> sorted,
                delegationId |-> c.delegationId, quote |-> q,
                cTypes |-> IF t = Absent THEN Absent ELSE stripped]
        /\ ~ IsError(SortedContent("submit-terms", c))
    <2> DEFINE one == ContentIn(SortObj, "submit-terms", c)
    <2>1. SortedContent("submit-terms", c)
             = IF one.cTypes = Absent THEN one
               ELSE [one EXCEPT !.cTypes = [i \in DOMAIN @ |-> Stripped(@[i])]]
      BY DEF SortedContent
    <2>2. one = Holding(c, sortedClaim, sorted)
      BY <1>2 DEF ContentIn
    <2>3. c = [claim |-> c.claim, legitimations |-> c.legitimations,
               delegationId |-> c.delegationId, quote |-> c.quote, cTypes |-> c.cTypes]
      BY <1>2
    <2> HIDE DEF one, sortedClaim, sorted
    <2>4. one = [claim |-> sortedClaim, legitimations |-> sorted,
                 delegationId |-> c.delegationId, quote |-> q, cTypes |-> t]
      BY <2>2, <2>3, OfferedTermsHold
    <2>5. one.cTypes = t
      BY <2>4
    <2>6. SortedContent("submit-terms", c)
             = IF t = Absent THEN one ELSE [one EXCEPT !.cTypes = stripped]
      BY <2>1, <2>5
    <2> HIDE DEF stripped, t, q
    <2>7. [one EXCEPT !.cTypes = stripped]
             = [claim |-> sortedClaim, legitimations |-> sorted,
                delegationId |-> c.delegationId, quote |-> q, cTypes |-> stripped]
      BY <2>4
    <2>8. SortedContent("submit-terms", c)
             = [claim |-> sortedClaim, legitimations |-> sorted,
                delegationId |-> c.delegationId, quote |-> q,
                cTypes |-> IF t = Absent THEN Absent ELSE stripped]
      BY <2>4, <2>6, <2>7
    <2>9. ~ IsError(SortedContent("submit-terms", c))
      BY <2>8 DEF IsError
    <2> QED BY <2>8, <2>9
  <1>9. q # Absent => \/ q.cost.tax = 0 /\ IsError(quote)
                      \/ /\ ~ IsError(quote) /\ quote # Absent
                         /\ DecompressAttesterSignedQuote(quote) = q
    BY <1>2, QuoteRestored
  <1> HIDE DEF x, body, q
  <1>10. ASSUME t # Absent
         PROVE  /\ cTypes # Absent
                /\ IsError(cTypes) => IsError(checked)
                /\ ~ IsError(cTypes) /\ At(x, 5) = cTypes => cTypesBack = stripped
    <2>1. PICK ctype \in CTypes : t = <<ctype>>
      BY <1>2, <1>10
    <2>2. LET y == CompressEach(<<ctype>>, CompressCType)
          IN  /\ y # Absent
              /\ IsError(y) <=> IsError(Each(<<ctype>>, CTypeErrorCheck))
              /\ ~ IsError(y) => DecompressEach(y, DecompressCType) = <<Stripped(ctype)>>
      BY CTypesRestored
    <2>3. cTypes = CompressEach(<<ctype>>, CompressCType) /\ checked = Each(<<ctype>>, CTypeErrorCheck)
      BY <2>1 DEF CompressEach, Each
    <2>4. cTypes # Absent /\ (IsError(cTypes) => IsError(checked))
      BY <2>2, <2>3 DEF CompressEach, Each
    <2>5. ~ IsError(cTypes) => DecompressEach(cTypes, DecompressCType) = <<Stripped(ctype)>>
      BY <2>2, <2>3 DEF CompressEach, DecompressEach
    <2> HIDE DEF cTypes, t
    <2>6. At(x, 5) = cTypes => cTypesBack = DecompressEach(cTypes, DecompressCType)
      BY DEF DecompressEach
    <2>7. stripped = <<Stripped(ctype)>>
      BY <2>1
    <2> HIDE DEF stripped
    <2> QED BY <2>4, <2>5, <2>6, <2>7 DEF DecompressEach
  <1> HIDE DEF claim, held, quote, cTypes, checked, t, ls, sorted, sortedClaim, stripped
  <1>11. /\ parts[1] = claim /\ parts[2] = held /\ parts[3] = c.delegationId
         /\ parts[4] = Optional(q, quote) /\ parts[5] = Optional(t, cTypes)
    OBVIOUS
  <1>12. \A i : i \in fallible <=> \/ i \in {1, 2}
                                   \/ q # Absent /\ i = 4
                                   \/ t # Absent /\ i = 5
    BY DEF PartOf
  <1> HIDE DEF parts, fallible
  <1>13. /\ q # Absent => parts[4] = quote
         /\ t # Absent => parts[5] = cTypes
    BY <1>11 DEF Optional
  <1>14. IsError(x) <=> \/ IsError(claim)
                        \/ q # Absent /\ IsError(quote)
                        \/ t # Absent /\ IsError(cTypes)
    <2>1. IsError(x) <=> \E i \in fallible : IsError(parts[i])
      BY <1>4, ArrayOfFails
    <2> QED BY <1>3, <1>11, <1>12, <1>13, <2>1
  <1>15. ~ IsError(x) => /\ At(x, 1) = claim /\ At(x, 2) = held /\ At(x, 3) = c.delegationId
                         /\ At(x, 4) = Optional(q, quote) /\ At(x, 5) = Optional(t, cTypes)
    <2>1. ~ IsError(x) => x = Array(parts)
      BY <1>4, ArrayOfFails
    <2> QED BY <1>11, <2>1, Errors
  <1>16. CASE IsError(x)
    <2>1. IsError(claim) => IsError(ErrorCheckMessageBody(body))
      BY <1>6, <1>7, Fails
    <2>2. t # Absent /\ IsError(cTypes) => IsError(ErrorCheckMessageBody(body))
      BY <1>6, <1>10, Fails DEF IfGiven
    <2>3. q # Absent /\ IsError(quote) => q.cost.tax = 0
      BY <1>9
    <2>4. Excused("submit-terms", c)
      BY <1>14, <1>16, <2>1, <2>2, <2>3 DEF Excused, body, q
    <2> QED BY <1>16, <2>4 DEF Restores, x
  <1>17. CASE ~ IsError(x)
    <2>1. DecompressClaim(At(x, 1)) = sortedClaim
      BY <1>7, <1>14, <1>15, <1>17
    <2>2. heldBack = sorted
      BY <1>3, <1>14, <1>15, <1>17 DEF DecompressEach
    <2>3. Optional(At(x, 4), DecompressAttesterSignedQuote(At(x, 4))) = q
      BY <1>9, <1>14, <1>15, <1>17 DEF Optional
    <2>4. Optional(At(x, 5), cTypesBack) = IF t = Absent THEN Absent ELSE stripped
      <3> HIDE DEF cTypesBack
      <3> QED BY <1>10, <1>14, <1>15, <1>17 DEF Optional
    <2>5. At(x, 3) = c.delegationId
      BY <1>15, <1>17
    <2> HIDE DEF heldBack, cTypesBack
    <2>6. DecompressContent("submit-terms", x) = SortedContent("submit-terms", c)
      BY <1>5, <1>8, <2>1, <2>2, <2>3, <2>4, <2>5
    <2> QED BY <1>8, <1>17, <2>6 DEF Restores, x
  <1> QED BY <1>16, <1>17

LEMMA BodiesRestored ==
    ASSUME ChainOK, RequestOK, NEW r \in {request} \cup OtherRequests,
           NEW type \in MessageBodyType, NEW c \in BodyContents(type, r)
    PROVE  Restores(type, c)
  <1> /\ IsWhole(r) /\ IsWhole([r EXCEPT !.delegationId = Malformed]) /\ r.rootHash \in Roots
      /\ ~ IsError(AttestationFromRequestAndDid(r, FullUri[Attester]))
    BY ComposedRequestIs
  <1>1. CASE type \in {"error", "reject", "request-payment", "confirm-payment",
                       "reject-attestation", "accept-credential", "reject-credential"}
    BY <1>1, NoForm
  <1>2. CASE type \in {"request-terms", "submit-terms", "reject-terms", "request-attestation",
                       "submit-attestation"}
    BY <1>2, TermsRequested, TermsSubmitted, TermsRejected, AttestationRequested,
       AttestationSubmitted
  <1>3. CASE type \in {"request-credential", "submit-credential"}
    BY <1>3, CredentialAsked, CredentialsSubmitted
  <1>4. CASE type \in {"request-accept-delegation", "submit-accept-delegation",
                       "reject-accept-delegation", "inform-create-delegation"}
    BY <1>4, DelegationAsked, DelegationAccepted, DelegationRejected, DelegationCreated
  <1> QED BY <1>1, <1>2, <1>3, <1>4 DEF MessageBodyType

(* What comes of a body that is restored, or is excused.                    *)
LEMMA MessageRestored ==
    ASSUME NEW type, NEW c, Restores(type, c), NEW from, NEW to
    PROVE  LET body == [type |-> type, content |-> c]
               compressed == CompressMessage(body)
               message == NewMessage(compressed, from, to)
           IN  IF IsError(compressed) THEN Excused(type, c)
               ELSE ~ IsError(message) /\ message.body = [type |-> type, content |-> SortedContent(type, c)]
  <1> DEFINE body == [type |-> type, content |-> c]
             x == CompressContent(type, c)
             parts == <<type, x>>
             compressed == CompressMessage(body)
             message == NewMessage(compressed, from, to)
             back == [type |-> type, content |-> SortedContent(type, c)]
  <1>1. body.type = type /\ body.content = c
    OBVIOUS
  <1>2. compressed = ArrayOf(parts, {2})
    BY <1>1 DEF CompressMessage
  <1>3. IF IsError(x) THEN Excused(type, c)
        ELSE DecompressContent(type, x) = SortedContent(type, c) /\ ~ IsError(SortedContent(type, c))
    BY DEF Restores
  <1>4. message = [body |-> IF IsArray(compressed) THEN DecompressMessage(compressed)
                            ELSE compressed, sender |-> from, receiver |-> to]
    BY DEF NewMessage
  <1> HIDE DEF compressed, x
  <1>5. parts[1] = type /\ parts[2] = x
    OBVIOUS
  <1> HIDE DEF parts
  <1>6. IsError(compressed) <=> IsError(x)
    BY <1>2, <1>5, ArrayOfFails
  <1>7. ASSUME ~ IsError(compressed)
        PROVE  ~ IsError(message) /\ message.body = back
    <2>1. compressed = Array(parts)
      BY <1>2, <1>7, ArrayOfFails
    <2>2. IsArray(compressed) /\ At(compressed, 1) = type /\ At(compressed, 2) = x
      BY <1>5, <2>1, Errors
    <2>3. DecompressMessage(compressed) = back
      BY <1>3, <1>6, <1>7, <2>2, Fails DEF DecompressMessage, BodyOf
    <2> HIDE DEF back
    <2>4. message = [body |-> back, sender |-> from, receiver |-> to]
      BY <1>4, <2>2, <2>3
    <2> HIDE DEF message
    <2> QED BY <2>4 DEF IsError
  <1> HIDE DEF message
  <1> QED BY <1>3, <1>6, <1>7 DEF compressed, message

LEMMA ComposedStep ==
    ASSUME ExchangeInv, ComesBackSorted, [ExchangeNext]_exchangeVars
    PROVE  ComesBackSorted'
  <1>1. composed' = composed \/ Compose
    BY Steps
  <1>2. CASE composed' = composed
    BY <1>2 DEF ComesBackSorted
  <1>3. CASE Compose
    <2>1. PICK r, type, c :
             /\ r \in {request} \cup OtherRequests
             /\ type \in MessageBodyType /\ c \in BodyContents(type, r)
             /\ LET body == [type |-> type, content |-> c]
                    compressed == CompressMessage(body)
                IN  composed' =
                       [body |-> body, checked |-> ErrorCheckMessageBody(body),
                        left |-> [body EXCEPT !.content = LeftContent(type, c)],
                        message |-> IF IsError(compressed) THEN compressed
                                    ELSE NewMessage(compressed, details.uri, FullUri[Attester])]
      BY <1>3 DEF Compose
    <2>2. Restores(type, c)
      BY <2>1, BodiesRestored DEF ExchangeInv
    <2> DEFINE body == [type |-> type, content |-> c]
               back == [type |-> type, content |-> SortedContent(type, c)]
               left == [body EXCEPT !.content = LeftContent(type, c)]
               compressed == CompressMessage(body)
               message == NewMessage(compressed, details.uri, FullUri[Attester])
    <2>3. IF IsError(compressed) THEN Excused(type, c)
          ELSE ~ IsError(message) /\ message.body = back
      BY <2>2, MessageRestored
    <2>4. body.type = type /\ body.content = c
      OBVIOUS
    <2>5. Excused(type, c) =>
             \/ IsError(ErrorCheckMessageBody(body))
             \/ body.type \in {"reject-attestation", "accept-credential", "reject-credential"}
             \/ body.content.quote # Absent /\ body.content.quote.cost.tax = 0
      BY DEF Excused
    <2>6. [body EXCEPT !.content = SortedContent(body.type, @)] = back
      BY <2>4
    <2> HIDE DEF body, back, left, compressed, message
    <2>7. composed' = [body |-> body, checked |-> ErrorCheckMessageBody(body), left |-> left,
                       message |-> IF IsError(compressed) THEN compressed ELSE message]
      BY <2>1 DEF body, left, compressed, message
    <2>8. /\ composed'.body = body /\ composed'.checked = ErrorCheckMessageBody(body)
          /\ IsError(compressed) => composed'.message = compressed
          /\ ~ IsError(compressed) => composed'.message = message
      BY <2>7
    <2>9. composed'.body.type = body.type /\ composed'.body.content = body.content
      BY <2>8
    <2> QED BY <2>3, <2>5, <2>6, <2>8, <2>9 DEF ComesBackSorted
  <1> QED BY <1>1, <1>2, <1>3

(* What is made of a compressed body is that body, with the contents of its *)
(* claims sorted and its CTypes reduced to the schema's own fields, and     *)
(* nothing else changed: all types, whatever they come with, and whatever   *)
(* credentials a request holds, however deep. A body that cannot be         *)
(* compressed is one that is refused when it comes, or of a type without    *)
(* compressed form, or has a quote with no tax. That what comes back        *)
(* otherwise is refused needs the hashes to tell it apart: the runs check   *)
(* it, in WhatIsLostIsNoticed.                                              *)
THEOREM BodiesComeBackSorted == ExchangeSpec => []ComesBackSorted
  <1>1. ExchangeInit => ComesBackSorted
    BY DEF ExchangeInit, ComesBackSorted
  <1>2. ExchangeInv /\ ComesBackSorted /\ [ExchangeNext]_exchangeVars => ComesBackSorted'
    BY ComposedStep
  <1> QED BY <1>1, <1>2, ExchangeInvariant, PTL DEF ExchangeSpec

=============================================================================
