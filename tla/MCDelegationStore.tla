-------------------------- MODULE MCDelegationStore --------------------------
(* An instance of DelegationStore for TLC: a root, a node below it, and one  *)
(* below that, made for the hierarchy or by mistake for its parent.         *)
EXTENDS DelegationStore

CONSTANTS r1, n1, n2, alice, bob, ct1

MCId == {r1, n1, n2}
MCDid == {alice, bob}
MCCType == {ct1}

MCRootInput == {[id |-> r1, account |-> alice, cType |-> ct1, permissions |-> <<DELEGATE>>]}

MCInput(i, h, p, a, permissions) ==
    [id |-> i, hierarchy |-> h, parent |-> p, account |-> a, permissions |-> permissions]

MCNodeInput ==
    {MCInput(n1, r1, r1, bob, <<ATTEST, DELEGATE>>), MCInput(n1, r1, r1, alice, <<ATTEST>>),
     MCInput(n2, r1, n1, bob, <<DELEGATE>>), MCInput(n2, n1, n1, bob, <<ATTEST>>),
     MCInput(n2, NoId, n1, bob, <<ATTEST>>)}

MCEcdsaKey == {<<alice, 0>>}

(* The root is not signed, two things are signed, at most two extrinsics    *)
(* are on their way, and alice keeps her key.                               *)
MCSmall ==
    /\ signature[r1] = None
    /\ Cardinality(consents) <= 2
    /\ Cardinality(txs) <= 2
    /\ key[alice] = 0
=============================================================================
