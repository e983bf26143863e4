---------------------------- MODULE MCDelegation ----------------------------
(* An instance of Delegation for TLC.                                       *)
EXTENDS Delegation, TLC

CONSTANTS n1, n2, n3, n4, n5, me, other

MCNode == {n1, n2, n3, n4, n5}
MCDid == {me, other}

(* All nodes but the root are interchangeable.                              *)
MCSymmetry == Permutations(MCNode \ {n1})
=============================================================================
