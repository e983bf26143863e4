--------------------------- MODULE MCAccountNonces ---------------------------
(* An instance of AccountNonces for TLC: three calls of one account.        *)
EXTENDS AccountNonces, TLC

CONSTANTS alice, c1, c2, c3

MCAccount == {alice}
MCCall == {c1, c2, c3}
MCAccountOf == [c \in MCCall |-> alice]
MCChainIndex == 0..1

(* The calls of alice are interchangeable.                                  *)
MCSymmetry == Permutations(MCCall)
=============================================================================
