------------------------- MODULE MCFullDidUpdateBuilder -------------------------
(* Instances of FullDidUpdateBuilder for TLC.                               *)
EXTENDS FullDidUpdateBuilder, TLC

CONSTANTS e1, e2, v1, v2, s1, c1, c2

MCEncryptionKey == {e1, e2}
MCVerificationKey == {v1, v2}
MCEndpoint == {s1}
MCCaller == {c1, c2}

(* Concurrent callers are interchangeable, and so are verification keys.    *)
MCSymmetry == Permutations(MCCaller) \union Permutations(MCVerificationKey)
=============================================================================
