--------------------------- MODULE MCApiConnection ---------------------------
(* An instance of ApiConnection for TLC.                                    *)
EXTENDS ApiConnection

CONSTANTS u1, u2, h1, h2

MCCaller == {u1, u2}
MCHandle == {h1, h2}
=============================================================================
