----------------------------- MODULE MCTxPipeline -----------------------------
(* An instance of TxPipeline for TLC: two callers and one account.          *)
EXTENDS TxPipeline

CONSTANTS alice, c1, c2

MCAccount == {alice}
MCCall == {c1, c2}
MCAccountOf == [c \in Call |-> alice]
=============================================================================
