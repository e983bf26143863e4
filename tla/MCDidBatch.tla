------------------------------ MODULE MCDidBatch ------------------------------
(* Instances of DidBatch for TLC.                                           *)
EXTENDS DidBatch, FiniteSets, TLC

CONSTANTS b1, b2, u1

\* Two calls of build of one builder.
MCBuilding == {b1, b2}
MCBuilderOf(j) == "builder"
MCSymmetry == Permutations(MCBuilding)

\* Bound: two of the jobs are done, any two.
MCTwo == Cardinality({j \in Job : pc[j] # "idle"}) <= 2

MCCaller == {u1}

(* One extrinsic of each relationship, one the paying account signs, and    *)
(* one for a key the DID does not have.                                     *)
MCExtrinsic ==
    {[section |-> "attestation", method |-> "add"],
     [section |-> "web3Names", method |-> "claim"],
     [section |-> "delegation", method |-> "addDelegation"],
     [section |-> "did", method |-> "addServiceEndpoint"],
     [section |-> "did", method |-> "reclaimDeposit"],
     [section |-> "balances", method |-> "transfer"]}
MCHasKey == {"authentication", "assertionMethod"}

=============================================================================
