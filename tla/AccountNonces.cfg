SPECIFICATION Spec
CONSTANTS
    alice = alice
    c1 = c1
    c2 = c2
    c3 = c3
    Account <- MCAccount
    Call <- MCCall
    AccountOf <- MCAccountOf
    ChainIndex <- MCChainIndex
    MaxReSign = 1
    NoNonce = NoNonce
SYMMETRY MCSymmetry
INVARIANTS DistinctSinceReset FreshWhileQuiet
CHECK_DEADLOCK FALSE
