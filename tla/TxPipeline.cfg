SPECIFICATION FairSpec
CONSTANTS
    alice = alice
    c1 = c1
    c2 = c2
    Account <- MCAccount
    Call <- MCCall
    AccountOf <- MCAccountOf
    MaxReSign = 2
    NoNonce = NoNonce
    ReSigner <- MCCall
    Foreign = Foreign
    MaxForeign = 1
    MaxFaults = 2
    MaxResubmit = 1
INVARIANTS GapsExplained OneLiveTx NoSelfCollision
PROPERTIES AllExecute
CHECK_DEADLOCK FALSE
