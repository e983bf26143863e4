SPECIFICATION Spec
CONSTANTS
    e1 = e1
    e2 = e2
    v1 = v1
    v2 = v2
    s1 = s1
    c1 = c1
    c2 = c2
    EncryptionKey <- MCEncryptionKey
    VerificationKey <- MCVerificationKey
    Endpoint <- MCEndpoint
    Caller <- MCCaller
    NoKey = NoKey
    MaxOps = 2
SYMMETRY MCSymmetry
INVARIANTS BatchMakesMarked DidFollowsBatch FirstIsAuthorised
CHECK_DEADLOCK FALSE
