SPECIFICATION Spec
CONSTANTS
    r1 = r1
    n1 = n1
    n2 = n2
    alice = alice
    bob = bob
    ct1 = ct1
    Id <- MCId
    NoId = NoId
    Did <- MCDid
    CType <- MCCType
    NoCType = NoCType
    RootInput <- MCRootInput
    NodeInput <- MCNodeInput
    EcdsaKey <- MCEcdsaKey
    MaxKey = 1
CONSTRAINT MCSmall
INVARIANTS VerifiedIsAgreed RightfulIsStored
CHECK_DEADLOCK FALSE
