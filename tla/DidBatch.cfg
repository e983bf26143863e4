SPECIFICATION Spec
CONSTANTS
    b1 = b1
    b2 = b2
    u1 = u1
    Building <- MCBuilding
    BuilderOf <- MCBuilderOf
    Caller <- MCCaller
    Extrinsic <- MCExtrinsic
    HasKey <- MCHasKey
    MaxAdded = 3
    MaxNonce = 7
    FirstNonce = 0
    Given = {1, 7}
CONSTRAINT MCTwo
SYMMETRY MCSymmetry
INVARIANTS SignedInOrder RightKey CountersDecide AtomicWhole
CHECK_DEADLOCK FALSE
