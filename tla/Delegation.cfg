SPECIFICATION WalkSpec
CONSTANTS
    n1 = n1
    n2 = n2
    n3 = n3
    n4 = n4
    n5 = n5
    me = me
    other = other
    Node <- MCNode
    Root = n1
    NoNode = NoNode
    OwnerDid <- MCDid
    ThisDid = me
SYMMETRY MCSymmetry
INVARIANTS NearestFound CountCovers CountedOnce HonestRefusal
CHECK_DEADLOCK FALSE
