SPECIFICATION FairSpec
CONSTANTS
    Link = {"own", "other"}
    MaxBlocks = 2
    MaxDrops = 1
INVARIANTS VerdictTruthful CleanedUp
PROPERTIES ImplementsSubmission SettlesInTheEnd
CHECK_DEADLOCK FALSE
