SPECIFICATION FairSpec
CONSTANTS
    Link = {"own"}
    MaxBlocks = 1
    MaxDrops = 1
PROPERTIES DisconnectionSettles
CHECK_DEADLOCK FALSE
