SPECIFICATION FairCacheSpec
CONSTANTS
    u1 = u1
    u2 = u2
    h1 = h1
    h2 = h2
    NoHandle = NoHandle
    Caller <- MCCaller
    Handle <- MCHandle
INVARIANTS NoOrphan CacheAlive
PROPERTIES CallsReturn DisconnectCloses
CHECK_DEADLOCK FALSE
