SPECIFICATION FairSpec
CONSTANTS
    Doc = {1, 2}
    LimboTarget = {1, 2, 3, 4}
    Transforms = {TRUE}
    MaxConcurrentLimboResolutions = 1
    MaxOwn = 2
    MaxForeign = 1
    MaxFaults = 1
    FilterSettles = TRUE
INVARIANTS
    Inv
    SyncedIsServer
    PendingShown
PROPERTIES
    NeverGoesBack
    
CHECK_DEADLOCK FALSE
