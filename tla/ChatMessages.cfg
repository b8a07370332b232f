SPECIFICATION MessagesSpec
CONSTANTS
    Device = {a, b}
    Doc = {1, 2}
    MaxQueue = 2
    MayReject = TRUE
    MayFail = TRUE
    MayKill = TRUE
INVARIANTS
    MessagesInv
    SettledShowsAll
PROPERTIES
    StoredNeverVanishes
    StoredReachesEveryScreen
