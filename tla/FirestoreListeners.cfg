SPECIFICATION FairSpec
CONSTANTS
    Doc = {1}
    Listener = {plain, once}
    WithMetadata = {once}
    WaitForSync = {once}
    Value = {1, 2}
    MaxChanges = 2
INVARIANTS
    Inv
PROPERTIES
    EachIsHeard
CHECK_DEADLOCK FALSE
