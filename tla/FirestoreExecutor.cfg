SPECIFICATION Spec
CONSTANTS
    Worker = w
    Api = {u}
    Disposer = {m, n}
    ViaClient = TRUE
    OwnedByTask = TRUE
    MaxTasks = 5
INVARIANTS
    Inv
    NothingAfterDispose
PROPERTIES
    DisposeEnds
CHECK_DEADLOCK FALSE
