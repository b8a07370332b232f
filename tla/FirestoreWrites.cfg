SPECIFICATION Spec
CONSTANTS
    User = {A, B}
    FirstUser = A
    LastWrite = 3
    MaxPending = 2
    MaxFaults = 2
INVARIANTS
    Inv
    CommittedAsWritten
    AnsweredTruly
PROPERTIES
    ImplementsOutbox
    NoWriteWaitsForEver
CHECK_DEADLOCK FALSE
