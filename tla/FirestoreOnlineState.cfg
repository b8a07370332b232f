SPECIFICATION Spec
CONSTANTS
    Target = {s, t}
    MaxFailures = 1
    Responsive = TRUE
    MaxFaults = 3
    MaxListens = 4
INVARIANTS
    Inv
PROPERTIES
    EveryListenerHears
CHECK_DEADLOCK FALSE
