SPECIFICATION Spec
CONSTANTS
    Runs = {r1, r2}
    Stop = stop
    User = user
    UserWaits = TRUE
INVARIANTS
    Reachable
    OwnServer
PROPERTIES
    StopEnds
CHECK_DEADLOCK FALSE
