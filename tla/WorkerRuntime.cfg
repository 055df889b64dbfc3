SPECIFICATION Spec
CONSTANTS
    Services = {s1, s2}
    Workers = {w1, w2}
    None = None
    MaxSend = 3
    MaxCycles = 2
    MaxBatch = 2
    MaxStall = 2
INVARIANTS
    TypeOK
    SleepersCounted
    RouteFollowsDispatch
PROPERTY
    StallIsReal
CHECK_DEADLOCK FALSE
