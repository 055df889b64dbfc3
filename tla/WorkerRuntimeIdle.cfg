SPECIFICATION Spec
CONSTANTS
    Services = {s1, s2}
    Workers = {w1}
    None = None
    MaxSend = 3
    MaxCycles = 2
    MaxBatch = 2
    MaxStall = 2
INVARIANT
    IdleMeansIdle
CHECK_DEADLOCK FALSE
