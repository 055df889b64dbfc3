SPECIFICATION Spec
CONSTANTS
    MaxHandle = 2
    Names = {}
    NoName = NoName
    AnonymousName = AnonymousName
    BaseThreshold = 2
    MaxSession = 1
    MaxTimer = 1
    MaxTick = 1
    MaxSend = 2
    MaxDepth = 2
    MaxBatch = 1
    MaxDelay = 1
CHECK_DEADLOCK FALSE
INVARIANT PendingIsRequested
