SPECIFICATION Spec
CONSTANTS
    MaxHandle = 2
    Names = {n1}
    NoName = NoName
    AnonymousName = AnonymousName
    BaseThreshold = 1
    MaxSession = 1
    MaxTimer = 1
    MaxTick = 1
    MaxSend = 3
    MaxDepth = 2
    MaxBatch = 2
    MaxDelay = 0
INVARIANTS
    TypeOK
    SerialExecution
    ReadyQueueConsistent
    NoLostWakeup
    ReadyHasWork
    NothingOutlivesRelease
    OneResponsePerSession
    RegistryConsistent
    WithinThreshold
    MetricsBalance
PROPERTY
    NoOvertaking
CHECK_DEADLOCK FALSE
