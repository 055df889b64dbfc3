SPECIFICATION Spec
CONSTANTS
    NearSize = 2
    LevelSize = 2
    LevelCount = 2
    Targets = {s1, s2}
    MaxTimer = 2
    MaxClock = 7
    Horizon = 7
INVARIANTS
    TypeOK
    EachTimerOnce
    WellPlaced
    PollReturns
PROPERTY
    ImplementsTimerSpec
CHECK_DEADLOCK FALSE
