SPECIFICATION Spec
CONSTANTS
    NearSize = 2
    LevelSize = 2
    LevelCount = 2
    Targets = {s1}
    MaxTimer = 1
    MaxClock = 12
    Horizon = 20
CHECK_DEADLOCK FALSE
INVARIANT NoneLeftBehind
