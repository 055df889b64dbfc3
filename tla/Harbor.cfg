SPECIFICATION Spec
CONSTANTS
    Nodes = {1, 2, 3}
    Owner = 2
    Senders = {1, 2}
    MaxConn = 2
    MaxSend = 2
INVARIANTS
    InOrder
    RightDestination
    NothingStranded
CHECK_DEADLOCK FALSE
