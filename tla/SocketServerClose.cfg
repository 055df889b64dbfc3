SPECIFICATION Spec
CONSTANTS
    Slots = 2
    c1 = c1
    c2 = c2
    Clients = {c1, c2}
    None = None
    MaxId = 3
    MaxSends = 2
    MaxCalls = 4
INVARIANT
    ClosingHasData
CHECK_DEADLOCK FALSE
SYMMETRY ServiceSymmetry
