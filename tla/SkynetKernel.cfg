SPECIFICATION FairSpec
CONSTANTS
    Services = {s1, s2}
    Root = s1
    None = None
    w1 = w1
    w2 = w2
    Workers = {w1, w2}
    Outside = Outside
    Weight <- MCWeight
    MaxSend = 2
INVARIANTS
    TypeOK
    OnePlace
    NoStrandedMail
    RefCountExact
    NoUseAfterFree
    NoDispatchBeforeInit
    MessagesConserved
PROPERTIES
    EventuallyDispatched
    EventuallyFreed
    EventuallyStopped
