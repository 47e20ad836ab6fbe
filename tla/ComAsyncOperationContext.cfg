SPECIFICATION ContextFairSpec
CONSTANTS
    h = h
    a = a
    b = b
    Op = {h, a, b}
    Root = a
    Proxy = h
    Steps <- Nested
    Host = {h}
    Skip = {a, b}
    User = u
    Worker = w
    Cancellers = {k1, k2}
    Targets = {}
    NoThread = none
INVARIANTS CalledBackOnce CancelReachesInner ContextResult ContextCleaned
PROPERTIES ClientIsAnswered
