SPECIFICATION Spec
CONSTANTS
    h = h
    a = a
    b = b
    c = c
    Op = {h, a, b, c}
    Root = a
    Steps <- Hosted
    Host = {h}
    Skip = {}
    User = u
    Worker = w
    Cancellers = {k1}
    Targets = {h}
    NoThread = none
INVARIANTS OnStartBeforeCancel
