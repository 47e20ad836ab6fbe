SPECIFICATION Spec
CONSTANTS
    r = r
    a = a
    b = b
    c = c
    d = d
    Op = {r, b, c}
    Root = r
    Steps <- Siblings
    Targets = {r, b}
    User = u
    Worker = w
    Cancellers = {k1, k2}
    Nobody = none
INVARIANTS CancelledOnce
