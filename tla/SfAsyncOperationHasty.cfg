SPECIFICATION HastySpec
CONSTANTS
    r = r
    a = a
    b = b
    c = c
    d = d
    Op = {r, b, c}
    Root = r
    Steps <- Siblings
    Targets = {b}
    User = u
    Worker = w
    Cancellers = {k1}
    Nobody = none
INVARIANTS LastChildReleased
