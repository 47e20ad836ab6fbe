SPECIFICATION FairSpec
CONSTANTS
    r = r
    a = a
    b = b
    c = c
    d = d
    Op = {r, a, b, c, d}
    Root = r
    Steps <- Nested
    Targets = {r, a}
    User = u
    Worker = w
    Cancellers = {k1, k2}
    Nobody = none
INVARIANTS CallbackExactlyOnce ResultsPropagate LinkedWhileRunning
PROPERTIES FinallyOver
