SPECIFICATION ProxySpec
CONSTANTS
    n = n
    h = h
    a = a
    Op = {n, h, a}
    Root = n
    Native = n
    Proxy = h
    Steps <- Layers
    Host = {h}
    Skip = {n, a}
    User = u
    Worker = w
    Cancellers = {k1}
    Targets = {n}
    NoThread = none
INVARIANTS EndedIsLetGo
