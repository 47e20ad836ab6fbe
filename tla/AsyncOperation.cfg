SPECIFICATION FairSpec
CONSTANTS
    h = h
    a = a
    b = b
    c = c
    Op = {h, a, b, c}
    Root = a
    Steps <- Hosted
    Host = {h}
    Skip = {c}
    User = u
    Worker = w
    Cancellers = {k1}
    Targets = {h, a, b, c}
    NoThread = none
INVARIANTS TransitionAssertsHold CancelReachesChildren RefusedOnlyAfterCancel ResultsPropagate ListIsCleaned
PROPERTIES StartedIsEnded CancelledCompletes
