SPECIFICATION FairSpec
CONSTANTS
    Starter = s
    Completers = {c1}
    Cancellers = {k1}
    Pollers = {p1}
INVARIANTS AssertsHold EndNotLost
PROPERTIES AnswerFrozen ImplementsLifecycle CompletionEnds
