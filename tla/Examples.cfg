\* A service or a component may wait for ever for its user, and a client ends.
CHECK_DEADLOCK FALSE
SPECIFICATION AllSpec
CONSTANTS
    Programs = {"wait", "property", "kvclient", "echo", "kvstore", "curd", "asio", "compose", "await", "winrt"}
    Instance = {"i"}
    NoValue = NoValue
    Promotions = 2
    Owner = o
    Users = {u1, u2}
    Printers = {o, u1}
    MaxId = 2
    NoThread = none
INVARIANTS EndedRight EchoServes ListenerClosed StoreAnswers TableIsExact RootOutlivesReferences
PROPERTIES ClientsAnswered EchoCloses ReleasedIsErased
