SPECIFICATION ObjectSpec
CONSTANTS
    p1 = p1
    p2 = p2
    p3 = p3
    e1 = e1
    e2 = e2
    Pointer = {p1, p2, p3, e1, e2}
    First = p1
    Event = {e1, e2}
    SharedFirst = FALSE
    Together = {{}}
    m = m
    t = t
    u = u
    Object = {"x", "y"}
    Values <- SomeValues
    HResults <- SomeHResults
    Win32Errors <- SomeWin32
    NtStatuses <- SomeNt
    Texts = {"", "text"}
    EnumCodes <- SomeEnumCodes
    FABRIC_E_SERVICE_TYPE_ALREADY_REGISTERED <- AlreadyRegistered
    FABRIC_E_SERVICE_TYPE_NOT_REGISTERED <- NotRegistered
    FABRIC_E_INVALID_OPERATION <- InvalidOperation
    Thread = {m, t, u}
    Main = m
    Sta = {m, u}
SYMMETRY PointerSymmetry
INVARIANTS TryAddRefIsSafe
