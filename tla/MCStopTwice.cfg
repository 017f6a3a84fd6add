CONSTANTS
    s1 = s1
    s2 = s2
    SubIds <- MCOneSubId
    Params <- MCParams
    FirstBlock = 1
    InitLast = 1
    MaxBlock = 3
    InboxCap = 2
    ChanCap = 2
    MaxStops = 2
    MaxWrappers = 2
    DbMayFail = FALSE
    FilterMayFail = FALSE
SPECIFICATION Spec
CHECK_DEADLOCK FALSE
INVARIANTS
    StopIsIdempotent
