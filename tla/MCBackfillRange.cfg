CONSTANTS
    s1 = s1
    s2 = s2
    SubIds <- MCOneSubId
    Params <- MCRangeParams
    FirstBlock = 1
    InitLast = 3
    MaxBlock = 3
    InboxCap = 2
    ChanCap = 2
    MaxStops = 0
    MaxWrappers = 2
    DbMayFail = FALSE
    FilterMayFail = FALSE
SPECIFICATION Spec
CHECK_DEADLOCK FALSE
INVARIANTS
    BackfillWithinRange
