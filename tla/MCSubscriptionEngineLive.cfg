CONSTANTS
    s1 = s1
    s2 = s2
    SubIds <- MCOneSubId
    Params <- MCParams
    FirstBlock = 1
    InitLast = 1
    MaxBlock = 3
    InboxCap = 2
    ChanCap = 1
    MaxStops = 1
    MaxWrappers = 2
    DbMayFail = TRUE
    FilterMayFail = TRUE
SPECIFICATION Spec
CHECK_DEADLOCK FALSE
PROPERTIES
    BackfillTerminates
    EndedSubscriptionClosed
