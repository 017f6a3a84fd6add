CONSTANTS
    s1 = s1
    s2 = s2
    SubIds <- MCOneSubId
    Params <- MCQuitParams
    FirstBlock = 1
    InitLast = 0
    MaxBlock = 3
    InboxCap = 2
    ChanCap = 2
    MaxStops = 1
    MaxWrappers = 2
    DbMayFail = FALSE
    FilterMayFail = FALSE
SPECIFICATION Spec
CHECK_DEADLOCK FALSE
PROPERTIES
    NoDeliveryAfterQuit
