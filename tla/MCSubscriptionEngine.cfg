CONSTANTS
    s1 = s1
    s2 = s2
    SubIds <- MCSubIds
    Params <- MCParams
    FirstBlock = 1
    InitLast = 1
    MaxBlock = 3
    InboxCap = 2
    ChanCap = 1
    MaxStops = 2
    MaxWrappers = 1
    DbMayFail = TRUE
    FilterMayFail = TRUE
SPECIFICATION Spec
CHECK_DEADLOCK FALSE
INVARIANTS
    SettingsInSync
    LiveWithinEnd
    LiveOrdered

SYMMETRY MCSymmetry
