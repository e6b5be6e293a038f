SPECIFICATION Spec
CONSTANTS
    g1 = g1
    g2 = g2
    Group = {g1, g2}
    Message <- MCMessage
    MaxTime = 2
    Bounds <- MCBounds
    SendFails = TRUE
    BusyRestart = FALSE
    ListSize = 2
    MaxUnread = 0
    ReadAhead = 1
    SetAhead = 2
INVARIANTS Listed UnreadCounted SyncSafe
PROPERTY ReadStays
CHECK_DEADLOCK FALSE
