SPECIFICATION MCSpec
CONSTANTS
    a1 = a1
    a2 = a2
    Address = {a1, a2, a3}
    StorageBounds <- MCStorage
    Msg = {1, 2, 3}
    Time <- MCTime
    ChunkSize = 1
    SplitThreshold = 1
    MaxSplits = 2
    MaxHands = 4
    MaxClears = 1
    MaxReads = 2
    MaxCloses = 1
INVARIANTS NothingLost ChainStored PagesComplete
PROPERTIES IsBoard AccountsKept
CHECK_DEADLOCK FALSE
