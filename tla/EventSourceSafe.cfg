SPECIFICATION Spec
CONSTANTS
    Items = 4
    Events = {2, 3}
    Muted = {1}
    Garbled = {4}
    PageSize = 2
    BatchSize = 1
    MuteFails = TRUE
    StorageFails = TRUE
    BusyStop = FALSE
    MaxStops = 1
    MaxPauses = 0
    MaxLogouts = 1
    MaxPushes = 1
    MaxCrashes = 1
INVARIANTS AnchorCovered PendingCovers EventsTaken
CHECK_DEADLOCK FALSE
