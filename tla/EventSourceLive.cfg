SPECIFICATION FairSpec
CONSTANTS
    Items = 3
    Events = {1, 2}
    Muted = {3}
    Garbled = {}
    PageSize = 2
    BatchSize = 1
    MuteFails = FALSE
    StorageFails = FALSE
    BusyStop = FALSE
    MaxStops = 1
    MaxPauses = 1
    MaxLogouts = 1
    MaxPushes = 0
    MaxCrashes = 1
PROPERTIES AllHandled
CHECK_DEADLOCK FALSE
