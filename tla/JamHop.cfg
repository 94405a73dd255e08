SPECIFICATION Spec
CONSTANTS
    Nodes = {1, 2}
    Window = 1
    BulkLimit = 1
    MaxTime = 3
    MaxBack = 1
    MaxAhead = 1
    Adjusted = {1}
    MaxTraffic = 4
    MaxAlerts = 2
    MaxLoss = 1
    MaxFails = 1
CHECK_DEADLOCK FALSE
INVARIANTS
    SameJamSameChannel
PROPERTIES
    AlarmIsReal
    AlarmIsAnnounced
