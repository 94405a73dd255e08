SPECIFICATION Spec
CONSTANTS
    Nodes = {1, 2}
    Window = 1
    BulkLimit = 1
    MaxTime = 2
    MaxBack = 0
    MaxAhead = 0
    Adjusted = {}
    MaxTraffic = 2
    MaxAlerts = 1
    MaxLoss = 0
    MaxFails = 0
CHECK_DEADLOCK FALSE
PROPERTIES
    MeshMovesTogether
