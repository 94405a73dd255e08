SPECIFICATION Spec
CONSTANTS
    Nodes = {1, 2, 3, 4}
    BROADCAST = 255
    Hears <- LineWithTail
    HasRoute <- RelayRoutes
    Traffic <- Mixed
    MAX_HOPS = 1
    DupWindow = 100
    RX_CHAN_DEPTH = 2
    MaxMsgs = 2
    Restarting = {1}
    MaxRestarts = 1
CHECK_DEADLOCK FALSE
INVARIANT NeighborsInRange
