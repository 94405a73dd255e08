SPECIFICATION Spec
CONSTANTS
    Nodes = {1, 2, 3}
    BROADCAST = 255
    Hears <- Line
    HasRoute <- AllRoutes
    Traffic <- ToEnd
    MAX_HOPS = 2
    DupWindow = 100
    RX_CHAN_DEPTH = 4
    MaxMsgs = 1
    Restarting = {}
    MaxRestarts = 0
CHECK_DEADLOCK FALSE
INVARIANT DataOnce
