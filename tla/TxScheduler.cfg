SPECIFICATION Spec
CONSTANTS
    Priorities <- MCPriorities
    Producers = {c1, c2}
    MaxFrames = 3
INVARIANTS TypeOK NoLostWakeup HandoverOrder
PROPERTIES ImplementsChannel
CHECK_DEADLOCK FALSE
