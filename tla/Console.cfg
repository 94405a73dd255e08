SPECIFICATION Spec
CONSTANTS
    Keys = {"t", "s", "p", " "}
    LogCap = 2
    OutCap = 1
    MaxKeys = 4
    MaxEvents = 2
CHECK_DEADLOCK FALSE
INVARIANTS
    TypeOK
    ComposedIsTyped
    OutboundKeepsKeys
    TablesAreOneSnapshot
PROPERTIES
    ConsoleSettles
