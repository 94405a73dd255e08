SPECIFICATION Spec
CONSTANTS
    n1 = n1
    n2 = n2
    n3 = n3
    Nodes = {n1, n2, n3}
    Origins = {n1}
    Infos = {p1}
    UnknownInfo = unknown
    Results = {"Miss"}
    Ops = {"Engage"}
    NoNode = none
    MaxMsgs = 3
    MaxClock = 1
    MaxRestarts = 1
SYMMETRY Receivers
CHECK_DEADLOCK FALSE
INVARIANTS TypeOK BoardIsJoin AgreeOnState
PROPERTIES PositionKept
