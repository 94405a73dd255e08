SPECIFICATION Spec
CONSTANTS
    Prios = {0, 1}
    LocalNode = 1
    Peers = {2}
    NoSrc = 0
    RxChanDepth = 1
    InboxDepth = 1
    SockDepth = 1
    MaxEpoch = 2
    MaxFrames = 3
    MaxEvents = 3
    Busy = {0}
    MaxFails = 1
CHECK_DEADLOCK FALSE
INVARIANTS
    TypeOK
    PassedOnceInOrder
    ListensWhereItSends
PROPERTIES
    AllReadersEnd
    ChannelIsDrained
