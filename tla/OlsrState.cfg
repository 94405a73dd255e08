SPECIFICATION MCSpec
CONSTANTS
    Local = 1
    Peers = {2, 3, 4}
    Rssis <- ReadRssis
    Listings <- AnyListing
    Adverts <- AnyAdvert
    StartSeqs <- NearWrap
    SeqModulus = 65536
    DupWindow = 100
    MAX_HOPS = 2
    NEIGHBOR_TIMEOUT_MS = 1
    AGING_TICK_MS = 2
    MaxClock = 5
    MaxBack = 2
    MaxAhead = 1
    MaxTcs = 2
    MaxRestarts = 1
INVARIANTS TypeOK TwoHopBacked NewestTcKept RoutesAreBest
PROPERTIES FreshIsTaken ExpiryIsTimely
