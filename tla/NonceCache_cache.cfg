SPECIFICATION Spec
CONSTANTS
    Senders <- MCSenders
    Known <- MCKnown
    Nonces = {0}
    TIME_WINDOW_MS = 1
    NONCE_CACHE_TTL_MS = 2
    MaxSkew = 2
    MaxStepBack = 1
    MaxClock = 4
    MaxFrames = 2
    MaxBoots = 1
INVARIANTS TypeOK RepeatNeedsExpiry SeenSpan EntriesAreEarned
