SPECIFICATION Spec
CONSTANTS
    w1 = w1
    w2 = w2
    p1 = p1
    NULL = NULL
    Worlds <- TwoWorlds
    Polls <- OnePoll
    MAX_USER_EVENTS = 3
    MAX_WORLD_EVENTS = 2
    MAX_LINES = 2
    MaxEcho = 2
    MaxUpdates = 4
    MaxLives = 2
    MaxThreads = 2
    OutOfMemory = TRUE
INVARIANTS
    TypeOK
    BatchIsLatest
    ReplayIsLatest
    RefcountExact
    NoLostWakeup
SYMMETRY Symmetric
