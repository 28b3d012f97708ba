SPECIFICATION LPFairSpec
CONSTANTS
    w1 = w1
    p1 = p1
    p2 = p2
    g1 = g1
    NULL = NULL
    Worlds <- OneWorld
    Polls <- TwoPolls
    Pages <- OnePage
    MAX_USER_EVENTS = 2
    MAX_WORLD_EVENTS = 1
    MAX_LINES = 2
    MaxEcho = 1
    MaxUpdates = 3
    MaxLives = 1
    MaxThreads = 1
    OutOfMemory = FALSE
    MAX_ERRORS = 1
    Breakable = TRUE
PROPERTIES
    ImplementsFeed
    PageKeepsUp
    EveryPollAnswered
CHECK_DEADLOCK FALSE
