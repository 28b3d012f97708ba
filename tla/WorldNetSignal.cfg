SPECIFICATION Spec
CONSTANTS
    w1 = w1
    w2 = w2
    t1 = t1
    t2 = t2
    NULL = NULL
    Worlds <- TwoWorlds
    Threads <- TwoThreads
    MaxFd = 5
    Users <- ImpatientUser
INVARIANTS
    ThreadsCheckTheirConnection
