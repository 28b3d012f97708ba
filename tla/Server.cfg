SPECIFICATION FairSpec
CONSTANTS
    c1 = c1
    c2 = c2
    c3 = c3
    w1 = w1
    w2 = w2
    u1 = u1
    k1 = k1
    MAIN = main
    NULL = NULL
    Conns <- ThreeConns
    Workers <- TwoWorkers
    QSIZE = 2
    Users <- OneUser
    Connectors <- OneConnector
    Loads <- AllLoads
INVARIANTS
    QueueInOrder
    LocksInOrder
    NoCircle
PROPERTIES
    
    ShutdownEnds
CHECK_DEADLOCK FALSE
