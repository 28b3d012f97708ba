SPECIFICATION FairSpec
CONSTANTS
    c1 = c1
    c2 = c2
    c3 = c3
    NULL = NULL
    NONE = NONE
    Conns <- ThreeConns
    Loads <- AllLoads
    Chars <- SomeChars
    BUF_SIZE = 9
    BUFF_LEN = 6
    MAX_FILE_SIZE = 4
    MaxFaults = 2
INVARIANTS
    TypeOK
    BodyAsSent
    LastWriteStays
    ReadsAreRight
    
PROPERTIES
    EveryRequestEnds
CHECK_DEADLOCK FALSE
