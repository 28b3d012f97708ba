SPECIFICATION Spec
CONSTANTS
    c1 = c1
    c2 = c2
    c3 = c3
    NULL = NULL
    NONE = NONE
    Conns <- ThreeConns
    Loads <- LongBody
    Chars <- SomeChars
    BUF_SIZE = 9
    BUFF_LEN = 6
    MAX_FILE_SIZE = 4
    MaxFaults = 0
INVARIANTS
    WrittenInFull
CHECK_DEADLOCK FALSE
