SPECIFICATION FairSpec
CONSTANTS
    MaxBreaks = 1
    MaxReloads = 1
INVARIANTS
    CallsInOrder
    PageKnowsStatus
PROPERTIES
    EveryCallIsSent
    
CHECK_DEADLOCK FALSE
