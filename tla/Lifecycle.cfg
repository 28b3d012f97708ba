SPECIFICATION Spec
CONSTANTS
    b1 = b1
    b2 = b2
    k1 = k1
    k2 = k2
    a1 = a1
    Guest = Guest
    MaxSessions = 2
    MaxUsers = 2
    Browsers <- TwoBrowsers
    Handlers <- TwoHandlers
    Accounts <- OneAccount
    TTL = 3
    LongPoll = 2
    MaxLogins = 2
INVARIANTS
    TypeOK
    
    OneSlotPerAccount
    
SYMMETRY Symmetric
