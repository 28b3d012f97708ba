SPECIFICATION FairSpec
CONSTANTS
    b1 = b1
    b2 = b2
    k1 = k1
    k2 = k2
    a1 = a1
    Guest = Guest
    MaxSessions = 1
    MaxUsers = 2
    Browsers <- TwoBrowsers
    Handlers <- TwoHandlers
    Accounts <- OneAccount
    TTL = 2
    LongPoll = 1
    MaxLogins = 3
PROPERTIES
    EverythingIsFreed
