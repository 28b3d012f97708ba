SPECIFICATION FairSpec
CONSTANTS
    MAX_LINES = 2
    SendLen = 2
    MaxDay = 2
    YearLen = 365
    Scenarios <- AllScenarios
    Typed <- SomeTyped
    Echoes <- SomeEchoes
    MaxEchoes = 1
    MaxLives = 2
INVARIANTS
    TextIsKept
    ShownAsSaid
    WellNested
    NegotiationAnswered
    
    RolloverMarked
    SentWhole
PROPERTIES
    AllIsRead
CHECK_DEADLOCK FALSE
