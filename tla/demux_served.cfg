CONSTANTS
    c1 = c1
    c2 = c2
    c3 = c3
    Client = {c1, c2, c3}
    NoClient = NoClient
    UintMod = 16
    MaxLen = 3
    MaxNumConnections = 5
    Unreliable = {}
    SplitCounter = FALSE
    MayCloseListener = TRUE
    MaxCrashes = 0
SPECIFICATION FairSpec
CHECK_DEADLOCK FALSE
PROPERTIES
    
    CloseReturns
