CONSTANTS
    c1 = c1
    c2 = c2
    c3 = c3
    c4 = c4
    Client = {c1, c2, c3, c4}
    NoClient = NoClient
    UintMod = 16
    MaxLen = 2
    MaxNumConnections = 3
    Unreliable = {c1, c2, c3, c4}
    SplitCounter = TRUE
    MayCloseListener = TRUE
    MaxCrashes = 1
SPECIFICATION Spec
SYMMETRY ClientSymmetry
CHECK_DEADLOCK FALSE
INVARIANTS
    TypeOK
    OneOwner
    PendingRegistered
    AcceptedOnce
