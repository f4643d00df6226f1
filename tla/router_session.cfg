CONSTANTS
    AddressMod = 4
    Dest = {1}
    Mask = {0, 2, 3}
    Iface = {"e1", "e2"}
    NoIface = "none"
    MaxLines = 2
    BLOCK = 8
    WORD_MOD = 64
    HEADER = 2
    MAX_LEN = 16
    AUTH_KEY_LEN = 8
    MaxPackets = 1
    Scripts <- TestScripts
SPECIFICATION FairSession
CHECK_DEADLOCK FALSE
INVARIANTS
    
    FramedInStep
    AuthReplyCorrect
    AuthenticatedFirst
    RoutesUsable
PROPERTIES
    SessionEnds
