CONSTANTS
    c1 = c1
    c2 = c2
    Client = {c1, c2}
    NoClient = NoClient
    BACKLOG = 2
    MaxForkFailures = 1
    NL = NL
    x = x
    Char = {x}
    Inputs <- AnyInput
    LINESIZE = 2
    WAITING = WAITING
    Main = Main
SPECIFICATION FairSpec
CHECK_DEADLOCK FALSE
INVARIANTS
    SentUpToDoubleEnter
    OutputInOrder
PROPERTY
    TextPrinted
