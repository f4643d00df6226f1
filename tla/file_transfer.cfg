CONSTANTS
    Content <- TestContent
    Names <- TestNames
    MaxAsked = 2
    LINE = 2
    RESP = 2
    MaxChunk = 2
SPECIFICATION FairSpec
CHECK_DEADLOCK FALSE
INVARIANTS
    FilesIntact
    InStep
    ClientClosesFirst
PROPERTY
    SessionOver
