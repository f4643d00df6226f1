CONSTANTS
    MSS = 3
    RECV_WIN = 4
    SIZE_MOD = 1000
    SEQ_MOD = 500
    Unreliable = {}
    WriteSizes = {2, 3}
    ReadSizes = {2}
    MaxMishaps = 2
    MaxBytes <- MaxBytes42
SPECIFICATION FairSpec
INVARIANTS
    TypeOK
    ServerStreamInOrder
    ServerEofComplete
    WindowRespected
    AllSentAtExit
CHECK_DEADLOCK FALSE
PROPERTIES
    ClientDataArrives
    ServerStreamImplemented
    ClientCloseArrives
