CONSTANTS
    MSS = 2
    RECV_WIN = 5
    SIZE_MOD = 1000
    SEQ_MOD = 500
    Unreliable = {}
    WriteSizes = {2, 3}
    ReadSizes = {1, 2}
    MaxMishaps = 2
    MaxBytes <- MaxBytes30
SPECIFICATION Spec
INVARIANT
    NoneDies
CHECK_DEADLOCK FALSE
