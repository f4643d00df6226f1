CONSTANTS
    MSS = 2
    RECV_WIN = 5
    SIZE_MOD = 1000
    SEQ_MOD = 500
    Unreliable = {"client"}
    WriteSizes = {1}
    ReadSizes = {1}
    MaxMishaps = 2
    MaxBytes <- MaxBytes11
SPECIFICATION Spec
INVARIANT
    GenuineBytes
CHECK_DEADLOCK FALSE
