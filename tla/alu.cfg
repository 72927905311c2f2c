CONSTANTS
    WordBits = 5
    NoMsg = NoMsg
    DEVICE_DEBUG = TRUE
    LOG_ENABLED = TRUE
SPECIFICATION Spec
INVARIANTS
    AluIsArithmetic
    RtlAgrees
CHECK_DEADLOCK TRUE
