CONSTANTS
    WordBits = 8
    NoMsg = NoMsg
    DEVICE_DEBUG = TRUE
    LOG_ENABLED = TRUE
    Cells = 2
    Unwritten <- MCUnwritten
    MinHigh = 3
    MaxStop = 1
    RingSize = 18
    CounterSize = 36
    Vals <- OneVal
    Calls <- OneCall
    MaxCalls = 1
SPECIFICATION Spec
INVARIANTS
    RingNotOverrun
    ResponseStatsAttribution
PROPERTIES
    ImplementsAccelerator
CHECK_DEADLOCK TRUE
