CONSTANTS
    WordBits = 8
    NoMsg = NoMsg
    DEVICE_DEBUG = FALSE
    LOG_ENABLED = TRUE
    Cells = 2
    MaxCalls = 5
    FewCalls = 2
    Vals <- MCVals
    Calls <- MCCalls
    Unwritten <- MCUnwritten
    Garbage <- MCGarbage
SPECIFICATION MCSpec
PROPERTIES
    ImplementsAccelerator
CHECK_DEADLOCK TRUE
