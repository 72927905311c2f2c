CONSTANTS
    WordBits = 8
    NoMsg = NoMsg
    DEVICE_DEBUG = FALSE
    LOG_ENABLED = TRUE
    Cells = 2
    MaxCalls = 1
    FewCalls = 1
    Vals <- MCVals
    Calls <- MCCalls
    Unwritten <- MCUnwritten
    Garbage <- OneGarbage
SPECIFICATION MCSpec
INVARIANT
    PowerNotNegative
CHECK_DEADLOCK TRUE
