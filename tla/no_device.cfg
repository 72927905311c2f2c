CONSTANTS
    WordBits = 8
    NoMsg = NoMsg
    DEVICE_DEBUG = FALSE
    LOG_ENABLED = FALSE
    Cells = 2
    MaxCalls = 1
    FewCalls = 1
    Vals <- OneVal
    Calls <- OneCall
    Unwritten <- MCUnwritten
    Garbage <- OneGarbage
SPECIFICATION MCSpec
PROPERTY
    InitFindsDevice
CHECK_DEADLOCK TRUE
