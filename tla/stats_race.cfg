CONSTANTS
    WordBits = 8
    NoMsg = NoMsg
    DEVICE_DEBUG = TRUE
    LOG_ENABLED = TRUE
    Cells = 2
    MaxCalls = 1
    FewCalls = 1
    Vals <- OneVal
    Calls <- OneCall
    Unwritten <- MCUnwritten
    Garbage <- OneGarbage
SPECIFICATION MCSpec
INVARIANT
    RequestStatsAttribution
CHECK_DEADLOCK TRUE
