CONSTANTS
    WordBits = 8
    NoMsg = NoMsg
    DEVICE_DEBUG = TRUE
    LOG_ENABLED = TRUE
    Cells = 2
    MaxCalls = 5
    FewCalls = 2
    Vals <- MCVals
    Calls <- MCCalls
    Unwritten <- MCUnwritten
    Garbage <- MCGarbage
SPECIFICATION MCSpec
INVARIANTS
    TypeOK
    Baton
    QuietOutsideSync
    ResponseStatsAttribution
    UnreadIsAwaited
    IdsBelow13
PROPERTIES
    NoOverwrite
    ImplementsAccelerator
    EveryCallReturns
CHECK_DEADLOCK TRUE
