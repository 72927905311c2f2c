CONSTANTS
    WordBits = 8
    NoMsg = NoMsg
    DEVICE_DEBUG = FALSE
    LOG_ENABLED = TRUE
    Cells = 2
    Unwritten <- MCUnwritten
    MinHigh = 3
    MaxStop = 1
    RingSize = 12
    CounterSize = 24
    Vals <- OneVal
    Calls <- MCCalls
    MaxCalls = 2
SPECIFICATION FairSpec
INVARIANTS
    RingNotOverrun
    FramesAligned
    UnreadIsAwaited
PROPERTIES
    TxPacketStable
    ImplementsAccelerator
    EveryCallReturns
CHECK_DEADLOCK TRUE
