CONSTANTS
    DELAY_WAIT = 12
    MaxDrift = 2
    MinHigh = 3
    Bytes <- MCBytes
SPECIFICATION FairSpec
INVARIANTS
    NoByteLost
PROPERTIES
    ReportedIsSent
    EveryByteReported
    ImplementsByteTransmitter
    ImplementsByteReceiver
CHECK_DEADLOCK TRUE
