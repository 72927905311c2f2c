CONSTANTS
    RunNames <- MCRunNames
    Outputs <- MCOutputs
    Users <- MCUsers
SPECIFICATION Spec
INVARIANTS
    BuildOkMeansBuilt
    RunsWhatWasBuilt
    VerifyOkMeansVerified
    ProgramsFindTheirFiles
    ExportsTheTop
PROPERTIES
    SourcesUntouched
    FinishedRunsKept
CHECK_DEADLOCK FALSE
