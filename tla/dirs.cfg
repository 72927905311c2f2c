\* Three shells, and one script more than names of two digits can number.
CONSTANTS
    Shells = {s1, s2, s3}
    Base = 2
    Width = 2
    MaxRuns = 6
    CleansUp = TRUE
SPECIFICATION Spec
INVARIANT NoSharedDirectory
PROPERTIES
    FailsOnlyWhenOverlapped
    NumbersGrow
SYMMETRY Symmetry
CHECK_DEADLOCK FALSE
