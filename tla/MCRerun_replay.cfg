SPECIFICATION Spec
CONSTANTS
    Bins <- MCBins
    Readings <- MCReadings
    MaxFailures = 2
    NoId = NoId
    Starts <- MCStarts
    MaxCycles = 3
    MaxOdd = 2
INVARIANTS
    ReplayAgrees
    ReplayKnowsPositions
    AuditExact
CHECK_DEADLOCK FALSE
