SPECIFICATION FairSpec
CONSTANTS
    Bins <- MCTwoBins
    DriftThreshold = 1
    MaxFailures = 2
    MaxShort = 0
    Modes = {"live"}
    Soak = TRUE
    Hedged = FALSE
    SentinelPath = TRUE
    PendingErrors = TRUE
    SequentialLegs = TRUE
    Widths = {FALSE}
    Balances = {"dust"}
    MaxFaults = 1
    MaxLive = 2
    NoPos = NoPos
INVARIANTS
    LogCoversChain
    MemoryCoversChain
PROPERTIES
    LedgerSpec
    SentinelHalts
    CycleEnds
    RefusalsHalt
