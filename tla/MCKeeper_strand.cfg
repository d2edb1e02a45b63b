SPECIFICATION Spec
CONSTANTS
    Bins <- MCTwoBins
    DriftThreshold = 1
    MaxFailures = 2
    MaxShort = 0
    Modes = {"live"}
    Soak = FALSE
    Hedged = FALSE
    SentinelPath = TRUE
    PendingErrors = FALSE
    SequentialLegs = FALSE
    Widths = {FALSE}
    Balances = {"dust", "large"}
    MaxFaults = 0
    MaxLive = 2
    NoPos = NoPos
INVARIANT
    ExitsCloseAll
