SPECIFICATION Spec
CONSTANTS
    Bins <- MCTwoBins
    DriftThreshold = 1
    MaxFailures = 2
    MaxShort = 0
    Modes = {"live", "dry", "observe"}
    Soak = FALSE
    Hedged = TRUE
    SentinelPath = TRUE
    PendingErrors = FALSE
    SequentialLegs = FALSE
    Widths = {TRUE, FALSE}
    Balances = {"dust", "large"}
    MaxFaults = 1
    MaxLive = 2
    NoPos = NoPos
INVARIANTS
    TypeOK
    NoBlindRedeploy
    LadderFollowsPrice
    NoChurn
    ShadowSubmitsNothing
