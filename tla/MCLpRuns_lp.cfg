SPECIFICATION RunsSpec
CONSTANTS
    Bins <- MCTwoBins
    Width = 1
    ReadsLag = TRUE
    ShiftGap = 1
    Rent = 4
    LegRents <- MCLegRents
    Allowance = 2
    Signature = 1
    Attempts = 3
    FeeBudget = 1
    RunCap = 36
    MaxRecoveries = 1
    NoCall = NoCall
INVARIANTS
    TypeOK
    SuccessLeavesNothing
    RemainingIsNamed
    ClosesFitRunCap
    RecoveredMeansGone
PROPERTIES
    NothingSentInDoubt
    LedgerSpec
    EveryStepLeadsOn
CHECK_DEADLOCK FALSE
