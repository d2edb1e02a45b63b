CONSTANTS
    Moves <- MCMoves
    Ladders <- MCLadders
    WholeWrites = FALSE
    Refusals = FALSE
    MaxLadders = 1
    MaxCopies = 1
    MaxRotations = 1
    MaxFaults = 2
SPECIFICATION Spec
INVARIANTS LoggedOnce FilledOnce GapCoversLoss CleanStreamVerifies
CHECK_DEADLOCK FALSE
