CONSTANTS
    Moves <- MCMoves
    Ladders <- MCLadders
    WholeWrites = TRUE
    Refusals = FALSE
    MaxLadders = 1
    MaxCopies = 0
    MaxRotations = 1
    MaxFaults = 0
SPECIFICATION Spec
INVARIANTS RotationLosesNothing
CHECK_DEADLOCK FALSE
