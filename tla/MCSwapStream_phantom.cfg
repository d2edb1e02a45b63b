CONSTANTS
    Moves <- MCMoves
    Ladders <- MCLadders
    WholeWrites = TRUE
    Refusals = TRUE
    MaxLadders = 1
    MaxCopies = 0
    MaxRotations = 0
    MaxFaults = 0
SPECIFICATION Spec
INVARIANTS FillsWereDeployed
CHECK_DEADLOCK FALSE
