CONSTANTS
    Legs = {legA, legB}
    Bar = 2
    Window = 2
    MaxAge = 2
    MaxTime = 6
    Levels = 3
    InnerOffset = 1
    GridBins <- MCBins
    Price <- MCPrice
    Lots = {0, 1, 2, 3, 4, 5, 6}
    Bounds <- MCBounds
    Pairs <- MCPairs
    Tvls = {10, 60, 75, 100}
    Unknown = Unknown
    MinTvl = 20
    DropPct = 30
    TvlWindow = 3
    Holdings = {0, 3, 4, 6}
    Total = 6
    MaxPct = 80
    Tilts <- MCTilts
    Offsets = {0, 1, 3}
    Notionals = {0, 1, 2}
SPECIFICATION Spec
INVARIANTS TypeOK DrainIsSeen QuotesOnTruePrices LadderStraddles
PROPERTIES HedgeInBounds
CHECK_DEADLOCK FALSE
