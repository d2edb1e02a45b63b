SPECIFICATION Spec
CONSTANTS
    Runs = {r1}
    Configs = {c1}
    NoRun = NoRun
    NoConfig = NoConfig
    PathRun = PathRun
    MaxEmits = 4
    MaxOpens = 3
    MaxFaults = 2
INVARIANTS
    CleanRunsLoad
    LoadedLogsAreComplete
    DamageShows
\* Once the bounds are reached, nothing happens.
CHECK_DEADLOCK FALSE
