SPECIFICATION FairSpec
CONSTANTS
    Legs = 2
    StderrCap = 1
    MaxCalls = 2
    MaxProcs = 2
    MaxFaults = 1
INVARIANTS
    TypeOK
    OneSigner
PROPERTIES
    ContractSpec
    CallsReturn
    NoPipeDeadlock
\* Once the bridge is closed and everything has landed, nothing happens.
CHECK_DEADLOCK FALSE
