CONSTANTS
    None = None
    NoPc = None
    Addr <- MCAddr
    Mem <- MCMem
    Code <- MCCode
    Configs <- MCFlushConfigs
    LimitDFS = 2
    MaxFunctions = 2
    MaxTags = 1
    ClientFlushes = TRUE
SPECIFICATION Spec
INVARIANTS
    SymbolAccepted
CHECK_DEADLOCK FALSE
