CONSTANTS
    None = None
    NoPc = None
    Addr <- MCAddr
    Mem <- MCMem
    Code <- MCCode
    Configs <- MCConfigs
    LimitDFS = 2
    MaxFunctions = 8
    MaxTags = 1
    ClientFlushes = FALSE
SPECIFICATION Spec
INVARIANTS
    TranslatedOnce
    KnownCodeIsTranslated
    MissedOnce
    FewFunctions
PROPERTIES
    Implements
    Progress
