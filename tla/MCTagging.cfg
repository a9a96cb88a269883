CONSTANTS
    None = None
    NoPc = None
    Addr <- MCAddr
    Mem <- MCMem
    Code <- MCCode
    Configs <- MCConfigs
    LimitDFS = 2
SPECIFICATION TagSpec
INVARIANTS
    TagTypeOK
    TaggingExact
    LabelsKnown
    DepthBounded
    StraightLineTagged
PROPERTY SearchEnds
