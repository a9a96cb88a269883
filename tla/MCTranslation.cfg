\* All code at once, with any part of it translated before, one instruction at a time, and one block.
SPECIFICATION Spec
CONSTANTS
    None = None
    NoPc = None
    Addr <- MCAddr
    Mem <- MCMem
    Code <- MCCode
    Configs <- MCConfigs
    Modes = {"all", "step", "step_bb"}
    MaxElsewhere = 1
INVARIANTS WellFormed GuestOrder ReturnsWhereGuestIs LeavesOnlyWhenUnknown
PROPERTIES StepsOnce
CHECK_DEADLOCK FALSE
