CONSTANTS
    Procs = {p1, p2}
    AddrBits = 4
    IntBits = 3
    Code <- HighCode
    MaxEntries = 3
SPECIFICATION Spec
INVARIANTS
    EntriesRemembered
CHECK_DEADLOCK FALSE
