CONSTANTS
    Procs = {p1, p2}
    AddrBits = 4
    IntBits = 3
    Code <- LowCode
    MaxEntries = 3
SPECIFICATION Spec
INVARIANTS
    EntriesRemembered
    NothingInvented
CHECK_DEADLOCK FALSE
