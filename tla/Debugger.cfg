\* Three addresses, one of them outside the code; every command, and a guest
\* that makes system calls.
SPECIFICATION Spec
CONSTANTS
    Addr = {0, 1, 2}
    Code = {0, 1}
    Commands = {"c", "s", ".", "i", "B", ">", "p", "x", "", "?"}
    Traps = TRUE
    MaxSteps = 3
    LittleEndian = FALSE
INVARIANTS ClientFlagsBack LeakStays StepsOne ErasedOnce
CHECK_DEADLOCK FALSE
