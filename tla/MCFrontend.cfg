\* Flags in a PSR, a hardwired register zero and traps that return directly.
SPECIFICATION MCSpec
CONSTANTS
    NGpr = 2
    NXr = 1
    Width = 3
    Layout <- FlagLayout
    HardwireGpr0 = TRUE
    PcIndex <- Outside
    DirectReturns = TRUE
    Addresses <- SomeAddresses
    ClientValues <- SomeValues
    GuestValues <- SomeValues
    ByteSize = 2
    Words = 2
    Values8 = {1, 3}
    Values16 = {1, 6, 11}
    Values32 = {27, 228, 64}
    MaxStores = 3
    Fprs = 4
    Exponents <- Boundaries
    Mantissas = {0, 5}
    MaxFloats = 2
    Architectures = {"6502", "m68k", "m88k", "fapra"}
    Many = 8
    HostFP80 = FALSE
    MaxCalls = 2
    MaxPuts = 1
INVARIANTS TypeOK FloatsKept RegistersInPlace
PROPERTIES RegistersKept WritesArrive AllOrNothing MemoryInGuestOrder
CHECK_DEADLOCK FALSE
