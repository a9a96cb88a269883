------------------------------- MODULE MCFrontend -------------------------------
(***************************************************************************)
(* The parts of libcpu that frontends generate code with, one of them in   *)
(* each behaviour: the registers of a function (RegisterFile, which this   *)
(* module extends), guest memory, floating point registers, and the places *)
(* of all registers in memory.                                             *)
(***************************************************************************)
EXTENDS RegisterFile

CONSTANTS
    ByteSize, Words,                \* guest memory, in words of four bytes
    Values8, Values16, Values32,    \* what is stored there
    MaxStores,                      \* bound: stores there
    Fprs, Exponents, Mantissas,     \* floating point registers and what they hold
    MaxFloats,                      \* bound: what is put in them
    Architectures, Many, HostFP80,  \* whose registers are placed in memory
    MaxCalls, MaxPuts               \* bounds: calls and writes that use these

VARIABLES
    part,
    RAM, guestLittle, hostLittle, stores,       \* MemoryAccess
    fpr, written, hardwireFpr0, floatSize, host, aborted,   \* FpRegisters, with hostLittle and stores
    arch, mem, copies, last, puts, calls        \* RegisterLayout

memory == <<RAM, guestLittle, hostLittle>>
floating == <<fpr, written, hardwireFpr0, floatSize, host, aborted>>
places == <<arch, mem, copies, last, puts, calls>>
allvars == <<vars, part, memory, stores, floating, places>>

FlagLayout == [C |-> 0, N |-> 2]
SomeValues == {0, 3, 6}
Outside == -1
SomeAddresses == {1, 2}

Memory == INSTANCE MemoryAccess

\* Exponents around every boundary of the compression, and the ends.
Boundaries == {1, 512, 767, 768, 1023, 1024, 1280, 1536, 2047}

FP == INSTANCE FpRegisters WITH Count <- Fprs, MaxStores <- MaxFloats

Places == INSTANCE RegisterLayoutProofs WITH local <- copies

ASSUME MemoryAssumption ==
    /\ ByteSize \in Nat \ {0} /\ Words \in Nat /\ MaxStores \in Nat
    /\ Values8 \subseteq Word(ByteSize) /\ Values16 \subseteq Word(2 * ByteSize)
    /\ Values32 \subseteq Word(4 * ByteSize)

ASSUME FloatingAssumption ==
    Fprs \in Nat /\ Exponents \subseteq FP!Exponent64 /\ MaxFloats \in Nat

ASSUME PlacesAssumption == Places!LayoutAssumed

MCInit ==
    /\ part \in {"registers", "memory", "floating", "places"}
    /\ IF part = "registers" THEN Init
       ELSE /\ reg = [i \in Regs |-> 0] /\ local = reg
            /\ pc = 1 /\ flag = [f \in DOMAIN Layout |-> 0]
            /\ running = FALSE /\ exit_code = "FUNCNOTFOUND" /\ ret = exit_code
    /\ stores = 0
    /\ IF part = "memory" THEN Memory!Init ELSE RAM = <<>> /\ guestLittle = TRUE
    /\ IF part = "floating" THEN FP!Init
       ELSE /\ fpr = <<>> /\ written = <<>> /\ hardwireFpr0 = FALSE
            /\ floatSize = 64 /\ host = {} /\ aborted = FALSE
    /\ part \notin {"memory", "floating"} => hostLittle = TRUE
    /\ IF part = "places" THEN Places!Init
       ELSE arch = <<>> /\ mem = <<>> /\ copies = <<>> /\ last = <<>> /\ puts = 0 /\ calls = 0

RegisterStep == part = "registers" /\ Next /\ UNCHANGED <<memory, stores, floating, places>>
MemoryStep == part = "memory" /\ Memory!Next /\ UNCHANGED <<vars, floating, places>>
FloatingStep == part = "floating" /\ FP!Next /\ UNCHANGED <<vars, memory, places>>
PlacesStep == part = "places" /\ Places!Next /\ UNCHANGED <<vars, memory, stores, floating>>

MCNext ==
    /\ RegisterStep \/ MemoryStep \/ FloatingStep \/ PlacesStep
    /\ UNCHANGED part

MCSpec == MCInit /\ [][MCNext]_allvars

--------------------------------------------------------------------------------
\* Stores of any widths leave their bytes in the guest's order and no others, and
\* loads read them so, on either kind of host (arch_store8(), arch_load8() and
\* the others of frontend.cpp).
MemoryInGuestOrder ==
    /\ [](part = "memory" => Memory!LoadsInGuestOrder)
    /\ [][part = "memory" => Memory!StoresInGuestStep]_memory

\* What generated code loads from a floating point register is what was last put there,
\* by the client or by a store that no assertion refuses, and casts come out as wide
\* as the host allows (fp.cpp, arch_put_fp_reg()).
FloatsKept ==
    part = "floating" => FP!KeptValues /\ (stores = 0 => FP!CastsToWidest)

\* Generated code and clients find every register and the PC in the same bytes,
\* within what init() allocated (function.cpp, ..._types.h).
RegistersInPlace ==
    part = "places" =>
        Places!RegistersShared /\ Places!GuestReadsClient /\ Places!PcKept /\ Places!SpillsInside
================================================================================
