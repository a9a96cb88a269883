------------------------------ MODULE RegisterFile ------------------------------
(***************************************************************************)
(* libcpu/function.cpp and the register access of libcpu/frontend.cpp.     *)
(*                                                                         *)
(* A client owns the register file.  A translated function copies it into  *)
(* local variables when it is entered (OPT_LOCAL_REGISTERS), decodes the   *)
(* first extra register into one variable per flag, works on these copies  *)
(* and spills them when it returns.  The PC alone is written in place.     *)
(***************************************************************************)
EXTENDS Integers, Frontend

CONSTANTS
    NGpr, NXr,      \* regclass_count[]; extra registers follow the GPRs
    Width,          \* bits_size of every register
    Layout,         \* flags_layout: flag -> bit; empty without a PSR
    HardwireGpr0,   \* CPU_FLAG_HARDWIRE_GPR0
    PcIndex,        \* the register that rf.pc points to; -1: one of its own
    DirectReturns,  \* some instruction returns without going through "ret"
    Addresses, ClientValues, GuestValues

VARIABLES
    reg,        \* the register file, rf.grf
    pc,         \* *rf.pc where it is no register of the file
    local,      \* the allocas ptr_gpr[], ptr_xr[]
    flag,       \* the allocas ptr_FLAG[]
    running,    \* control is inside the function
    exit_code, ret

vars == <<reg, pc, local, flag, running, exit_code, ret>>

Regs == 0..(NGpr + NXr - 1)
PSR == NGpr
HasPsr == DOMAIN Layout # {}
ExitCodes == {"FUNCNOTFOUND", "SINGLESTEP", "TRAP"}

Decode(w) == arch_flags_decode(Layout, w)
Encode(f) == arch_flags_encode(Width, Layout, f)

\* Bits of the PSR are apart and the PSR is wide enough for them.
ASSUME RegistersAssumption ==
    /\ NGpr \in Nat /\ NXr \in Nat /\ Width \in Nat
    /\ PcIndex \in Regs \cup {-1}
    /\ DirectReturns \in BOOLEAN /\ HardwireGpr0 \in BOOLEAN
    /\ HardwireGpr0 => NGpr > 0
    /\ HasPsr => NXr > 0
    /\ GuestValues \subseteq Word(Width) /\ ClientValues \subseteq Word(Width)
    /\ 0 \in Word(Width)
    /\ Addresses # {} /\ (PcIndex # -1 => Addresses \subseteq Word(Width))

\* The PSR has at most 32 bits, and flags have bits of their own there.
ASSUME LayoutAssumption ==
    /\ \A f \in DOMAIN Layout : Layout[f] \in 0..(Width - 1)
    /\ \A f, g \in DOMAIN Layout : Layout[f] = Layout[g] => f = g

Init ==
    /\ reg \in [Regs -> ClientValues]
    /\ pc \in Addresses
    /\ local = [i \in Regs |-> 0]
    /\ flag = [f \in DOMAIN Layout |-> 0]
    /\ running = FALSE
    /\ exit_code = "FUNCNOTFOUND" /\ ret = "FUNCNOTFOUND"

--------------------------------------------------------------------------------
(***************************************************************************)
(* The client, between two calls.                                          *)
(***************************************************************************)
ClientPut(i, v) ==
    /\ ~running
    /\ i # PcIndex
    /\ reg' = [reg EXCEPT ![i] = v]
    /\ UNCHANGED <<pc, local, flag, running, exit_code, ret>>

\* Mutant: the exit code is not initialised.
Enter_NoCode(singlestep) ==
    /\ ~running
    /\ running' = TRUE
    /\ local' = reg
    /\ flag' = IF HasPsr THEN Decode(reg[PSR]) ELSE flag
    /\ exit_code' = "undefined"
    /\ UNCHANGED <<reg, pc, ret>>

\* emit_decode_reg() in the entry block
Enter(singlestep) ==
    /\ ~running
    /\ running' = TRUE
    /\ local' = reg
    /\ flag' = IF HasPsr THEN Decode(reg[PSR]) ELSE flag
    /\ exit_code' = IF singlestep THEN "SINGLESTEP" ELSE "FUNCNOTFOUND"
    /\ UNCHANGED <<reg, pc, ret>>

--------------------------------------------------------------------------------
(***************************************************************************)
(* The guest.  Its instructions reach the PSR through the flags only.      *)
(***************************************************************************)
\* Mutant: register zero is read from its local copy.
Get_Raw(i) == local[i]

\* arch_get_reg()
Get(i) == IF HardwireGpr0 /\ i = 0 THEN 0 ELSE local[i]

\* arch_put_reg() drops a write to r0 "on certain RISCs"
Writable(i) == ~(HardwireGpr0 /\ i = 0)

\* Mutant: registers are written in place, as without OPT_LOCAL_REGISTERS.
Put_Through(i, v) ==
    /\ running
    /\ ~(HasPsr /\ i = PSR)
    /\ local' = [local EXCEPT ![i] = v]
    /\ reg' = [reg EXCEPT ![i] = v]
    /\ UNCHANGED <<pc, flag, running, exit_code, ret>>

\* An instruction puts a value, or moves one register to another.
Put(i, v) ==
    /\ running
    /\ ~(HasPsr /\ i = PSR)
    /\ local' = IF Writable(i) THEN [local EXCEPT ![i] = v] ELSE local
    /\ UNCHANGED <<reg, pc, flag, running, exit_code, ret>>

Move(i, j) == ~(HasPsr /\ j = PSR) /\ Put(i, Get(j))

\* LET1() and SET_NZ()
PutFlag(f, b) ==
    /\ running
    /\ flag' = [flag EXCEPT ![f] = b]
    /\ UNCHANGED <<reg, pc, local, running, exit_code, ret>>

\* An instruction or emit_store_pc() stores to cpu->ptr_PC.
StorePC(a) ==
    /\ running
    /\ IF PcIndex = -1 THEN pc' = a /\ UNCHANGED reg
                       ELSE reg' = [reg EXCEPT ![PcIndex] = a] /\ UNCHANGED pc
    /\ UNCHANGED <<local, flag, running, exit_code, ret>>

--------------------------------------------------------------------------------
(***************************************************************************)
(* Leaving the function.                                                   *)
(***************************************************************************)
\* Mutant: the registers are spilled before the flags are encoded.
Spilled_TooEarly == local

\* spill_reg_state(): the flags go into the local PSR, and every local into
\* the file.
Spilled == IF HasPsr THEN [local EXCEPT ![PSR] = Encode(flag)] ELSE local

\* The block "ret"
Ret ==
    /\ running
    /\ running' = FALSE
    /\ reg' = Spilled
    /\ ret' = exit_code
    /\ UNCHANGED <<pc, local, flag, exit_code>>

\* The block "trap" sets the exit code and goes to "ret".
Trap ==
    /\ running
    /\ running' = FALSE
    /\ exit_code' = "TRAP"
    /\ reg' = Spilled
    /\ ret' = "TRAP"
    /\ UNCHANGED <<pc, local, flag>>

\* arch_6502_trap() emits a return of its own.
DirectReturn ==
    /\ DirectReturns
    /\ running
    /\ running' = FALSE
    /\ ret' = "TRAP"
    /\ UNCHANGED <<reg, pc, local, flag, exit_code>>

Next ==
    \/ \E i \in Regs, v \in ClientValues : ClientPut(i, v)
    \/ \E singlestep \in BOOLEAN : Enter(singlestep)
    \/ \E i \in Regs, v \in GuestValues : Put(i, v)
    \/ \E i, j \in Regs : Move(i, j)
    \/ \E f \in DOMAIN Layout, b \in {0, 1} : PutFlag(f, b)
    \/ \E a \in Addresses : StorePC(a)
    \/ Ret
    \/ Trap
    \/ DirectReturn

Spec == Init /\ [][Next]_vars

--------------------------------------------------------------------------------
TypeOK ==
    /\ reg \in [Regs -> Word(Width)]
    /\ pc \in Addresses
    /\ local \in [Regs -> Word(Width)]
    /\ flag \in [DOMAIN Layout -> {0, 1}]
    /\ running \in BOOLEAN
    /\ exit_code \in ExitCodes /\ ret \in ExitCodes

(***************************************************************************)
(* What the registers are worth at any time.  Register zero of some guests *)
(* reads as zero whatever the client put into the file.                    *)
(***************************************************************************)
Val ==
    [i \in Regs |->
        IF (HardwireGpr0 /\ i = 0) \/ (HasPsr /\ i = PSR) \/ i = PcIndex THEN 0
        ELSE IF running THEN local[i] ELSE reg[i]]

Flags ==
    IF ~HasPsr \/ running THEN flag ELSE Decode(reg[PSR])

PC == IF PcIndex = -1 THEN pc ELSE reg[PcIndex]

R == INSTANCE Registers WITH
        val <- Val, flags <- Flags, PC <- PC, guest <- running, Regs <- Regs,
        Flags <- DOMAIN Layout, Values <- Word(Width),
        Addresses <- IF PcIndex = -1 THEN Addresses ELSE Word(Width),
        Zero <- IF HardwireGpr0 THEN 0 ELSE -1, Bits <- {0, 1}

\* Entering, leaving and trapping lose no register, flag or PC: seen as Registers,
\* only a return of an instruction's own is no step of it (emit_decode_reg() and
\* spill_reg_state() in function.cpp).
RegistersKept == R!Init /\ [][R!Next \/ DirectReturn]_(R!vars)

\* Every single write of the guest arrives: the value, the value of another
\* register, the flag or the PC, and zero from and in a hardwired register zero
\* whatever the client left there (arch_get_reg(), arch_put_reg()).
WritesArrive ==
    [][PcIndex = -1 =>
        /\ \A i \in Regs, v \in GuestValues : Put(i, v) => R!Assign(i, v)
        /\ \A i, j \in Regs : Move(i, j) => R!Assign(i, Val[j])
        /\ \A f \in DOMAIN Layout, b \in {0, 1} : PutFlag(f, b) => R!PutFlag(f, b)
        /\ \A a \in Addresses : StorePC(a) => R!Jump(a)]_vars

\* The PC that an instruction stored is the one the client finds: the spill in
\* the block "ret" does not write it (cpu->ptr_PC in function.cpp).
PcKept == [][running /\ ~running' => PC' = PC]_vars

\* Until the function returns the client's file is as it was on entry, and then
\* all registers come at once: a guest that leaves by a return of its own leaves
\* none of them half way (spill_reg_state() in function.cpp).
AllOrNothing == [][PcIndex = -1 /\ running => reg' \in {reg, Spilled}]_vars
================================================================================
