-------------------------------- MODULE Mos6502 --------------------------------
(***************************************************************************)
(* arch/6502: what the instruction that 6502_translate.cpp generates for   *)
(* an opcode does to the registers, the flags and the memory, and what     *)
(* 6502_tag.cpp tells the library about it.  A byte has W bits and an      *)
(* address two bytes; the code has W = 8.  The opcode is always the 8 bit  *)
(* one of 6502_isa.h.  Guest code is an input: any OpcodeBytes may be next, *)
(* with any operand.                                                       *)
(***************************************************************************)
EXTENDS Frontend, TLC

CONSTANTS
    W,          \* bits of a byte
    Layout,     \* the flags and their bits in P: 6502_isa.h has N, V, X, B, D, I, Z, C
                \* from bit 7 to bit 0
    OperandBytes,   \* the operand bytes of the guest program
    OpcodeBytes,    \* the opcodes the guest program is made of
    InitialRegisters,  \* initial values of A, X, Y and S
    Memories,   \* initial contents of the memory
    MaxSteps    \* bound: instructions executed

ASSUME Mos6502Assumption ==
    /\ W \in Nat /\ W >= 2
    /\ OpcodeBytes \subseteq 0..255 /\ OperandBytes \subseteq Word(W)
    /\ {"N", "V", "Z", "C"} \subseteq DOMAIN Layout
    /\ \A f \in DOMAIN Layout : Layout[f] \in 0..(W - 1)
    /\ \A f, g \in DOMAIN Layout : Layout[f] = Layout[g] => f = g
    /\ InitialRegisters \subseteq [{"A", "X", "Y", "S"} -> Word(W)]
    /\ Memories \subseteq [Word(2 * W) -> Word(W)]

VARIABLES
    R,        \* A, X, Y, S
    F,        \* the flags
    PC,
    RAM,
    ctl,      \* "run", "trap", or "fault": outside the memory
    did,      \* history: the instruction executed last and its operand
    calls,    \* history: the calls whose return address is still where S was
    steps     \* history: instructions executed

vars == <<R, F, PC, RAM, ctl, did, calls, steps>>

B == 2^W
Byte == Word(W)
Address == Word(2 * W)

--------------------------------------------------------------------------------
(***************************************************************************)
(* 6502_isa.h                                                              *)
(***************************************************************************)
\* Opcodes come in columns eight apart for most addressing modes.
Opcode(instr) ==
    CASE instr = "BRK" -> {\h00} [] instr = "NOP" -> {\hEA}
      [] instr = "TXA" -> {\h8A} [] instr = "TYA" -> {\h98}
      [] instr = "TAY" -> {\hA8} [] instr = "TAX" -> {\hAA}
      [] instr = "TXS" -> {\h9A} [] instr = "TSX" -> {\hBA}
      [] instr = "LDA" -> {\hA1, \hA5, \hA9, \hAD, \hB1, \hB5, \hB9, \hBD}
      [] instr = "LDX" -> {\hA2, \hA6, \hAE, \hB6, \hBE}
      [] instr = "LDY" -> {\hA0, \hA4, \hAC, \hB4, \hBC}
      [] instr = "STA" -> {\h81, \h85, \h8D, \h91, \h95, \h99, \h9D}
      [] instr = "STY" -> {\h84, \h8C, \h94} [] instr = "STX" -> {\h86, \h8E, \h96}
      [] instr = "AND" -> {\h21, \h25, \h29, \h2D, \h31, \h35, \h39, \h3D}
      [] instr = "ORA" -> {\h01, \h05, \h09, \h0D, \h11, \h15, \h19, \h1D}
      [] instr = "EOR" -> {\h41, \h45, \h49, \h4D, \h51, \h55, \h59, \h5D}
      [] instr = "BIT" -> {\h24, \h2C}
      [] instr = "ASL" -> {\h06, \h0A, \h0E, \h16, \h1E}
      [] instr = "LSR" -> {\h46, \h4A, \h4E, \h56, \h5E}
      [] instr = "ROL" -> {\h26, \h2A, \h2E, \h36, \h3E}
      [] instr = "ROR" -> {\h66, \h6A, \h6E, \h76, \h7E}
      [] instr = "INC" -> {\hE6, \hEE, \hF6, \hFE} [] instr = "DEC" -> {\hC6, \hCE, \hD6, \hDE}
      [] instr = "INX" -> {\hE8} [] instr = "INY" -> {\hC8}
      [] instr = "DEX" -> {\hCA} [] instr = "DEY" -> {\h88}
      [] instr = "ADC" -> {\h61, \h65, \h69, \h6D, \h71, \h75, \h79, \h7D}
      [] instr = "SBC" -> {\hE1, \hE5, \hE9, \hED, \hF1, \hF5, \hF9, \hFD}
      [] instr = "CMP" -> {\hC1, \hC5, \hC9, \hCD, \hD1, \hD5, \hD9, \hDD}
      [] instr = "CPX" -> {\hE0, \hE4, \hEC} [] instr = "CPY" -> {\hC0, \hC4, \hCC}
      [] instr = "PHP" -> {\h08} [] instr = "PLP" -> {\h28}
      [] instr = "PHA" -> {\h48} [] instr = "PLA" -> {\h68}
      [] instr = "BPL" -> {\h10} [] instr = "BMI" -> {\h30}
      [] instr = "BVC" -> {\h50} [] instr = "BVS" -> {\h70}
      [] instr = "BCC" -> {\h90} [] instr = "BCS" -> {\hB0}
      [] instr = "BNE" -> {\hD0} [] instr = "BEQ" -> {\hF0}
      [] instr = "CLC" -> {\h18} [] instr = "CLI" -> {\h58} [] instr = "CLV" -> {\hB8}
      [] instr = "CLD" -> {\hD8} [] instr = "SEC" -> {\h38} [] instr = "SEI" -> {\h78}
      [] instr = "SED" -> {\hF8}
      [] instr = "JSR" -> {\h20} [] instr = "JMP" -> {\h4C, \h6C}
      [] instr = "RTI" -> {\h40} [] instr = "RTS" -> {\h60}

Branches == {"BPL", "BMI", "BVC", "BVS", "BCC", "BCS", "BNE", "BEQ"}
Transfers == {"TAX", "TAY", "TXA", "TYA", "TSX", "TXS"}
SetFlags == {"CLC", "CLD", "CLI", "CLV", "SEC", "SED", "SEI"}
Shifts == {"ASL", "LSR", "ROL", "ROR"}
Instrs == Branches \cup Transfers \cup SetFlags \cup Shifts \cup
    {"BRK", "NOP", "LDA", "LDX", "LDY", "STA", "STX", "STY", "AND", "ORA", "EOR",
     "BIT", "INC", "DEC", "INX", "INY", "DEX", "DEY", "ADC", "SBC", "CMP", "CPX",
     "CPY", "PHP", "PLP", "PHA", "PLA", "JSR", "JMP", "RTI", "RTS"}

Instr ==
    [op \in 0..255 |->
        IF \E i \in Instrs : op \in Opcode(i)
        THEN CHOOSE i \in Instrs : op \in Opcode(i) ELSE "XXX"]

Absolute == {\h0D, \h0E, \h20, \h2C, \h2D, \h2E, \h4C, \h4D, \h4E, \h6D, \h6E, \h8C,
    \h8D, \h8E, \hAC, \hAD, \hAE, \hCC, \hCD, \hCE, \hEC, \hED, \hEE}
AbsoluteX == {\h1D, \h1E, \h3D, \h3E, \h5D, \h5E, \h7D, \h7E, \h9D, \hBC, \hBD, \hDD,
    \hDE, \hFD, \hFE}

AbsoluteY == {\h19, \h39, \h59, \h79, \h99, \hB9, \hBE, \hD9, \hF9}
Accumulator == {\h0A, \h2A, \h4A, \h6A}
Relative == {\h10, \h30, \h50, \h70, \h90, \hB0, \hD0, \hF0}
Immediate == {\h09, \h29, \h49, \h69, \hA0, \hA2, \hA9, \hC0, \hC9, \hE0, \hE9}
IndirectX == {\h01, \h21, \h41, \h61, \h81, \hA1, \hC1, \hE1}
IndirectY == {\h11, \h31, \h51, \h71, \h91, \hB1, \hD1, \hF1}
ZeroPage == {\h05, \h06, \h24, \h25, \h26, \h45, \h46, \h65, \h66, \h84, \h85, \h86,
    \hA4, \hA5, \hA6, \hC4, \hC5, \hC6, \hE4, \hE5, \hE6}
ZeroPageX == {\h15, \h16, \h35, \h36, \h55, \h56, \h75, \h76, \h94, \h95, \hB4, \hB5,
    \hD5, \hD6, \hF5, \hF6}
ZeroPageY == {\h96, \hB6}

AddMode(op) ==
    CASE op \in Absolute -> "ABS" [] op \in AbsoluteX -> "ABSX" [] op \in AbsoluteY -> "ABSY"
      [] op \in Accumulator -> "ACC" [] op \in Relative -> "BRA" [] op \in Immediate -> "IMM"
      [] op = \h6C -> "IND" [] op \in IndirectX -> "INDX" [] op \in IndirectY -> "INDY"
      [] op \in ZeroPage -> "ZP" [] op \in ZeroPageX -> "ZPX" [] op \in ZeroPageY -> "ZPY"
      [] OTHER -> "IMPL"

get_length(am) ==
    CASE am \in {"ACC", "IMPL"} -> 1
      [] am \in {"BRA", "IMM", "INDX", "INDY", "ZP", "ZPX", "ZPY"} -> 2
      [] am \in {"ABS", "ABSX", "ABSY", "IND"} -> 3

--------------------------------------------------------------------------------
(***************************************************************************)
(* 6502_tag.cpp: what the library is told about an opcode.                 *)
(***************************************************************************)
Tag(op) ==
    CASE Instr[op] = "BRK" -> "TRAP"
      [] Instr[op] = "RTS" -> "RET"
      [] Instr[op] = "JMP" -> "BRANCH"
      [] Instr[op] = "JSR" -> "CALL"
      [] Instr[op] \in Branches -> "COND_BRANCH"
      [] OTHER -> "CONTINUE"

Operand16(lo, hi) == lo + B * hi

\* new_pc, where the instruction has one; -1 is NEW_PC_NONE.
new_pc(op, pc, lo, hi) ==
    IF Instr[op] \in Branches THEN pc + 2 + Signed(W, lo)
    ELSE IF AddMode(op) = "IND" THEN -1
    ELSE Operand16(lo, hi)

--------------------------------------------------------------------------------
(***************************************************************************)
(* 6502_translate.cpp                                                      *)
(***************************************************************************)
\* translate_cond()
Condition(op) ==
    CASE Instr[op] = "BEQ" -> F.Z = 1 [] Instr[op] = "BNE" -> F.Z = 0
      [] Instr[op] = "BCS" -> F.C = 1 [] Instr[op] = "BCC" -> F.C = 0
      [] Instr[op] = "BMI" -> F.N = 1 [] Instr[op] = "BPL" -> F.N = 0
      [] Instr[op] = "BVS" -> F.V = 1 [] Instr[op] = "BVC" -> F.V = 0

\* get_operand_lvalue(): the address, which may lie behind the memory.
Base(am, lo, hi) ==
    IF am \in {"ABS", "ABSX", "ABSY"} THEN Operand16(lo, hi) ELSE lo

Indexed(am, base) ==
    LET ea == base + CASE am \in {"ABSX", "INDX", "ZPX"} -> R.X
                       [] am \in {"ABSY", "ZPY"} -> R.Y
                       [] OTHER -> 0
    IN IF am \notin {"ABS", "ABSX", "ABSY"} THEN ea % B
       ELSE IF base >= B * (B - 1) THEN ea % B^2 ELSE ea

LOAD_RAM16(a) == RAM[a] + B * RAM[a + 1]

EA(am, lo, hi) ==
    LET ea == Indexed(am, Base(am, lo, hi))
    IN CASE am = "INDX" -> LOAD_RAM16(ea)
         [] am = "INDY" -> LOAD_RAM16(ea) + R.Y
         [] OTHER -> ea

InMemory == {"ABS", "ABSX", "ABSY", "INDX", "INDY", "ZP", "ZPX", "ZPY"}

\* OPERAND
Value(am, lo, hi) ==
    CASE am = "IMM" -> lo [] am = "ACC" -> R.A
      [] am \in InMemory -> RAM[EA(am, lo, hi)]
      [] OTHER -> 0

NZ(f, v) == [f EXCEPT !.N = Bit(Negative(W, v)), !.Z = Bit(v = 0)]

\* An instruction that leaves PC to the library.
Next_pc(op) == PC' = TRUNC(2 * W, PC + get_length(AddMode(op)))

Let(r, v) == R' = [R EXCEPT ![r] = v] /\ F' = NZ(F, v) /\ UNCHANGED RAM

LetFlag(f, v) == F' = [F EXCEPT ![f] = v] /\ UNCHANGED <<R, RAM>>

StoreTo(am, lo, hi, v) ==
    IF am = "ACC" THEN R' = [R EXCEPT !.A = v] /\ UNCHANGED RAM
    ELSE RAM' = [RAM EXCEPT ![EA(am, lo, hi)] = v] /\ UNCHANGED R

\* TOS, PUSH and PULL
Tos(s) == B + s

Pushed(v) == RAM' = [RAM EXCEPT ![Tos(R.S)] = v] /\ R' = [R EXCEPT !.S = SUB(W, R.S, 1)]

\* Mutant: the low byte is pushed first.
Push16_Swapped(v) ==
    /\ RAM' = [RAM EXCEPT ![Tos(R.S)] = v % B, ![Tos(SUB(W, R.S, 1))] = v \div B]
    /\ R' = [R EXCEPT !.S = SUB(W, R.S, 2)]

Push16(v) ==
    /\ RAM' = [RAM EXCEPT ![Tos(R.S)] = v \div B, ![Tos(SUB(W, R.S, 1))] = v % B]
    /\ R' = [R EXCEPT !.S = SUB(W, R.S, 2)]

Pull16 == RAM[Tos(ADD(W, R.S, 1))] + B * RAM[Tos(ADD(W, R.S, 2))]

SetFlag(instr) ==
    /\ instr \in SetFlags
    /\ LetFlag(CASE instr \in {"CLC", "SEC"} -> "C" [] instr \in {"CLD", "SED"} -> "D"
                 [] instr \in {"CLI", "SEI"} -> "I" [] instr = "CLV" -> "V",
               Bit(instr \in {"SEC", "SED", "SEI"}))

Transfer(instr) ==
    \/ instr = "TAX" /\ Let("X", R.A)
    \/ instr = "TAY" /\ Let("Y", R.A)
    \/ instr = "TXA" /\ Let("A", R.X)
    \/ instr = "TYA" /\ Let("A", R.Y)
    \/ instr = "TSX" /\ Let("X", R.S)
    \/ instr = "TXS" /\ Let("S", R.X)

LoadStore(instr, am, lo, hi) ==
    \/ instr = "LDA" /\ Let("A", Value(am, lo, hi))
    \/ instr = "LDX" /\ Let("X", Value(am, lo, hi))
    \/ instr = "LDY" /\ Let("Y", Value(am, lo, hi))
    \/ instr = "STA" /\ StoreTo(am, lo, hi, R.A) /\ UNCHANGED F
    \/ instr = "STX" /\ StoreTo(am, lo, hi, R.X) /\ UNCHANGED F
    \/ instr = "STY" /\ StoreTo(am, lo, hi, R.Y) /\ UNCHANGED F

Stack(instr) ==
    \/ instr = "PHA" /\ Pushed(R.A) /\ UNCHANGED F
    \/ instr = "PHP" /\ Pushed(arch_flags_encode(W, Layout, F)) /\ UNCHANGED F
    \/ /\ instr = "PLA"
       /\ R' = [R EXCEPT !.S = ADD(W, R.S, 1), !.A = RAM[Tos(ADD(W, R.S, 1))]]
       /\ F' = NZ(F, R'.A)
       /\ UNCHANGED RAM
    \/ /\ instr = "PLP"
       /\ R' = [R EXCEPT !.S = ADD(W, R.S, 1)]
       /\ F' = arch_flags_decode(Layout, RAM[Tos(R'.S)])
       /\ UNCHANGED RAM

ShiftRotate(instr, am, lo, hi) ==
    /\ instr \in Shifts
    /\ LET r == arch_shiftrotate(W, Value(am, lo, hi), F.C, instr \in {"ASL", "ROL"},
                                 instr \in {"ROL", "ROR"})
       IN /\ StoreTo(am, lo, hi, r.value)
          /\ F' = NZ([F EXCEPT !.C = r.carry], r.value)

Logic(instr, v) ==
    \/ instr = "AND" /\ Let("A", AND(W, R.A, v))
    \/ instr = "ORA" /\ Let("A", OR(W, R.A, v))
    \/ instr = "EOR" /\ Let("A", XOR(W, R.A, v))
    \/ instr = "BIT" /\ F' = NZ(F, v) /\ UNCHANGED <<R, RAM>>

\* Mutant: a comparison borrows like a subtraction.
CarryIn_Borrow(instr) == F.C

\* The third operand of arch_adc(): the carry, or one for a comparison.
CarryIn(instr) == IF instr \in {"ADC", "SBC"} THEN F.C ELSE 1

Arithmetic(instr, v) ==
    /\ instr \in {"ADC", "SBC", "CMP", "CPX", "CPY"}
    /\ LET a == CASE instr = "CPX" -> R.X [] instr = "CPY" -> R.Y [] OTHER -> R.A
           r == arch_adc(W, a, IF instr = "ADC" THEN v ELSE COM(W, v), CarryIn(instr))
       IN /\ F' = NZ([F EXCEPT !.C = r.carry], r.value)
          /\ R' = IF instr \in {"ADC", "SBC"} THEN [R EXCEPT !.A = r.value] ELSE R
          /\ UNCHANGED RAM

Increment(instr, am, lo, hi) ==
    \/ instr = "INX" /\ Let("X", ADD(W, R.X, 1))
    \/ instr = "INY" /\ Let("Y", ADD(W, R.Y, 1))
    \/ instr = "DEX" /\ Let("X", SUB(W, R.X, 1))
    \/ instr = "DEY" /\ Let("Y", SUB(W, R.Y, 1))
    \/ /\ instr \in {"INC", "DEC"}
       /\ LET v == (Value(am, lo, hi) + (IF instr = "INC" THEN 1 ELSE -1)) % B
          IN StoreTo(am, lo, hi, v) /\ F' = NZ(F, v)

Straight(op, lo, hi) ==
    LET instr == Instr[op] am == AddMode(op) IN
    /\ Tag(op) = "CONTINUE"
    /\ \/ SetFlag(instr)
       \/ Transfer(instr)
       \/ LoadStore(instr, am, lo, hi)
       \/ Stack(instr)
       \/ ShiftRotate(instr, am, lo, hi)
       \/ Logic(instr, Value(am, lo, hi))
       \/ Arithmetic(instr, Value(am, lo, hi))
       \/ Increment(instr, am, lo, hi)
       \/ instr = "NOP" /\ UNCHANGED <<R, F, RAM>>
    /\ Next_pc(op)

Jump(op, lo, hi) ==
    /\ Instr[op] = "JMP"
    /\ PC' = IF AddMode(op) = "IND" THEN LOAD_RAM16(Operand16(lo, hi))
             ELSE new_pc(op, PC, lo, hi)
    /\ UNCHANGED <<R, F, RAM>>

Branch(op, lo, hi) ==
    /\ Instr[op] \in Branches
    /\ IF Condition(op) THEN PC' = TRUNC(2 * W, new_pc(op, PC, lo, hi)) ELSE Next_pc(op)
    /\ UNCHANGED <<R, F, RAM>>

Call(op, lo, hi) ==
    /\ Instr[op] = "JSR"
    /\ Push16(TRUNC(2 * W, PC + 2))
    /\ PC' = new_pc(op, PC, lo, hi)
    /\ UNCHANGED F

Return(op) ==
    /\ Instr[op] = "RTS"
    /\ PC' = ADD(2 * W, Pull16, 1)
    /\ R' = [R EXCEPT !.S = ADD(W, R.S, 2)]
    /\ UNCHANGED <<F, RAM>>

\* trap(): PC is the instruction's own.
Trap(op) ==
    /\ Instr[op] \in {"BRK", "RTI", "XXX"}
    /\ ctl' = "trap"
    /\ UNCHANGED <<R, F, PC, RAM>>

\* The instructions that access the memory behind its end.
Beyond(op, lo, hi) ==
    \/ AddMode(op) \in InMemory /\ Instr[op] # "JSR" /\ Instr[op] # "JMP"
       /\ EA(AddMode(op), lo, hi) \notin Address
    \/ AddMode(op) = "IND" /\ Operand16(lo, hi) + 1 \notin Address

\* The stack bytes a call has used.
Slots(call) == {Tos(call.s), Tos(SUB(W, call.s, 1))}

Calls(op) ==
    {c \in calls : \A a \in Slots(c) : RAM'[a] = RAM[a]}
        \cup IF Instr[op] = "JSR" THEN {[ret |-> TRUNC(2 * W, PC + 3), s |-> R.S]} ELSE {}

Execute(op, lo, hi) ==
    /\ steps' = steps + 1
    /\ ~Beyond(op, lo, hi)
    /\ did' = [op |-> op, am |-> AddMode(op), lo |-> lo, hi |-> hi,
               value |-> Value(AddMode(op), lo, hi)]
    /\ \/ Trap(op)
       \/ /\ \/ Straight(op, lo, hi) \/ Jump(op, lo, hi) \/ Branch(op, lo, hi)
             \/ Call(op, lo, hi) \/ Return(op)
          /\ UNCHANGED ctl
    /\ calls' = Calls(op)

Fault(op, lo, hi) ==
    /\ Beyond(op, lo, hi)
    /\ ctl' = "fault"
    /\ UNCHANGED <<R, F, PC, RAM, did, calls, steps>>

Flags == [DOMAIN Layout -> 0..1]

Init ==
    /\ R \in InitialRegisters
    /\ F \in Flags
    /\ PC = 2 * B
    /\ RAM \in Memories
    /\ ctl = "run" /\ calls = {} /\ steps = 0
    /\ did = [op |-> \hEA, am |-> "IMPL", lo |-> 0, hi |-> 0, value |-> 0]

Step(op) ==
    /\ ctl = "run" /\ steps < MaxSteps
    /\ \E lo \in IF get_length(AddMode(op)) > 1 THEN OperandBytes ELSE {0},
          hi \in IF get_length(AddMode(op)) > 2 THEN OperandBytes ELSE {0} :
           Execute(op, lo, hi) \/ Fault(op, lo, hi)

Next == \E op \in OpcodeBytes : Step(op)

Spec == Init /\ [][Next]_vars

--------------------------------------------------------------------------------
TypeOK ==
    /\ R \in [{"A", "X", "Y", "S"} -> Byte]
    /\ F \in Flags
    /\ PC \in Address
    /\ RAM \in [Address -> Byte]
    /\ ctl \in {"run", "trap", "fault"}

Executed == steps' = steps + 1 /\ ctl' = "run"

\* Sums, differences, comparisons and shifts of one byte can be chained to any
\* length through the carry: value and carry together are the exact result
\* (arch_adc(), arch_shiftrotate()).
ArithmeticExact ==
    Executed =>
        LET instr == Instr[did'.op]
            v == did'.value
            a == CASE instr = "CPX" -> R.X [] instr = "CPY" -> R.Y [] OTHER -> R.A
            shifted == IF did'.am = "ACC" THEN R'.A ELSE RAM'[EA(did'.am, did'.lo, did'.hi)]
        IN CASE instr = "ADC" -> R'.A + B * F'.C = R.A + v + F.C
             [] instr = "SBC" -> R'.A - B * (1 - F'.C) = R.A - v - (1 - F.C)
             [] instr \in {"CMP", "CPX", "CPY"} ->
                    F'.C = Bit(a >= v) /\ F'.Z = Bit(a = v) /\ R' = R
             [] instr \in {"ASL", "ROL"} ->
                    shifted + B * F'.C = 2 * v + (IF instr = "ROL" THEN F.C ELSE 0)
             [] instr \in {"LSR", "ROR"} ->
                    2 * shifted + F'.C = v + (IF instr = "ROR" THEN B * F.C ELSE 0)
             [] OTHER -> TRUE

\* RTS comes back behind the JSR whose bytes are on top of the stack, wherever in
\* its page the stack wraps and whatever was called in between.
ReturnsAfterCall ==
    Executed /\ Instr[did'.op] = "RTS" => \A c \in calls : c.s = R'.S => PC' = c.ret
================================================================================
