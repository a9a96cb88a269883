---------------------------------- MODULE M88k ----------------------------------
(***************************************************************************)
(* arch/m88k/m88k_translate.cpp: how an instruction is tagged and what its *)
(* code does to the registers and to memory, composed to a guest step the  *)
(* way translate_singlestep.cpp does it.  Left out: what floating point    *)
(* instructions compute.                                                   *)
(***************************************************************************)
EXTENDS M88kDecode

CONSTANTS
    Values,      \* what may be left where the code has no result
    Programs,    \* the guest's code: address -> instruction word
    States,      \* initial contents of registers, carry and memory
    MaxSteps     \* bound: guest steps

VARIABLES
    prog,
    r,        \* [gpr, C, TRAPNO, ram]
    pc,
    ctl,      \* "run", "trap", "exit": unsupported, "abort": refused by LLVM or the host
    steps,    \* history: guest steps
    did,      \* history: the addresses executed in the last step
    before    \* history: r and pc before it

vars == <<prog, r, pc, ctl, steps, did, before>>

Poison == -1

Regs == 0..31
Byte == W32 \div 4

\* A word of four whole bytes, the fields of an instruction word, and the machine.
BytesAssumed == ImmBits \in Nat \ {0} /\ ImmBits % 2 = 0
IsWord(w) == w.d \in 0..31 /\ w.s \in 0..31 /\ w.low \in Word(16)
IsState(s) ==
    /\ s = [gpr |-> s.gpr, C |-> s.C, TRAPNO |-> s.TRAPNO, ram |-> s.ram]
    /\ s.gpr \in [Regs -> Word(W32)] /\ s.C \in 0..1
    /\ DOMAIN s.ram \subseteq Word(W32) /\ \A a \in DOMAIN s.ram : s.ram[a] \in Word(Byte)

--------------------------------------------------------------------------------
(***************************************************************************)
(* arch_m88k_tag_instr()                                                   *)
(***************************************************************************)
Jumps == {"JMP", "JMP_N"}
Calls == {"JSR", "JSR_N"}
BitBranches == {"BB0", "BB0_N", "BB1", "BB1_N"}
CondBranches == {"BCND", "BCND_N"}
Traps == {"TB0", "TBND", "TCND"}

NEVER == 0
ALWAYS == 15

tag_kind(i) ==
    LET o == opcode(i) IN
    CASE o = "ILLEGAL" -> {"TRAP"} [] o \in Jumps -> {"RET"} [] o \in Calls -> {"CALL"}
      [] o \in {"BR", "BR_N"} -> {"BRANCH"} [] o \in {"BSR", "BSR_N"} -> {"CALL"}
      [] o \in BitBranches -> {"BRANCH", "CONDITIONAL"}
      [] o \in CondBranches /\ mb(i) = NEVER -> {"CONTINUE"}
      [] o \in CondBranches /\ mb(i) = ALWAYS -> {"BRANCH"}
      [] o \in CondBranches /\ mb(i) \notin {NEVER, ALWAYS} -> {"BRANCH", "CONDITIONAL"}
      [] o \in Traps \/ (o = "TB1" /\ rs1(i) # 0) -> {"TRAP"}
      [] OTHER -> {"CONTINUE"}

tag(i) == tag_kind(i) \cup (IF is_delaying(i) THEN {"DELAY_SLOT"} ELSE {})

NEW_PC_NONE == -1

new_pc(i, a) ==
    CASE opcode(i) \in Calls -> NEW_PC_NONE
      [] opcode(i) \in {"BR", "BR_N", "BSR", "BSR_N"} -> a + 4 * branch26(i)
      [] OTHER -> a + 4 * branch16(i)

\* arch_m88k_fix_return_pc(): what the instruction in the slot adds.
FixReturnPc(i) ==
    IF rd(i) # 1 \/ rs1(i) # 1 \/ format(i) # "IFMT_REG" THEN 0
    ELSE CASE opcode(i) \in {"ADD", "ADDU"} -> immediate(i)
           [] opcode(i) \in {"SUB", "SUBU"} -> -immediate(i)
           [] OTHER -> 0

next_pc(i, slot, a) ==
    IF ~is_delaying(i) THEN a + 4
    ELSE a + 8 + (IF opcode(i) \in {"BSR_N", "JSR_N"} THEN FixReturnPc(slot) ELSE 0)

--------------------------------------------------------------------------------
(***************************************************************************)
(* arch_m88k_translate_cond(): the value of the condition, or None where   *)
(* it returns NULL.                                                        *)
(***************************************************************************)
None == -1
Sign == 2^(W32 - 1)
bit(v, k) == IF k \in 0..(W32 - 1) THEN LSHR(v, k) % 2 ELSE 0

arch_m88k_bcnd_cond(v, c) ==
    LET n == Signed(W32, v) IN
    CASE c = 1 -> Bit(n > 0) [] c = 2 -> Bit(v = 0) [] c = 3 -> Bit(n >= 0)
      [] c = 4 -> Bit(v # Sign /\ n < 0) [] c = 5 -> Bit((AND(W32, v, Sign - 1)) # 0)
      [] c = 6 -> Bit(v # Sign /\ n <= 0) [] c = 7 -> Bit(v # Sign)
      [] c = 8 -> Bit(v = Sign) [] c = 9 -> Bit(n > 0 \/ v = Sign)
      [] c = 10 -> Bit((AND(W32, v, Sign - 1)) = 0) [] c = 11 -> Bit(n >= 0 \/ v = Sign)
      [] c = 12 -> Bit(n < 0) [] c = 13 -> Bit(v # 0) [] c = 14 -> Bit(n <= 0)
      [] c \in {NEVER, ALWAYS} -> None

translate_cond(s, i) ==
    LET v == s.gpr[rs1(i)] IN
    CASE opcode(i) \in CondBranches -> arch_m88k_bcnd_cond(v, mb(i) % 16)
      [] opcode(i) \in {"BB0", "BB0_N"} -> Bit(bit(v, mb(i)) = 0)
      [] opcode(i) \in {"BB1", "BB1_N"} -> Bit(bit(v, mb(i)) # 0)
      [] OTHER -> None

--------------------------------------------------------------------------------
(***************************************************************************)
(* Values of arch_m88k_translate_instr().  a and b are the operands.       *)
(***************************************************************************)
UIMM(i) == TRUNC(ImmBits, i.low)
IMM(i) == TRUNC(W32, immediate(i))
IMM_U(i) == UIMM(i) * 2^ImmBits
IMM_B(i) == UIMM(i) + (2^W32 - 2^ImmBits)
IMM_UB(i) == IMM_U(i) + 2^ImmBits - 1

Signs == {"ADD", "SUB", "DIVS"}

\* The second operand: a register, or the immediate with the opcode's extension.
Operand(s, i) ==
    IF format(i) # "IFMT_REG" THEN s.gpr[rs2(i)]
    ELSE CASE opcode(i) \in Signs -> IMM(i)
      [] opcode(i) = "AND" -> IMM_B(i) [] opcode(i) = "AND_U" -> IMM_UB(i)
      [] opcode(i) \in {"MASK_U", "OR_U", "XOR_U"} -> IMM_U(i)
      [] OTHER -> UIMM(i)

\* arch_m88k_addsub(); GET_CARRY() is all ones.
Subtracts == {"SUB", "SUBU"}
CarryIn(s, i) == IF carry(i) >= 2 THEN SEXT(1, W32, s.C) ELSE 0

addsub(s, i, a, b) ==
    IF opcode(i) \in Subtracts THEN SUB(W32, SUB(W32, a, b), CarryIn(s, i))
    ELSE ADD(W32, ADD(W32, a, b), CarryIn(s, i))

\* COMPUTE_CARRY(), COMPUTE_BORROW()
CarryOut(i, a, b, result) ==
    Bit(b # 0 /\ IF opcode(i) \in Subtracts THEN result > a ELSE result < a)

wmask(i) == IF bit_width(i) = 0 THEN 2^W32 - 1 ELSE 2^bit_width(i) - 1

Shift(v, n) == IF n >= W32 THEN Poison ELSE SHL(W32, v, n)

Disjoint(a, b) == IF Poison \in {a, b} THEN Poison ELSE OR(W32, a, b)

\* Mutant: the field is not moved to the left end first.
EXT_NoShift(a, w, o) == IF w = 0 THEN ASHR(W32, a, o) ELSE AND(W32, ASHR(W32, a, o), 2^w - 1)

EXT(a, w, o) ==
    IF w = 0 THEN ASHR(W32, a, o)
    ELSE LET nb == W32 - (o + w)
         IN ASHR(W32, SHL(W32, a, nb % W32), (o + nb) % W32)

\* arch_m88k_shift(): with a field in the instruction, or in a register.
FieldInsn(i, a) ==
    LET o == bit_offset(i) IN
    CASE opcode(i) = "ROT" -> Disjoint(LSHR(a, o), Shift(a, W32 - o))
      [] opcode(i) = "MAK" -> SHL(W32, AND(W32, a, wmask(i)), o)
      [] opcode(i) = "SET" -> OR(W32, a, SHL(W32, wmask(i), o))
      [] opcode(i) = "CLR" -> AND(W32, a, COM(W32, SHL(W32, wmask(i), o)))
      [] opcode(i) = "EXT" -> EXT(a, bit_width(i), o)
      [] opcode(i) = "EXTU" -> AND(W32, LSHR(a, o), wmask(i))

FieldReg(i, a, b) ==
    LET o == b % W32 IN
    CASE opcode(i) = "ROT" -> Disjoint(LSHR(a, o), Shift(a, W32 - o))
      [] opcode(i) = "MAK" -> Shift(a, b)
      [] opcode(i) = "SET" -> OR(W32, a, SHL(W32, wmask(i), o))
      [] opcode(i) = "CLR" -> AND(W32, a, COM(W32, SHL(W32, wmask(i), o)))
      [] opcode(i) = "EXT" -> ASHR(W32, a, o)
      [] opcode(i) = "EXTU" -> LSHR(a, o)

\* arch_m88k_cmp(): twice (((-x) ^ 6) & 0xf) at its place.  More bits than W32 here.
Nibble(x) == XOR(4, IF x THEN 15 ELSE 0, 6)

arch_m88k_cmp(a, b) ==
    IF a = b THEN 23204
    ELSE OR(16, 40968, OR(16, Nibble(a > b) * 2^8, Nibble(ICMP_SLT(W32, b, a)) * 2^4))

Quotient(a, b) == (IF (a < 0) = (b < 0) THEN 1 ELSE -1) *
                  ((IF a < 0 THEN -a ELSE a) \div (IF b < 0 THEN -b ELSE b))

\* The division by zero is evaluated before SELECT chooses 0.
Divided(i, a, b) ==
    IF b = 0 THEN Poison
    ELSE IF opcode(i) = "DIVU" THEN a \div b
    ELSE IF a = Sign /\ b = 2^W32 - 1 THEN Poison
    ELSE TRUNC(W32, Quotient(Signed(W32, a), Signed(W32, b)))

AddSub == {"ADD", "ADDU", "SUB", "SUBU"}
Logic == {"AND", "AND_C", "AND_U", "MASK", "MASK_U", "OR", "OR_C", "OR_U", "XOR", "XOR_C", "XOR_U"}
Fields == {"ROT", "MAK", "SET", "CLR", "EXT", "EXTU"}
LDA == [LDA_H |-> 1, LDA |-> 2, LDA_D |-> 3, LDA_X |-> 4]
Alu == AddSub \cup Logic \cup Fields \cup DOMAIN LDA \cup {"MULS", "MULU", "DIVS", "DIVU", "CMP"}

Logical(i, a, b) ==
    CASE opcode(i) \in {"AND", "AND_U", "MASK", "MASK_U"} -> AND(W32, a, b)
      [] opcode(i) \in {"OR", "OR_U"} -> OR(W32, a, b) [] opcode(i) \in {"XOR", "XOR_U"} -> XOR(W32, a, b)
      [] opcode(i) = "AND_C" -> AND(W32, a, COM(W32, b)) [] opcode(i) = "OR_C" -> OR(W32, a, COM(W32, b))
      [] opcode(i) = "XOR_C" -> XOR(W32, a, COM(W32, b))

Calculated(s, i) ==
    LET a == s.gpr[rs1(i)] b == Operand(s, i) IN
    CASE opcode(i) \in AddSub -> addsub(s, i, a, b)
      [] opcode(i) \in Logic -> Logical(i, a, b)
      [] opcode(i) \in Fields -> IF format(i) = "BFMT_REG" THEN FieldInsn(i, a) ELSE FieldReg(i, a, b)
      [] opcode(i) \in DOMAIN LDA -> ADD(W32, a, SHL(W32, b, LDA[opcode(i)]))
      [] opcode(i) \in {"MULS", "MULU"} -> TRUNC(W32, a * b)
      [] opcode(i) \in {"DIVS", "DIVU"} -> Divided(i, a, b)
      [] opcode(i) = "CMP" -> arch_m88k_cmp(a, b)

--------------------------------------------------------------------------------
(***************************************************************************)
(* Memory, most significant byte first; MemoryAccess has the accesses.     *)
(***************************************************************************)
Read(ram, a, n) ==
    LET big[k \in 0..n] == IF k = 0 THEN 0 ELSE big[k - 1] * 2^Byte + ram[a + k - 1]
    IN big[n]

Write(ram, a, n, v) ==
    [x \in DOMAIN ram |->
        IF x \in a..(a + n - 1) THEN LSHR(v, Byte * (a + n - 1 - x)) % 2^Byte ELSE ram[x]]

Width == [LD_B |-> 1, LD_BU |-> 1, LD_H |-> 2, LD_HU |-> 2, LD |-> 4, LD_D |-> 4,
          ST_B |-> 1, ST_H |-> 2, ST |-> 4, ST_D |-> 4, XMEM |-> 4]

\* SHL(R32(rs2), ...) for TFMT_REGS, and always for xmem.
Scale(i) ==
    IF format(i) # "TFMT_REGS" /\ opcode(i) # "XMEM" THEN 0
    ELSE CASE opcode(i) \in {"LD", "ST", "XMEM"} -> 2 [] opcode(i) \in {"LD_D", "ST_D"} -> 3
      [] opcode(i) \in {"LD_H", "LD_HU", "ST_H"} -> 1 [] OTHER -> 0

Address(s, i) ==
    ADD(W32, s.gpr[rs1(i)],
        IF format(i) = "IFMT_MEM" THEN UIMM(i) ELSE SHL(W32, s.gpr[rs2(i)], Scale(i)))

\* arch_get_shift16() ignores an address's lowest bit.
Located(s, i) ==
    LET a == Address(s, i) IN IF Width[opcode(i)] = 2 THEN a - (a % 2) ELSE a

Within(ram, a, n) == a..(a + n - 1) \subseteq DOMAIN ram

Let(s, n, v) == IF n = 0 THEN s ELSE [s EXCEPT !.gpr[n] = v]

Even(n) == n - (n % 2)
Odd(n) == Even(n) + 1

Loaded(s, i) ==
    LET n == Width[opcode(i)] v == Read(s.ram, Located(s, i), n) IN
    IF opcode(i) \in {"LD_B", "LD_H"} THEN SEXT(n * Byte, W32, v) ELSE v

\* The second address is calculated from the registers after the first load.
LoadPair(s, i) ==
    LET first == Let(s, Even(rd(i)), Read(s.ram, Address(s, i), 4))
        a == ADD(W32, Address(first, i), 4)
    IN IF Within(s.ram, a, 4) THEN {Let(first, Odd(rd(i)), Read(s.ram, a, 4))} ELSE {}

StorePair(s, i) ==
    LET a == Address(s, i) b == ADD(W32, a, 4) IN
    IF Within(s.ram, b, 4)
    THEN {[s EXCEPT !.ram = Write(Write(@, a, 4, s.gpr[Even(rd(i))]), b, 4, s.gpr[Odd(rd(i))])]}
    ELSE {}

arch_m88k_xmem(s, i) ==
    LET a == Address(s, i)
    IN [Let(s, rd(i), Read(s.ram, a, 4)) EXCEPT !.ram = Write(@, a, 4, s.gpr[rd(i)])]

\* What an access leaves; outside of RAM the host faults.
Accessed(s, i) ==
    LET a == Located(s, i) n == Width[opcode(i)] IN
    IF ~Within(s.ram, a, n) THEN {}
    ELSE CASE opcode(i) = "LD_D" -> LoadPair(s, i) [] opcode(i) = "ST_D" -> StorePair(s, i)
           [] opcode(i) = "XMEM" -> {arch_m88k_xmem(s, i)}
           [] opcode(i) \in is_load \ {"LD_D"} -> {Let(s, rd(i), Loaded(s, i))}
           [] OTHER -> {[s EXCEPT !.ram = Write(@, a, n, s.gpr[rd(i)])]}

--------------------------------------------------------------------------------
(***************************************************************************)
(* arch_m88k_translate_instr()                                             *)
(***************************************************************************)
NoCode == {"BR", "BR_N", "DIVU_D", "MULU_D", "FSTCR"} \cup BitBranches \cup CondBranches
Linking == {"JSR", "JSR_N", "BSR", "BSR_N"}
Floating == {"FADD", "FSUB", "FMUL", "FDIV", "FCVT", "INT", "NINT", "TRNC", "FLT", "FSQRT",
             "FCMP", "FCMPU", "MOV"}
MemoryForms == {"IFMT_MEM", "TFMT_REG", "TFMT_REGS"}

Fpu(i) == opcode(i) \in Floating \/ format(i) = "IFMT_XMEM"

\* BAD, and what the switch does not have.  A store of two words in another form
\* has no code instead.
Exits(i) ==
    LET o == opcode(i) IN
    \/ o \in {"LD", "ST", "LD_H", "LD_HU", "LD_D", "ST_H"} /\ format(i) \notin MemoryForms \cup {"IFMT_XMEM"}
    \/ o \notin Alu \cup NoCode \cup Linking \cup Jumps \cup Traps \cup {"TB1", "FLDCR", "FF0", "FF1"}
                \cup Floating \cup is_load_or_store

\* cttz() has two arguments; the byte of xmem.bu is stored to a register as it is.
Refused(i) == opcode(i) \in {"FF0", "FF1", "XMEM_BU"}

\* LINK(d)
Link(s, i, a) == Let(s, 1, TRUNC(W32, a + 4 * (IF opcode(i) \in {"JSR_N", "BSR_N"} THEN 2 ELSE 1)))

Trapped(i) == opcode(i) \in Traps \/ (opcode(i) = "TB1" /\ rs1(i) # 0)

\* The destination and the carry.
Computed(s, i) ==
    LET v == Calculated(s, i)
        c == IF opcode(i) \in AddSub /\ carry(i) % 2 = 1
             THEN CarryOut(i, s.gpr[rs1(i)], Operand(s, i), v) ELSE s.C
    IN {[Let(s, rd(i), x) EXCEPT !.C = c] : x \in IF v = Poison THEN Values ELSE {v}}

\* The states after the instruction i at address a.
Done(s, i, a) ==
    LET o == opcode(i) IN
    CASE o \in Alu -> Computed(s, i)
      [] o \in DOMAIN Width /\ format(i) \in MemoryForms -> Accessed(s, i)
      [] o \in Linking -> {Link(s, i, a)}
      [] o = "FLDCR" -> {Let(s, rd(i), 0)}
      [] Trapped(i) -> {[s EXCEPT !.TRAPNO = vec9(i)]}
      [] OTHER -> {s}

\* Mutant: the jump of JSR is left to the tag.
StoresPc_NotJsr(i) == opcode(i) \in Jumps \/ Trapped(i)

\* LET_PC(): after the link register was written.
StoresPc(i) == opcode(i) \in Jumps \cup Calls \/ Trapped(i)
PcStored(s, i, a) == IF Trapped(i) THEN a + 4 ELSE s.gpr[rs2(i)]

--------------------------------------------------------------------------------
Init ==
    /\ prog \in {Code(p) : p \in Programs}
    /\ r \in States
    /\ pc = 0 /\ ctl = "run" /\ steps = 0 /\ did = <<>>
    /\ before = [r |-> r, pc |-> pc]

Here == prog[pc]
Slot == IF pc + 4 \in DOMAIN prog THEN prog[pc + 4] ELSE Here
Compiled == {Here} \cup (IF is_delaying(Here) THEN {Slot} ELSE {})
Conditional == "CONDITIONAL" \in tag(Here)

\* Compiling fails before anything is executed, also where a condition is NULL; and
\* bcnd.n that never branches has no block to go to.
Fail ==
    /\ \/ \E i \in Compiled : Exits(i)
       \/ \E i \in Compiled : Refused(i)
       \/ Conditional /\ translate_cond(r, Here) = None
       \/ {"CONTINUE", "DELAY_SLOT"} \subseteq tag(Here)
    /\ ctl' = IF \E i \in Compiled : Exits(i) THEN "exit" ELSE "abort"
    /\ UNCHANGED <<prog, r, pc, did, before>>

Compiles ==
    /\ \A i \in Compiled : ~Exits(i) /\ ~Refused(i)
    /\ Conditional => translate_cond(r, Here) # None
    /\ ~({"CONTINUE", "DELAY_SLOT"} \subseteq tag(Here))

\* The delay slot's instruction, when there is one.
ThenSlot(s) == IF is_delaying(Here) THEN Done(s, Slot, pc + 4) ELSE {s}

GoesTo(s) ==
    IF StoresPc(Here) THEN PcStored(s, Here, pc)
    ELSE IF tag(Here) \cap {"BRANCH", "CALL"} # {} THEN new_pc(Here, pc)
    ELSE next_pc(Here, Slot, pc)

Taken ==
    /\ Conditional => translate_cond(r, Here) = 1
    /\ did' = IF is_delaying(Here) THEN <<pc, pc + 4>> ELSE <<pc>>
    /\ \E s \in Done(r, Here, pc) :
         /\ r' \in ThenSlot(s)
         /\ pc' = GoesTo(s)
    /\ ctl' = IF "TRAP" \in tag(Here) THEN "trap" ELSE ctl

Untaken ==
    /\ Conditional /\ translate_cond(r, Here) = 0
    /\ r' \in ThenSlot(r)
    /\ did' = IF is_delaying(Here) THEN <<pc + 4>> ELSE <<>>
    /\ pc' = next_pc(Here, Slot, pc)
    /\ UNCHANGED ctl

Step ==
    /\ ctl = "run" /\ steps < MaxSteps /\ pc \in DOMAIN prog
    /\ is_delaying(Here) => pc + 4 \in DOMAIN prog
    /\ \/ Fail
       \/ /\ Compiles
          /\ UNCHANGED prog /\ before' = [r |-> r, pc |-> pc]
          /\ Taken \/ Untaken
    /\ steps' = steps + 1

Next == Step

Spec == Init /\ [][Next]_vars

--------------------------------------------------------------------------------
(***************************************************************************)
(* What the comments of m88k_translate.cpp and m88k_isa.h say, bit by bit. *)
(***************************************************************************)
\* "((int)rs1 >> n) & wmask" with a sign, "(rs1 & wmask) << offset" and the rest.
FieldBit(i, a, k) ==
    LET o == bit_offset(i)
        w == IF bit_width(i) = 0 THEN W32 ELSE bit_width(i)
        inside == k \in o..(o + w - 1)
    IN CASE opcode(i) = "ROT" -> bit(a, (k + o) % W32)
         [] opcode(i) = "SET" -> IF inside THEN 1 ELSE bit(a, k)
         [] opcode(i) = "CLR" -> IF inside THEN 0 ELSE bit(a, k)
         [] opcode(i) = "MAK" -> IF inside THEN bit(a, k - o) ELSE 0
         [] opcode(i) = "EXTU" -> IF k < w THEN bit(a, k + o) ELSE 0
         [] opcode(i) = "EXT" -> bit(a, IF k + o < W32 /\ k < w THEN k + o
                                        ELSE IF o + w < W32 THEN o + w - 1 ELSE W32 - 1)

\* A field has to be in the register, as every offset is with words of 32 bits; a
\* rotation by nothing shifts by W32.
FieldDefined(i) ==
    /\ format(i) = "BFMT_REG" /\ bit_offset(i) < W32
    /\ bit_width(i) = 0 \/ bit_offset(i) + bit_width(i) <= W32
    /\ opcode(i) = "ROT" => bit_offset(i) # 0

\* The bits 2 to 11 of a comparison.
CmpBits(a, b) ==
    LET x == Signed(W32, a) y == Signed(W32, b)
    IN <<a = b, a # b, x > y, x <= y, x < y, x >= y, a > b, a <= b, a < b, a >= b>>

\* Which of the four bits of a condition code stands for the number n.
CodeBit(n) == IF n > 0 THEN 0 ELSE IF n = 0 THEN 1 ELSE IF n > -Sign THEN 2 ELSE 3

Straight == did = <<before.pc>> /\ tag(prog[before.pc]) = {"CONTINUE"}

(***************************************************************************)
(* Bit fields, comparisons, carries, exchanges and pairs of words are      *)
(* exactly what the comments in m88k_translate.cpp say, and nothing but    *)
(* the destination changes.                                                *)
(***************************************************************************)
FieldsAsCommented(s, i) ==
    opcode(i) \in Fields /\ FieldDefined(i) /\ rd(i) # 0 =>
        \A k \in 0..(W32 - 1) : bit(r.gpr[rd(i)], k) = FieldBit(i, s.gpr[rs1(i)], k)

ComparisonsAsCommented(s, i) ==
    opcode(i) = "CMP" /\ rd(i) # 0 =>
        \A k \in 2..11 : (LSHR(r.gpr[rd(i)], k) % 2 = 1) <=>
                            CmpBits(s.gpr[rs1(i)], Operand(s, i))[k - 1]

CarriesExactly(s, i) ==
    opcode(i) \in AddSub /\ carry(i) = 1 /\ rd(i) # 0 =>
        LET a == s.gpr[rs1(i)] b == Operand(s, i) v == r.gpr[rd(i)]
        IN IF opcode(i) \in Subtracts THEN a - b = v - r.C * 2^W32 ELSE a + b = v + r.C * 2^W32

\* The first word of a pair must not be the second one's address.  The address of the
\* second word may wrap.
MemoryExactly(s, i) ==
    LET a == Address(s, i) IN
    /\ opcode(i) = "XMEM" =>
         /\ Read(r.ram, a, 4) = s.gpr[rd(i)]
         /\ rd(i) # 0 => r.gpr[rd(i)] = Read(s.ram, a, 4)
    /\ opcode(i) = "ST_D" =>
         \A k \in {0, 1} : Read(r.ram, ADD(W32, a, 4 * k), 4) = s.gpr[Even(rd(i)) + k]
    /\ opcode(i) = "LD_D" /\ Even(rd(i)) \notin {0, rs1(i), rs2(i)} =>
         \A k \in {0, 1} : r.gpr[Even(rd(i)) + k] = Read(s.ram, ADD(W32, a, 4 * k), 4)

NothingElse(s, i) ==
    /\ r.gpr = [s.gpr EXCEPT ![rd(i)] = r.gpr[rd(i)],
                 ![Even(rd(i))] = r.gpr[Even(rd(i))], ![Odd(rd(i))] = r.gpr[Odd(rd(i))]]
    /\ opcode(i) \notin is_store \cup is_xmem => r.ram = s.ram

InstructionsAsCommented ==
    Straight => LET s == before.r i == prog[before.pc] IN
        /\ FieldsAsCommented(s, i) /\ ComparisonsAsCommented(s, i)
        /\ CarriesExactly(s, i) /\ NothingElse(s, i)
        /\ opcode(i) \in DOMAIN Width /\ format(i) \in MemoryForms => MemoryExactly(s, i)

(***************************************************************************)
(* bcnd branches by one bit of its code for each kind of number, on the    *)
(* value before its delay slot; and where the tag says that a call returns *)
(* to, link register and slot, calculated by the guest, agree              *)
(* (arch_m88k_bcnd_cond(), arch_m88k_fix_return_pc()).                     *)
(***************************************************************************)
BranchesByCode ==
    LET i == prog[before.pc] IN
    did # <<>> /\ opcode(i) \in CondBranches /\ mb(i) < 16 =>
        pc = IF bit(mb(i), CodeBit(Signed(W32, before.r.gpr[rs1(i)]))) = 1 THEN new_pc(i, before.pc)
             ELSE before.pc + (IF is_delaying(i) THEN 8 ELSE 4)

\* Sums by ADDU and SUBU have no sign, and a slot may have more to say of r1: calls
\* link to it, and the pair of r0 is r1.
SlotUnderstood(i) ==
    /\ carry(i) < 2 /\ opcode(i) \notin Linking
    /\ opcode(i) = "LD_D" => Odd(rd(i)) # 1
    /\ opcode(i) \in {"ADDU", "SUBU"} => immediate(i) >= 0
    /\ rd(i) = 1 => rs1(i) = 1 /\ format(i) = "IFMT_REG" /\ opcode(i) \in AddSub

ReturnsToTag ==
    LET i == prog[before.pc] slot == prog[before.pc + 4] IN
    did # <<>> /\ opcode(i) \in {"BSR_N", "JSR_N"} /\ SlotUnderstood(slot) =>
        r.gpr[1] = TRUNC(W32, next_pc(i, slot, before.pc))

(***************************************************************************)
(* What arch_m88k_tag_instr() promises of an instruction word,             *)
(* arch_m88k_translate_instr() and _cond() keep: the program counter is    *)
(* stored exactly where the tag leaves it open, a condition is there, and  *)
(* the link register gets the address behind the slot.  The branches with  *)
(* the reserved codes 16 and 31 and bcnd.n never are the exceptions.       *)
(***************************************************************************)
Exceptional(i) ==
    opcode(i) \in CondBranches /\ (mb(i) \in {16, 31} \/ (mb(i) = NEVER /\ is_delaying(i)))

KeepsTag(s, i) ==
    LET t == tag(i) open == "RET" \in t \/ ("CALL" \in t /\ new_pc(i, 0) = NEW_PC_NONE) IN
    ~Exits(i) /\ ~Exceptional(i) =>
        /\ StoresPc(i) <=> open \/ "TRAP" \in t
        /\ "CONDITIONAL" \in t => translate_cond(s, i) # None
        /\ "CALL" \in t => \A x \in Done(s, i, 0) : x.gpr[1] = next_pc(i, [i EXCEPT !.opcode = "ILLEGAL", !.format = "NONE"], 0)
        /\ ~({"CONTINUE", "DELAY_SLOT"} \subseteq t)
================================================================================
