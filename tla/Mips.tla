---------------------------------- MODULE Mips ----------------------------------
(***************************************************************************)
(* arch/mips: how mips_translate.cpp tags an instruction, and what the     *)
(* code it generates computes, composed to a guest step the way            *)
(* translate_singlestep.cpp does it.  Widths are constants: the code has   *)
(* 8, 16, 32 and 64 bits and a jump region of 28.                          *)
(***************************************************************************)
EXTENDS TypedIR, TLC

CONSTANTS
    W8, W16, W32, W64, W28,
    Regs,        \* the registers that exist here, 0 and 31 among them
    Programs,    \* the guest's code: the instruction at an address, each program
                 \* with the delay slots of its jumps
    Values,      \* what may be left where the code has no result
    Registers,   \* initial contents of the registers
    Memory,      \* initial contents of the bytes of RAM
    MaxSteps     \* bound: guest steps

\* The opcode and the fields of an instruction, as they are cut out of its word.
Decodable(i) ==
    /\ i.rs \in Regs /\ i.rt \in Regs /\ i.rd \in Regs
    /\ i.sa \in 0..(W32 - 1) /\ i.imm \in Word(W16) /\ i.target \in Nat

Code(p) == DOMAIN p \subseteq Nat /\ \A a \in DOMAIN p : Decodable(p[a])

\* Every word is two of the next smaller one.
MipsAssumed ==
    /\ W8 \in Nat \ {0} /\ W16 = 2 * W8 /\ W32 = 2 * W16 /\ W64 = 2 * W32
    /\ {0, 31} \subseteq Regs /\ Values \subseteq Word(W64)
    /\ \A s \in Registers : s \in [Regs -> Word(W64)] /\ s[0] = 0
    /\ DOMAIN Memory \subseteq Nat /\ \A a \in DOMAIN Memory : Memory[a] \in Word(W8)

VARIABLES
    word_size,    \* info.word_size: the mode
    prog,
    r,        \* the registers
    pc,
    ctl,      \* "run", "trap", "exit": unsupported, "abort": LLVM has no such instruction
    steps,    \* history: guest steps
    did,      \* history: the addresses executed in the last step
    before    \* history: registers and pc before it

vars == <<word_size, prog, r, pc, ctl, steps, did, before>>

\* arch_mips_register_layout: #if tests a constant that is 1, whatever the mode.
Size == W64

Instruction(op, rs, rt, rd, sa, imm, target) ==
    [op |-> op, rs |-> rs, rt |-> rt, rd |-> rd, sa |-> sa, imm |-> imm, target |-> target]

--------------------------------------------------------------------------------
(***************************************************************************)
(* arch_mips_tag_instr()                                                   *)
(***************************************************************************)
Regimm == {"BLTZ", "BGEZ", "BLTZAL", "BGEZAL", "BLTZL", "BGEZL", "BLTZALL", "BGEZALL",
           "TGEI", "TGEIU", "TLTI", "TLTIU", "TEQI", "TNEI", "REGIMM_invalid"}
Likely == {"BEQL", "BNEL", "BLEZL", "BGTZL"}
Trapping == {"SYSCALL", "BREAK", "SPECIAL_invalid", "COP0", "invalid"}
Branches == {"BEQ", "BNE", "BLEZ", "BGTZ"}

\* REGIMM and J fall through into JAL, COP1 into the likely branches.
tag(i) ==
    CASE i.op = "JR" -> {"RET", "DELAY_SLOT"}
      [] i.op = "JALR" -> {"BRANCH", "DELAY_SLOT"}
      [] i.op \in Trapping -> {"TRAP"}
      [] i.op \in Regimm \cup {"J", "JAL"} -> {"CALL"}
      [] i.op \in Branches \cup Likely \cup {"COP1"} ->
           {"BRANCH", "DELAY_SLOT"} \cup
           (IF i.op = "BEQ" /\ i.rs = 0 /\ i.rt = 0 THEN {} ELSE {"CONDITIONAL"})
      [] OTHER -> {"CONTINUE"}

NoPc == -1

\* MIPS_BRANCH_TARGET
BranchTarget(i, a) == (a + 4 + SEXT(W16, W32, i.imm) * 4) % 2^W32

new_pc(i, a) ==
    IF i.op = "JALR" THEN NoPc
    ELSE IF i.op \in Regimm \cup {"J", "JAL"} THEN (a - (a % 2^W28)) + 4 * i.target
    ELSE BranchTarget(i, a)

next_pc(i, a) == a + (IF "DELAY_SLOT" \in tag(i) THEN 8 ELSE 4)

--------------------------------------------------------------------------------
(***************************************************************************)
(* arch_mips_translate_cond()                                              *)
(***************************************************************************)
CONST(v) == CONSTs(word_size, v)
R(s, n) == Get(Size, 0, s[n])
R32(s, n) == Get(Size, W32, s[n])

tSLE0(a) == tNOT(tSLT(CONST(0), a))

cond(s, i) ==
    CASE i.op = "BEQ" -> tEQ(R(s, i.rs), R(s, i.rt))
      [] i.op = "BNE" -> tNOT(tEQ(R(s, i.rs), R(s, i.rt)))
      [] i.op = "BLEZ" -> tSLE0(R(s, i.rs))
      [] i.op = "BGTZ" -> tSLT(CONST(0), R(s, i.rs))
      [] OTHER -> CONSTs(1, 0)

--------------------------------------------------------------------------------
(***************************************************************************)
(* arch_mips_translate_instr()                                             *)
(***************************************************************************)
Imm(i) == SEXT(W16, W64, i.imm)
IMM(i) == CONST(Imm(i))
IMMU(i) == CONST(i.imm)
IMM32(i) == CONSTs(W32, Imm(i))
SA(i) == CONST(i.sa)
SA32(i) == CONSTs(W32, i.sa)

LET_(v) == Extended(Size, 0, FALSE, v)

\* Mutant: the upper half is cleared.
LET32_Zero(v) == Extended(Size, W32, FALSE, v)

LET32(v) == Extended(Size, W32, TRUE, v)
LET_ZEXT(v) == Extended(Size, 1, FALSE, v)

\* "(int32_t)pc+8": the sum is made in 64 bits.
Link(a) == CONST(SEXT(W32, W64, a) + 8)

Ones32 == CONSTs(W32, 2^W32 - 1)

\* 32 bit operations; SRAV and the like shift by the whole register.
Word32(s, i) ==
    LET rs == R32(s, i.rs) rt == R32(s, i.rt) IN
    CASE i.op = "SLL" -> tSHL(rt, SA32(i)) [] i.op = "SRL" -> tLSHR(rt, SA32(i))
      [] i.op = "SRA" -> tASHR(rt, SA32(i)) [] i.op = "SLLV" -> tSHL(rt, rs)
      [] i.op = "SRLV" -> tLSHR(rt, rs) [] i.op = "SRAV" -> tASHR(rt, rs)
      [] i.op \in {"ADD", "ADDU"} -> tADD(rs, rt) [] i.op \in {"SUB", "SUBU"} -> tSUB(rs, rt)
      [] i.op = "AND" -> tAND(rs, rt) [] i.op = "OR" -> tOR(rs, rt)
      [] i.op = "XOR" -> tXOR(rs, rt) [] i.op = "NOR" -> tXOR(tOR(rs, rt), Ones32)
      [] i.op \in {"ADDI", "ADDIU"} -> tADD(rs, IMM32(i))

Ops32 == {"SLL", "SRL", "SRA", "SLLV", "SRLV", "SRAV", "ADD", "ADDU", "SUB", "SUBU", "AND",
          "OR", "XOR", "NOR", "ADDI", "ADDIU"}

\* Operations on the whole register.
Whole(s, i) ==
    LET rs == R(s, i.rs) rt == R(s, i.rt) IN
    CASE i.op \in {"DADD", "DADDU"} -> tADD(rs, rt)
      [] i.op \in {"DSUB", "DSUBU"} -> tSUB(rs, rt)
      [] i.op = "DSLL" -> tSHL(rt, SA(i)) [] i.op = "DSRL" -> tLSHR(rt, SA(i))
      [] i.op = "DSRA" -> tASHR(rt, SA(i))
      [] i.op = "DSLL32" -> tSHL(rt, tADD(SA(i), CONST(W32)))
      [] i.op = "DSRL32" -> tLSHR(rt, tADD(SA(i), CONST(W32)))
      [] i.op = "DSRA32" -> tASHR(rt, tADD(SA(i), CONST(W32)))
      [] i.op = "ANDI" -> tAND(rs, IMMU(i)) [] i.op = "ORI" -> tOR(rs, IMMU(i))
      [] i.op = "XORI" -> tXOR(rs, IMMU(i)) [] i.op = "LUI" -> tSHL(IMMU(i), CONST(W16))
      [] i.op \in {"DADDI", "DADDIU"} -> tADD(rs, IMM(i))

OpsWhole == {"DADD", "DADDU", "DSUB", "DSUBU", "DSLL", "DSRL", "DSRA", "DSLL32", "DSRL32",
             "DSRA32", "ANDI", "ORI", "XORI", "LUI", "DADDI", "DADDIU"}

OpsCompare == {"SLT", "SLTU", "SLTI", "SLTIU"}

Comparison(s, i) ==
    LET rs == R(s, i.rs) IN
    CASE i.op = "SLT" -> tSLT(rs, R(s, i.rt)) [] i.op = "SLTU" -> tULT(rs, R(s, i.rt))
      [] i.op \in {"SLTI", "SLTIU"} -> tULT(rs, IMM(i))

Loads == {"LB", "LBU", "LH", "LHU", "LW"}
Stores == {"SB", "SH", "SW"}

Address(s, i) == tADD(R32(s, i.rs), IMM32(i))

\* The address is an index into RAM that LLVM sign-extends.  Outside of RAM
\* there may be anything.
Bytes(a, n) ==
    LET big[k \in 0..n] == IF k = 0 THEN 0 ELSE big[k - 1] * 2^W8 + Memory[a + k - 1]
    IN IF a..(a + n - 1) \subseteq DOMAIN Memory THEN big[n] ELSE Poison

\* Narrow accesses calculate with CONST(3): the address has to have the word size.
Narrow(s, i, v) == IF tAND(Address(s, i), CONST(3)).bits = 0 THEN Mistyped ELSE v

\* MemoryAccess has the details of big endian accesses.
Loaded(s, i) ==
    LET a == Signed(W32, Address(s, i).val)
        v(n) == [bits |-> n * W8, val |-> Bytes(a - (a % n), n)]
    IN CASE i.op = "LB" -> Extended(Size, W8, TRUE, Narrow(s, i, v(1)))
         [] i.op = "LBU" -> Extended(Size, W8, FALSE, Narrow(s, i, v(1)))
         [] i.op = "LH" -> Extended(Size, W16, TRUE, Narrow(s, i, v(2)))
         [] i.op = "LHU" -> Extended(Size, W16, FALSE, Narrow(s, i, v(2)))
         [] i.op = "LW" -> Extended(Size, W32, TRUE, [bits |-> W32, val |-> Bytes(a, 4)])

\* STORE8 and STORE16 mask the value with a constant of the word size, STORE32
\* stores it as 32 bits: the register's size is neither's.
Stored(s, i) ==
    IF i.op = "SW" THEN IF R(s, i.rt).bits = W32 THEN R(s, i.rt) ELSE Mistyped
    ELSE Narrow(s, i, tAND(R(s, i.rt), CONST(2^W16 - 1)))

NoOps == {"CACHE", "LL", "LLD", "SC", "J", "BLTZ", "BGEZ"} \cup Branches

\* What is written to which register; and to the program counter.
Written(s, i, a) ==
    CASE i.op \in Ops32 -> LET32(Word32(s, i))
      [] i.op \in OpsWhole -> LET_(Whole(s, i))
      [] i.op \in OpsCompare -> LET_ZEXT(Comparison(s, i))
      [] i.op \in Loads -> Loaded(s, i)
      [] i.op \in {"JAL", "JALR", "BLTZAL", "BGEZAL"} -> LET32(Link(a))
      [] i.op \in Stores -> Stored(s, i)
      [] OTHER -> CONSTs(Size, 0)

Immediate == {"ADDI", "ADDIU", "SLTI", "SLTIU", "ANDI", "ORI", "XORI", "LUI", "DADDI", "DADDIU"}

Destination(i) ==
    IF i.op \in Stores \cup NoOps \cup {"JR"} THEN 0
    ELSE IF i.op \in {"JAL", "BLTZAL", "BGEZAL"} THEN 31
    ELSE IF i.op \in Loads \cup Immediate THEN i.rt ELSE i.rd

Let(s, n, v) == IF n = 0 THEN s ELSE [s EXCEPT ![n] = v]

PcStored(s, i) ==
    LET v == IF i.op = "JR" THEN R(s, i.rs) ELSE tSUB(R(s, i.rs), CONST(4))
    IN IF v.bits = word_size THEN v ELSE Mistyped

Supported == Ops32 \cup OpsWhole \cup OpsCompare \cup Loads \cup Stores \cup NoOps \cup
             {"JAL", "JALR", "JR", "BLTZAL", "BGEZAL"}

Refused(s, i, a) ==
    \/ Written(s, i, a).bits # Size /\ i.op \notin NoOps \cup {"JR"}
    \/ i.op \in {"JR", "JALR"} /\ PcStored(s, i).bits = 0

--------------------------------------------------------------------------------
(***************************************************************************)
(* A guest step.  Compiling comes first: nothing of it happens when the    *)
(* instruction or its delay slot is not supported or refused.              *)
(***************************************************************************)
Init ==
    /\ word_size \in {W32, W64}
    /\ prog \in Programs
    /\ r \in Registers
    /\ pc = 0
    /\ ctl = "run" /\ steps = 0 /\ did = <<>>
    /\ before = [r |-> r, pc |-> pc]

Slot == prog[pc + 4]
Delayed(i) == "DELAY_SLOT" \in tag(i)
Compiled(i) == IF Delayed(i) THEN {<<i, pc>>, <<Slot, pc + 4>>} ELSE {<<i, pc>>}

Fail(i) ==
    /\ ctl' = IF \E c \in Compiled(i) : c[1].op \notin Supported THEN "exit" ELSE "abort"
    /\ UNCHANGED <<word_size, prog, r, pc, did, before>>

Compiles(i) ==
    /\ \A c \in Compiled(i) : c[1].op \in Supported /\ ~Refused(r, c[1], c[2])
    /\ "CONDITIONAL" \in tag(i) => cond(r, i).bits = 1

\* The registers after the instruction at a; poison may be anything.
Done(s, i, a) ==
    LET v == Written(s, i, a) IN
    IF v.val = Poison THEN {Let(s, Destination(i), x) : x \in Values}
    ELSE {Let(s, Destination(i), v.val)}

After(i, s, target) ==
    /\ pc' = target
    /\ IF Delayed(i) THEN r' \in Done(s, Slot, pc + 4) ELSE r' = s
    /\ UNCHANGED ctl

Taken(i) ==
    /\ "CONDITIONAL" \in tag(i) => cond(r, i).val = 1
    /\ did' = IF Delayed(i) THEN <<pc, pc + 4>> ELSE <<pc>>
    /\ \E s \in Done(r, i, pc) :
         After(i, s, IF "RET" \in tag(i) \/ new_pc(i, pc) = NoPc THEN PcStored(r, i).val
                     ELSE IF tag(i) \cap {"BRANCH", "CALL"} # {} THEN new_pc(i, pc)
                     ELSE next_pc(i, pc))

Untaken(i) ==
    /\ "CONDITIONAL" \in tag(i) /\ cond(r, i).val = 0
    /\ did' = <<pc + 4>>
    /\ After(i, r, next_pc(i, pc))

Step ==
    /\ ctl = "run" /\ steps < MaxSteps /\ pc \in DOMAIN prog
    /\ LET i == prog[pc] IN
        /\ Delayed(i) => pc + 4 \in DOMAIN prog
        /\ IF ~Compiles(i) THEN Fail(i)
           ELSE /\ UNCHANGED <<word_size, prog>> /\ before' = [r |-> r, pc |-> pc]
                /\ Taken(i) \/ Untaken(i)
    /\ steps' = steps + 1

Next == Step

Spec == Init /\ [][Next]_vars

--------------------------------------------------------------------------------
TypeOK ==
    /\ word_size \in {W32, W64}
    /\ prog \in Programs
    /\ r \in [Regs -> Word(Size)] /\ r[0] = 0
    /\ pc \in 0..2^W64 /\ ctl \in {"run", "exit", "abort"}
    /\ steps \in 0..MaxSteps

(***************************************************************************)
(* The reference: test/mips/interpreter/CPU/CPUInterpreter.cpp, which the  *)
(* repository keeps beside the translator, on 64 bit registers.  C has no  *)
(* result for shifts by the width or more.                                 *)
(***************************************************************************)
u32(v) == TRUNC(W32, v)
s32(v) == SEXT(W32, W64, TRUNC(W32, v))

Interpreted(s, i) ==
    LET rs == s[i.rs] rt == s[i.rt] sx == SEXT(W16, W64, i.imm) a == Signed(W32, u32(rs + sx)) IN
    CASE i.op \in {"ADD", "ADDU"} -> s32(rs + rt) [] i.op \in {"SUB", "SUBU"} -> s32(rs - rt)
      [] i.op \in {"ADDI", "ADDIU"} -> s32(rs + sx)
      [] i.op = "SLL" -> s32(SHL(W32, u32(rt), i.sa)) [] i.op = "SRL" -> s32(LSHR(u32(rt), i.sa))
      [] i.op = "SRA" -> s32(ASHR(W32, u32(rt), i.sa))
      [] i.op = "SLLV" -> s32(SHL(W32, u32(rt), rs)) [] i.op = "SRLV" -> s32(LSHR(u32(rt), rs))
      [] i.op = "SRAV" -> s32(ASHR(W32, u32(rt), rs))
      [] i.op = "AND" -> AND(W64, rs, rt) [] i.op = "OR" -> OR(W64, rs, rt)
      [] i.op = "XOR" -> XOR(W64, rs, rt) [] i.op = "NOR" -> COM(W64, OR(W64, rs, rt))
      [] i.op \in {"DADD", "DADDU"} -> ADD(W64, rs, rt)
      [] i.op \in {"DSUB", "DSUBU"} -> SUB(W64, rs, rt)
      [] i.op \in {"DADDI", "DADDIU"} -> ADD(W64, rs, sx)
      [] i.op = "DSLL" -> SHL(W64, rt, i.sa) [] i.op = "DSLL32" -> SHL(W64, rt, i.sa + W32)
      [] i.op = "DSRL" -> LSHR(rt, i.sa) [] i.op = "DSRL32" -> LSHR(rt, i.sa + W32)
      [] i.op = "DSRA" -> ASHR(W64, rt, i.sa) [] i.op = "DSRA32" -> ASHR(W64, rt, i.sa + W32)
      [] i.op = "SLT" -> Bit(ICMP_SLT(W64, rs, rt)) [] i.op = "SLTU" -> Bit(rs < rt)
      [] i.op = "SLTI" -> Bit(ICMP_SLT(W64, rs, sx)) [] i.op = "SLTIU" -> Bit(rs < sx)
      [] i.op = "ANDI" -> AND(W64, rs, i.imm) [] i.op = "ORI" -> OR(W64, rs, i.imm)
      [] i.op = "XORI" -> XOR(W64, rs, i.imm) [] i.op = "LUI" -> s32(i.imm * 2^W16)
      [] i.op = "LB" -> SEXT(W8, W64, Bytes(a, 1)) [] i.op = "LBU" -> Bytes(a, 1)
      [] i.op = "LH" -> SEXT(W16, W64, Bytes(a, 2)) [] i.op = "LHU" -> Bytes(a, 2)
      [] i.op = "LW" -> s32(Bytes(a, 4))

Undefined(s, i) ==
    \/ i.op \in {"SLLV", "SRLV", "SRAV"} /\ s[i.rs] >= W32
    \/ i.op \in Loads /\ LET a == Signed(W32, u32(s[i.rs] + Imm(i)))
                             n == CASE i.op \in {"LB", "LBU"} -> 1 [] i.op \in {"LH", "LHU"} -> 2
                                    [] OTHER -> 4
                         IN a % n # 0 \/ ~(a..(a + n - 1) \subseteq DOMAIN Memory)

InterpretedRegisters(s, i) ==
    IF i.op \in NoOps THEN s ELSE Let(s, Destination(i), Interpreted(s, i))

\* What the translator and the interpreter disagree about: SLTI compares without a
\* sign, LUI shifts in 64 bits, and 32 bit logic loses the upper half.
Logic == {"AND", "OR", "XOR", "NOR"}
Disputed(s, i) ==
    \/ i.op \in {"SLTI", "LUI"}
    \/ i.op \in Logic /\ \E n \in {i.rs, i.rt} : s[n] # s32(s[n])

Judged(s, i) ==
    /\ i.op \in Ops32 \cup OpsWhole \cup OpsCompare \cup Loads \cup {"CACHE"}
    /\ ~Undefined(s, i)

Straight == Len(did) = 1 /\ did[1] = before.pc /\ tag(prog[before.pc]) = {"CONTINUE"}

(***************************************************************************)
(* The code arch_mips_translate_instr() generates for an instruction does  *)
(* to the registers what the repository's interpreter does, whichever      *)
(* widths and signs R32, LET32, IMM32 and the rest put together.           *)
(***************************************************************************)
InterpreterAgrees ==
    LET s == before.r i == prog[before.pc] IN
    Straight /\ ~Disputed(s, i) /\ Judged(s, i) => r = InterpretedRegisters(s, i)

(***************************************************************************)
(* A branch decides by the registers before its delay slot, and the slot   *)
(* is executed once on either way, before what follows it or the target,   *)
(* as BranchCompareRegister() and BranchCompareZero() have it.             *)
(***************************************************************************)
InterpretedJump(s, i) ==
    CASE i.op = "BEQ" -> s[i.rs] = s[i.rt] [] i.op = "BNE" -> s[i.rs] # s[i.rt]
      [] i.op = "BLEZ" -> Signed(W64, s[i.rs]) <= 0 [] i.op = "BGTZ" -> Signed(W64, s[i.rs]) > 0

BranchesAgree ==
    LET s == before.r i == prog[before.pc] slot == prog[before.pc + 4]
    IN did # <<>> /\ i.op \in Branches /\ Judged(s, slot) /\ ~Disputed(s, slot) =>
        /\ r = InterpretedRegisters(s, slot)
        /\ pc = IF InterpretedJump(s, i) THEN u32(before.pc + 4 + SEXT(W16, W32, i.imm) * 4)
                ELSE before.pc + 8
================================================================================
