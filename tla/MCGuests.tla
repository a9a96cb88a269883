-------------------------------- MODULE MCGuests --------------------------------
(***************************************************************************)
(* The guest architectures, one of them in each behaviour: every opcode of *)
(* the 6502 once, its stack for several instructions, MIPS in both modes,  *)
(* words that are displayed only, one instruction of the M88000 with its   *)
(* delay slot, or of the ARM, three of Fapra, the bytes of one of x86 and  *)
(* the words of one of M68K, which are not executed.                       *)
(***************************************************************************)
EXTENDS Mos6502, MCM88k, MCArm

CONSTANTS
    MipsW8, MipsW16, MipsW32, MipsW64, MipsW28,    \* the widths of MIPS
    MipsRegs, MipsRegisters, MipsMemory, MipsValues,
    MipsPrograms64, MipsPrograms32,    \* in 64 and in 32 bit mode
    M88kImmBits, M88kValues,    \* half a word; what may be left where there is no result
    M88kPrograms,    \* code and the states it is run in
    ArmW, ArmRuns,    \* the width; instructions with states
    FapraW, FapraRegBits, FapraPrograms, FapraStates

VARIABLES guest, prog, r, pc, before    \* with ctl, steps and did: Mips

mips == <<prog, r, pc, before>>
allvars == <<vars, guest, mips>>

\* The 6502 with bytes of four bits and the flags that arithmetic changes.  The
\* numbers are zero, one, the last positive, the first negative and the last.
MCW == 4
MCLayout == [N |-> 3, V |-> 2, Z |-> 1, C |-> 0]
MCOperands == {0, 1, 8, 15}

\* Every opcode but CLI, SEI, CLD and SED, whose flags are left out.
AllOpcodes == (0..255) \ {\h58, \h78, \hD8, \hF8}
MCRegisters ==
    {[A |-> a, X |-> x, Y |-> 1, S |-> 0] : a \in {0, 1, 7, 8, 15}, x \in {0, 15}}

\* Nothing points behind the end of the memory.
MCMemories == {[a \in 0..255 |-> (3 * a) % 15]}

\* Calls and the stack: JSR, RTS, PHA, PLA, PHP, PLP.
StackOpcodes == {\h20, \h60, \h48, \h68, \h08, \h28}
StackRegisters ==
    {[A |-> a, X |-> 0, Y |-> 0, S |-> s] : a \in {0, B \div 2 + 1}, s \in {B - 1, 2, 1, 0}}

\* MIPS with bytes of one bit, words of 4 and double words of 8.  The values are
\* around the carry and the sign of a word and of a double word.
MCMipsValues == {0, 1, 7, 8, 15, 127, 128, 248, 255}
MCMipsMemory == [a \in 0..7 |-> Bit(a \in {1, 4, 6, 7})]
MCMipsRegs == {0, 1, 2, 31}
MCMipsRegisters ==
    {(0 :> 0) @@ (1 :> a) @@ (2 :> b) @@ (31 :> 1) : a \in MCMipsValues, b \in MCMipsValues}

MIPS == INSTANCE MipsDisasm WITH
    W8 <- MipsW8, W16 <- MipsW16, W32 <- MipsW32, W64 <- MipsW64, W28 <- MipsW28,
    MaxSteps <- 2, word_size <- IF guest = "MIPS32" THEN MipsW32 ELSE MipsW64,
    Regs <- MipsRegs, Values <- MipsValues, Registers <- MipsRegisters, Memory <- MipsMemory,
    Programs <- {}

ASSUME MipsAssumption ==
    MIPS!MipsAssumed /\ \A p \in MipsPrograms64 \cup MipsPrograms32 : MIPS!Code(p)

M88000 == INSTANCE M88kDisasm WITH
    ImmBits <- M88kImmBits, Values <- M88kValues, Programs <- {}, States <- {}, MaxSteps <- 1

ASSUME M88kAssumption ==
    /\ M88000!BytesAssumed
    /\ \A p \in M88kPrograms : \A a \in DOMAIN p.code : M88000!IsWord(p.code[a])
    /\ \A s \in UNION {p.states : p \in M88kPrograms} : M88000!IsState(s)

Arm7 == INSTANCE ArmDisasm WITH W <- ArmW, MaxSteps <- 1

ASSUME ArmAssumption ==
    /\ ArmW \in Nat \ {0}
    /\ \A run \in ArmRuns :
         (\A i \in run.words : Arm7!IsInstruction(i)) /\ \A s \in run.states : Arm7!IsState(s)

Fapra32 == INSTANCE Fapra WITH W <- FapraW, RegBits <- FapraRegBits, MaxSteps <- 3

ASSUME FapraAssumption ==
    /\ Fapra32!WidthsAssumed
    /\ \A p \in FapraPrograms :
         DOMAIN p \subseteq Nat /\ \A a \in DOMAIN p : Fapra32!IsInstruction(p[a])
    /\ \A s \in FapraStates : Fapra32!IsState(s)

M68000 == INSTANCE M68k

X86 == INSTANCE X86Disasm

\* Prefixes before an opcode, and what may follow it: ModRM bytes with any register
\* field, or with any way to address memory and numbers of either sign.
X86Prefixes == {<<>>, <<\h66>>, <<\h2E, \h65>>, <<\h67, \h64>>, <<\h0F>>, <<\hF3, \h66, \h0F>>, <<\h67, \h0F>>}
X86Rests ==
    {<<64 * mod + 8 * reg + 5, 3, 0, 255, 127, 7>> : mod \in {0, 3}, reg \in 0..7} \cup
    {<<64 * mod + 16 + rm>> \o numbers :
        mod \in 0..3, rm \in 0..7,
        numbers \in {<<5, 1, 0, 0, 0, 2>>, <<161, 254, 255, 255, 255, 254, 255>>, <<227, 4, 1, 0, 0, 129>>}}
X86Bytes == [k \in 0..19 |-> IF k < Len(prog) THEN prog[k + 1] ELSE 0]
X86Decoded(intel) == X86!arch_x86_decode_instr(X86Bytes, intel)

Bare(op) == MIPS!Instruction(op, 1, 2, 31, 0, 0, 0)

OneOf(op) ==
    CASE op \in {"SLL", "SRL", "SRA", "DSLL", "DSRL", "DSRA", "DSLL32", "DSRL32", "DSRA32"} ->
           {[Bare(op) EXCEPT !.sa = n] : n \in 0..3}
      [] op \in MIPS!Immediate \cup MIPS!Loads \cup MIPS!Stores \cup MIPS!Branches ->
           {[Bare(op) EXCEPT !.imm = n] : n \in 0..3}
      [] op \in {"J", "JAL", "BLTZ"} -> {[Bare(op) EXCEPT !.target = n] : n \in 0..1}
      [] OTHER -> {Bare(op), [Bare(op) EXCEPT !.rd = 0], [Bare(op) EXCEPT !.rs = 31]}

All(ops) == UNION {OneOf(op) : op \in ops}

\* A program: the first instruction, the second and no-ops.
Twice(a, b) == [x \in {0, 4, 8, 12} |-> IF x = 0 THEN a ELSE IF x = 4 THEN b ELSE Bare("CACHE")]

StraightPrograms ==
    LET ops == MIPS!Ops32 \cup MIPS!OpsWhole \cup MIPS!OpsCompare \cup MIPS!Loads
    IN {Twice(a, b) : a \in All(ops \cup {"CACHE"}), b \in {Bare("ADD"), Bare("DADD")}}

\* Slots that write what the branch compares.
SlotInstructions ==
    {[Bare("DADDI") EXCEPT !.rt = 1, !.imm = 1], [Bare("ADD") EXCEPT !.rd = 2], Bare("SRA"), Bare("BREAK")}

BranchPrograms ==
    {Twice(a, b) :
        a \in All(MIPS!Branches) \cup {MIPS!Instruction("BEQ", 0, 0, 0, 0, 1, 0), Bare("JR")},
        b \in SlotInstructions}

JumpPrograms ==
    {Twice(a, Bare("ADD")) : a \in All({"J", "BLTZ", "BGEZ", "BEQL", "JAL", "JALR"})}

Programs64 == StraightPrograms \cup BranchPrograms \cup JumpPrograms

\* In 32 bit mode, with what LLVM refuses there among it.
Programs32 ==
    {Twice(a, b) :
        a \in All(MIPS!Ops32 \cup MIPS!Loads \cup
                  {"SLT", "SLTU", "BEQ", "BNE", "JAL", "JALR", "SW", "SB", "SLTIU"}),
        b \in {Bare("SUB"), Bare("XOR"), [Bare("LB") EXCEPT !.rs = 0, !.imm = 1]}}

\* Fapra with words of eight bits, immediates of four and registers 0 to 3: any opcode
\* behind a load of both halves of a register, of two registers, or behind a branch.
FapraWord(op, rd, ra, imm) == [op |-> op, rd |-> rd, ra |-> ra, imm |-> imm]
FapraLoads ==
    {(0 :> FapraWord(\h20, a, 0, 1)) @@ (4 :> FapraWord(\h21, b, 0, 2)) : a \in {0, 1}, b \in {0, 1}}
    \cup {(0 :> FapraWord(\h20, 1, 0, n)) @@ (4 :> FapraWord(\h36, 1, 2, 4)) : n \in {0, 1}}
    \cup {(0 :> FapraWord(\h0F, 1, 0, 9)) @@ (4 :> FapraWord(\h21, 1, 0, 15))}
MCFapraPrograms ==
    {(8 :> FapraWord(op, rd, ra, imm)) @@ loads :
        op \in 0..63, rd \in {1, 2}, ra \in 0..2, imm \in {4, 11}, loads \in FapraLoads}
FapraState(a, b) ==
    [gpr |-> (0 :> a) @@ (1 :> b) @@ (2 :> 3) @@ (3 :> 1), ram |-> [x \in 0..31 |-> x % 4]]
MCFapraStates == {FapraState(a, b) : a \in {0, 20}, b \in {0, 151}}

\* Every opcode of M68K, branches with displacements of either sign.
M68kRam(first, second) == (2 :> first) @@ (3 :> 16) @@ (4 :> second) @@ (5 :> 2)
M68kWords ==
    {[op |-> op, ram |-> M68kRam(1, 2)] : op \in 0..65535}
    \cup {[op |-> 24576 + op, ram |-> M68kRam(255, 254)] : op \in 0..4095}
    \cup {[op |-> 20680 + 256 * c, ram |-> M68kRam(n, 0)] : c \in 0..15, n \in {0, 128, 255}}

--------------------------------------------------------------------------------
Idle6502 ==
    /\ R = <<>> /\ F = <<>> /\ PC = 0 /\ RAM = <<>> /\ calls = {}

MipsInit(programs) ==
    /\ prog \in programs
    /\ r \in MipsRegisters
    /\ pc = 0 /\ ctl = "run" /\ steps = 0 /\ did = <<>>
    /\ before = [r |-> r, pc |-> pc]

\* A word of any opcode, which is displayed and not executed.
MipsWord(code, funct, rs, rt, rd, n) ==
    [code |-> code, funct |-> funct, rs |-> rs, rt |-> rt, rd |-> rd, sa |-> n % 2, imm |-> n, target |-> n % 2]

MipsWordInit ==
    /\ \E rs \in {0, 1, 31}, rt \in {0, 2}, n \in 0..3 :
         \/ \E funct \in 0..63, rd \in {0, 1} : prog = MipsWord(0, funct, rs, rt, rd, n)
         \/ \E opcode \in 0..31 : prog = MipsWord(1, 0, rs, opcode, 1, n)
         \/ \E code \in {16, 17}, fmt \in 0..31, funct \in 0..63 : prog = MipsWord(code, funct, fmt, rt, 1, n)
         \/ \E code \in (2..63) \ {16, 17} : prog = MipsWord(code, 0, rs, rt, 1, n)
    /\ r \in {(0 :> 0) @@ (1 :> a) @@ (2 :> 7) @@ (31 :> 128) : a \in {1, 127}}
    /\ pc = 16 /\ ctl = "run" /\ steps = 0 /\ did = <<>> /\ before = [r |-> r, pc |-> pc]

M88kInit ==
    /\ \E words \in M88kPrograms : prog = M88000!Code(words.code) /\ r \in words.states
    /\ pc = 0 /\ ctl = "run" /\ steps = 0 /\ did = <<>>
    /\ before = [r |-> r, pc |-> pc]

ArmInit ==
    /\ \E run \in ArmRuns : (\E i \in run.words : prog = [a \in {0} |-> i]) /\ r \in run.states
    /\ pc = 0 /\ ctl = "run" /\ steps = 0 /\ did = <<>>
    /\ before = [r |-> r, pc |-> pc]

X86Init ==
    /\ \E prefix \in X86Prefixes, opcode \in 0..255 : prog = prefix \o <<opcode>>
    /\ r = <<>> /\ pc = 64 /\ ctl = "run" /\ steps = 0 /\ did = <<>> /\ before = <<>>

FapraInit ==
    /\ prog \in FapraPrograms /\ r \in FapraStates
    /\ pc \in {0, 4} /\ ctl = "run" /\ steps = 0 /\ did = <<>>
    /\ before = [r |-> r, pc |-> pc]

M68kInit ==
    /\ prog \in M68kWords
    /\ r = <<>> /\ pc = 0 /\ ctl = "run" /\ steps = 0 /\ did = <<>> /\ before = <<>>

MCInit ==
    \/ guest = "6502" /\ Init /\ prog = <<>> /\ r = <<>> /\ pc = 0 /\ before = <<>>
    \/ /\ guest = "6502 stack" /\ prog = <<>> /\ r = <<>> /\ pc = 0 /\ before = <<>>
       /\ R \in StackRegisters
       /\ F \in Flags /\ F.N = F.V /\ F.Z = F.C
       /\ PC = 2 * B /\ RAM \in Memories
       /\ ctl = "run" /\ calls = {} /\ steps = 0
       /\ did = [op |-> \hEA, am |-> "IMPL", lo |-> 0, hi |-> 0, value |-> 0]
    \/ guest = "MIPS64" /\ MipsInit(MipsPrograms64) /\ Idle6502
    \/ guest = "MIPS32" /\ MipsInit(MipsPrograms32) /\ Idle6502
    \/ guest = "MIPS words" /\ MipsWordInit /\ Idle6502
    \/ guest = "M88K" /\ M88kInit /\ Idle6502
    \/ guest = "ARM" /\ ArmInit /\ Idle6502
    \/ guest = "x86" /\ X86Init /\ Idle6502
    \/ guest = "Fapra" /\ FapraInit /\ Idle6502
    \/ guest = "M68K" /\ M68kInit /\ Idle6502

Next6502 == guest = "6502" /\ steps = 0 /\ Next /\ UNCHANGED mips

NextStack ==
    /\ guest = "6502 stack"
    /\ \E op \in StackOpcodes : Step(op)
    /\ Instr[did'.op] = "JSR" => did'.lo = 8 /\ did'.hi = 8
    /\ UNCHANGED mips

NextMips == guest \in {"MIPS64", "MIPS32"} /\ MIPS!Next /\ UNCHANGED <<R, F, PC, RAM, calls>>
Next88k == guest = "M88K" /\ M88000!Next /\ UNCHANGED <<R, F, PC, RAM, calls>>
NextFapra == guest = "Fapra" /\ Fapra32!Next /\ UNCHANGED <<R, F, PC, RAM, calls>>
NextArm == guest = "ARM" /\ Arm7!Next /\ UNCHANGED <<R, F, PC, RAM, calls>>

\* The instruction has more bytes.
NextX86 ==
    /\ guest = "x86" /\ steps = 0 /\ steps' = 1
    /\ \E rest \in X86Rests : prog' = prog \o rest
    /\ UNCHANGED <<R, F, PC, RAM, calls, ctl, did, r, pc, before>>

MCNext ==
    /\ UNCHANGED guest
    /\ Next6502 \/ NextStack \/ NextMips \/ Next88k \/ NextArm \/ NextFapra \/ NextX86

MCSpec == MCInit /\ [][MCNext]_allvars

--------------------------------------------------------------------------------
\* Sums, differences, comparisons and shifts of the 6502 carry exactly what they
\* do not return, and RTS comes back behind the JSR that is on top of the stack
\* (arch_adc(), arch_shiftrotate() in frontend.cpp, PUSH16() in 6502_translate.cpp).
ArithmeticOf6502 == [][guest = "6502" => ArithmeticExact]_vars
ReturnsOf6502 == [][guest = "6502 stack" => ReturnsAfterCall]_vars

\* The translated instructions of MIPS do in either mode what the interpreter of the
\* repository does, and branches decide by the registers before their delay slots
\* (mips_translate.cpp, test/mips/interpreter/CPU/CPUInterpreter.cpp).
InterpretersAgree ==
    guest \in {"MIPS64", "MIPS32"} => MIPS!InterpreterAgrees /\ MIPS!BranchesAgree

\* The M88000's bit fields, comparisons, carries, pairs and branches are what the
\* comments of m88k_translate.cpp and m88k_isa.h say, and calls return to where their
\* tag says (arch_m88k_shift(), arch_m88k_cmp(), arch_m88k_fix_return_pc()).  The ARM's
\* conditions are those of the table in arm_disasm.cpp's comment, and after a comparison
\* they are what they are named for (setsub(), arch_arm_translate_cond()).  Fapra's
\* calls go to the register that two loads set (arch_fapra_tag_instr()).
GuestsAsCommented ==
    /\ guest = "M88K" =>
          M88000!InstructionsAsCommented /\ M88000!BranchesByCode /\ M88000!ReturnsToTag
    /\ guest = "ARM" => Arm7!ConditionsAsCommented /\ Arm7!ComparisonsDecide
    /\ guest = "Fapra" => Fapra32!CallsAsCommented

\* What tag_instr() of a guest architecture promises of an instruction,
\* translate_instr() and translate_cond() keep (m88k_translate.cpp, arm_translate.cpp,
\* fapra_translate.cpp); of M68K, a displayed branch is tagged with its target
\* (m68k_tag.cpp, m68k_disasm.cpp); of x86, which is not translated, both syntaxes are tagged alike and a displayed
\* target is the tag's (x86_decode.cpp, x86_tag.cpp).
TranslatedAsTagged ==
    /\ guest = "M88K" => M88000!KeepsTag(before.r, prog[0])
    /\ guest = "ARM" => Arm7!KeepsTag(before.r, prog[0])
    /\ guest = "Fapra" /\ steps > 0 /\ before.pc = 8 => Fapra32!KeepsTag(prog, 8)
    /\ guest = "M68K" => M68000!KeepsTag(prog)
    /\ guest = "x86" /\ steps = 1 => X86!KeepsTag(X86Decoded(FALSE), X86Decoded(TRUE), pc)

\* What the debugger displays of an instruction is what it is translated to, as far as
\* there is a translation: for ARM and MIPS, what the displayed name stands for is what
\* the code computes, but for FallsThrough and FallsIntoJal, cases without a break,
\* moves to the ARM's register 15 and what is Disputed (arm_disasm.cpp, mips_disasm.cpp, m88k_disasm.cpp and
\* x86_disasm_att.cpp with what translates the operands in ..._translate.cpp), and both
\* syntaxes of x86 display the same (x86_disasm_intel.cpp).  Of M68K, what is displayed
\* are the bytes that tagging skips (m68k_disasm.cpp, m68k_tag.cpp).
DisassembledAsTranslated ==
    /\ guest = "ARM" => Arm7!DisplaysTranslation(before.r, prog[0], 0)
    /\ guest = "MIPS words" => MIPS!DisplaysTranslation(r, prog, pc)
    /\ guest = "M88K" /\ steps = 1 => M88000!DisplaysTranslation(before.r, prog[0], 0)
    /\ guest = "M68K" => M68000!ExtensionsDisplayed(prog)
    /\ guest = "x86" /\ steps = 1 => X86!DisplaysTranslation(X86Decoded(FALSE), X86Decoded(TRUE), pc)
================================================================================
