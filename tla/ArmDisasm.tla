-------------------------------- MODULE ArmDisasm --------------------------------
(***************************************************************************)
(* arch/arm/arm_disasm.cpp: what is displayed of an ARM instruction.  The  *)
(* table arm9dasmops has an entry for the bits 20 to 27 (the row) and 4 to *)
(* 7 (the column): the parts of a name, whether it shows an S, and the     *)
(* function that displays the operands.  Thumb code is never displayed.    *)
(***************************************************************************)
EXTENDS Arm, FiniteSets

Entry(name, form) == [name |-> name, s |-> FALSE, form |-> form]
WithS(row, entry) == [entry EXCEPT !.s = row % 2 = 1]

\* Functions without operands, and the others by what they show.
Un == [kind |-> "un"]
Shifted(kind, by) == [kind |-> "shifted", shift |-> kind, by |-> by]
Transfer(index, sign, offset) == [kind |-> "transfer", index |-> index, sign |-> sign, offset |-> offset]
Plain(kind) == [kind |-> kind]

Unpredictable == Entry(<<"UNP">>, Un)
Undefined == Entry(<<"UND">>, Un)

--------------------------------------------------------------------------------
(* Rows 0x00 to 0x3F: arithmetic, multiplications, transfers of halfwords. *)
AluOps ==
    <<"AND", "EOR", "SUB", "RSB", "ADD", "ADC", "SBC", "RSC",
      "TST", "TEQ", "CMP", "CMN", "ORR", "MOV", "BIC", "MVN">>

Alu(row, form) == WithS(row, Entry(<<AluOps[(LSHR(row, 1) % 16) + 1]>>, form))

\* lli, llr, lri, lrr, ari, arr, rri, rrr
ShiftOf(col) == <<"LSL", "LSR", "ASR", "ROR">>[(LSHR(col, 1) % 4) + 1]
Register(row, col) == Alu(row, Shifted(ShiftOf(col), IF col % 2 = 1 THEN "register" ELSE "number"))
IsRegister(col) == col < 9 \/ col % 2 = 0

Half(row, col, form) ==
    CASE col = 11 -> Entry(IF row % 2 = 1 THEN <<"LDR", "H">> ELSE <<"STR", "H">>, form)
      [] col = 13 /\ row % 2 = 1 -> Entry(<<"LDR", "SB">>, form)
      [] col = 15 /\ row % 2 = 1 -> Entry(<<"LDR", "SH">>, form)
      [] OTHER -> Unpredictable

\* A register as offset, or two groups of four bits.
HalfForm(row, index, sign) == Transfer(index, sign, IF LSHR(row, 2) % 2 = 1 THEN "halves" ELSE "register")

arm9dasmops_00(row, col) ==
    CASE IsRegister(col) -> Register(row, col)
      [] col = 9 /\ row < 4 -> WithS(row, IF row < 2 THEN Entry(<<"MUL">>, Plain("mul")) ELSE Entry(<<"MLA">>, Plain("mla")))
      [] row = 2 /\ col = 15 -> Entry(<<"OPR">>, Un)
      [] OTHER -> Half(row, col, HalfForm(row, "post", "-"))

\* The entries of row 0x0B subtract.
arm9dasmops_08(row, col) ==
    CASE IsRegister(col) -> Register(row, col)
      [] col = 9 -> WithS(row, Entry(<<<<"UMULL", "UMLAL", "SMULL", "SMLAL">>[(LSHR(row, 1) % 4) + 1]>>, Plain("mull")))
      [] OTHER -> Half(row, col, HalfForm(row, "post", IF row = 11 THEN "-" ELSE "+"))

Pre(row) == IF LSHR(row, 1) % 2 = 1 THEN "pre" ELSE "offset"

HalvesOf(col) == <<"BB", "TB", "BT", "TT">>[LSHR(col - 8, 1) + 1]

Miscellaneous(row, col) ==
    CASE col = 0 /\ row \in {16, 20} -> Entry(<<"MRS">>, Plain(IF row = 16 THEN "mrsrc" ELSE "mrsrs"))
      [] col = 0 /\ row \in {18, 22} -> Entry(<<"MSR">>, Plain(IF row = 18 THEN "msrrc" ELSE "msrrs"))
      [] row = 16 /\ col \in {8, 10, 12, 14} -> Entry(<<"SMLA", HalvesOf(col)>>, Plain("mla"))
      [] row = 22 /\ col \in {8, 10, 12, 14} -> Entry(<<"SMUL", HalvesOf(col)>>, Plain("mul"))
      [] row \in {16, 20} /\ col = 9 -> Entry(IF row = 16 THEN <<"SWP">> ELSE <<"SWP", "B">>, Plain("swp"))
      [] row = 18 /\ col \in {1, 3} -> Entry(IF col = 1 THEN <<"BX">> ELSE <<"BLX">>, Plain("breg"))
      [] row = 18 /\ col = 7 -> Entry(<<"BKPT">>, Un)
      [] col = 11 -> Half(row, col, HalfForm(row, Pre(row), "-"))
      [] OTHER -> Unpredictable

arm9dasmops_10(row, col) ==
    CASE row % 2 = 0 -> Miscellaneous(row, col)
      [] IsRegister(col) -> Register(row, col)
      [] OTHER -> Half(row, col, HalfForm(row, Pre(row), "-"))

arm9dasmops_18(row, col) ==
    IF IsRegister(col) THEN Register(row, col) ELSE Half(row, col, HalfForm(row, Pre(row), "+"))

arm9dasmops_20(row, col) == Alu(row, Plain("imm"))

arm9dasmops_30(row, col) ==
    CASE row \in {48, 52} -> Undefined
      [] row = 50 -> Entry(<<"MSR">>, Plain("msric"))
      [] row = 54 -> Entry(<<"MSR">>, Plain("msris"))
      [] OTHER -> Alu(row, Plain("imm"))

--------------------------------------------------------------------------------
(* Rows 0x40 to 0x9F: loads and stores. *)
LoadOrStore(row, load, store) == IF row % 2 = 1 THEN load ELSE store
Size(row) == IF LSHR(row, 2) % 2 = 1 THEN <<"B">> ELSE <<>>
User(row) == IF LSHR(row, 1) % 2 = 1 THEN <<"T">> ELSE <<>>

PostIndexed(row, sign, offset) ==
    Entry(LoadOrStore(row, <<"LDR">>, <<"STR">>) \o Size(row) \o User(row), Transfer("post", sign, offset))
PreIndexed(row, sign, offset) ==
    Entry(LoadOrStore(row, <<"LDR">>, <<"STR">>) \o Size(row), Transfer(Pre(row), sign, offset))

arm9dasmops_40(row, col) == PostIndexed(row, "-", "immediate")
arm9dasmops_48(row, col) == PostIndexed(row, "+", "immediate")
arm9dasmops_50(row, col) == PreIndexed(row, "-", "immediate")
arm9dasmops_58(row, col) == PreIndexed(row, "+", "immediate")
arm9dasmops_60(row, col) == IF col % 2 = 1 THEN Undefined ELSE PostIndexed(row, "-", ShiftOf(col))
arm9dasmops_68(row, col) == IF col % 2 = 1 THEN Undefined ELSE PostIndexed(row, "+", ShiftOf(col))
arm9dasmops_70(row, col) == IF col % 2 = 1 THEN Undefined ELSE PreIndexed(row, "-", ShiftOf(col))
arm9dasmops_78(row, col) == IF col % 2 = 1 THEN Undefined ELSE PreIndexed(row, "+", ShiftOf(col))

Multiple(row, mode) == Entry(<<LoadOrStore(row, "LDM", "STM"), mode>>, Plain("lm"))

arm9dasmops_80(row, col) == Multiple(row, "DA")
arm9dasmops_88(row, col) == Multiple(row, "IA")
arm9dasmops_90(row, col) == Multiple(row, "DB")
arm9dasmops_98(row, col) == Multiple(row, "IB")

(* Rows 0xA0 to 0xFF: branches, coprocessors, system calls. *)
arm9dasmops_A0(row, col) == Entry(<<"B">>, Plain("b"))
arm9dasmops_B0(row, col) == Entry(<<"BL">>, Plain("b"))
arm9dasmops_C0(row, col) == Entry(<<"UNI">>, Un)
arm9dasmops_E0(row, col) ==
    IF col % 2 = 0 THEN Entry(<<"CDP">>, Plain("cpd")) ELSE Entry(LoadOrStore(row, <<"MRC">>, <<"MCR">>), Plain("mcr"))
arm9dasmops_F0(row, col) == Entry(<<"SWI">>, Plain("swi"))

arm9dasmops(row, col) ==
    CASE row < 8 -> arm9dasmops_00(row, col) [] row \in 8..15 -> arm9dasmops_08(row, col)
      [] row \in 16..23 -> arm9dasmops_10(row, col) [] row \in 24..31 -> arm9dasmops_18(row, col)
      [] row \in 32..47 -> arm9dasmops_20(row, col) [] row \in 48..63 -> arm9dasmops_30(row, col)
      [] row \in 64..71 -> arm9dasmops_40(row, col) [] row \in 72..79 -> arm9dasmops_48(row, col)
      [] row \in 80..87 -> arm9dasmops_50(row, col) [] row \in 88..95 -> arm9dasmops_58(row, col)
      [] row \in 96..103 -> arm9dasmops_60(row, col) [] row \in 104..111 -> arm9dasmops_68(row, col)
      [] row \in 112..119 -> arm9dasmops_70(row, col) [] row \in 120..127 -> arm9dasmops_78(row, col)
      [] row \in 128..135 -> arm9dasmops_80(row, col) [] row \in 136..143 -> arm9dasmops_88(row, col)
      [] row \in 144..151 -> arm9dasmops_90(row, col) [] row \in 152..159 -> arm9dasmops_98(row, col)
      [] row \in 160..175 -> arm9dasmops_A0(row, col) [] row \in 176..191 -> arm9dasmops_B0(row, col)
      [] row \in 192..223 -> arm9dasmops_C0(row, col) [] row \in 224..239 -> arm9dasmops_E0(row, col)
      [] row \in 240..255 -> arm9dasmops_F0(row, col)

--------------------------------------------------------------------------------
(* The functions that display operands. *)
\* ARM9DASMb(): arm9reg is never written, the target is relative to zero.
ARM9DASMb(i) == 8 + 4 * Offset(i)

\* ARM9DASMimm(), with what the translator calls rotate_imm.
ARM9DASMimm(i) ==
    LET by == 2 * i.rs
    IN LSHR(immed_8(i), by) + SHL(W, immed_8(i) % 2^by, W - by)

\* Mutant: a run of registers goes on from its first one.
ARM9DASMlm_Joined(i) ==
    {n \in 0..15 : (\E a \in Registers(i) : a <= n) /\ \E b \in 0..15 \ Registers(i) : b > n}

\* ARM9DASMlm(): a run of registers is displayed when a register ends it that is not
\* in the list.
ARM9DASMlm(i) ==
    {n \in Registers(i) : \E b \in 0..15 \ Registers(i) : b > n}

\* A shift is shown by its amount in five bits or by its register; none for LSL by
\* nothing, and RRX for ROR by nothing.
Amount(i) == 2 * i.rs + LSHR(i.c, 3)

ShownShift(i, shift) ==
    CASE Amount(i) = 0 /\ shift = "LSL" -> <<>>
      [] Amount(i) = 0 /\ shift = "ROR" -> <<"RRX">>
      [] OTHER -> <<shift, Amount(i)>>

ARM9DASMshifted(i, form) ==
    [rd |-> i.rd, rn |-> i.rn, rm |-> i.rm,
     shift |-> IF form.by = "register" THEN <<form.shift, "r", i.rs>> ELSE ShownShift(i, form.shift)]

\* ARM9DASMofim() .. ARM9DASMlmptip(); LSL by nothing is shown here.
ShownOffset(i, offset) ==
    CASE offset = "immediate" -> <<immed_8(i) + 256 * i.rs>>
      [] offset = "halves" -> <<16 * i.rs + i.rm>>
      [] offset = "register" -> <<"r", i.rm>>
      [] offset = "ROR" /\ Amount(i) = 0 -> <<"r", i.rm, "RRX">>
      [] OTHER -> <<"r", i.rm, offset, Amount(i)>>

ARM9DASMtransfer(i, form) ==
    [rd |-> i.rd, rn |-> i.rn, index |-> form.index, sign |-> form.sign, offset |-> ShownOffset(i, form.offset)]

ARM9DASMcond ==
    <<"EQ", "NE", "CS", "CC", "MI", "PL", "VS", "VC", "HI", "LS", "GE", "LT", "GT", "LE", "", "NV">>

\* ARM9DASM(); a long multiplication leaves the operands displayed before it.
Displayed(i) == arm9dasmops(i.hi, i.c)
Operands(i) ==
    LET form == Displayed(i).form IN
    CASE form.kind = "shifted" -> ARM9DASMshifted(i, form)
      [] form.kind = "imm" -> [rd |-> i.rd, rn |-> i.rn, value |-> ARM9DASMimm(i)]
      [] form.kind = "transfer" -> ARM9DASMtransfer(i, form)
      [] form.kind = "lm" -> [rn |-> i.rn, back |-> Bit20(i, 21) = 1, regs |-> ARM9DASMlm(i), user |-> Bit20(i, 22) = 1]
      [] form.kind = "b" -> [target |-> ARM9DASMb(i)]
      [] form.kind \in {"un", "mull"} -> [none |-> TRUE]
      [] OTHER -> [rd |-> i.rd, rn |-> i.rn, rs |-> i.rs, rm |-> i.rm]

--------------------------------------------------------------------------------
(***************************************************************************)
(* What is displayed is what is translated: what the displayed name stands *)
(* for is what the code computes of the displayed operands; the target;    *)
(* the registers that are stored and where; as far as there is a           *)
(* translation (ARM9DASM(), arch_arm_translate_instr()).  Two instructions *)
(* are shown as what they are not: SUB, whose case goes on into that of    *)
(* ADD, and a move to register 15, whatever it moves.                      *)
(***************************************************************************)
Names == (SUB_ :> "SUB") @@ (ADD_ :> "ADD") @@ (CMP_ :> "CMP") @@ (MOV_ :> "MOV")

\* The exception: arm_translate.cpp:206 has no break.
FallsThrough(i) == class(i) = 0 /\ opcode(i) = SUB_

\* The operand as it is displayed, and what the names say of it.
ShownOperand(s, i, shown) == IF Immediate(i) THEN shown.value ELSE s.gpr[shown.rm]

Stands(s, name, shown, v) ==
    CASE name = "MOV" -> Let(s, shown.rd, v)
      [] name = "ADD" -> Let(s, shown.rd, ADD(W, s.gpr[shown.rn], v))
      [] name = "SUB" -> Let(s, shown.rd, SUB(W, s.gpr[shown.rn], v))

\* A comparison changes no register, and its flags are those of the difference.
Compares(s, after, shown, v) ==
    /\ after = [s EXCEPT !.flags = after.flags]
    /\ (after.flags.Z = 1) <=> s.gpr[shown.rn] = v
    /\ (after.flags.N # after.flags.V) <=> Signed(W, s.gpr[shown.rn]) < Signed(W, v)

ArithmeticDisplayed(s, i) ==
    class(i) = 0 /\ ~StoresPc(i) =>
        LET shown == Operands(i)
            name == Names[opcode(i)]
            v == ShownOperand(s, i, shown)
            after == Done(s, i, 0)
        IN /\ Displayed(i).name = <<name>> /\ (Displayed(i).s <=> name = "CMP")
           /\ ~Immediate(i) => shown.shift = <<>>
           /\ ~FallsThrough(i) =>
                IF name = "CMP" THEN Compares(s, after, shown, v) ELSE after = Stands(s, name, shown, v)

BranchDisplayed(i, a) ==
    tag(i) \cap {"BRANCH", "CALL"} # {} =>
        /\ Displayed(i).name = IF "CALL" \in tag(i) THEN <<"BL">> ELSE <<"B">>
        /\ Operands(i).target = new_pc(i, a) - a

\* Where the first register is stored, and where the last one left the address.
FirstAt(base, mode) ==
    CASE mode \in {"IA", "DA"} -> base [] mode = "IB" -> ADD(W, base, 4) [] mode = "DB" -> SUB(W, base, 4)

\* The run that reaches register 15 is not displayed.
LastRun(i) == Registers(i) \ ARM9DASMlm(i)

MultipleDisplayed(s, i) ==
    Displayed(i).form = Plain("lm") =>
        LET shown == Operands(i)
            after == Done(s, i, 0)
            regs == Registers(i)
            first == CHOOSE n \in regs : \A k \in regs : n <= k
            back == IF Displayed(i).name[2] \in {"IA", "IB"} THEN ADD(W, s.gpr[i.rn], 4 * Cardinality(regs))
                    ELSE SUB(W, s.gpr[i.rn], 4 * Cardinality(regs))
        IN /\ Displayed(i).name[1] = "STM"
           /\ after.ram[FirstAt(s.gpr[i.rn], Displayed(i).name[2])] = s.gpr[first]
           /\ after.gpr[i.rn] = IF shown.back THEN back ELSE s.gpr[i.rn]
           /\ shown.regs \cup LastRun(i) = regs /\ LastRun(i) \in {n..15 : n \in 0..16}
           /\ (LastRun(i) = {}) <=> (15 \notin regs)

\* Loads and stores show their bits L, W, U and P.  Row 0x0B shows a minus sign.
TransferDisplayed(i) ==
    Displayed(i).form.kind = "transfer" =>
        LET shown == Operands(i) IN
        /\ Displayed(i).name[1] = IF Bit20(i, 20) = 1 THEN "LDR" ELSE "STR"
        /\ (shown.index = "post") <=> Bit20(i, 24) = 0
        /\ shown.index # "post" => ((shown.index = "pre") <=> Bit20(i, 21) = 1)
        /\ i.hi # 11 => ((shown.sign = "+") <=> Bit20(i, 23) = 1)

DisplaysTranslation(s, i, a) ==
    /\ TransferDisplayed(i)
    /\ (ARM9DASMcond[i.cond + 1] = "") <=> "CONDITIONAL" \notin tag(i)
    /\ ~Exits(i) => ArithmeticDisplayed(s, i) /\ BranchDisplayed(i, a) /\ MultipleDisplayed(s, i)
================================================================================
