------------------------------- MODULE MipsDisasm -------------------------------
(***************************************************************************)
(* arch/mips/mips_disasm.cpp: what is displayed of a MIPS instruction,     *)
(* beside the opcodes that arch_mips_translate_instr() knows.  A word is   *)
(* [code, funct, rs, rt, rd, sa, imm, target]: fields that share their     *)
(* bits are never displayed together.                                      *)
(***************************************************************************)
EXTENDS Mips

\* Names by number; "" where there is no instruction.
Named(names, n) == IF n < Len(names) THEN names[n + 1] ELSE ""

--------------------------------------------------------------------------------
(***************************************************************************)
(* The cases of arch_mips_translate_instr(), by the number in their label. *)
(***************************************************************************)
SpecialCases ==
    <<"SLL", "", "SRL", "SRA", "SLLV", "", "SRLV", "SRAV", "JR", "JALR", "", "", "SYSCALL", "BREAK", "", "SYNC",
      "MFHI", "MTHI", "MFLO", "MTLO", "DSLLV", "", "DSRLV", "DSRAV",
      "MULT", "MULTU", "DIV", "DIVU", "DMULT", "DMULTU", "DDIV", "DDIVU",
      "ADD", "ADDU", "SUB", "SUBU", "AND", "OR", "XOR", "NOR", "", "", "SLT", "SLTU", "DADD", "DADDU", "DSUB", "DSUBU",
      "TGE", "TGEU", "TLT", "TLTU", "TEQ", "", "TNE", "", "DSLL", "", "DSRL", "DSRA", "DSLL32", "", "DSRL32", "DSRA32">>

RegimmCases ==
    <<"BLTZ", "BGEZ", "BLTZL", "BGEZL", "", "", "", "", "TGEI", "TGEIU", "TLTI", "TLTIU", "TEQI", "", "TNEI", "",
      "BLTZAL", "BGEZAL", "BLTZALL", "BGEZALL">>

MainCases ==
    <<"", "", "J", "JAL", "BEQ", "BNE", "BLEZ", "BGTZ",
      "ADDI", "ADDIU", "SLTI", "SLTIU", "ANDI", "ORI", "XORI", "LUI",
      "COP0", "COP1", "", "", "BEQL", "BNEL", "BLEZL", "BGTZL", "DADDI", "DADDIU", "LDL", "LDR", "", "", "", "",
      "LB", "LH", "LWL", "LW", "LBU", "LHU", "LWR", "LWU", "SB", "SH", "SWL", "SW", "SDL", "SDR", "SWR", "CACHE",
      "LL", "LWC1", "", "", "LLD", "LDC1", "", "LD", "SC", "SWC1", "", "", "SCD", "SDC1", "", "SD">>

Decoded(w) ==
    LET op == CASE w.code = 0 -> Named(SpecialCases, w.funct) [] w.code = 1 -> Named(RegimmCases, w.rt)
                [] OTHER -> Named(MainCases, w.code)
    IN Instruction(IF op # "" THEN op ELSE CASE w.code = 0 -> "SPECIAL_invalid" [] w.code = 1 -> "REGIMM_invalid"
                                             [] OTHER -> "invalid",
                   w.rs, w.rt, w.rd, w.sa, w.imm, w.target)

\* "INVALID": the coprocessors' instructions are told apart only for this.
CopCases(w) ==
    CASE w.code = 16 -> w.rs \in {0, 4} \/ (w.rs = 16 /\ w.funct \in {1, 2, 6, 8, 24})
      [] w.code = 17 -> w.rs \in {0, 1, 2, 4, 5, 6, 8, 17, 20, 21}
                        \/ (w.rs = 16 /\ w.funct \in (0..15) \cup {32, 33, 36, 37} \cup (48..63))

Invalid(w) ==
    IF w.code \in {16, 17} THEN ~CopCases(w)
    ELSE Decoded(w).op \in {"SPECIAL_invalid", "REGIMM_invalid", "invalid"}

--------------------------------------------------------------------------------
(***************************************************************************)
(* The disassembler's opcodes and CPUDisassembler.                         *)
(***************************************************************************)
SpecialNames ==
    <<"SLL", "", "SRL", "SRA", "SLLV", "", "SRLV", "SRAV", "JR", "JALR", "", "", "SYSCALL", "BREAK", "", "SYNC",
      "MFHI", "MTHI", "MFLO", "MTLO", "DSLLV", "", "DSRLV", "DSRAV",
      "MULT", "MULTU", "DIV", "DIVU", "DMULT", "DMULTU", "DDIV", "DDIVU",
      "ADD", "ADDU", "SUB", "SUBU", "AND", "OR", "XOR", "NOR", "", "", "SLT", "SLTU", "DADD", "DADDU", "DSUB", "DSUBU",
      "TGE", "TGEU", "TLT", "TLTU", "TEQ", "", "TNE", "", "DSLL", "", "DSRL", "DSRA", "DSLL32", "", "DSRL32", "DSRA32">>

\* A line: the name, the registers, and the number or address behind or between them.
Line(name, regs, number) == [name |-> name, regs |-> regs, number |-> number]
None == <<>>
Unknown == Line("?", <<>>, None)

\* offset(), target(), imm(): _pc and immediate() are 32 bit numbers.
offset(w, a) == (a + 4 + SEXT(W16, W32, w.imm) * 4) % 2^W32
target(w, a) == (a - (a % 2^W28)) + 4 * w.target
imm(w) == w.imm

\* The amount of a shift is written as a register is.
ByAmount == {"SLL", "SRL", "SRA", "DSLL", "DSRL", "DSRA", "DSLL32", "DSRL32", "DSRA32"}
ByRegister == {"SLLV", "SRLV", "SRAV", "DSLLV", "DSRLV", "DSRAV"}
TwoSources == {"MULT", "MULTU", "DIV", "DIVU", "DMULT", "DMULTU", "DDIV", "DDIVU",
               "TGE", "TGEU", "TLT", "TLTU", "TEQ", "TNE"}

IsNop(w) == w.code = 0 /\ w.funct = 0 /\ <<w.rs, w.rt, w.rd, w.sa>> = <<0, 0, 0, 0>>

_SPECIAL(w) ==
    LET name == Named(SpecialNames, w.funct) IN
    CASE name = "" -> Unknown
      [] name \in ByAmount -> IF IsNop(w) THEN Line("NOP", <<>>, None) ELSE Line(name, <<w.rd, w.rt>>, <<w.sa>>)
      [] name \in ByRegister -> Line(name, <<w.rd, w.rt, w.rs>>, None)
      [] name \in TwoSources -> Line(name, <<w.rs, w.rt>>, None)
      [] name = "JALR" -> Line(name, <<w.rd, w.rs>>, None)
      [] name \in {"JR", "MTHI", "MTLO"} -> Line(name, <<w.rs>>, None)
      [] name \in {"MFHI", "MFLO"} -> Line(name, <<w.rd>>, None)
      [] name \in {"BREAK", "SYNC", "SYSCALL"} -> Line(name, <<>>, None)
      [] OTHER -> Line(name, <<w.rd, w.rs, w.rt>>, None)

_REGIMM(w, a) ==
    CASE w.rt \in 0..3 -> Line(<<"BLTZ", "BGEZ", "BLTZL", "BGEZL">>[w.rt + 1], <<w.rs>>, <<offset(w, a)>>)
      [] w.rt \in 8..12 -> Line(<<"TGEI", "TGEIU", "TLTI", "TLTIU", "TEQI">>[w.rt - 7], <<w.rs>>, <<imm(w)>>)
      [] w.rt = 14 -> Line("TNEI", <<w.rs>>, <<imm(w)>>)
      [] w.rt \in 16..19 -> Line(<<"BLTZAL", "BGEZAL", "BLTZALL", "BGEZALL">>[w.rt - 15], <<w.rs>>, <<offset(w, a)>>)
      [] OTHER -> Unknown

\* The register of coprocessor 0 is fs(): a name by the number in rd.
_COP0(w) ==
    CASE w.rs = 0 -> Line("MFC0", <<w.rt>>, <<w.rd>>) [] w.rs = 4 -> Line("MTC0", <<w.rt>>, <<w.rd>>)
      [] w.rs = 16 /\ w.funct \in {1, 2, 6, 8, 24} ->
           Line(CASE w.funct = 1 -> "TLBR" [] w.funct = 2 -> "TLBWI" [] w.funct = 6 -> "TLBWR"
                  [] w.funct = 8 -> "TLBP" [] w.funct = 24 -> "ERET", <<>>, None)
      [] OTHER -> Unknown

\* Floating point registers are fd, fs and ft: sa, rd and rt.
Floats(w, n) == CASE n = 3 -> <<w.sa, w.rd, w.rt>> [] n = 2 -> <<w.sa, w.rd>> [] n = 0 -> <<w.rd, w.rt>>

\* _COP1_S and _COP1_D; a conversion to the own format is unknown.
Format(w, own, converts) ==
    LET Of(name, n) == Line(<<name, own>>, Floats(w, n), None) IN
    CASE w.funct \in 0..3 -> Of(<<"ADD", "SUB", "MUL", "DIV">>[w.funct + 1], 3)
      [] w.funct \in 4..7 -> Of(<<"SQRT", "ABS", "MOV", "NEG">>[w.funct - 3], 2)
      [] w.funct \in 8..11 -> Of(<<"ROUND.L", "TRUNC.L", "CEIL.L", "FLOOR.L">>[w.funct - 7], 2)
      [] w.funct \in 12..15 -> Of(<<"ROUND.W", "TRUNC.W", "CEIL.W", "FLOOR.W">>[w.funct - 11], 2)
      [] w.funct \in DOMAIN converts -> Of(<<"CVT", converts[w.funct]>>, 2)
      [] w.funct \in 48..55 -> Of(<<"F", "UN", "EQ", "UEQ", "OLT", "ULT", "OLE", "ULE">>[w.funct - 47], 0)
      [] w.funct \in 56..63 -> Of(<<"SF", "NGLE", "SEQ", "NGL", "LT", "NGE", "LE", "NGT">>[w.funct - 55], 0)
      [] OTHER -> Unknown

_COP1_S(w) == Format(w, "S", (33 :> "D") @@ (36 :> "W") @@ (37 :> "L"))
_COP1_D(w) == Format(w, "D", (32 :> "S") @@ (36 :> "W") @@ (37 :> "L"))

\* _COP1_W and _COP1_L: conversions only.
_COP1_WL(w, own) ==
    IF w.funct \in {32, 33} THEN Line(<<<<"CVT", <<"S", "D">>[w.funct - 31]>>, own>>, Floats(w, 2), None) ELSE Unknown

_COP1(w, a) ==
    CASE w.rs \in {0, 1, 2} -> Line(<<"MFC1", "DMFC1", "CFC1">>[w.rs + 1], <<w.rt>>, <<w.rd>>)
      [] w.rs \in {4, 5, 6} -> Line(<<"MTC1", "DMTC1", "CTC1">>[w.rs - 3], <<w.rt>>, <<w.rd>>)
      [] w.rs = 8 /\ w.rt \in 0..3 -> Line(<<"BC1F", "BC1T", "BC1FL", "BC1TL">>[w.rt + 1], <<>>, <<offset(w, a)>>)
      [] w.rs = 16 -> _COP1_S(w) [] w.rs = 17 -> _COP1_D(w)
      [] w.rs = 20 -> _COP1_WL(w, "W") [] w.rs = 21 -> _COP1_WL(w, "L")
      [] OTHER -> Unknown

\* LL, SC, LLD and SCD have numbers (48, 56, 52, 60) and no line.
Accesses(code) ==
    CASE code \in 26..27 -> <<"LDL", "LDR">>[code - 25]
      [] code \in 32..39 -> <<"LB", "LH", "LWL", "LW", "LBU", "LHU", "LWR", "LWU">>[code - 31]
      [] code \in 40..46 -> <<"SB", "SH", "SWL", "SW", "SDL", "SDR", "SWR">>[code - 39]
      [] code \in {49, 53, 57, 61} ->
           <<"LWC1", "LDC1", "SWC1", "SDC1">>[((code - 49) \div 4) + 1]
      [] code \in {55, 63} -> IF code = 55 THEN "LD" ELSE "SD"
      [] OTHER -> ""

MainLine(w, a) ==
    CASE w.code \in 2..3 -> Line(<<"J", "JAL">>[w.code - 1], <<>>, <<target(w, a)>>)
      [] w.code = 5 /\ w.rt = 0 -> Line("BNEZ", <<w.rs>>, <<offset(w, a)>>)
      [] w.code \in {4, 20, 21} \/ (w.code = 5 /\ w.rt # 0) ->
           Line(CASE w.code = 4 -> "BEQ" [] w.code = 5 -> "BNE" [] w.code = 20 -> "BEQL" [] w.code = 21 -> "BNEL",
                <<w.rs, w.rt>>, <<offset(w, a)>>)
      [] w.code \in {6, 7, 22, 23} ->
           Line(CASE w.code = 6 -> "BLEZ" [] w.code = 7 -> "BGTZ" [] w.code = 22 -> "BLEZL" [] w.code = 23 -> "BGTZL",
                <<w.rs>>, <<offset(w, a)>>)
      [] w.code \in 8..14 ->
           Line(<<"ADDI", "ADDIU", "SLTI", "SLTIU", "ANDI", "ORI", "XORI">>[w.code - 7], <<w.rt, w.rs>>, <<imm(w)>>)
      [] w.code \in 24..25 -> Line(<<"DADDI", "DADDIU">>[w.code - 23], <<w.rt, w.rs>>, <<imm(w)>>)
      [] w.code = 15 -> Line("LUI", <<w.rt>>, <<imm(w)>>)
      [] w.code = 47 -> Line("CACHE", <<>>, None)
      [] Accesses(w.code) # "" -> Line(Accesses(w.code), <<w.rt, w.rs>>, <<imm(w)>>)
      [] OTHER -> Unknown

InnerDisassemble(w, a) ==
    CASE w.code = 0 -> _SPECIAL(w) [] w.code = 1 -> _REGIMM(w, a)
      [] w.code = 16 -> _COP0(w) [] w.code = 17 -> _COP1(w, a)
      [] OTHER -> MainLine(w, a)

--------------------------------------------------------------------------------
(***************************************************************************)
(* The disassembler and the translator know the same instructions, but for *)
(* LL, SC, LLD and SCD, conversions of single precision to itself and      *)
(* branches on more conditions of coprocessor 1 than there are (the labels *)
(* in arch_mips_translate_instr() and in InnerDisassemble()).              *)
(***************************************************************************)
OnlyTranslated(w) ==
    \/ Decoded(w).op \in {"LL", "SC", "LLD", "SCD"}
    \/ w.code = 17 /\ w.rs = 16 /\ w.funct = 32
    \/ w.code = 17 /\ w.rs = 8 /\ w.rt > 3
    \/ w.code = 17 /\ w.rs \in {17, 20, 21}

KnownAlike(w, a) ==
    ~OnlyTranslated(w) => ((InnerDisassemble(w, a).name = "?") <=> Invalid(w))

(***************************************************************************)
(* An instruction computes what the interpreter of the repository computes *)
(* by the name that is displayed, and branches as it does; it depends on   *)
(* no register that is not displayed, and goes to the first one, or to     *)
(* register 31; a branch goes where it says, and is a call when it is      *)
(* displayed as one (arch_mips_translate_instr(), arch_mips_tag_instr()).  *)
(* Displayed as what they are not are those the translator and the         *)
(* interpreter disagree about (Disputed: SLTI is one), J, which is a call, *)
(* and the REGIMM instructions, which are calls to what J would make of    *)
(* their target.                                                           *)
(***************************************************************************)
ShownName(i) ==
    CASE i.op = "SLL" /\ <<i.rs, i.rt, i.rd, i.sa>> = <<0, 0, 0, 0>> -> "NOP"
      [] i.op = "BNE" /\ i.rt = 0 -> "BNEZ"
      [] OTHER -> i.op

\* The exception: mips_translate.cpp:119 and :122 have no break.
FallsIntoJal(i) == i.op \in Regimm \cup {"J"}

Stands(i, name) ==
    [i EXCEPT !.op = CASE name = "NOP" -> "SLL" [] name = "BNEZ" -> "BNE" [] OTHER -> name]

OperationShown(s, i, a, shown) ==
    LET named == Stands(i, shown.name) IN
    /\ Judged(s, named) /\ ~Disputed(s, named) /\ ~Refused(s, i, a) =>
        Done(s, i, a) = {InterpretedRegisters(s, named)}
    /\ named.op \in Branches => ((cond(s, i).val = 1) <=> InterpretedJump(s, named))
    /\ ~FallsIntoJal(i) => (("CALL" \in tag(i)) <=> shown.name = "JAL")

Depends(s, i, a, n) ==
    \E v \in Values : Written([s EXCEPT ![n] = v], i, a) # Written(s, i, a)

DecidesBy(s, i, n) == \E v \in Values : cond([s EXCEPT ![n] = v], i) # cond(s, i)

RegistersShown(s, i, a, shown) ==
    /\ \A n \in Regs \ {0} : Depends(s, i, a, n) \/ DecidesBy(s, i, n) => \E k \in DOMAIN shown.regs : shown.regs[k] = n
    /\ shown.name # "NOP" /\ Destination(i) \notin {0, 31} => shown.regs[1] = Destination(i)

TargetShown(i, a, shown) ==
    tag(i) \cap {"BRANCH", "CALL"} # {} /\ i.op \notin Regimm /\ new_pc(i, a) # NoPc =>
        shown.number = <<new_pc(i, a)>>

DisplaysTranslation(s, w, a) ==
    LET i == Decoded(w) shown == InnerDisassemble(w, a) IN
    /\ KnownAlike(w, a)
    /\ i.op \in Supported /\ ~OnlyTranslated(w) =>
        /\ shown.name = ShownName(i) /\ OperationShown(s, i, a, shown)
        /\ RegistersShown(s, i, a, shown) /\ TargetShown(i, a, shown)
================================================================================
