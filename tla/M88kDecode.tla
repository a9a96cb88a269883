------------------------------- MODULE M88kDecode -------------------------------
(***************************************************************************)
(* arch/m88k/m88k_insn.h and m88k_insn.cpp: the fields of an instruction   *)
(* word and the tables of opcodes.  A word is [major, d, s, low]: its six  *)
(* top bits, two registers of five bits, and sixteen bits.  An instruction *)
(* is a word with its opcode and its format.                               *)
(***************************************************************************)
EXTENDS Frontend, TLC

\* info.word_size is 2 * ImmBits; the code has 16.
CONSTANT ImmBits

W32 == 2 * ImmBits

low_bit(i, n) == LSHR(i.low, n) % 2
rd(i) == i.d
rs1(i) == i.s
rs2(i) == i.low % 32
mb(i) == i.d
carry(i) == LSHR(i.low, 8) % 4
bit_width(i) == LSHR(i.low, 5) % 32
bit_offset(i) == i.low % 32
vec9(i) == i.low % 512
t1(i) == LSHR(i.low, 9) % 4
t2(i) == LSHR(i.low, 7) % 4
cr(i) == LSHR(i.low, 5) % 32

\* int16_t
immediate(i) == Signed(ImmBits, TRUNC(ImmBits, i.low))

branch26(i) == Signed(26, (i.d * 32 + i.s) * 2^16 + i.low)
branch16(i) == Signed(16, i.low)

sub_opcode_1(i) == LSHR(i.low, 10)

--------------------------------------------------------------------------------
Illegal == [format |-> "NONE", opcode |-> "ILLEGAL"]
Is(format, opcode) == [format |-> format, opcode |-> opcode]

\* One of the opcodes that start at index first; "" stands for an illegal one.
Among(format, opcodes, first, k) ==
    IF k < first \/ k >= first + Len(opcodes) \/ opcodes[k - first + 1] = "" THEN Illegal
    ELSE Is(format, opcodes[k - first + 1])

desc_major(k) ==
    CASE k \in 0..1 -> Among("IFMT_XMEM", <<"LD_D", "LD">>, 0, k)
      [] k \in 2..11 -> Among("IFMT_MEM", <<"LD_HU", "LD_BU", "LD_D", "LD", "LD_H", "LD_B",
                                            "ST_D", "ST", "ST_H", "ST_B">>, 2, k)
      [] k \in 12..15 -> Among("IFMT_XMEM", <<"ST_D", "ST", "ST_X", "LD_X">>, 12, k)
      [] k \in 16..31 -> Among("IFMT_REG", <<"AND", "AND_U", "MASK", "MASK_U", "XOR", "XOR_U",
                                  "OR", "OR_U", "ADDU", "SUBU", "DIVU", "MULU",
                                  "ADD", "SUB", "DIVS", "CMP">>, 16, k)
      [] k \in 48..51 -> Among("BRFMT_OFF", <<"BR", "BR_N", "BSR", "BSR_N">>, 48, k)
      [] k \in 52..55 -> Among("BRFMT_BIT", <<"BB0", "BB0_N", "BB1", "BB1_N">>, 52, k)
      [] k \in 58..59 -> Among("BRFMT_COND", <<"BCND", "BCND_N">>, 58, k)
      [] k = 62 -> Is("IFMT_REG", "TBND")
      [] OTHER -> Illegal

desc_cfmt(k) ==
    CASE k = 0 -> Is("IFMT_XMEM", "LD_D")
      [] k \in 16..19 -> Among("CFMT_REG", <<"LDCR", "LDCR", "FLDCR", "FLDCR">>, 16, k)
      [] k \in 32..35 -> Among("CFMT_GER", <<"STCR", "STCR", "FSTCR", "FSTCR">>, 32, k)
      [] k \in 48..50 -> Among("CFMT_REG2", <<"XCR", "", "FXCR">>, 48, k)
      [] OTHER -> Illegal

desc_ext1(k) ==
    CASE k \in 4..10 -> Among("TFMT_XREG", <<"LD_D", "LD", "LD_X", "", "ST_D", "ST", "ST_X">>, 4, k)
      [] k \in 32..42 -> Among("BFMT_REG", <<"CLR", "", "SET", "", "EXT", "", "EXTU", "",
                                             "MAK", "", "ROT">>, 32, k)
      [] k = 52 -> Is("BRFMT_BIT", "TB0")
      [] k = 54 -> Is("BRFMT_BIT", "TB1")
      [] k = 58 -> Is("BRFMT_COND", "TCND")
      [] OTHER -> Illegal

\* The row is the first three of the index's six bits: eight entries of each row
\* can be reached.
ext2_Memory(k) ==
    IF k < 12
    THEN Among("TFMT_REG", <<"XMEM_BU", "XMEM", "LD_HU", "LD_BU", "LD_D", "LD", "LD_H", "LD_B",
                             "ST_D", "ST", "ST_H", "ST_B">>, 0, k)
    ELSE Among("TFMT_REGS", <<"LDA_D", "LDA", "LDA_H", "LDA_X">>, 12, k)

ext2_Arithmetic(k) ==
    Among("TFMT_REG", <<"AND", "AND_C", "", "", "XOR", "XOR_C", "OR", "OR_C",
                        "ADDU", "SUBU", "DIVU", "MULU", "ADD", "SUB", "DIVS", "CMP">>, 16, k)

ext2_Fields(k) ==
    Among("TFMT_REG", <<"CLR", "", "SET", "", "EXT", "", "EXTU", "", "MAK", "", "ROT">>, 32, k)

ext2_Jumps(k) ==
    IF k = 63 THEN Is("NONE", "RTE")
    ELSE Among("TFMT_REG", <<"JMP", "JMP_N", "JSR", "JSR_N", "", "", "", "", "", "",
                             "FF1", "FF0", "", "", "TBND">>, 48, k)

desc_ext2(k) ==
    IF k < 16 THEN ext2_Memory(k) ELSE IF k < 32 THEN ext2_Arithmetic(k)
    ELSE IF k < 48 THEN ext2_Fields(k) ELSE ext2_Jumps(k)

desc_sfu1(k) ==
    CASE k = 16 -> Is("TFMT_XREG", "MOV")
      [] k < 32 /\ k # 16 -> Among("TFMT_REG", <<"FMUL", "", "FCVT", "", "", "", "", "", "FLT", "", "FADD", "",
                             "FSUB", "", "FCMP", "", "", "", "INT", "", "NINT", "", "TRNC", "",
                             "", "", "", "", "FDIV", "", "FSQRT">>, 0, k)
      [] k \in 48..54 -> Among("TFMT_REGX", <<"MOV", "", "INT", "", "NINT", "", "TRNC">>, 48, k)
      [] OTHER -> Among("TFMT_XFR", <<"FMUL", "FMUL", "FCVT", "", "", "", "", "", "", "", "FADD",
                             "FADD", "FSUB", "FSUB", "FCMP", "FCMP", "", "", "", "", "", "", "",
                             "", "", "", "", "", "FDIV", "FDIV", "FSQRT">>, 32, k)

desc_sfu2(k) ==
    IF k = 28 THEN Is("BFMT_REG", "PROT")
    ELSE Among("TFMT_REG", <<"PMUL", "", "FCVT", "", "", "", "", "", "PADD", "", "", "", "PSUB", "",
                   "PCMP", "", "", "", "", "", "", "", "", "", "PPACK", "PPACK", "PUNPK", "", "",
                   "", "PROT">>, 0, k)

desc(i) ==
    LET k == sub_opcode_1(i) IN
    CASE i.major = 32 -> desc_cfmt(k) [] i.major = 33 -> desc_sfu1(k)
      [] i.major = 34 -> desc_sfu2(k) [] i.major = 60 -> desc_ext1(k)
      [] i.major = 61 -> desc_ext2(k) [] OTHER -> desc_major(i.major)

--------------------------------------------------------------------------------
is_load == {"LD_B", "LD_BU", "LD_H", "LD_HU", "LD", "LD_D", "LD_X"}
is_store == {"ST_B", "ST_H", "ST", "ST_D", "ST_X"}
is_xmem == {"XMEM", "XMEM_BU"}
is_load_or_store == is_load \cup is_store \cup is_xmem

opcode(i) == i.opcode
format(i) == i.format

OpcodeOf(i) ==
    LET o == desc(i).opcode triadic == desc(i).format = "TFMT_REG" IN
    CASE o = "DIVU" /\ triadic /\ low_bit(i, 8) = 1 -> "DIVU_D"
      [] o = "MULU" /\ triadic /\ low_bit(i, 9) = 1 -> "MULS"
      [] o = "MULU" /\ triadic /\ low_bit(i, 9) = 0 /\ low_bit(i, 8) = 1 -> "MULU_D"
      [] o = "RTE" -> <<"RTE", "ILLOP1", "ILLOP2", "ILLOP3">>[(i.low % 4) + 1]
      [] o = "FCMP" /\ low_bit(i, 5) = 1 -> "FCMPU"
      [] OTHER -> o

Scaled == [TFMT_REG |-> "TFMT_REGS", TFMT_XREG |-> "TFMT_XREGS"]

FormatOf(i) ==
    LET f == desc(i).format IN
    IF desc(i).opcode \in is_load_or_store /\ low_bit(i, 9) = 1 /\ f \in DOMAIN Scaled
    THEN Scaled[f] ELSE f

Decoded(word) ==
    [major |-> word.major, d |-> word.d, s |-> word.s, low |-> word.low,
     opcode |-> OpcodeOf(word), format |-> FormatOf(word)]
Code(words) == [a \in DOMAIN words |-> Decoded(words[a])]

\* usr() and wt() are for loads and stores with a register as the index.
has_usr(i) == opcode(i) \in is_load_or_store /\ format(i) \notin {"IFMT_MEM", "IFMT_XMEM"}
has_wt(i) == opcode(i) \in is_store /\ format(i) \notin {"IFMT_MEM", "IFMT_XMEM"}
has_carry(i) == opcode(i) \in {"ADD", "ADDU", "SUB", "SUBU"} /\ format(i) # "IFMT_REG"

\* The masks 0x8200 and, of the index, 2.
use_xfr(i) == low_bit(i, 15) = 1 \/ low_bit(i, 9) = 1
is_float_cr(i) == LSHR(sub_opcode_1(i), 1) % 2 = 1

td(i) == IF opcode(i) \in {"FCMP", "FCMPU"} THEN 0 ELSE LSHR(i.low, 5) % 4
is_float_triadic(i) == opcode(i) \notin {"FCVT", "FLT", "FSQRT", "INT", "NINT", "TRNC"}

is_delaying(i) == opcode(i) \in {"BR_N", "BSR_N", "BCND_N", "BB0_N", "BB1_N", "JMP_N", "JSR_N"}
================================================================================
