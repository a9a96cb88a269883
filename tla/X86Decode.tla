-------------------------------- MODULE X86Decode --------------------------------
(***************************************************************************)
(* arch/x86/x86_decode.cpp and x86_tag.cpp: the tables of opcodes, what    *)
(* is decoded of an instruction and how it is tagged.  An instruction is   *)
(* the bytes from its address on: offset -> byte.  Numbers of 32 bits are  *)
(* their signed value.                                                     *)
(***************************************************************************)
EXTENDS Integers, Sequences, TLC

\* An addressing mode: its operands, of which one may be what ModRM says, "RM".
Operands(src, dst, third) == [src |-> src, dst |-> dst, third |-> third]

x86_addrmod ==
    [ACC_MOFFSET |-> Operands("ACC", "MOFFSET", "NONE"), ACC_REG |-> Operands("ACC", "REG", "NONE"),
     IMM |-> Operands("IMM", "NONE", "NONE"), IMM8 |-> Operands("IMM8", "NONE", "NONE"),
     IMM8_RM |-> Operands("IMM8", "RM", "NONE"), IMM_RM |-> Operands("IMM", "RM", "NONE"),
     IMM_ACC |-> Operands("IMM", "ACC", "NONE"), IMM_REG |-> Operands("IMM", "REG", "NONE"),
     IMPLIED |-> Operands("NONE", "NONE", "NONE"), MOFFSET_ACC |-> Operands("MOFFSET", "ACC", "NONE"),
     REG |-> Operands("REG", "NONE", "NONE"), SEG2_REG |-> Operands("SEG2_REG", "NONE", "NONE"),
     SEG3_REG |-> Operands("SEG3_REG", "NONE", "NONE"), SEG3_REG_RM |-> Operands("SEG3_REG", "RM", "NONE"),
     RM_SEG3_REG |-> Operands("RM", "SEG3_REG", "NONE"), REG_RM |-> Operands("REG", "RM", "NONE"),
     REL |-> Operands("REL", "NONE", "NONE"), RM_REG |-> Operands("RM", "REG", "NONE"),
     RM |-> Operands("RM", "NONE", "NONE"), RM_IMM_REG |-> Operands("RM", "REG", "IMM"),
     RM_IMM8_REG |-> Operands("RM", "REG", "IMM8"), REG_IMM8_RM |-> Operands("REG", "RM", "IMM8"),
     REG_CL_RM |-> Operands("REG", "RM", "CL"), FAR_PTR |-> Operands("IMM48", "NONE", "NONE"),
     IMM8_IMM16 |-> Operands("IMM8", "IMM16", "NONE"), CR_RM |-> Operands("CR_REG", "RM", "NONE"),
     DBG_RM |-> Operands("DBG_REG", "RM", "NONE"), RM_CR |-> Operands("RM", "CR_REG", "NONE"),
     RM_DBG |-> Operands("RM", "DBG_REG", "NONE")]

MOD_RM(mode) == "RM" \in {x86_addrmod[mode].src, x86_addrmod[mode].dst}
DIR_REVERSED(mode) == x86_addrmod[mode].dst = "RM"

--------------------------------------------------------------------------------
(***************************************************************************)
(* The tables: opcode, addressing mode and width of a byte.                *)
(***************************************************************************)
Undefined == <<"", "", "">>
Implied(op) == <<op, "IMPLIED", "">>

\* Of the two bytes of a pair, the first is for bytes and the second for words.
Sized(b, op, mode) == <<op, mode, IF b % 2 = 0 THEN "B" ELSE "D">>

Arithmetic == <<"ADD", "OR", "ADC", "SBB", "AND", "SUB", "XOR", "CMP">>
Conditions == <<"O", "NO", "B", "NB", "Z", "NE", "BE", "A", "S", "NS", "PE", "PO", "L", "GE", "LE", "G">>

prefixes ==
    (\h0F :> <<"two", "0F">>) @@
    (\h26 :> <<"seg", "es">>) @@ (\h2E :> <<"seg", "cs">>) @@ (\h36 :> <<"seg", "ss">>) @@
    (\h3E :> <<"seg", "ds">>) @@ (\h64 :> <<"seg", "fs">>) @@ (\h65 :> <<"seg", "gs">>) @@
    (\h66 :> <<"op_size", "66">>) @@ (\h67 :> <<"addr_size", "67">>) @@
    (\hF0 :> <<"lock", "lock">>) @@ (\hF2 :> <<"rep", "repnz">>) @@ (\hF3 :> <<"rep", "rep">>)

one_00(b) ==
    LET row == b \div 8 column == b % 8 IN
    CASE column < 2 -> Sized(b, Arithmetic[row + 1], "REG_RM")
      [] column \in 2..3 -> Sized(b, Arithmetic[row + 1], "RM_REG")
      [] column \in 4..5 -> Sized(b, Arithmetic[row + 1], "IMM_ACC")
      [] column = 6 -> <<"PUSH", "SEG2_REG", "D">>
      [] column = 7 /\ row < 4 -> <<"POP", "SEG2_REG", "D">>
      [] OTHER -> Implied(<<"DAA", "DAS", "AAA", "AAS">>[row - 3])

one_60 ==
    <<<<"PUSHA", "IMPLIED", "D">>, <<"POPA", "IMPLIED", "D">>, <<"BOUND", "RM_REG", "">>, <<"ARPL", "REG_RM", "W">>,
      Undefined, Undefined, Undefined, Undefined,
      <<"PUSH", "IMM", "D">>, <<"IMUL", "RM_IMM_REG", "D">>, <<"PUSH", "IMM", "B">>, <<"IMUL", "RM_IMM8_REG", "D">>,
      <<"INS", "IMPLIED", "B">>, <<"INS", "IMPLIED", "D">>, <<"OUTS", "IMPLIED", "B">>, <<"OUTS", "IMPLIED", "D">>>>

one_80 ==
    <<<<"GROUP1", "IMM8_RM", "B">>, <<"GROUP1", "IMM_RM", "D">>, <<"GROUP1", "IMM8_RM", "B">>, <<"GROUP1", "IMM8_RM", "D">>,
      <<"TEST", "REG_RM", "B">>, <<"TEST", "REG_RM", "D">>, <<"XCHG", "REG_RM", "B">>, <<"XCHG", "REG_RM", "D">>,
      <<"MOV", "REG_RM", "B">>, <<"MOV", "REG_RM", "D">>, <<"MOV", "RM_REG", "B">>, <<"MOV", "RM_REG", "D">>,
      <<"MOV", "SEG3_REG_RM", "W">>, <<"LEA", "RM_REG", "D">>, <<"MOV", "RM_SEG3_REG", "W">>, <<"POP", "RM", "D">>>>

one_98 ==
    <<Implied("CWTL"), Implied("CLTD"), <<"LCALL", "FAR_PTR", "D">>, Undefined,
      Implied("PUSHF"), Implied("POPF"), Implied("SAHF"), Implied("LAHF")>>

one_A0(b) ==
    CASE b < \hA2 -> Sized(b, "MOV", "MOFFSET_ACC") [] b \in \hA2..\hA3 -> Sized(b, "MOV", "ACC_MOFFSET")
      [] b \in \hA8..\hA9 -> Sized(b, "TEST", "IMM_ACC")
      [] OTHER -> Sized(b, <<"", "", "MOVS", "CMPS", "", "STOS", "LODS", "SCAS">>[(b - \hA0) \div 2 + 1], "IMPLIED")

one_C0 ==
    <<<<"GROUP2", "IMM8_RM", "B">>, <<"GROUP2", "IMM8_RM", "D">>, <<"RET", "IMM", "W">>, Implied("RET"),
      <<"LES", "RM_REG", "D">>, <<"LDS", "RM_REG", "D">>, <<"MOV", "IMM8_RM", "B">>, <<"MOV", "IMM_RM", "D">>,
      <<"ENTER", "IMM8_IMM16", "W">>, Implied("LEAVE"), <<"LRET", "IMM", "W">>, Implied("LRET"),
      Implied("INT3"), <<"INT", "IMM", "B">>, Implied("INTO"), Implied("IRET"),
      <<"GROUP2", "RM", "B">>, <<"GROUP2", "RM", "D">>, <<"GROUP2", "RM", "B">>, <<"GROUP2", "RM", "D">>,
      <<"AAM", "IMM", "B">>, <<"AAD", "IMM", "B">>, Undefined, Implied("XLATB")>>

one_E0 ==
    <<<<"LOOPNE", "REL", "B">>, <<"LOOPE", "REL", "B">>, <<"LOOP", "REL", "B">>, <<"JECXZ", "REL", "B">>,
      <<"IN", "IMM", "B">>, <<"IN", "IMM8", "D">>, <<"OUT", "IMM", "B">>, <<"OUT", "IMM8", "D">>,
      <<"CALL", "REL", "D">>, <<"JMP", "REL", "D">>, <<"LJMP", "FAR_PTR", "D">>, <<"JMP", "REL", "B">>,
      <<"IN", "IMPLIED", "B">>, <<"IN", "IMPLIED", "D">>, <<"OUT", "IMPLIED", "B">>, <<"OUT", "IMPLIED", "D">>,
      Undefined, Undefined, Undefined, Undefined, Implied("HLT"), Implied("CMC"),
      <<"GROUP3", "RM", "B">>, <<"GROUP3", "RM", "D">>, Implied("CLC"), Implied("STC"), Implied("CLI"), Implied("STI"),
      Implied("CLD"), Implied("STD"), <<"GROUP4", "RM", "B">>, <<"GROUP5", "RM", "D">>>>

decode_table_one(b) ==
    CASE b < \h40 -> one_00(b)
      [] b \in \h40..\h5F -> <<<<"INC", "DEC", "PUSH", "POP">>[(b - \h40) \div 8 + 1], "REG", "D">>
      [] b \in \h60..\h6F -> one_60[b - \h5F]
      [] b \in \h70..\h7F -> <<"J" \o Conditions[b - \h6F], "REL", "B">>
      [] b \in \h80..\h8F -> one_80[b - \h7F]
      [] b = \h90 -> Implied("NOP") [] b \in \h91..\h97 -> <<"XCHG", "ACC_REG", "D">>
      [] b \in \h98..\h9F -> one_98[b - \h97] [] b \in \hA0..\hAF -> one_A0(b)
      [] b \in \hB0..\hB7 -> <<"MOV", "IMM_REG", "B">> [] b \in \hB8..\hBF -> <<"MOV", "IMM_REG", "D">>
      [] b \in \hC0..\hD7 -> one_C0[b - \hBF] [] b \in \hD8..\hDF -> Undefined
      [] OTHER -> one_E0[b - \hDF]

two_00 ==
    (\h00 :> <<"GROUP6", "RM", "W">>) @@ (\h01 :> <<"GROUP7", "RM", "D">>) @@ (\h02 :> <<"LAR", "RM_REG", "D">>) @@
    (\h03 :> <<"LSL", "RM_REG", "D">>) @@ (\h06 :> Implied("CLTS")) @@ (\h08 :> Implied("INVD")) @@
    (\h09 :> Implied("WBINVD")) @@ (\h0B :> Implied("UD2")) @@ (\h20 :> <<"MOV", "CR_RM", "D">>) @@
    (\h21 :> <<"MOV", "DBG_RM", "D">>) @@ (\h22 :> <<"MOV", "RM_CR", "D">>) @@ (\h23 :> <<"MOV", "RM_DBG", "D">>) @@
    (\h30 :> Implied("WRMSR")) @@ (\h31 :> Implied("RDTSC")) @@ (\h32 :> Implied("RDMSR")) @@
    (\h33 :> Implied("RDPMC")) @@ (\h34 :> Implied("SYSENTER")) @@ (\h35 :> Implied("SYSEXIT"))

two_A0 ==
    <<<<"PUSH", "SEG3_REG", "D">>, <<"POP", "SEG3_REG", "D">>, Implied("CPUID"), <<"BT", "REG_RM", "D">>,
      <<"SHLD", "REG_IMM8_RM", "D">>, <<"SHLD", "REG_CL_RM", "D">>, Undefined, Undefined,
      <<"PUSH", "SEG3_REG", "D">>, <<"POP", "SEG3_REG", "D">>, Implied("RSM"), <<"BTS", "REG_RM", "D">>,
      <<"SHRD", "REG_IMM8_RM", "D">>, <<"SHRD", "REG_CL_RM", "D">>, Undefined, <<"IMUL", "RM_REG", "D">>,
      <<"CMPXCHG", "REG_RM", "B">>, <<"CMPXCHG", "REG_RM", "D">>, <<"LSS", "RM_REG", "D">>, <<"BTR", "REG_RM", "D">>,
      <<"LFS", "RM_REG", "D">>, <<"LGS", "RM_REG", "D">>, <<"MOVZXB", "RM_REG", "D">>, <<"MOVZXW", "RM_REG", "D">>,
      Undefined, Implied("UD1"), <<"GROUP8", "IMM8_RM", "D">>, <<"BTC", "REG_RM", "D">>,
      <<"BSF", "RM_REG", "D">>, <<"BSR", "RM_REG", "D">>, <<"MOVSXB", "RM_REG", "D">>, <<"MOVSXW", "RM_REG", "D">>,
      <<"XADD", "REG_RM", "B">>, <<"XADD", "REG_RM", "D">>, Undefined, Undefined,
      Undefined, Undefined, Undefined, <<"GROUP9", "RM", "Q">>>>

decode_table_two(b) ==
    CASE b \in DOMAIN two_00 -> two_00[b]
      [] b \in \h40..\h4F -> <<"CMOV" \o Conditions[b - \h3F], "RM_REG", "D">>
      [] b \in \h80..\h8F -> <<"J" \o Conditions[b - \h7F], "REL", "D">>
      [] b \in \h90..\h9F -> <<"SET" \o Conditions[b - \h8F], "RM", "B">>
      [] b \in \hA0..\hC7 -> two_A0[b - \h9F] [] b \in \hC8..\hCF -> <<"BSWAP", "REG", "D">>
      [] OTHER -> Undefined

\* The groups: an entry has the mode and the width of its byte, or its own.
Inherits(op) == <<op, "", "">>
grp_decode_tables ==
    [GROUP1 |-> [k \in 1..8 |-> Inherits(Arithmetic[k])],
     GROUP2 |-> [k \in 1..8 |-> Inherits(<<"ROL", "ROR", "RCL", "RCR", "SHL", "SHR", "", "SAR">>[k])],
     GROUP3 |-> [k \in 1..8 |-> IF k = 1 THEN <<"TEST", "IMM_RM", "">>
                                ELSE Inherits(<<"", "", "NOT", "NEG", "MUL", "IMUL", "DIV", "IDIV">>[k])],
     GROUP4 |-> [k \in 1..8 |-> Inherits(<<"INC", "DEC", "", "", "", "", "", "">>[k])],
     GROUP5 |-> [k \in 1..8 |-> Inherits(<<"INC", "DEC", "CALL", "LCALL", "JMP", "LJMP", "PUSH", "">>[k])],
     GROUP6 |-> [k \in 1..8 |-> Inherits(<<"SLDT", "STR", "LLDT", "LTR", "VERR", "VERW", "", "">>[k])],
     GROUP7 |-> <<Inherits("SGDTL"), Inherits("SIDTL"), Inherits("LGDTL"), Inherits("LIDTL"),
                  <<"SMSW", "", "W">>, Undefined, <<"LMSW", "", "W">>, <<"INVLPG", "", "B">>>>,
     GROUP8 |-> [k \in 1..8 |-> Inherits(<<"", "", "", "", "BT", "BTS", "BTR", "BTC">>[k])],
     GROUP9 |-> [k \in 1..8 |-> Inherits(<<"", "CMPXCHG8B", "", "", "", "", "", "">>[k])]]

\* In the syntax of AT&T, with words, in Intel's and in Intel's with words.
diff_syntax_opcodes ==
    [BOUND |-> <<"BOUND", "BOUND", "BOUND", "BOUND">>,
     CWTL |-> <<"CWTL", "CBTV", "CWDE", "CBW">>, CLTD |-> <<"CLTD", "CWTD", "CDQ", "CWD">>,
     LCALL |-> <<"LCALL", "LCALL", "CALL", "CALL">>, LRET |-> <<"LRET", "LRET", "RETF", "RETF">>,
     LJMP |-> <<"LJMP", "LJMP", "JMP", "JMP">>,
     MOVZXB |-> <<"MOVZXB", "MOVZXB", "MOVZX", "MOVZX">>, MOVZXW |-> <<"MOVZXW", "MOVZXW", "MOVZX", "MOVZX">>,
     MOVSXB |-> <<"MOVSXB", "MOVSXB", "MOVSX", "MOVSX">>, MOVSXW |-> <<"MOVSXW", "MOVSXW", "MOVSX", "MOVSX">>,
     SGDTL |-> <<"SGDTL", "SGDTW", "SGDTD", "SGDTW">>, SIDTL |-> <<"SIDTL", "SIDTW", "SIDTD", "SIDTW">>,
     LGDTL |-> <<"LGDTL", "LGDTW", "LGDTD", "LGDTW">>, LIDTL |-> <<"LIDTL", "LIDTW", "LIDTD", "LIDTW">>]

diff_syntax_flags_0x62 == <<"D", "W", "Q", "D">>

--------------------------------------------------------------------------------
(***************************************************************************)
(* Numbers in the instruction, least significant byte first.               *)
(***************************************************************************)
read_u8(m, p) == m[p]
read_s8(m, p) == IF m[p] >= 128 THEN m[p] - 256 ELSE m[p]
read_u16(m, p) == m[p] + 256 * m[p + 1]
read_s16(m, p) == m[p] + 256 * read_s8(m, p + 1)
read_32(m, p) == read_u16(m, p) + 65536 * read_s16(m, p + 2)

\* What ModRM says of its operand: a register, memory, memory with displacement.
decode_modrm_addr_modes(pre, mod, rm) ==
    LET wide == IF pre.addr_size = "" THEN "DISP_DWORD" ELSE "DISP_WORD" IN
    CASE mod = 3 -> "REG" [] mod = 1 -> "DISP_BYTE" [] mod = 2 -> wide
      [] OTHER -> IF rm = (IF pre.addr_size = "" THEN 5 ELSE 6) THEN wide ELSE "MEM"

HasSib(pre, mod, rm) == pre.addr_size = "" /\ rm = 4 /\ mod # 3

decode_sib_byte(form, mod, base) ==
    IF base = 5 THEN <<"DISP_DWORD", "DISP_BYTE", "DISP_DWORD">>[mod + 1] ELSE form

DispBytes(form) == CASE form = "DISP_BYTE" -> 1 [] form = "DISP_WORD" -> 2 [] form = "DISP_DWORD" -> 4 [] OTHER -> 0

ReadSigned(m, p, n) ==
    CASE n = 1 -> read_s8(m, p) [] n = 2 -> read_s16(m, p) [] n = 4 -> read_32(m, p) [] OTHER -> 0
ReadUnsigned(m, p, n) ==
    CASE n = 1 -> read_u8(m, p) [] n = 2 -> read_u16(m, p) [] n = 4 -> read_32(m, p) [] OTHER -> 0

WidthBytes(width) == CASE width = "B" -> 1 [] width = "W" -> 2 [] width = "D" -> 4 [] OTHER -> 0

\* [first, second]: the sizes of imm_data[0] and of imm_data[1].
decode_imm(o, width) ==
    IF "IMM48" = o.src THEN <<IF width = "D" THEN 4 ELSE 2, 2>>
    ELSE IF "IMM16" = o.dst THEN <<1, 2>>
    ELSE IF "IMM8" \in {o.src, o.third} THEN <<1, 0>>
    ELSE IF "IMM" = o.third THEN <<IF width = "D" THEN 4 ELSE 2, 0>>
    ELSE IF "IMM" = o.src THEN <<WidthBytes(width), 0>> ELSE <<0, 0>>

--------------------------------------------------------------------------------
(***************************************************************************)
(* arch_x86_decode_instr()                                                 *)
(***************************************************************************)
NoPrefix == [seg |-> "", rep |-> "", lock |-> "", addr_size |-> "", op_size |-> "", two |-> ""]

\* Where the opcode is, and the prefixes before it: of a kind the last one counts.
Prefixed(m) ==
    LET behind[p \in DOMAIN m] ==
            IF p = 0 THEN NoPrefix
            ELSE LET prefix == prefixes[m[p - 1]] IN [behind[p - 1] EXCEPT ![prefix[1]] = prefix[2]]
        last(p) == m[p] \notin DOMAIN prefixes \/ behind[p].two # ""
        at == CHOOSE p \in DOMAIN m : last(p) /\ \A q \in 0..(p - 1) : ~last(q)
    IN [at |-> at, pre |-> behind[at]]

Either(own, inherited) == IF own # "" THEN own ELSE inherited

\* The opcode, mode and width of a byte, by way of its group.
Entry(m, p, pre) ==
    LET row == IF pre.two = "" THEN decode_table_one(m[p]) ELSE decode_table_two(m[p])
    IN IF row[1] \notin DOMAIN grp_decode_tables THEN row
       ELSE LET own == grp_decode_tables[row[1]][((m[p + 1] \div 8) % 8) + 1]
            IN <<own[1], Either(own[2], row[2]), Either(own[3], row[3])>>

\* Words instead of double words.
Overridden(width) == CASE width = "D" -> "W" [] width = "Q" -> "D" [] OTHER -> width

UNDECODED == [opcode |-> "ILLEGAL"]

NoModRM == [mod |-> 0, rm |-> 0, reg_opc |-> 0, form |-> "", sib |-> FALSE, base |-> 0, idx |-> 0, scale |-> 0]

\* The ModRM byte at p and the SIB byte that may follow.
decode_modrm_byte(m, p, pre) ==
    LET mod == m[p] \div 64
        rm == m[p] % 8
        form == decode_modrm_addr_modes(pre, mod, rm)
        sib == HasSib(pre, mod, rm)
        s == IF sib THEN m[p + 1] ELSE 0
    IN [mod |-> mod, rm |-> rm, reg_opc |-> (m[p] \div 8) % 8,
        form |-> IF sib THEN decode_sib_byte(form, mod, s % 8) ELSE form,
        sib |-> sib, base |-> s % 8, idx |-> (s \div 8) % 8, scale |-> s \div 64]

MOFFSET(o) == "MOFFSET" \in {o.src, o.dst}

DispSize(pre, o, form) ==
    IF ~MOFFSET(o) THEN DispBytes(form) ELSE IF pre.addr_size = "" THEN 4 ELSE 2

\* From p on: a displacement of so many bytes, the two parts of an immediate, of which
\* ENTER has the second one first, and a relative address.
decode_numbers(m, p, o, disp, imm, rel) ==
    LET n == p + disp
        enter == "IMM16" = o.dst
    IN [disp |-> IF MOFFSET(o) THEN ReadUnsigned(m, p, disp) ELSE ReadSigned(m, p, disp),
        imm |-> ReadUnsigned(m, IF enter THEN n + 2 ELSE n, imm[1]),
        seg_sel |-> ReadUnsigned(m, IF enter THEN n ELSE n + imm[1], imm[2]),
        rel |-> ReadSigned(m, n, rel), nr_bytes |-> n + imm[1] + imm[2] + rel]

\* What follows at p.
decode_rest(m, p, pre, o, width, modrm) ==
    modrm @@ decode_numbers(m, p, o, DispSize(pre, o, modrm.form), decode_imm(o, width),
                            IF o.src = "REL" THEN WidthBytes(width) ELSE 0)

Syntax(pre, intel) == (IF pre.op_size # "" THEN 1 ELSE 0) + (IF intel THEN 2 ELSE 0) + 1

WidthOf(byte, pre, entry, syntax) ==
    LET width == IF byte = \h62 /\ pre.two = "" THEN diff_syntax_flags_0x62[syntax] ELSE entry[3]
    IN IF pre.op_size # "" THEN Overridden(width) ELSE width

\* The instruction with the opcode at p, which has this entry.
decode_entry(m, p, pre, entry, syntax, width) ==
    LET modrm == IF MOD_RM(entry[2]) THEN decode_modrm_byte(m, p + 1, pre) ELSE NoModRM
        at == p + 1 + (IF MOD_RM(entry[2]) THEN 1 ELSE 0) + (IF modrm.sib THEN 1 ELSE 0)
    IN decode_rest(m, at, pre, x86_addrmod[entry[2]], width, modrm) @@
       [opcode |-> IF entry[1] \in DOMAIN diff_syntax_opcodes THEN diff_syntax_opcodes[entry[1]][syntax] ELSE entry[1],
        opcode_byte |-> m[p], pre |-> pre, mode |-> entry[2], width |-> width]

decode_opcode(m, p, pre, entry, syntax) ==
    IF entry[1] = "" THEN UNDECODED
    ELSE decode_entry(m, p, pre, entry, syntax, WidthOf(m[p], pre, entry, syntax))

arch_x86_decode_instr(m, intel) ==
    LET start == Prefixed(m)
    IN decode_opcode(m, start.at, start.pre, Entry(m, start.at, start.pre), Syntax(start.pre, intel))

--------------------------------------------------------------------------------
(***************************************************************************)
(* decode_src_operand(), decode_dst_operand(), decode_third_operand()      *)
(***************************************************************************)
Operand(type, n) == [type |-> type, n |-> n]

\* The operand that ModRM and SIB describe.
decode_rm(i) ==
    CASE i.form = "REG" -> Operand("REG", i.rm)
      [] i.form = "MEM" -> IF i.sib THEN Operand("SIB_MEM", 0) ELSE Operand("MEM", i.rm)
      [] OTHER -> Operand(IF i.sib THEN "SIB_DISP" ELSE "MEM_DISP", i.disp)

RegisterOf(i) == IF MOD_RM(i.mode) THEN i.reg_opc ELSE i.opcode_byte % 8

decode_operand(i, which) ==
    LET kind == x86_addrmod[i.mode][which] IN
    CASE kind = "RM" -> decode_rm(i)
      [] kind = "REG" -> Operand("REG", RegisterOf(i)) [] kind = "ACC" -> Operand("REG", 0)
      [] kind = "SEG2_REG" -> Operand("SEG_REG", i.opcode_byte \div 8)
      [] kind = "SEG3_REG" -> Operand("SEG_REG", IF MOD_RM(i.mode) THEN i.reg_opc ELSE (i.opcode_byte \div 8) % 8)
      [] kind \in {"CR_REG", "DBG_REG"} -> Operand(kind, i.reg_opc)
      [] kind \in {"IMM", "IMM8"} -> Operand("IMM", i.imm) [] kind = "IMM16" -> Operand("IMM", i.seg_sel)
      [] kind = "IMM48" -> Operand("FAR_PTR", <<i.seg_sel, i.imm>>)
      [] kind = "REL" -> Operand("REL", i.rel) [] kind = "MOFFSET" -> Operand("MOFFSET", i.disp)
      [] kind = "CL" -> Operand("REG8", 1)

\* Source, destination and third, those that there are.
operands(i) ==
    [which \in {w \in {"src", "dst", "third"} : x86_addrmod[i.mode][w] # "NONE"} |-> decode_operand(i, which)]

--------------------------------------------------------------------------------
(***************************************************************************)
(* arch_x86_tag_instr(): nothing is tagged where decoding fails.           *)
(***************************************************************************)
NEW_PC_NONE == -1

Jcc == {"J" \o Conditions[k] : k \in 1..16}
Loops == {"LOOP", "LOOPE", "LOOPNE"}

tag_kind(i) ==
    CASE i.opcode \in Jcc \cup Loops -> "COND_BRANCH"
      [] i.opcode \in {"JMP", "LJMP"} -> "BRANCH"
      [] i.opcode \in {"CALL", "LCALL", "SYSENTER"} -> "CALL"
      [] i.opcode \in {"RET", "LRET", "RETF", "IRET", "SYSEXIT"} -> "RET"
      [] i.opcode \in {"INT", "INTO", "INT3", "BOUND"} -> "TRAP"
      [] OTHER -> "CONTINUE"

arch_x86_tag_instr(i, pc) ==
    [tag |-> tag_kind(i), next_pc |-> pc + i.nr_bytes,
     new_pc |-> IF tag_kind(i) = "COND_BRANCH" \/
                   (tag_kind(i) \in {"BRANCH", "CALL"} /\ i.opcode_byte \in {\hE8, \hE9, \hEB})
                THEN pc + i.nr_bytes + i.rel ELSE NEW_PC_NONE]
================================================================================
