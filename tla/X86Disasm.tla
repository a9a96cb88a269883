-------------------------------- MODULE X86Disasm --------------------------------
(***************************************************************************)
(* What is displayed of an x86 instruction, in AT&T's syntax                *)
(* (x86_disasm_att.cpp) and in Intel's (x86_disasm_intel.cpp), and what     *)
(* x86_translate.cpp makes of an operand.  The names of registers are      *)
(* those without the percent signs of AT&T; signs and commas are left out. *)
(***************************************************************************)
EXTENDS X86Decode

byte_reg_names == <<"al", "cl", "dl", "bl", "ah", "ch", "dh", "bh">>
word_reg_names == <<"ax", "cx", "dx", "bx", "sp", "bp", "si", "di">>
full_reg_names == <<"eax", "ecx", "edx", "ebx", "esp", "ebp", "esi", "edi">>
cr_reg_names == <<"cr0", "", "cr2", "cr3", "cr4", "", "", "">>
dbg_reg_names == <<"db0", "db1", "db2", "db3", "", "", "db6", "db7">>

\* Registers 6 and 7 are read from behind the end of the table.
BEHIND == "behind the end"
seg_reg_names == <<"es", "cs", "ss", "ds", "fs", "gs", BEHIND, BEHIND>>

\* Register 4 without a SIB byte is not an address, and base 5 never has a name.
mem_reg_names_32 == <<{"eax"}, {"ecx"}, {"edx"}, {"ebx"}, {}, {"ebp"}, {"esi"}, {"edi"}>>
mem_reg_names_16 ==
    <<{"bx", "si"}, {"bx", "di"}, {"bp", "si"}, {"bp", "di"}, {"si"}, {"di"}, {"bp"}, {"bx"}>>
sib_reg_base_names == <<{"eax"}, {"ecx"}, {"edx"}, {"ebx"}, {"esp"}, {}, {"esi"}, {"edi"}>>
sib_reg_idx_names == <<"eax", "ecx", "edx", "ebx", "eiz", "ebp", "esi", "edi">>

to_reg_name(i, n) ==
    (CASE i.width = "B" -> byte_reg_names [] i.width = "W" -> word_reg_names [] OTHER -> full_reg_names)[n + 1]
to_mem_reg_name(i, n) == (IF i.pre.addr_size # "" THEN mem_reg_names_16 ELSE mem_reg_names_32)[n + 1]

\* (0, 0, 5) and (1, 0, 6): the displacement is the address.
IsAbsolute(i) == i.mod = 0 /\ i.rm = (IF i.pre.addr_size # "" THEN 6 ELSE 5)

Absolute(x) == IF x < 0 THEN -x ELSE x

\* An address as it is displayed: size, segment, registers, index, scale, number.
Address(size, seg, regs, idx, scale, disp) ==
    [size |-> size, seg |-> seg, regs |-> regs, idx |-> idx, scale |-> scale, disp |-> disp]

InMemory == {"MEM", "MEM_DISP", "SIB_MEM", "SIB_DISP", "MOFFSET"}

\* The operands that both syntaxes display alike.
Plain(i, pc, op) ==
    CASE op.type \in {"IMM", "FAR_PTR"} -> op.n
      [] op.type = "REL" -> pc + i.nr_bytes + op.n
      [] op.type = "REG" -> to_reg_name(i, op.n)
      [] op.type = "REG8" -> byte_reg_names[op.n + 1]
      [] op.type = "SEG_REG" -> seg_reg_names[op.n + 1]
      [] op.type = "CR_REG" -> cr_reg_names[op.n + 1]
      [] op.type = "DBG_REG" -> dbg_reg_names[op.n + 1]

SizeOf(width) == CASE width = "B" -> 1 [] width = "W" -> 2 [] width = "D" -> 4 [] OTHER -> 8

--------------------------------------------------------------------------------
(***************************************************************************)
(* AT&T                                                                    *)
(***************************************************************************)
check_suffix_override(i) ==
    \/ i.pre.two = "" /\ i.opcode \in {"ARPL", "RET", "ENTER", "LRET", "INT", "AAM", "AAD", "JECXZ"} \cup Loops
    \/ i.opcode \in Jcc
    \/ i.pre.two # "" /\ i.opcode \in {"LMSW", "INVLPG", "LLDT", "LTR", "VERR", "VERW", "CMPXCHG8B", "BSWAP"}
                                       \cup {"SET" \o Conditions[k] : k \in 1..16}
    \/ i.pre.two = "" /\ i.opcode_byte = \hEB

\* The size the suffix of the mnemonic says; 0: there is no suffix.
add_instr_suffix(i) == IF check_suffix_override(i) \/ i.width = "" THEN 0 ELSE SizeOf(i.width)

\* Segments are displayed of addresses without SIB byte and not of MOFFSET.
print_operand_att(i, pc, op) ==
    CASE op.type = "MOFFSET" -> Address(0, "", {}, "", 0, op.n)
      [] op.type = "MEM" -> Address(0, i.pre.seg, to_mem_reg_name(i, op.n), "", 0, 0)
      [] op.type = "MEM_DISP" ->
           Address(0, i.pre.seg, IF IsAbsolute(i) THEN {} ELSE to_mem_reg_name(i, i.rm), "", 0, op.n)
      [] op.type \in {"SIB_MEM", "SIB_DISP"} ->
           Address(0, "", sib_reg_base_names[i.base + 1], sib_reg_idx_names[i.idx + 1], 2^i.scale, op.n)
      [] OTHER -> Plain(i, pc, op)

InOrder(i, order) ==
    LET ops == operands(i) IN [k \in {k \in 1..3 : order[k] \in DOMAIN ops} |-> ops[order[k]]]

arch_x86_disasm_instr_att(i, pc) ==
    LET ops == InOrder(i, <<"third", "src", "dst">>)
    IN [lock |-> i.pre.lock, rep |-> i.pre.rep, mnemonic |-> i.opcode, suffix |-> add_instr_suffix(i),
        operands |-> [k \in DOMAIN ops |-> print_operand_att(i, pc, ops[k])]]

--------------------------------------------------------------------------------
(***************************************************************************)
(* Intel                                                                   *)
(***************************************************************************)
\* The size an opcode says itself; 6: FWORD, 0: none, -1: the operands say it.
check_prefix_override(i) ==
    LET descriptors == {x \o y : x \in {"SGDT", "SIDT", "LGDT", "LIDT"}, y \in {"D", "W"}}
        far == {"LSS", "LFS", "LGS"}
        one == i.pre.two = ""
    IN CASE i.opcode \in {"LES", "LDS"} -> IF one THEN 6 ELSE -1
         [] i.opcode \in far \cup descriptors -> IF one THEN -1 ELSE 0
         [] i.opcode \in {"LAR", "LSL"} -> IF one THEN -1 ELSE 2
         [] one /\ i.opcode_byte = \hFF /\ i.reg_opc \in {3, 5} -> 6
         [] ~one /\ i.opcode_byte \in {\hB6, \hBE} -> 1
         [] ~one /\ i.opcode_byte \in {\hB7, \hBF} -> 2
         [] OTHER -> -1

add_operand_prefix(i) == IF check_prefix_override(i) # -1 THEN check_prefix_override(i) ELSE SizeOf(i.width)

\* Without an override an address that is only a number is displayed with ds.
SegmentOr(i, default) == IF i.pre.seg # "" THEN i.pre.seg ELSE default

print_operand_intel(i, pc, op) ==
    LET size == add_operand_prefix(i) IN
    CASE op.type = "MOFFSET" -> Address(0, SegmentOr(i, "ds"), {}, "", 0, Absolute(op.n))
      [] op.type = "MEM" -> Address(size, i.pre.seg, to_mem_reg_name(i, op.n), "", 0, 0)
      [] op.type = "MEM_DISP" ->
           IF IsAbsolute(i) THEN Address(size, SegmentOr(i, "ds"), {}, "", 0, Absolute(op.n))
           ELSE Address(size, i.pre.seg, to_mem_reg_name(i, i.rm), "", 0, op.n)
      [] op.type \in {"SIB_MEM", "SIB_DISP"} ->
           Address(size, i.pre.seg, sib_reg_base_names[i.base + 1], sib_reg_idx_names[i.idx + 1], 2^i.scale, op.n)
      [] OTHER -> Plain(i, pc, op)

arch_x86_disasm_instr_intel(i, pc) ==
    LET ops == InOrder(i, <<"dst", "src", "third">>)
    IN [lock |-> i.pre.lock, rep |-> i.pre.rep, mnemonic |-> i.opcode,
        operands |-> [k \in DOMAIN ops |-> print_operand_intel(i, pc, ops[k])]]

--------------------------------------------------------------------------------
(***************************************************************************)
(* arch_x86_get_operand() in x86_translate.cpp, which no instruction calls *)
(* yet: arch_x86_translate_instr() exits for every opcode.                 *)
(***************************************************************************)
SEG_REG_BASE == 9
CR_REG_BASE == 15
DBG_REG_BASE == 20

arch_x86_register_layout ==
    full_reg_names \o <<"eflags", "es", "cs", "ss", "ds", "fs", "gs", "cr0", "cr1", "cr2", "cr3", "cr4",
                        "db0", "db1", "db2", "db3", "db4", "db5", "db6", "db7">>

\* What LLVM is given: a constant, a register or part of it, a value loaded from an
\* address of so many bits, or the address itself.
Constant(bits, n) == [is |-> "constant", bits |-> bits, n |-> IF bits < 32 THEN n % 2^bits ELSE n]
Register(bits, shift, index) == [is |-> "register", bits |-> bits, shift |-> shift, index |-> index]
AtAddress(is, bits, regs, idx, scale, n) ==
    [is |-> is, bits |-> bits, regs |-> regs, idx |-> idx, scale |-> scale, n |-> n]
Assertion == [is |-> "assertion"]
Sizeless == [is |-> "sizeless"]

WithWidth(i, n) == IF i.width \in {"B", "W", "D"} THEN Constant(8 * SizeOf(i.width), n) ELSE Sizeless

\* EBX + ESI and so on, or one of ESI, EDI, EBP and EBX.
Registers16 == <<{3, 6}, {3, 7}, {5, 6}, {5, 7}, {6}, {7}, {5}, {3}>>

GetMem(i, n) ==
    IF i.pre.addr_size # ""
    THEN IF n = 6 THEN Assertion ELSE AtAddress("load", 16, Registers16[n + 1], 8, 0, 0)
    ELSE IF n \in {4, 5} THEN Assertion ELSE AtAddress("load", 32, {n}, 8, 0, 0)

GetMemDisp(i, n) ==
    CASE i.mod = 3 -> Assertion
      [] i.mod = 0 ->
           IF IsAbsolute(i) THEN AtAddress("load", IF i.pre.addr_size # "" THEN 16 ELSE 32, {}, 8, 0, n) ELSE Assertion
      [] i.mod \in 1..2 /\ i.pre.addr_size # "" -> AtAddress("load", 16, Registers16[i.rm + 1], 8, 0, n)
      [] OTHER -> IF i.rm = 4 THEN Assertion ELSE AtAddress("load", 32, {i.rm}, 8, 0, n)

GetRegister(i, op) ==
    IF i.width = "B" \/ op.type = "REG8"
    THEN IF op.n < 4 THEN Register(8, 0, op.n) ELSE Register(8, 8, op.n - 4)
    ELSE Register(IF i.width = "W" THEN 16 ELSE 32, 0, op.n)

\* Displacements count only where the base is 5.
GetSib(i, op) ==
    LET idx == IF i.idx = 4 THEN 8 ELSE i.idx IN
    IF i.mod = 3 \/ i.rm # 4 THEN Assertion
    ELSE IF i.base # 5 THEN AtAddress("address", 32, {i.base}, idx, 2^i.scale, 0)
    ELSE IF i.mod = 0 THEN AtAddress("address", 32, {}, idx, 2^i.scale, i.disp)
    ELSE AtAddress("address", 32, {5}, idx, 2^i.scale, op.n)

GetImm(i, n) ==
    LET o == x86_addrmod[i.mode] IN
    IF "IMM8" \in {o.src, o.third} THEN Constant(8, n)
    ELSE IF o.dst = "IMM16" THEN Constant(16, n) ELSE WithWidth(i, n)

arch_x86_get_operand(i, op) ==
    CASE op.type = "IMM" -> GetImm(i, op.n)
      [] op.type \in {"MOFFSET", "REL"} -> WithWidth(i, op.n)
      [] op.type = "MEM" -> GetMem(i, op.n) [] op.type = "MEM_DISP" -> GetMemDisp(i, op.n)
      [] op.type \in {"REG", "REG8"} -> GetRegister(i, op)
      [] op.type = "SEG_REG" -> IF op.n > 5 THEN Assertion ELSE Register(16, 0, SEG_REG_BASE + op.n)
      [] op.type = "CR_REG" -> IF op.n \in {0, 2, 3, 4} THEN Register(32, 0, CR_REG_BASE + op.n) ELSE Assertion
      [] op.type = "DBG_REG" -> IF op.n \in {4, 5} THEN Assertion ELSE Register(32, 0, DBG_REG_BASE + op.n)
      [] op.type = "FAR_PTR" -> [is |-> "constant", bits |-> IF i.width = "D" THEN 48 ELSE 32, n |-> op.n]
      [] op.type \in {"SIB_MEM", "SIB_DISP"} -> GetSib(i, op)

--------------------------------------------------------------------------------
(* att and intel are the same bytes, decoded for the one syntax or the other.            *)

\* Both syntaxes decode the same bytes, to the same tag, with the same operands.
TaggedAlike(att, intel, pc) ==
    /\ att = UNDECODED <=> intel = UNDECODED
    /\ att # UNDECODED =>
          /\ arch_x86_tag_instr(att, pc) = arch_x86_tag_instr(intel, pc)
          /\ operands(att) = operands(intel)

\* Where an instruction displays a target, its tag has it, JECXZ excepted.
TargetTagged(i, pc) ==
    LET t == arch_x86_tag_instr(i, pc)
        targets == {w \in DOMAIN operands(i) : operands(i)[w].type = "REL"}
    IN i # UNDECODED =>
       /\ t.new_pc # NEW_PC_NONE => targets # {}
       /\ \A w \in targets :
            \/ t.new_pc = print_operand_att(i, pc, operands(i)[w])
            \/ i.opcode = "JECXZ" /\ t.tag = "CONTINUE"

KeepsTag(att, intel, pc) == TaggedAlike(att, intel, pc) /\ TargetTagged(att, pc)

\* Both syntaxes display the same address, except the segments that AT&T's leaves out
\* and the signs that Intel's does.
SameAddress(i, att, intel, op) ==
    /\ [att EXCEPT !.size = 0, !.seg = "", !.disp = Absolute(@)]
        = [intel EXCEPT !.size = 0, !.seg = "", !.disp = Absolute(@)]
    /\ att.disp # intel.disp => att.regs = {} /\ ~i.sib
    /\ att.seg # intel.seg => i.sib \/ op.type = "MOFFSET" \/ IsAbsolute(i)

\* A size is what the suffix says, unless the opcode says another one.
SameSize(att, intel) ==
    LET suffix == add_instr_suffix(att) IN
    suffix # 0 /\ check_prefix_override(intel) = -1 =>
        suffix = add_operand_prefix(intel) \/ att.opcode = "BOUND"

SyntaxesAgree(att, intel, pc) ==
    LET line == arch_x86_disasm_instr_att(att, pc).operands
        other == arch_x86_disasm_instr_intel(intel, pc).operands
        ops == operands(att)
        Agree(w, mine, its) ==
            IF ops[w].type \in InMemory THEN SameAddress(att, line[mine], other[its], ops[w]) /\ SameSize(att, intel)
            ELSE line[mine] = other[its]
    IN att # UNDECODED =>
       /\ "src" \in DOMAIN ops => Agree("src", 2, 2)
       /\ "dst" \in DOMAIN ops => Agree("dst", 3, 1)
       /\ "third" \in DOMAIN ops => Agree("third", 1, 3)

\* The name of what LLVM is given, of a byte the one whose number is displayed.
NameOf(x) ==
    LET name == arch_x86_register_layout[x.index + 1] IN
    CASE x.bits = 8 -> byte_reg_names[x.index + 1 + x.shift \div 2]
      [] x.bits = 16 /\ x.index < 8 -> word_reg_names[x.index + 1]
      [] OTHER -> name

NamesAt(x) ==
    LET names == IF x.bits = 16 THEN word_reg_names ELSE full_reg_names IN {names[n + 1] : n \in x.regs}

\* What is displayed of an operand is what is translated: the displacement of a SIB
\* byte, the name of its base 5 and the frame size of ENTER excepted.  The assertions
\* hold but for reserved registers.
OperandDisplayed(i, pc, op) ==
    LET shown == print_operand_att(i, pc, op)
        x == arch_x86_get_operand(i, op)
    IN IF x = Assertion THEN op.type \in {"SEG_REG", "CR_REG", "DBG_REG"} /\ shown \in {"", BEHIND}
       ELSE /\ x # Sizeless
            /\ IF op.type = "MOFFSET" THEN TRUE
               ELSE IF op.type = "REL" THEN x.n = (IF x.bits < 32 THEN op.n % 2^x.bits ELSE op.n)
               ELSE IF x.is = "constant" THEN x.n = shown \/ i.opcode = "ENTER"
               ELSE IF x.is = "register" THEN NameOf(x) = shown
               ELSE
                 /\ NamesAt(x) = shown.regs \/ (i.sib /\ i.base = 5 /\ shown.regs = {})
                 /\ IF shown.idx \in {"", "eiz"} THEN x.idx = 8 ELSE full_reg_names[x.idx + 1] = shown.idx
                 /\ x.scale = shown.scale
                 /\ x.n = shown.disp \/ (i.sib /\ i.base # 5 /\ x.n = 0)

DisplaysTranslation(att, intel, pc) ==
    /\ SyntaxesAgree(att, intel, pc)
    /\ att # UNDECODED =>
          \A w \in DOMAIN operands(att) : OperandDisplayed(att, pc, operands(att)[w])
================================================================================
