---------------------------------- MODULE M68k ----------------------------------
(***************************************************************************)
(* arch/m68k: what is displayed of an instruction (m68k_disasm.cpp), the   *)
(* length that the same pass calculates, and how it is tagged              *)
(* (m68k_tag.cpp).  There is no translation.  An instruction is [op, ram]: *)
(* a word, and the bytes from its address on.                              *)
(***************************************************************************)
EXTENDS Integers, Sequences, FiniteSets

bits(word, a, b) == (word \div 2^a) % 2^(b - a + 1)

\* RAM16(pc + a), RAM32(pc + a)
RAM16(m, a) == LET v == m[a] * 256 + m[a + 1] IN IF v >= 2^15 THEN v - 2^16 ELSE v
RAM32(m, a) == RAM16(m, a) * 2^16 + m[a + 2] * 256 + m[a + 3]

REG0(op) == bits(op, 0, 2)
MOD0(op) == bits(op, 3, 5)
MOD1(op) == bits(op, 6, 8)
REG1(op) == bits(op, 9, 11)

\* decodesize1(), decodesize3(), decodesizea3(): B, L, W or none.
Sizes == <<"B", "L", "W">>
SIZE6(op) == IF bits(op, 6, 6) = 0 THEN "W" ELSE "L"
SIZE67(op) == <<"B", "W", "L", "none">>[bits(op, 6, 7) + 1]
SIZEA68(op) == IF bits(op, 8, 8) = 1 THEN "L" ELSE "W"
SIZE1213(op) == Sizes[bits(op, 12, 13)]

Row(op) == bits(op, 12, 15)
Column(op) == bits(op, 8, 11)

--------------------------------------------------------------------------------
(***************************************************************************)
(* What is displayed of an operand, with the bytes that this reads: from   *)
(* the address "from", "n" of them.  A size that is none ends the process. *)
(***************************************************************************)
Operand(kind, reg, from, n) == [kind |-> kind, reg |-> reg, from |-> from, n |-> n]

ImmBytes(size) == CASE size \in {"B", "W"} -> 2 [] size = "L" -> 4 [] OTHER -> 0

decodeimm(shift, size) == Operand("imm", 0, shift + 2, ImmBytes(size))

decodemodreg(shift, size, mod, reg) ==
    CASE mod = 0 -> Operand("d", reg, 0, 0) [] mod = 1 -> Operand("a", reg, 0, 0)
      [] mod = 2 -> Operand("(a)", reg, 0, 0) [] mod = 3 -> Operand("(a)+", reg, 0, 0)
      [] mod = 4 -> Operand("-(a)", reg, 0, 0)
      [] mod = 5 -> Operand("d(a)", reg, shift + 2, 2) [] mod = 6 -> Operand("d(a,x)", reg, shift + 2, 2)
      [] mod = 7 /\ reg = 0 -> Operand("word", 0, shift + 2, 2)
      [] mod = 7 /\ reg = 1 -> Operand("long", 0, shift + 2, 4)
      [] mod = 7 /\ reg = 2 -> Operand("d(pc)", 0, shift + 2, 2)
      [] mod = 7 /\ reg = 4 -> decodeimm(shift, size)
      [] OTHER -> Operand("mod/reg", reg, 0, 0)

lengthmodreg(mod, reg, size) ==
    CASE mod \in {5, 6} \/ (mod = 7 /\ reg \in {0, 2}) -> 2
      [] mod = 7 /\ reg = 1 -> 4
      [] mod = 7 /\ reg = 4 -> ImmBytes(size)
      [] OTHER -> 0

\* The displacement of a branch: in the opcode, or after it.
arch_disasm_get_disp(i) ==
    LET b == bits(i.op, 0, 7)
    IN CASE b = 0 -> RAM16(i.ram, 2) [] b = 255 -> RAM32(i.ram, 2)
         [] OTHER -> IF b > 127 THEN b - 256 ELSE b

DispBytes(op) == CASE bits(op, 0, 7) = 0 -> 2 [] bits(op, 0, 7) = 255 -> 4 [] OTHER -> 0
lengthdisp(op) == CASE bits(op, 0, 7) = 0 -> 4 [] bits(op, 0, 7) = 255 -> 6 [] OTHER -> 2

--------------------------------------------------------------------------------
(***************************************************************************)
(* disreclen(): what is displayed, [name, operands, target], and the       *)
(* length, "exit" being of no length at all.  Targets are relative to pc.  *)
(***************************************************************************)
NoTarget == -1
Line(name, ops, len) == [name |-> name, operands |-> ops, target |-> NoTarget, len |-> len]
Exit == Line("exit", <<>>, 0)
Unknown == Line("???", <<>>, 2)

Ea(op, size) == decodemodreg(0, size, MOD0(op), REG0(op))
EaLength(op, size) == lengthmodreg(MOD0(op), REG0(op), size)
IsImmediate(op) == MOD0(op) = 7 /\ REG0(op) = 4

\* One operand of a size, and a register or a short number in the opcode; an immediate
\* of no size ends the process.
OneOperand(name, op, size) ==
    IF IsImmediate(op) /\ size = "none" THEN Exit
    ELSE Line(name, <<Ea(op, size)>>, 2 + EaLength(op, size))

\* or, and, sub, add, eor, cmp: the operand's extension is taken to come first.
ImmediateOp(op) ==
    LET size == SIZE67(op) shift == EaLength(op, size) IN
    IF size = "none" THEN Exit
    ELSE Line("immediate", <<decodeimm(shift, size), Ea(op, size)>>, 2 + shift + ImmBytes(size))

Move(op) ==
    LET size == SIZE1213(op) shift == EaLength(op, size)
    IN Line("move", <<Ea(op, size), decodemodreg(shift, size, MOD1(op), REG1(op))>>,
            2 + shift + lengthmodreg(MOD1(op), REG1(op), size))

\* The list of registers is read where the operand's extension is as well.
Movem(op) == Line("movem", <<Operand("list", 0, 2, 2), Ea(op, SIZE6(op))>>, 4 + EaLength(op, SIZE6(op)))

\* JSR, LINK and UNLK have no size to calculate with.
Sizeless(name, op, ops, len) ==
    IF IsImmediate(op) THEN Exit ELSE Line(name, <<Ea(op, "L")>> \o ops, len + EaLength(op, "none"))

Control(op) ==
    CASE bits(op, 6, 7) = 2 -> Sizeless("jsr", op, <<>>, 2)
      [] bits(op, 0, 7) = \h56 -> Sizeless("linkw", op, <<decodeimm(0, "W")>>, 4)
      [] bits(op, 0, 7) = \h5E -> Sizeless("unlk", op, <<>>, 2)
      [] OTHER -> Unknown

\* The length of PEA is that of a word.
Row4(op) ==
    CASE op = \h4E75 -> Line("rts", <<>>, 2)
      [] op = \h4E71 -> Line("nop", <<>>, 2)
      [] MOD1(op) = 7 -> OneOperand("lea", op, "L")
      [] MOD1(op) # 7 /\ Column(op) \in {2, 4, 10} ->
             OneOperand(<<"clr", "neg", "", "", "tst">>[Column(op) \div 2], op, SIZE67(op))
      [] Column(op) = 14 /\ op \notin {\h4E75, \h4E71} /\ MOD1(op) # 7 -> Control(op)
      [] Column(op) \in {8, 12} /\ MOD1(op) # 7 /\ bits(op, 6, 7) = 1 /\ bits(op, 10, 10) = 0 ->
             Line("pea", <<Ea(op, "L")>>, 2 + EaLength(op, SIZE67(op)))
      [] Column(op) \in {8, 12} /\ MOD1(op) # 7 /\ bits(op, 7, 7) = 1 -> Movem(op)
      [] OTHER -> Unknown

Row5(i) ==
    LET op == i.op IN
    CASE bits(op, 6, 7) # 3 -> OneOperand("addq", op, SIZE67(op))
      [] bits(op, 6, 7) = 3 /\ MOD0(op) = 1 ->
             [Line("db", <<Operand("disp", 0, 2, 2)>>, 4) EXCEPT !.target = 2 + RAM16(i.ram, 2)]
      [] bits(op, 6, 7) = 3 /\ MOD0(op) = 7 -> Line("trapcc", <<Operand("disp", 0, 2, 2)>>, 2)
      [] OTHER -> Line("s", <<>>, 2)

Branch(i) ==
    [Line("b", IF DispBytes(i.op) = 0 THEN <<>> ELSE <<Operand("disp", 0, 2, DispBytes(i.op))>>, lengthdisp(i.op))
        EXCEPT !.target = 2 + arch_disasm_get_disp(i)]

disreclen(i) ==
    LET op == i.op IN
    CASE Row(op) = 0 -> ImmediateOp(op)
      [] Row(op) \in 1..3 -> Move(op)
      [] Row(op) = 4 -> Row4(op)
      [] Row(op) = 5 -> Row5(i)
      [] Row(op) = 6 -> Branch(i)
      [] Row(op) = 7 -> IF bits(op, 8, 8) = 0 THEN Line("movq", <<>>, 2) ELSE Unknown
      [] Row(op) \in {9, 11, 13} -> OneOperand("arithmetic", op, IF bits(op, 6, 7) = 3 THEN SIZEA68(op) ELSE SIZE67(op))
      [] Row(op) = 14 -> Line("shift", <<>>, 2)
      [] OTHER -> Unknown

--------------------------------------------------------------------------------
(***************************************************************************)
(* arch_m68k_tag_instr(), with addresses relative to pc.                   *)
(***************************************************************************)
DBcc(op) == Row(op) = 5 /\ bits(op, 3, 5) = 1 /\ bits(op, 6, 7) = 3

tag(op) ==
    CASE bits(op, 6, 15) = \h13A -> {"CALL"}
      [] Row(op) = 6 \/ DBcc(op) -> {"BRANCH", "CONDITIONAL"}
      [] op = \h4E75 -> {"RET"}
      [] OTHER -> {"CONTINUE"}

new_pc(i) ==
    CASE Row(i.op) = 6 -> 2 + arch_disasm_get_disp(i) [] DBcc(i.op) -> 2 + RAM16(i.ram, 2)
      [] OTHER -> NoTarget

next_pc(i) == disreclen(i).len

--------------------------------------------------------------------------------
(***************************************************************************)
(* The bytes that are displayed are, once each, those between the opcode   *)
(* and the next instruction, which is where tagging goes on: the operands' *)
(* lengths and the operands are decoded by functions of their own.  The    *)
(* exceptions are registers listed behind an extension (TODO, 5.), TRAPcc  *)
(* with a number, and PEA of an immediate, which there is not.             *)
(***************************************************************************)
Bytes(o) == o.from..(o.from + o.n - 1)

ExtensionsDisplayed(i) ==
    LET line == disreclen(i) ops == line.operands
        read == UNION {Bytes(ops[k]) : k \in DOMAIN ops}
    IN \/ line.name = "exit"
       \/ line.name = "movem" /\ \E k \in DOMAIN ops : ops[k].kind # "list" /\ ops[k].n > 0
       \/ line.name = "trapcc"
       \/ line.name = "pea" /\ IsImmediate(i.op)
       \/ /\ read = 2..(line.len - 1)
          /\ \A j \in DOMAIN ops, k \in DOMAIN ops : j # k => Bytes(ops[j]) \cap Bytes(ops[k]) = {}

(***************************************************************************)
(* What is displayed as a branch, a call or a return is tagged as one,     *)
(* with the displayed target.  The exceptions are "bra" and "bsr", which   *)
(* are tagged as conditional branches.                                     *)
(***************************************************************************)
KeepsTag(i) ==
    LET line == disreclen(i) IN
    line.name # "exit" =>
        /\ line.target = new_pc(i)
        /\ "CONDITIONAL" \in tag(i.op) <=> line.name \in {"b", "db"}
        /\ tag(i.op) = {"CALL"} <=> line.name = "jsr"
        /\ tag(i.op) = {"RET"} <=> line.name = "rts"
================================================================================
