------------------------------- MODULE M88kDisasm -------------------------------
(***************************************************************************)
(* arch/m88k/m88k_disasm.cpp: what is displayed of an M88000 instruction.  *)
(* The names of opcodes are those of m88k_isa.h; arguments are <<"r", 1>>  *)
(* for a register, <<"[r]", 1>> for one that is scaled, and so on.         *)
(***************************************************************************)
EXTENDS M88k

\* m88k_insn_formats, $ by $.
m88k_insn_formats ==
    [NONE |-> <<>>,
     IFMT_REG |-> <<"rd", "r1", "i">>, IFMT_MEM |-> <<"rd", "r1", "i">>,
     IFMT_XMEM |-> <<"xd", "r1", "i">>, BRFMT_OFF |-> <<"p">>,
     BRFMT_COND |-> <<"C", "r1", "p">>, BRFMT_BIT |-> <<"b", "r1", "p">>,
     TFMT_REG |-> <<"rd", "r1", "r2">>, TFMT_XREG |-> <<"xd", "r1", "r2">>,
     TFMT_REGS |-> <<"rd", "r1", "[r2]">>, TFMT_XREGS |-> <<"xd", "r1", "[r2]">>,
     TFMT_XFR |-> <<"xd", "x1", "x2">>, TFMT_REGX |-> <<"rd", "x2">>,
     BFMT_REG |-> <<"rd", "r1", "w", "s">>, CFMT_REG |-> <<"rd", "c">>,
     CFMT_GER |-> <<"r1", "c">>, CFMT_REG2 |-> <<"rd", "r1", "c">>]

\* Where there is no name, a number is displayed.
m88k_bcmp_values ==
    <<"", "", "eq", "ne", "gt", "le", "lt", "ge", "hi", "ls", "lo", "hs", "be", "nb", "he", "nh">>
m88k_bcnd_values ==
    (1 :> "gt0") @@ (2 :> "eq0") @@ (3 :> "ge0") @@ (12 :> "lt0") @@ (13 :> "ne0") @@ (14 :> "le0")

BitName(k) == IF k \in 2..15 THEN m88k_bcmp_values[k + 1] ELSE k
CodeName(k) == IF k \in DOMAIN m88k_bcnd_values THEN m88k_bcnd_values[k] ELSE k

sizes == <<"s", "d", "x", "?">>

Is_sfu1(i) == i.major = 33

\* What follows the mnemonic before the space.
Suffixes(i) ==
    LET When(c, x) == IF c THEN <<x>> ELSE <<>> IN
    When(has_carry(i) /\ carry(i) # 0, <<"", "co", "ci", "cio">>[carry(i) + 1])
    \o When(has_usr(i) /\ low_bit(i, 8) = 1, "usr") \o When(has_wt(i) /\ low_bit(i, 7) = 1, "wt")
    \o IF ~Is_sfu1(i) THEN <<>>
       ELSE When(opcode(i) # "MOV", sizes[td(i) + 1])
            \o When(opcode(i) # "MOV" /\ is_float_triadic(i), sizes[t1(i) + 1])
            \o <<sizes[t2(i) + 1]>>

\* The format of one instruction, which is not always that of its table.
Format(i) ==
    LET o == opcode(i) f == format(i) IN
    CASE o \in Jumps \cup Calls /\ f # "BRFMT_OFF" -> <<"r2">>
      [] o \in {"FF0", "FF1"} -> <<"rd", "r2">>
      [] o = "TBND" -> IF f = "TFMT_REG" THEN <<"r1", "r2">> ELSE <<"r1", "p">>
      [] Is_sfu1(i) /\ o = "MOV" /\ f = "TFMT_XREG" -> <<"xd", "r2">>
      [] Is_sfu1(i) /\ o = "MOV" /\ f = "TFMT_REGX" /\ low_bit(i, 9) = 1 -> <<"xd", "x2">>
      [] Is_sfu1(i) /\ o # "MOV" /\ ~is_float_triadic(i) /\ f # "TFMT_REGX" ->
           IF ~use_xfr(i) THEN <<"rd", "r2">> ELSE IF o = "FLT" THEN <<"xd", "r2">> ELSE <<"xd", "x2">>
      [] OTHER -> m88k_insn_formats[f]

Target(i, a) ==
    IF opcode(i) \in Traps \cup {"TB1"} THEN vec9(i)
    ELSE a + 4 * (IF format(i) = "BRFMT_OFF" THEN branch26(i) ELSE branch16(i))

Argument(i, a, x) ==
    CASE x = "rd" -> <<"r", rd(i)>> [] x = "r1" -> <<"r", rs1(i)>> [] x = "r2" -> <<"r", rs2(i)>>
      [] x = "xd" -> <<"x", rd(i)>> [] x = "x1" -> <<"x", rs1(i)>> [] x = "x2" -> <<"x", rs2(i)>>
      [] x = "[r2]" -> <<"[r]", rs2(i)>>
      [] x = "c" -> <<IF is_float_cr(i) THEN "fcr" ELSE "cr", cr(i)>>
      [] x = "w" -> <<"w", bit_width(i)>> [] x = "s" -> <<"s", bit_offset(i)>>
      [] x = "i" -> <<"i", UIMM(i)>> [] x = "p" -> <<"p", Target(i, a)>>
      [] x = "b" -> <<"b", BitName(mb(i))>> [] x = "C" -> <<"C", CodeName(mb(i))>>

m88k_disassemble(i, a) ==
    IF opcode(i) = "ILLEGAL" THEN [name |-> "ILLEGAL", suffixes |-> <<>>, arguments |-> <<>>]
    ELSE [name |-> opcode(i), suffixes |-> Suffixes(i),
          arguments |-> [k \in DOMAIN Format(i) |-> Argument(i, a, Format(i)[k])]]

--------------------------------------------------------------------------------
(***************************************************************************)
(* The displayed instruction is the translated one.                        *)
(***************************************************************************)
Arguments(line) == {line.arguments[k] : k \in DOMAIN line.arguments}
Suffixed(line, x) == \E k \in DOMAIN line.suffixes : line.suffixes[k] = x

\* What a reader takes the names for.
Meaning(name, a, b) ==
    LET x == Signed(W32, a) y == Signed(W32, b) IN
    CASE name = "eq" -> a = b [] name = "ne" -> a # b [] name = "gt" -> x > y [] name = "le" -> x <= y
      [] name = "lt" -> x < y [] name = "ge" -> x >= y [] name = "hi" -> a > b [] name = "ls" -> a <= b
      [] name = "lo" -> a < b [] name = "hs" -> a >= b

\* Bits 12 to 15 compare bytes and half words, "supported partially".
BitsNamed(s, i) ==
    opcode(i) \in BitBranches /\ mb(i) \in 2..11 =>
        LSHR(arch_m88k_cmp(s.gpr[1], s.gpr[2]), mb(i)) % 2
            = Bit(Meaning(m88k_disassemble(i, 0).arguments[1][2], s.gpr[1], s.gpr[2]))

CodesNamed(s, i) ==
    opcode(i) \in CondBranches /\ mb(i) \in DOMAIN m88k_bcnd_values =>
        LET a == s.gpr[rs1(i)] n == Signed(W32, a)
        IN translate_cond(s, i) =
             Bit(CASE m88k_disassemble(i, 0).arguments[1][2] = "gt0" -> n > 0
                   [] m88k_disassemble(i, 0).arguments[1][2] = "ge0" -> n >= 0
                   [] m88k_disassemble(i, 0).arguments[1][2] = "lt0" -> n < 0
                   [] m88k_disassemble(i, 0).arguments[1][2] = "le0" -> n <= 0
                   [] m88k_disassemble(i, 0).arguments[1][2] = "eq0" -> n = 0
                   [] m88k_disassemble(i, 0).arguments[1][2] = "ne0" -> n # 0)

\* The registers that a reader expects to be read, and the ones to be written: of a
\* pair one is named.
Shown(i) == {x[2] : x \in {x \in Arguments(m88k_disassemble(i, 0)) : x[1] \in {"r", "[r]"}}}
Pair(i) == IF opcode(i) \in {"LD_D", "ST_D"} THEN {Even(rd(i)), Odd(rd(i))} ELSE {}
Stores(i) == opcode(i) \in is_store \cup is_xmem
ReadsNamed(i) ==
    LET line == m88k_disassemble(i, 0).arguments
        first == IF "rd" \in {Format(i)[k] : k \in DOMAIN Format(i)} /\ ~Stores(i) THEN 2 ELSE 1
    IN {line[k][2] : k \in {k \in first..Len(line) : line[k][1] \in {"r", "[r]"}}}
       \cup (IF opcode(i) = "ST_D" THEN Pair(i) ELSE {})
WritesNamed(i) ==
    (IF opcode(i) \in Linking THEN {1} ELSE {}) \cup
    (IF opcode(i) \in is_store THEN {} ELSE (Shown(i) \cap {rd(i)}) \cup Pair(i))

Effect(s, i) ==
    <<Done(s, i, 0), translate_cond(s, i), IF StoresPc(i) THEN PcStored(s, i, 0) ELSE 0>>

\* The effect but for register n, which a change of register n may change.
Without(n, e) == <<{[x EXCEPT !.gpr[n] = 0] : x \in e[1]}, e[2], e[3]>>

\* The registers named and their neighbours in pairs, r0 and the link register.
Near(i) == UNION {{Even(n), Odd(n)} : n \in {0, rd(i), rs1(i), rs2(i)}}

\* Nothing is written but what is named, and nothing near is read but what is named:
\* whatever another register holds changes at most that register.
RegistersNamed(s, i) ==
    LET e == Effect(s, i) IN
    /\ \A x \in e[1] : \A n \in Regs \ WritesNamed(i) : x.gpr[n] = s.gpr[n]
    /\ \A n \in Near(i) \ (ReadsNamed(i) \cup {0}) :
         LET other == Effect([s EXCEPT !.gpr[n] = COM(W32, @)], i)
         IN IF n \in WritesNamed(i) /\ \A x \in e[1] : x.gpr[n] # s.gpr[n]
            THEN other = e ELSE Without(n, other) = Without(n, e)

\* Where the carry is one of the bits of an immediate, it is used and not displayed.
CarryNamed(s, i) ==
    format(i) # "IFMT_REG" =>
        LET line == m88k_disassemble(i, 0)
            Cleared(e) == <<{[x EXCEPT !.C = 0] : x \in e[1]}, e[2], e[3]>>
            in == Suffixed(line, "ci") \/ Suffixed(line, "cio")
            out == Suffixed(line, "co") \/ Suffixed(line, "cio")
        IN /\ ~in => Cleared(Effect([s EXCEPT !.C = 1 - s.C], i)) = Cleared(Effect(s, i))
           /\ ~out => \A x \in Done(s, i, 0) : x.C = s.C

\* An index in brackets is scaled by the size of what is accessed, which of bytes is
\* nothing; an exchange scales what it does not display in brackets.
ScaledNamed(i) ==
    opcode(i) \in DOMAIN Width \ {"XMEM"} /\ format(i) \in MemoryForms =>
        IF \E x \in Arguments(m88k_disassemble(i, 0)) : x[1] = "[r]"
        THEN 2^Scale(i) = Width[opcode(i)] * (IF opcode(i) \in {"LD_D", "ST_D"} THEN 2 ELSE 1)
        ELSE Scale(i) = 0

\* The address displayed is where the tag has the branch go, or the trap's number.
TargetNamed(s, i, a) ==
    \A x \in Arguments(m88k_disassemble(i, a)) : x[1] = "p" =>
        IF Trapped(i) THEN \A y \in Done(s, i, a) : y.TRAPNO = x[2]
        ELSE tag(i) \cap {"BRANCH", "CALL"} # {} => x[2] = new_pc(i, a)

DisplaysTranslation(s, i, a) ==
    ~Exits(i) /\ ~Refused(i) =>
        /\ BitsNamed(s, i) /\ CodesNamed(s, i) /\ RegistersNamed(s, i)
        /\ CarryNamed(s, i) /\ ScaledNamed(i) /\ TargetNamed(s, i, a)
================================================================================
