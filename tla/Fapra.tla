---------------------------------- MODULE Fapra ----------------------------------
(***************************************************************************)
(* arch/fapra/fapra_translate.cpp: tagging, conditions and every           *)
(* instruction, composed to a guest step the way translate_singlestep.cpp  *)
(* does it.  A word is [op, rd, ra, imm]; the third register is the top of *)
(* the immediate.                                                          *)
(***************************************************************************)
EXTENDS Frontend, TLC, SequencesExt

CONSTANTS
    W,           \* bits of a register, and twice those of an immediate; the code has 32
    RegBits,     \* bits of a register's number; the code has 5
    MaxSteps     \* bound: guest steps

VARIABLES
    prog,     \* the guest's code: address -> instruction word
    r,        \* [gpr, ram]: ram is bytes
    pc,
    ctl,      \* "run", "exit": the process has ended
    steps,    \* history: guest steps
    did,      \* history: the addresses of the instructions executed
    before    \* history: r and pc before the last step

vars == <<prog, r, pc, ctl, steps, did, before>>

Half == W \div 2

\* Two halves are a word; an instruction, and the machine.
WidthsAssumed == W \in Nat \ {0} /\ W = 2 * Half /\ RegBits \in 0..Half
Numbers == 0..(2^RegBits - 1)
IsInstruction(i) ==
    i.op \in 0..63 /\ i.rd \in Numbers /\ i.ra \in Numbers /\ i.imm \in Word(Half)
IsState(s) == s = [gpr |-> s.gpr, ram |-> s.ram] /\ s.gpr \in [Numbers -> Word(W)]

--------------------------------------------------------------------------------
(* fapra_internal.h, and the fields. *)
Opcodes ==
    (\h10 :> "LDW") @@ (\h11 :> "STW") @@ (\h1C :> "LDB") @@ (\h1D :> "STB") @@
    (\h20 :> "LDIH") @@ (\h21 :> "LDIL") @@
    (\h30 :> "JMP") @@ (\h34 :> "BRA") @@ (\h35 :> "BZ") @@ (\h36 :> "BNZ") @@ (\h32 :> "NOP") @@
    (\h33 :> "CALL") @@ (\h37 :> "BL") @@ (\h3F :> "RFE") @@
    (\h0F :> "ADDI") @@ (\h00 :> "ADD") @@ (\h01 :> "SUB") @@ (\h02 :> "AND") @@ (\h03 :> "OR") @@
    (\h05 :> "NOT") @@ (\h0B :> "SARI") @@ (\h06 :> "SAL") @@ (\h07 :> "SAR") @@ (\h08 :> "MUL") @@
    (\h09 :> "PERM") @@ (\h0A :> "RDC8") @@ (\h0C :> "TGE") @@ (\h0D :> "TSE")

opc(i) == IF i.op \in DOMAIN Opcodes THEN Opcodes[i.op] ELSE "illegal"

rb(i) == LSHR(i.imm, Half - RegBits)
simm(i) == Signed(Half, i.imm)

INST_SIZE == 4

--------------------------------------------------------------------------------
(***************************************************************************)
(* arch_fapra_tag_instr()                                                  *)
(***************************************************************************)
None == -1    \* NEW_PC_NONE

Illegal == {"illegal", "RFE", "PERM", "RDC8", "TGE", "TSE"}

tag(i) ==
    CASE opc(i) = "JMP" -> {"RET"} [] opc(i) = "BRA" -> {"BRANCH"}
      [] opc(i) \in {"BZ", "BNZ"} -> {"BRANCH", "CONDITIONAL"}
      [] opc(i) \in {"CALL", "BL"} -> {"CALL"} [] OTHER -> {"CONTINUE"}

\* The two instructions before a call, which set the register that it goes to; before
\* the code there are none of them ("FIXME" in the code: there is no test).
Loads(p, a) ==
    /\ {a - 2 * INST_SIZE, a - INST_SIZE} \subseteq DOMAIN p
    /\ LET ldih == p[a - 2 * INST_SIZE] ldil == p[a - INST_SIZE]
       IN /\ opc(ldih) = "LDIH" /\ opc(ldil) = "LDIL"
          /\ ldih.rd = ldil.rd /\ ldih.rd = p[a].ra

new_pc(p, a) ==
    LET i == p[a] IN
    CASE opc(i) \in {"BRA", "BZ", "BNZ", "BL"} -> a + simm(i)
      [] opc(i) = "CALL" /\ Loads(p, a) ->
             SHL(W, p[a - 2 * INST_SIZE].imm, Half) + p[a - INST_SIZE].imm
      [] OTHER -> None

next_pc(a) == a + INST_SIZE

--------------------------------------------------------------------------------
(***************************************************************************)
(* arch_fapra_translate_cond() and arch_fapra_translate_instr()            *)
(***************************************************************************)
translate_cond(s, i) == IF opc(i) = "BZ" THEN s.gpr[i.ra] = 0 ELSE s.gpr[i.ra] # 0

IMM(i) == SEXT(Half, W, i.imm)
Let(s, n, v) == [s EXCEPT !.gpr[n] = v]

Byte == W \div 4
Address(s, i) == ADD(W, s.gpr[i.ra], IMM(i))
Width(i) == IF opc(i) \in {"LDW", "STW"} THEN 4 ELSE 1

\* Memory, least significant byte first; MemoryAccess has the accesses.
Read(ram, a, n) == MapThenSumSet(LAMBDA k : SHL(W, ram[a + k], k * Byte), 0..(n - 1))
Write(ram, a, n, v) ==
    [x \in DOMAIN ram |-> IF x \in a..(a + n - 1) THEN LSHR(v, Byte * (x - a)) % 2^Byte ELSE ram[x]]

\* Outside of RAM the host faults.
Accessed(s, i) ==
    LET a == Address(s, i) n == Width(i) IN
    IF ~(a..(a + n - 1) \subseteq DOMAIN s.ram) THEN {}
    ELSE IF opc(i) \in {"LDW", "LDB"} THEN {Let(s, i.rd, Read(s.ram, a, n))}
    ELSE {[s EXCEPT !.ram = Write(@, a, n, s.gpr[i.rd])]}

\* A shift by W and more is poison, which may be any value.
Shifted(i, a, n) ==
    IF n >= W THEN Word(W) ELSE IF opc(i) = "SAL" THEN {SHL(W, a, n)} ELSE {ASHR(W, a, n)}

Calculated(i, a, b) ==
    CASE opc(i) = "ADDI" -> {ADD(W, a, IMM(i))} [] opc(i) = "ADD" -> {ADD(W, a, b)}
      [] opc(i) = "SUB" -> {SUB(W, a, b)} [] opc(i) = "MUL" -> {TRUNC(W, a * b)}
      [] opc(i) = "AND" -> {AND(W, a, b)}
      [] opc(i) = "OR" -> {OR(W, a, b)}
      [] opc(i) = "NOT" -> {COM(W, a)} [] opc(i) \in {"SAL", "SAR"} -> Shifted(i, a, b)

\* The low half is kept by LDIH and replaced by LDIL.
LoadedHalf(i, old) ==
    IF opc(i) = "LDIH" THEN SHL(W, i.imm, Half) + (old % 2^Half)
    ELSE old - (old % 2^Half) + i.imm

\* The states after the instruction i at address a.  CALL stores the program counter
\* before it links.
Done(s, i, a) ==
    CASE opc(i) \in {"LDW", "LDB", "STW", "STB"} -> Accessed(s, i)
      [] opc(i) \in {"LDIH", "LDIL"} -> {Let(s, i.rd, LoadedHalf(i, s.gpr[i.rd]))}
      [] opc(i) \in {"JMP", "BRA", "BZ", "BNZ", "NOP"} -> {s}
      [] opc(i) \in {"CALL", "BL"} -> {Let(s, i.rd, TRUNC(W, a + INST_SIZE))}
      [] OTHER -> {Let(s, i.rd, v) : v \in Calculated(i, s.gpr[i.ra], s.gpr[rb(i)])}

StoresPc(i) == opc(i) \in {"JMP", "CALL"}
PcStored(s, i) == s.gpr[i.ra]

\* exit(): the first for what is tagged, the second for what is translated.
TagExits(i) == opc(i) \in Illegal
Exits(i) == opc(i) \in Illegal \cup {"SARI"}

--------------------------------------------------------------------------------
Here == prog[pc]

Fail ==
    /\ Exits(Here)
    /\ ctl' = "exit"
    /\ UNCHANGED <<prog, r, pc, did, before>>

Conditional == "CONDITIONAL" \in tag(Here)

\* A target that the tag has is gone to, whatever was stored.
Taken ==
    /\ ~Exits(Here) /\ (Conditional => translate_cond(r, Here))
    /\ r' \in Done(r, Here, pc)
    /\ pc' = IF new_pc(prog, pc) # None THEN new_pc(prog, pc)
             ELSE IF StoresPc(Here) THEN PcStored(r, Here) ELSE next_pc(pc)
    /\ did' = Append(did, pc)
    /\ before' = [r |-> r, pc |-> pc]
    /\ UNCHANGED <<prog, ctl>>

Untaken ==
    /\ ~Exits(Here) /\ Conditional /\ ~translate_cond(r, Here)
    /\ pc' = next_pc(pc)
    /\ before' = [r |-> r, pc |-> pc]
    /\ UNCHANGED <<prog, r, ctl, did>>

Step ==
    /\ ctl = "run" /\ steps < MaxSteps /\ pc \in DOMAIN prog
    /\ Fail \/ Taken \/ Untaken
    /\ steps' = steps + 1

Next == Step

--------------------------------------------------------------------------------
(***************************************************************************)
(* "Look for sequences like: ldih $X, 0x..., ldil $X, 0x..., call $Y, $X   *)
(* ($Y is the link register)": where the three are executed, the call goes *)
(* to the register's value and leaves the address behind it in $Y.  The    *)
(* exception is a jump that enters the sequence behind its loads.          *)
(***************************************************************************)
CallsAsCommented ==
    ctl = "run" /\ did # <<>> /\ Last(did) = before.pc /\ opc(prog[before.pc]) = "CALL" =>
        LET i == prog[before.pc] IN
        /\ r.gpr[i.rd] = TRUNC(W, before.pc + INST_SIZE)
        /\ Loads(prog, before.pc) /\ ToSet(did) = {before.pc - 8, before.pc - 4, before.pc}
              => pc = before.r.gpr[i.ra]
        /\ ~Loads(prog, before.pc) => pc = before.r.gpr[i.ra]

(***************************************************************************)
(* What is tagged without an exit is translated, but SARI, and a tag that  *)
(* leaves has a target unless the program counter is stored.               *)
(***************************************************************************)
KeepsTag(p, a) ==
    LET i == p[a] IN
    /\ Exits(i) <=> TagExits(i) \/ opc(i) = "SARI"
    /\ ~Exits(i) /\ tag(i) # {"CONTINUE"} => new_pc(p, a) # None \/ StoresPc(i)
    /\ ~Exits(i) /\ tag(i) = {"CONTINUE"} => ~StoresPc(i) /\ new_pc(p, a) = None
================================================================================
