----------------------------------- MODULE Arm -----------------------------------
(***************************************************************************)
(* arch/arm/arm_translate.cpp: tagging, conditions and the instructions    *)
(* that have a translation, composed to a guest step the way               *)
(* translate_singlestep.cpp does it.  A word is [cond, hi, rn, rd, rs, c,  *)
(* rm]: hi is bits 20 to 27, the others have four bits each.  Register 15  *)
(* as an operand is left out: it shares its place with the program counter *)
(* (RegisterLayout).                                                       *)
(***************************************************************************)
EXTENDS Frontend, TLC

CONSTANTS
    W,           \* info.word_size; the code has 32
    MaxSteps     \* bound: guest steps

VARIABLES
    prog,     \* the guest's code: address -> instruction word
    r,        \* [gpr, flags, ram]: ram has words at the addresses it is stored to
    pc,
    ctl,      \* "run", "exit": BAD
    steps,    \* history: guest steps
    did,      \* history: the address executed in the last step
    before    \* history: r and pc before it

vars == <<prog, r, pc, ctl, steps, did, before>>

\* What the machine is made of.
IsState(s) ==
    /\ s = [gpr |-> s.gpr, flags |-> s.flags, ram |-> s.ram]
    /\ s.gpr \in [0..15 -> Word(W)] /\ s.flags \in [{"N", "Z", "C", "V"} -> 0..1]

--------------------------------------------------------------------------------
(* BIT(), BITS() and the fields. *)
Bit20(i, n) == LSHR(i.hi, n - 20) % 2
class(i) == LSHR(i.hi, 6)
Immediate(i) == Bit20(i, 25) = 1
S(i) == i.hi % 2 = 1
opcode(i) == LSHR(i.hi, 1) % 16
immed_8(i) == i.c * 16 + i.rm
List(i) == ((i.rd * 16 + i.rs) * 16 + i.c) * 16 + i.rm
Registers(i) == {n \in 0..15 : LSHR(List(i), n) % 2 = 1}
\* An immediate fits in a word, and is rotated by no more than its bits.
IsInstruction(i) ==
    /\ i.cond \in 0..15 /\ i.hi \in 0..255
    /\ i.rn \in 0..15 /\ i.rd \in 0..15 /\ i.rs \in 0..15 /\ i.c \in 0..15 /\ i.rm \in 0..15
    /\ Immediate(i) => immed_8(i) \in Word(W) /\ 2 * i.rs <= W

Offset(i) == Signed(24, ((i.hi % 16) * 16 + i.rn) * 2^16 + List(i))

SUB_ == 2
ADD_ == 4
CMP_ == 10
MOV_ == 13

--------------------------------------------------------------------------------
(***************************************************************************)
(* arch_arm_tag_instr()                                                    *)
(***************************************************************************)
AL == 14
Ret == [cond |-> AL, hi |-> 26, rn |-> 0, rd |-> 15, rs |-> 0, c |-> 0, rm |-> 14]

tag(i) ==
    (CASE i = Ret -> {"RET"} [] LSHR(i.hi, 4) = 10 -> {"BRANCH"} [] LSHR(i.hi, 4) = 11 -> {"CALL"}
       [] OTHER -> {"CONTINUE"})
    \cup IF i.cond # AL THEN {"CONDITIONAL"} ELSE {}

new_pc(i, a) == 4 * Offset(i) + a + 8
next_pc(a) == a + 4

--------------------------------------------------------------------------------
(***************************************************************************)
(* arch_arm_translate_cond()                                               *)
(***************************************************************************)
translate_cond(f, cond) ==
    CASE cond = 0 -> f.Z = 1 [] cond = 1 -> f.Z = 0
      [] cond = 2 -> f.C = 1 [] cond = 3 -> f.C = 0
      [] cond = 4 -> f.N = 1 [] cond = 5 -> f.N = 0
      [] cond = 6 -> f.V = 1 [] cond = 7 -> f.V = 0
      [] cond = 8 -> f.C = 1 /\ f.Z = 0 [] cond = 9 -> ~(f.C = 1 /\ f.Z = 0)
      [] cond = 10 -> f.N = f.V [] cond = 11 -> f.N # f.V
      [] cond = 12 -> f.Z = 0 /\ f.N = f.V [] cond = 13 -> ~(f.Z = 0 /\ f.N = f.V)
      [] cond = 15 -> FALSE

--------------------------------------------------------------------------------
(***************************************************************************)
(* operand(), setsub() and arch_arm_translate_instr()                      *)
(***************************************************************************)
\* A shift by W of the host leaves the value or nothing; it is or-ed to the value.
Rotated(i) ==
    IF i.rs = 0 THEN immed_8(i)
    ELSE LSHR(immed_8(i), 2 * i.rs) + SHL(W, immed_8(i), W - 2 * i.rs)

operand(s, i) == IF Immediate(i) THEN Rotated(i) ELSE s.gpr[i.rm]

\* A register that is shifted.
OperandExits(i) == ~Immediate(i) /\ <<i.rs, i.c>> # <<0, 0>>

Let(s, n, v) == [s EXCEPT !.gpr[n] = v]

setsub(s, a, b) ==
    LET v == SUB(W, a, b) sign(x) == Negative(W, x)
    IN [s EXCEPT !.flags.Z = Bit(v = 0), !.flags.N = Bit(sign(v)),
                 !.flags.C = Bit(Signed(W, v) <= Signed(W, a)),
                 !.flags.V = Bit(sign(a) # sign(b) /\ sign(a) # sign(v))]

Add(s, i) == Let(s, i.rd, ADD(W, s.gpr[i.rn], operand(s, i)))

\* Case 2 has no break: the sum is the result, of the registers after the difference.
Sub(s, i) == Add(Let(s, i.rd, SUB(W, s.gpr[i.rn], operand(s, i))), i)

\* The program counter is r14 - 4, and no operand is looked at.
StoresPc(i) == class(i) = 0 /\ opcode(i) = MOV_ /\ i.rd = 15
PcStored(s) == SUB(W, s.gpr[14], 4)

Arithmetic(s, i) ==
    CASE opcode(i) = MOV_ -> IF StoresPc(i) THEN s ELSE Let(s, i.rd, operand(s, i))
      [] opcode(i) = CMP_ -> setsub(s, s.gpr[i.rn], operand(s, i))
      [] opcode(i) = ADD_ -> Add(s, i)
      [] opcode(i) = SUB_ -> Sub(s, i)

\* LINK
Link(s, i, a) == IF Bit20(i, 24) = 1 THEN Let(s, 14, TRUNC(W, a + 8)) ELSE s

\* STM: the address before and after each register, in their order.
Stepped(i, a) == IF Bit20(i, 23) = 1 THEN ADD(W, a, 4) ELSE SUB(W, a, 4)

StoreMultiple(s, i) ==
    LET store[n \in 0..16] ==
          IF n = 0 THEN [addr |-> s.gpr[i.rn], ram |-> s.ram]
          ELSE LET t == store[n - 1]
                   at == IF Bit20(i, 24) = 1 THEN Stepped(i, t.addr) ELSE t.addr
               IN IF n - 1 \notin Registers(i) THEN t
                  ELSE [addr |-> Stepped(i, t.addr), ram |-> [t.ram EXCEPT ![at] = s.gpr[n - 1]]]
        end == store[16]
    IN [s EXCEPT !.ram = end.ram, !.gpr[i.rn] = IF Bit20(i, 21) = 1 THEN end.addr ELSE @]

\* BAD
Exits(i) ==
    \/ class(i) = 0 /\ (opcode(i) \notin {SUB_, ADD_, CMP_, MOV_} \/ (S(i) <=> opcode(i) # CMP_))
    \/ class(i) = 0 /\ OperandExits(i) /\ ~StoresPc(i)
    \/ class(i) \in {1, 3}
    \/ class(i) = 2 /\ ~Immediate(i) /\ (Bit20(i, 20) = 1 \/ Bit20(i, 22) = 1 \/ Registers(i) = {})

Done(s, i, a) ==
    CASE class(i) = 0 -> Arithmetic(s, i)
      [] class(i) = 2 /\ Immediate(i) -> Link(s, i, a)
      [] class(i) = 2 /\ ~Immediate(i) -> StoreMultiple(s, i)

--------------------------------------------------------------------------------
Here == prog[pc]

Fail ==
    /\ Exits(Here)
    /\ ctl' = "exit"
    /\ UNCHANGED <<prog, r, pc, did, before>>

Holds == "CONDITIONAL" \in tag(Here) => translate_cond(r.flags, Here.cond)

\* A program counter that is stored is kept only where the tag says so.
Taken ==
    /\ ~Exits(Here) /\ Holds
    /\ did' = <<pc>>
    /\ r' = Done(r, Here, pc)
    /\ pc' = CASE "RET" \in tag(Here) -> PcStored(r)
               [] tag(Here) \cap {"BRANCH", "CALL"} # {} -> new_pc(Here, pc)
               [] OTHER -> next_pc(pc)
    /\ before' = [r |-> r, pc |-> pc]
    /\ UNCHANGED <<prog, ctl>>

Untaken ==
    /\ ~Exits(Here) /\ ~Holds
    /\ did' = <<>> /\ pc' = next_pc(pc)
    /\ before' = [r |-> r, pc |-> pc]
    /\ UNCHANGED <<prog, r, ctl>>

Step ==
    /\ ctl = "run" /\ steps < MaxSteps /\ pc \in DOMAIN prog
    /\ Fail \/ Taken \/ Untaken
    /\ steps' = steps + 1

Next == Step

--------------------------------------------------------------------------------
(***************************************************************************)
(* The table of conditions that arm_disasm.cpp has in a comment, indexed   *)
(* by Z, C, N and V (arm_disasm.cpp:153).                                  *)
(***************************************************************************)
ARMcond ==
    <<\h00FF, \hFF00, \h0F0F, \hF0F0, \h3333, \hCCCC, \h5555, \hAAAA,
      \h0F00, \hF0FF, \h9999, \h6666, \h9900, \h66FF, \hFFFF, \h0000>>

ConditionsAsCommented ==
    steps > 0 /\ ctl = "run" =>
        LET i == prog[before.pc] f == before.r.flags
        IN (did # <<>>) <=> LSHR(ARMcond[i.cond + 1], 15 - (8 * f.Z + 4 * f.C + 2 * f.N + f.V)) % 2 = 1

(***************************************************************************)
(* After CMP the conditions on the sign and on equality are what they are  *)
(* named for (setsub(), arch_arm_translate_cond()).  Those on the carry    *)
(* are not: it is compared as a signed number.                             *)
(***************************************************************************)
Relation(cond, a, b) ==
    CASE cond = 0 -> a = b [] cond = 1 -> a # b [] cond = 10 -> a >= b
      [] cond = 11 -> a < b [] cond = 12 -> a > b [] cond = 13 -> a <= b

ComparisonsDecide ==
    did # <<>> /\ class(prog[before.pc]) = 0 /\ opcode(prog[before.pc]) = CMP_ =>
        LET i == prog[before.pc] s == before.r
        IN \A cond \in {0, 1, 10, 11, 12, 13} :
             translate_cond(r.flags, cond) <=>
                 Relation(cond, Signed(W, s.gpr[i.rn]), Signed(W, operand(s, i)))

(***************************************************************************)
(* A call leaves in r14 what a return makes the address behind the call    *)
(* of, and the program counter is stored by returns.  The exceptions are   *)
(* moves to r15 from elsewhere, or under a condition: they do not jump.    *)
(***************************************************************************)
KeepsTag(s, i) ==
    ~Exits(i) =>
        /\ "RET" \in tag(i) => StoresPc(i)
        /\ "CALL" \in tag(i) => PcStored(Done(s, i, 0)) = next_pc(0)
================================================================================
