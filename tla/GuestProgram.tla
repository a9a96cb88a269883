------------------------------ MODULE GuestProgram ------------------------------
(***************************************************************************)
(* The guest program as libcpu sees it.  A frontend's tag_instr() answers, *)
(* for an address, what kind of instruction is there (tag), where it jumps *)
(* (new_pc), which address follows it (next_pc) and how long it is; every  *)
(* other question about the guest is put to the code libcpu generates.     *)
(*                                                                         *)
(* Addresses are abstract here: code_start .. code_end-1 is the set Code,  *)
(* and adding an instruction's length is a field of the decoded record.    *)
(***************************************************************************)
EXTENDS Naturals, Sequences

CONSTANTS
    Addr,    \* every value an addr_t takes here, NEW_PC_NONE included
    Mem,     \* the addresses backed by guest RAM
    Code,    \* [code_start, code_end)
    NoPc,    \* NEW_PC_NONE
    Configs  \* the guest programs and client settings that are explored

(***************************************************************************)
(* What tag_instr() can answer.  TAG_DELAY_SLOT comes only with CALL, RET  *)
(* or BRANCH (tag.h); a conditional CONTINUE or CALL is an ARM instruction *)
(* with a condition field; no frontend tags a return as conditional.       *)
(***************************************************************************)
InsnTags ==
    { {"CONTINUE"}, {"CONTINUE", "CONDITIONAL"},
      {"CALL"}, {"CALL", "CONDITIONAL"}, {"CALL", "DELAY_SLOT"},
      {"RET"}, {"RET", "DELAY_SLOT"},
      {"BRANCH"}, {"BRANCH", "CONDITIONAL"}, {"BRANCH", "DELAY_SLOT"},
      {"BRANCH", "CONDITIONAL", "DELAY_SLOT"},
      {"TRAP"} }

\* The bits libcpu adds to those (tag.h, "flags internal to libcpu").
LabelBits == {"BRANCH_TARGET", "SUBROUTINE", "AFTER_CALL", "AFTER_COND",
              "AFTER_TRAP", "ENTRY"}
TagBits == (UNION InsnTags) \cup LabelBits \cup {"CODE", "TRANSLATED"}

(***************************************************************************)
(* A decoded instruction.  slot is the address of the instruction after    *)
(* this one (the delay slot when there is one), next the address after     *)
(* both, skip the address after the instruction at next; trap is where the *)
(* code translated for a trap leaves the program counter: behind the trap  *)
(* on the m88k, at the trap itself on the 6502.                            *)
(***************************************************************************)
Insn == [tag: InsnTags, new: Addr, next: Addr, slot: Addr, skip: Addr, trap: Addr]

Hints == {"none", "returns", "returns_twice"}   \* flags_hint

(***************************************************************************)
(* What is settled before the first cpu_tag(): the guest's code, the       *)
(* client's CPU_HINT_TRAP_*, CPU_CODEGEN_TAG_LIMIT and                     *)
(* CPU_DEBUG_SINGLESTEP flags, and the entry points init_tagging() will    *)
(* read from the entry cache.                                              *)
(***************************************************************************)
Config == [prog: [Mem -> Insn], hint: Hints, limited: BOOLEAN,
           singlestep: BOOLEAN, cache: Seq(Addr)]

\* tag.h: "The tagging code assumes that NEW_PC_NONE is outside of
\* code_start and code_end."
ASSUME AddrAssumption ==
    /\ Code \subseteq Mem
    /\ Mem \subseteq Addr
    /\ NoPc \in Addr \ Mem

ASSUME ConfigAssumption == Configs \subseteq Config

Has(i, bit) == bit \in i.tag

(***************************************************************************)
(* The instructions whose effect one guest step applies: an untaken        *)
(* conditional instruction has none of its own, its delay slot has.        *)
(***************************************************************************)
Delay(i) == IF Has(i, "DELAY_SLOT") THEN <<i.slot>> ELSE <<>>

(***************************************************************************)
(* Where the guest may be after the instruction i at a: a return or a jump *)
(* through a register may go anywhere.                                     *)
(***************************************************************************)
TakenTargets(i) ==
    IF Has(i, "RET") THEN Addr
    ELSE IF Has(i, "CALL") \/ Has(i, "BRANCH")
    THEN IF i.new = NoPc THEN Addr ELSE {i.new}
    ELSE IF Has(i, "TRAP") THEN {i.trap}
    ELSE {i.next}

Outcomes(i, a) ==
    [pc: TakenTargets(i), eff: {<<a>> \o Delay(i)}]
    \cup IF Has(i, "CONDITIONAL") THEN {[pc |-> i.next, eff |-> Delay(i)]}
         ELSE {}

(***************************************************************************)
(* The successors that can be read off the instruction: what a             *)
(* disassembler that follows the client's hint about traps would visit     *)
(* next.                                                                   *)
(***************************************************************************)
KnownSuccessors(i, hint) ==
    IF Has(i, "TRAP")
    THEN CASE hint = "none"          -> {}
           [] hint = "returns"       -> {i.next}
           [] hint = "returns_twice" -> {i.next, i.skip}
    ELSE (IF Has(i, "CALL") \/ Has(i, "BRANCH") THEN {i.new} ELSE {})
         \cup (IF Has(i, "CONTINUE") \/ Has(i, "CALL") \/ Has(i, "CONDITIONAL")
               THEN {i.next} ELSE {})
================================================================================
