------------------------------- MODULE MCPrograms -------------------------------
(***************************************************************************)
(* Guest programs of four addresses (1..4); 5 is the first address behind  *)
(* the code area.  Every instruction is one address long; an address       *)
(* beyond 5 is 5.                                                          *)
(***************************************************************************)
EXTENDS GuestProgram, TLC

CONSTANT None    \* the value of NEW_PC_NONE

MCCode == 1..4
MCMem  == 1..5
MCAddr == MCMem \cup {None}

Clip(a) == IF a > 5 THEN 5 ELSE a

I(a, t, target) ==
    LET size == IF "DELAY_SLOT" \in t THEN 2 ELSE 1
    IN [tag |-> t, new |-> target, next |-> Clip(a + size),
        slot |-> Clip(a + 1), skip |-> Clip(a + size + 1), trap |-> Clip(a + size)]

\* A trap that leaves the program counter at the trap.
TrapHere(a) == [I(a, {"TRAP"}, None) EXCEPT !.trap = a]

(***************************************************************************)
(* The instructions each address may hold: together they contain every     *)
(* kind of instruction, forward and backward targets, a target in the      *)
(* middle of a straight line and in a delay slot, self-loops, indirect     *)
(* jumps, and straight lines that leave the code area.                     *)
(***************************************************************************)
Choices ==
    1 :> { I(1, {"CONTINUE"}, None), I(1, {"BRANCH", "CONDITIONAL"}, 3),
           I(1, {"CALL"}, 3), I(1, {"CALL", "DELAY_SLOT"}, 2), I(1, {"TRAP"}, None) }
    @@ 2 :> { I(2, {"CONTINUE", "CONDITIONAL"}, None), I(2, {"BRANCH"}, 4),
              I(2, {"CALL", "CONDITIONAL"}, 1), I(2, {"TRAP"}, None),
              I(2, {"BRANCH", "CONDITIONAL", "DELAY_SLOT"}, 3) }
    @@ 3 :> { I(3, {"RET"}, None), I(3, {"BRANCH", "CONDITIONAL"}, 2),
              I(3, {"CALL"}, None), I(3, {"CONTINUE"}, None) }
    @@ 4 :> { I(4, {"BRANCH"}, 4), I(4, {"BRANCH", "DELAY_SLOT"}, 1),
              I(4, {"RET", "DELAY_SLOT"}, None), I(4, {"CONTINUE"}, None) }
    @@ 5 :> { I(5, {"CONTINUE"}, None) }
================================================================================
