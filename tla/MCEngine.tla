-------------------------------- MODULE MCEngine --------------------------------
(***************************************************************************)
(* Engine on a few of the programs of MCPrograms, chosen so that together  *)
(* they have every kind of instruction and, in one program, direct and     *)
(* indirect jumps, code only an indirect jump reaches, basic blocks that   *)
(* end where another one begins, and a straight line of which a later jump *)
(* makes a second block.                                                   *)
(***************************************************************************)
EXTENDS Engine, MCPrograms

Programs ==
    { <<i1, i2, i3, I(4, {"CONTINUE"}, None), I(5, {"CONTINUE"}, None)>> :
        i1 \in { I(1, {"BRANCH", "CONDITIONAL"}, 3), I(1, {"CALL"}, 3) },
        i2 \in { I(2, {"CONTINUE", "CONDITIONAL"}, None),
                 I(2, {"BRANCH", "CONDITIONAL", "DELAY_SLOT"}, 3) },
        i3 \in { I(3, {"RET"}, None), I(3, {"BRANCH", "CONDITIONAL"}, 2) } }
    \cup
    { <<I(1, {"CONTINUE"}, None), I(2, {"CONTINUE"}, None),
        I(3, {"BRANCH", "CONDITIONAL"}, 1), I(4, {"RET"}, None),
        I(5, {"CONTINUE"}, None)>>,
      <<I(1, {"CALL", "DELAY_SLOT"}, 2), I(2, {"CALL", "CONDITIONAL"}, 1),
        I(3, {"RET", "DELAY_SLOT"}, None), I(4, {"BRANCH"}, 4),
        I(5, {"CONTINUE"}, None)>> }

TrapProgram ==
    <<I(1, {"TRAP"}, None), I(2, {"BRANCH"}, 4), I(3, {"CALL"}, None),
      I(4, {"BRANCH", "DELAY_SLOT"}, 1), TrapHere(5)>>

MCConfigs ==
    { [prog |-> p, hint |-> "none", limited |-> l, singlestep |-> FALSE, cache |-> <<>>] :
         p \in Programs, l \in BOOLEAN }
    \cup { [prog |-> p, hint |-> "none", limited |-> FALSE, singlestep |-> TRUE,
            cache |-> <<>>] : p \in Programs \cup {TrapProgram} }
    \cup { [prog |-> TrapProgram, hint |-> h, limited |-> FALSE, singlestep |-> FALSE,
            cache |-> <<3, None>>] : h \in Hints }

(***************************************************************************)
(* A client that flushes, as test/m88k/run88.cpp does: with and without    *)
(* single stepping, on a program whose code is found piece by piece.       *)
(***************************************************************************)
FlushProgram ==
    <<I(1, {"CALL"}, None), I(2, {"BRANCH"}, None), TrapHere(3), I(4, {"BRANCH"}, 4),
      I(5, {"CONTINUE"}, None)>>

MCFlushConfigs ==
    { [prog |-> FlushProgram, hint |-> "none", limited |-> FALSE, singlestep |-> s,
       cache |-> <<>>] : s \in BOOLEAN }
================================================================================
