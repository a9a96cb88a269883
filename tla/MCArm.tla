---------------------------------- MODULE MCArm ----------------------------------
(* Instructions of the ARM and the registers they are executed with: words of eight *)
(* bits, immediates of two bits rotated by up to three times two.                   *)
EXTENDS Integers, TLC

ArmWord(cond, hi, rn, rd, rs, c, rm) ==
    [cond |-> cond, hi |-> hi, rn |-> rn, rd |-> rd, rs |-> rs, c |-> c, rm |-> rm]

ArmFlag(n) == [N |-> n \div 8, Z |-> (n \div 4) % 2, C |-> (n \div 2) % 2, V |-> n % 2]

\* Register 13 points to the middle of the memory that can be stored to.
ArmState(a, b, f) ==
    [gpr |-> [n \in 0..15 |-> CASE n = 1 -> a [] n = 2 -> b [] n = 13 -> 100 [] OTHER -> n],
     flags |-> f, ram |-> [a4 \in {4 * k : k \in 0..50} |-> 0]]

ArmValues == {0, 1, 5, 127, 128, 255}

ArmComparisons == {ArmWord(14, 21, 1, 0, 0, 0, 2)} \cup {ArmWord(14, 53, 1, 0, n, 0, 3) : n \in 0..3}

ArmConditions == {ArmWord(cond, 26, 0, 3, 0, 0, 1) : cond \in 0..15} \cup {ArmWord(0, 26, 0, 15, 0, 0, 14)}

\* STM and LDM in each mode with runs of registers.
ArmStores ==
    {ArmWord(14, hi, 13, l[1], l[2], l[3], l[4]) :
        hi \in 128..159,
        l \in {<<0, 0, 0, 0>>, <<0, 0, 0, 6>>, <<4, 0, 7, 5>>, <<8, 0, 0, 1>>, <<14, 3, 0, 8>>, <<2, 0, 0, 0>>}}

ArmBranches == {ArmWord(cond, hi, 0, 0, 0, 0, 3) : cond \in {0, 14}, hi \in {160, 175, 176, 191}}

\* Every entry of the disassembler's table, and every operation on each kind of operand.
ArmWords ==
    {ArmWord(14, hi, 13, rd, rs, c, 2) : hi \in (0..255) \ (32..63), rd \in {2, 13, 15}, rs \in {0, 3}, c \in 0..15}
    \cup {ArmWord(14, hi, 13, rd, rs, 0, 3) : hi \in 32..63, rd \in {2, 13, 15}, rs \in 0..3}
    \cup {ArmWord(14, 26, 0, 15, 0, 0, 14)}

\* Instructions and the states they are executed in.
ArmRun(words, states) == [words |-> words, states |-> states]
MCArmRuns ==
    {ArmRun(ArmComparisons, {ArmState(a, b, ArmFlag(0)) : a \in ArmValues, b \in ArmValues}),
     ArmRun(ArmConditions, {ArmState(1, 2, ArmFlag(f)) : f \in 0..15}),
     ArmRun(ArmStores \cup ArmBranches \cup ArmWords, {ArmState(1, 255, ArmFlag(5))})}
================================================================================
