------------------------------- MODULE MCTagging -------------------------------
(***************************************************************************)
(* Tagging on every program the choices of MCPrograms make.                *)
(***************************************************************************)
EXTENDS Tagging, MCPrograms

Programs == {<<i1, i2, i3, i4, i5>> : i1 \in Choices[1], i2 \in Choices[2],
                i3 \in Choices[3], i4 \in Choices[4], i5 \in Choices[5]}

HasTrap(p) == \E a \in MCCode : Has(p[a], "TRAP")

\* The hint only matters to programs with a trap, the cache file only to
\* searches that are not limited; the file may hold addresses outside the code
\* area, and the all-ones entry its last, partial read produces.
MCConfigs ==
    { [prog |-> p, hint |-> h, limited |-> l, singlestep |-> FALSE,
       cache |-> IF l THEN <<>> ELSE c] :
         p \in Programs, h \in {"none"}, l \in BOOLEAN, c \in {<<>>} }
    \cup
    { [prog |-> p, hint |-> h, limited |-> l, singlestep |-> FALSE, cache |-> <<>>] :
         p \in {q \in Programs : HasTrap(q)}, h \in {"returns", "returns_twice"},
         l \in BOOLEAN }
    \cup
    { [prog |-> p, hint |-> "none", limited |-> FALSE, singlestep |-> s,
       cache |-> <<3, 5, 2, None>>] :
         p \in {q \in Programs : Has(q[3], "RET")}, s \in BOOLEAN }
================================================================================
