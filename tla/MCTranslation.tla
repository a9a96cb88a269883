----------------------------- MODULE MCTranslation -----------------------------
(* Programs of four addresses, with one or two entry points.  Address 1 has a delay *)
(* slot in 2, which may be a label as well; 4 has one behind the code area.         *)
EXTENDS Translation, MCPrograms

AtTwo == Choices[2] \cup {I(2, {"CONTINUE"}, None), I(2, {"BRANCH"}, 2)}
SlotsOK(p) == \A a \in MCMem : "DELAY_SLOT" \in p[a].tag => p[p[a].slot].tag = {"CONTINUE"}

Programs ==
    {p \in {1 :> a @@ 2 :> b @@ 3 :> c @@ 4 :> d @@ 5 :> I(5, {"CONTINUE"}, None) :
              a \in Choices[1], b \in AtTwo, c \in Choices[3], d \in Choices[4]} : SlotsOK(p)}

Conf(p, h, e) == [prog |-> p, hint |-> h, limited |-> FALSE, singlestep |-> FALSE, cache |-> e]

MCConfigs == UNION {{Conf(p, "none", <<1>>), Conf(p, "returns", <<1, 4>>)} : p \in Programs}
================================================================================
