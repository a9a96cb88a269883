--------------------------- MODULE TranslationProofs ---------------------------
(***************************************************************************)
(* The functions that libcpu generates do what the guest does, for every   *)
(* guest program and whatever part of it was translated before.            *)
(***************************************************************************)
EXTENDS Translation, SequenceTheorems, TLAPS

--------------------------------------------------------------------------------
(***************************************************************************)
(* A function that is defined going on from instruction to instruction is  *)
(* well defined where that comes to an end.                                *)
(***************************************************************************)
Solves(f, D, Stops, next, here, last) ==
    /\ DOMAIN f = D
    /\ \A a \in D : /\ a \notin Stops => next[a] \in D
                    /\ f[a] = IF a \in Stops THEN last[a] ELSE Emit(here[a], f[next[a]])

ComesToEnd(S, Stops, next) ==
    /\ \A T \in SUBSET S : T # {} => \E a \in T : a \in Stops \/ next[a] \notin T
    /\ \A a \in S : a \notin Stops => next[a] \in S

IsDefined(S, Stops, next, here, last) ==
    \E f : f = [a \in S |-> IF a \in Stops THEN last[a] ELSE Emit(here[a], f[next[a]])]

LEMMA SolutionsAgree ==
  ASSUME NEW S, NEW Stops, NEW next, NEW here, NEW last,
         ComesToEnd(S, Stops, next),
         NEW D \in SUBSET S, NEW f, Solves(f, D, Stops, next, here, last),
         NEW E \in SUBSET S, NEW g, Solves(g, E, Stops, next, here, last)
  PROVE  \A a \in D \cap E : f[a] = g[a]
<1> DEFINE T == {x \in D \cap E : f[x] # g[x]}
<1>1. SUFFICES ASSUME T # {} PROVE FALSE
  OBVIOUS
<1>2. PICK x \in T : x \in Stops \/ next[x] \notin T
  BY <1>1 DEF ComesToEnd
<1>3. CASE x \in Stops
  BY <1>3 DEF Solves
<1>4. CASE x \notin Stops
  <2>1. next[x] \in D \cap E /\ f[next[x]] = g[next[x]]
    BY <1>2, <1>4 DEF Solves
  <2> QED BY <1>4, <2>1 DEF Solves
<1> QED BY <1>3, <1>4

LEMMA Recursion ==
  ASSUME NEW S, NEW Stops, NEW next, NEW here, NEW last,
         ComesToEnd(S, Stops, next)
  PROVE  IsDefined(S, Stops, next, here, last)
<1> DEFINE Solution(f, D) == Solves(f, D, Stops, next, here, last)
           Solved(a) == \E D \in SUBSET S : \E f : a \in D /\ Solution(f, D)
           T == {a \in S : ~Solved(a)}
<1>1. T = {}
  <2>1. SUFFICES ASSUME T # {} PROVE FALSE
    OBVIOUS
  <2>2. PICK a \in T : a \in Stops \/ next[a] \notin T
    BY <2>1 DEF ComesToEnd
  <2>3. CASE a \in Stops
    <3>1. Solution([x \in {a} |-> last[a]], {a})
      BY <2>3 DEF Solves
    <3> QED BY <3>1
  <2>4. CASE a \notin Stops
    <3>0. PICK D \in SUBSET S : \E f : next[a] \in D /\ Solution(f, D)
      BY <2>2, <2>4 DEF ComesToEnd
    <3>1. PICK f : next[a] \in D /\ Solution(f, D)
      BY <3>0
    <3> DEFINE g == [x \in D \cup {a} |-> IF x = a THEN Emit(here[a], f[next[a]]) ELSE f[x]]
    <3>2. a \notin D
      BY <3>1
    <3>3. Solution(g, D \cup {a})
      BY <2>4, <3>1, <3>2 DEF Solves
    <3> QED BY <3>3
  <2> QED BY <2>3, <2>4
<1> DEFINE W(a) == CHOOSE f : \E D \in SUBSET S : a \in D /\ Solution(f, D)
           F == [a \in S |-> W(a)[a]]
<1>2. ASSUME NEW a \in S PROVE \E D \in SUBSET S : a \in D /\ Solution(W(a), D)
  BY <1>1
<1>3. ASSUME NEW a \in S PROVE F[a] = IF a \in Stops THEN last[a] ELSE Emit(here[a], F[next[a]])
  <2>1. PICK D \in SUBSET S : a \in D /\ Solution(W(a), D)
    BY <1>2
  <2>2. CASE a \in Stops
    BY <2>1, <2>2 DEF Solves
  <2>3. CASE a \notin Stops
    <3>1. next[a] \in D
      BY <2>1, <2>3 DEF Solves
    <3>2. PICK E \in SUBSET S : next[a] \in E /\ Solution(W(next[a]), E)
      BY <1>2, <3>1
    <3>3. W(a)[next[a]] = W(next[a])[next[a]]
      <4> HIDE DEF W, F, T, Solved
      <4>1. ASSUME NEW w, NEW v, Solution(w, D), Solution(v, E) PROVE w[next[a]] = v[next[a]]
        <5>1. \A x \in D \cap E : w[x] = v[x]
          BY <4>1, SolutionsAgree
        <5> QED BY <3>1, <3>2, <5>1
      <4> QED BY <2>1, <3>2, <4>1
    <3> QED BY <2>1, <2>3, <3>1, <3>3 DEF Solves
  <2> QED BY <2>2, <2>3
<1>4. F = [a \in S |-> IF a \in Stops THEN last[a] ELSE Emit(here[a], F[next[a]])]
  <2> HIDE DEF W
  <2> QED BY <1>3
<1> QED BY <1>4 DEF IsDefined

LEMMA ConfOK ==
  ASSUME conf \in Configs
  PROVE  /\ conf.prog \in [Mem -> Insn]
         /\ \A S \in SUBSET Code : S # {} => \E a \in S : conf.prog[a].next \notin S
         /\ Code \subseteq Mem /\ Mem \subseteq Addr /\ NoPc \in Addr
BY ConfigAssumption, AddrAssumption, ForwardAssumption DEF Config

LEMMA ReachedInCode == Reached \subseteq Code /\ Starts \subseteq Reached
BY DEF Reached, Starts

\* What the instruction at a inserts when the line of l is translated.
InLine(l, a) ==
    translate_instr(a, l, Label(l), Target(conf.prog[a]), NotTaken(conf.prog[a]))
InStraight(l, a) ==
    translate_instr(a, l, Label(l), LoopTarget(conf.prog[a], l), External(conf.prog[a].next))
LastOfLine(l, a) ==
    Emit(InLine(l, a), [b \in Continues(a, l, Label(l)) |-> <<Br(lookup_basicblock(conf.prog[a].next))>>])
StraightEnds(l, a) == conf.prog[a].next \notin Code \/ Continues(a, l, Label(l)) = {}

LEMMA LineDef ==
  ASSUME conf \in Configs, NEW l, NEW a \in Code
  PROVE  Line(l)[a] = IF Ends(a, l) THEN LastOfLine(l, a)
                      ELSE Emit(InLine(l, a), Line(l)[conf.prog[a].next])
<1> DEFINE Stops == {x \in Code : Ends(x, l)}
           next == [x \in Code |-> conf.prog[x].next]
           here == [x \in Code |-> InLine(l, x)]
           last == [x \in Code |-> LastOfLine(l, x)]
           Is(f) == f = [x \in Code |-> IF Ends(x, l) THEN LastOfLine(l, x)
                                        ELSE Emit(InLine(l, x), f[conf.prog[x].next])]
<1>1. \A x \in Code : x \notin Stops => next[x] \in Code
  BY ReachedInCode DEF Ends
<1>2. \A T \in SUBSET Code : T # {} => \E x \in T : x \in Stops \/ next[x] \notin T
  BY ConfOK
<1>3. IsDefined(Code, Stops, next, here, last)
  <2> HIDE DEF Stops, next, here, last
  <2> QED BY <1>1, <1>2, Recursion DEF ComesToEnd
<1>4. \E f : Is(f)
  <2>1. PICK f : f = [x \in Code |-> IF x \in Stops THEN last[x] ELSE Emit(here[x], f[next[x]])]
    BY <1>3 DEF IsDefined
  <2>2. Is(f)
    BY <2>1
  <2> QED BY <2>2
<1>5. Is(Line(l))
  BY <1>4 DEF Line, LastOfLine, InLine
<1> QED BY <1>5

LEMMA StraightDef ==
  ASSUME conf \in Configs, NEW l, NEW a \in Mem
  PROVE  Straight(l)[a] = IF StraightEnds(l, a) THEN InStraight(l, a)
                          ELSE Emit(InStraight(l, a), Straight(l)[conf.prog[a].next])
<1> DEFINE Stops == {x \in Mem : StraightEnds(l, x)}
           next == [x \in Mem |-> conf.prog[x].next]
           here == [x \in Mem |-> InStraight(l, x)]
           Is(f) == f = [x \in Mem |-> IF StraightEnds(l, x) THEN InStraight(l, x)
                                       ELSE Emit(InStraight(l, x), f[conf.prog[x].next])]
<1>1. \A x \in Mem : x \notin Stops => next[x] \in Mem
  BY ConfOK DEF StraightEnds
<1>2. ASSUME NEW T \in SUBSET Mem, T # {}
      PROVE  \E x \in T : x \in Stops \/ next[x] \notin T
  <2>1. CASE T \cap Code = {}
    BY <1>2, <2>1 DEF StraightEnds
  <2>2. CASE T \cap Code # {}
    <3>1. PICK x \in T \cap Code : conf.prog[x].next \notin T \cap Code
      BY <2>2, ConfOK
    <3> QED BY <3>1 DEF StraightEnds
  <2> QED BY <2>1, <2>2
<1>3. IsDefined(Mem, Stops, next, here, here)
  <2> HIDE DEF Stops, next, here
  <2> QED BY <1>1, <1>2, Recursion DEF ComesToEnd
<1>4. \E f : Is(f)
  <2>1. PICK f : f = [x \in Mem |-> IF x \in Stops THEN here[x] ELSE Emit(here[x], f[next[x]])]
    BY <1>3 DEF IsDefined
  <2>2. Is(f)
    BY <2>1
  <2> QED BY <2>2
<1>5. Is(Straight(l))
  BY <1>4 DEF Straight, InStraight, StraightEnds
<1> QED BY <1>5

--------------------------------------------------------------------------------
(***************************************************************************)
(* Blocks and what one instruction inserts.                                *)
(***************************************************************************)
Names == {"label", "external", "cond", "delay", "dispatch", "ret", "trap"} \X Addr \X Addr
Items ==
    [op: {"instr", "store"}, pc: Addr] \cup [op: {"cond"}, pc: Addr, yes: Names, no: Names]
    \cup [op: {"br"}, to: Names] \cup [op: {"switch"}] \cup [op: {"return"}, code: {"NOERR", "TRAP"}]

LEMMA Naming ==
  ASSUME NEW a \in Addr, NEW l \in Addr, NoPc \in Addr
  PROVE  /\ {Label(a), External(a), CondBlock(l, a), DelayBlock(l, a)} \subseteq Names
         /\ {Dispatch, bb_ret, bb_trap} \subseteq Names
<1>1. Label(a) \in Names
  BY DEF Names, Label
<1>2. External(a) \in Names
  BY DEF Names, External
<1>3. CondBlock(l, a) \in Names
  BY DEF Names, CondBlock
<1>4. DelayBlock(l, a) \in Names
  BY DEF Names, DelayBlock
<1>5. Dispatch \in Names /\ bb_ret \in Names /\ bb_trap \in Names
  BY DEF Names, Dispatch, bb_ret, bb_trap
<1> QED BY <1>1, <1>2, <1>3, <1>4, <1>5

LEMMA Inserting ==
  ASSUME NEW a \in Addr, NEW t \in Names, NEW z \in Names
  PROVE  {Instr(a), Br(t), Cond(a, t, z)} \subseteq Items
BY DEF Items, Instr, Br, Cond

LEMMA Storing ==
  ASSUME NEW a \in Addr, NoPc \in Addr
  PROVE  StorePcReturn(a) \in Seq(Items)
<1>1. Br(bb_ret) \in Items /\ [op |-> "store", pc |-> a] \in Items
  BY Naming, Inserting DEF Items
<1> QED BY <1>1 DEF StorePcReturn

LEMMA Prepended ==
  ASSUME NEW x \in Items, NEW s \in Seq(Items)
  PROVE  /\ <<x>> \o s \in Seq(Items)
         /\ Len(<<x>> \o s) = Len(s) + 1
         /\ (<<x>> \o s)[1] = x
         /\ \A k \in 1..Len(s) : (<<x>> \o s)[k + 1] = s[k]
OBVIOUS

LEMMA Pair ==
  ASSUME NEW x, NEW y
  PROVE  <<x>> \o <<y>> = <<x, y>>
<1> DEFINE S == {x, y}
<1>1. <<x>> \in Seq(S) /\ <<y>> \in Seq(S) /\ <<x, y>> \in Seq(S)
  OBVIOUS
<1>2. Len(<<x>> \o <<y>>) = 2 /\ Len(<<x, y>>) = 2
  BY <1>1
<1>3. (<<x>> \o <<y>>)[1] = x /\ (<<x>> \o <<y>>)[2] = y /\ <<x>> \o <<y>> \in Seq(S)
  BY <1>1
<1>4. \A n \in 1..2 : (<<x>> \o <<y>>)[n] = <<x, y>>[n]
  <2> \A n \in 1..2 : n = 1 \/ n = 2
    OBVIOUS
  <2> QED BY <1>3
<1> QED BY <1>1, <1>2, <1>3, <1>4, SeqEqual

\* The kinds of instructions.
Jumps(i) == i.tag \cap {"BRANCH", "CALL", "RET"} # {}
GoesOn(i) == Has(i, "CONTINUE") /\ ~Has(i, "DELAY_SLOT")

LEMMA Kinds ==
  ASSUME NEW i \in Insn
  PROVE  /\ GoesOn(i) <=> Has(i, "CONTINUE")
         /\ GoesOn(i) <=> ~Jumps(i) /\ ~Has(i, "TRAP")
         /\ Has(i, "DELAY_SLOT") => Jumps(i)
         /\ Jumps(i) => ~Has(i, "TRAP")
         /\ Has(i, "CONDITIONAL") => ~Has(i, "TRAP") /\ ~Has(i, "RET")
         /\ Jumps(i) <=> Has(i, "BRANCH") \/ Has(i, "CALL") \/ Has(i, "RET")
BY DEF Insn, InsnTags, GoesOn, Jumps, Has

\* The code of the instruction at a where it takes effect: it goes to t, or on with c.
Taking(a, t, c) ==
    LET i == conf.prog[a]
    IN IF Has(i, "DELAY_SLOT") THEN <<Instr(a), Instr(i.slot), Br(t)>>
       ELSE IF Jumps(i) THEN <<Instr(a), Br(t)>>
       ELSE IF Has(i, "TRAP") THEN <<Instr(a), Br(bb_trap)>>
       ELSE <<Instr(a)>> \o c

\* The code of the instruction at a, in the line of l; z is where it goes if not taken.
Translates(f, l, a, t, z, c) ==
    LET i == conf.prog[a]
    IN IF ~Has(i, "CONDITIONAL")
       THEN DOMAIN f = {Label(l)} /\ f[Label(l)] = Taking(a, t, c)
       ELSE /\ f[CondBlock(l, a)] = Taking(a, t, c)
            /\ IF Has(i, "DELAY_SLOT")
               THEN /\ DOMAIN f = {Label(l), CondBlock(l, a), DelayBlock(l, a)}
                    /\ f[Label(l)] = <<Cond(a, CondBlock(l, a), DelayBlock(l, a))>>
                    /\ f[DelayBlock(l, a)] = <<Instr(i.slot), Br(z)>>
               ELSE /\ DOMAIN f = {Label(l), CondBlock(l, a)}
                    /\ f[Label(l)] = <<Cond(a, CondBlock(l, a), z)>>

LEMMA Inserted ==
  ASSUME conf \in Configs, NEW l \in Addr, NEW a \in Mem, NEW t \in Names, NEW z \in Names
  PROVE  Translates(translate_instr(a, l, Label(l), t, z), l, a, t, z, <<>>)
<1> DEFINE i == conf.prog[a]
           X == translate_instr(a, l, Label(l), t, z)
<1>1. i \in Insn /\ a \in Addr
  BY ConfOK
<1>2. /\ Label(l) # CondBlock(l, a) /\ Label(l) # DelayBlock(l, a)
      /\ CondBlock(l, a) # DelayBlock(l, a)
  BY DEF Label, CondBlock, DelayBlock
<1>3. CASE Has(i, "DELAY_SLOT")
  <2>1. X = Delayed(i, a, Label(l), l, t, z)
    BY <1>3 DEF translate_instr
  <2>2. CASE Has(i, "CONDITIONAL")
    BY <1>2, <1>3, <2>1, <2>2 DEF Delayed, Joined, Only, Translates, Taking
  <2>3. CASE ~Has(i, "CONDITIONAL")
    BY <1>3, <2>1, <2>3 DEF Delayed, Only, Translates, Taking
  <2> QED BY <2>2, <2>3
<1>4. CASE ~Has(i, "DELAY_SLOT")
  <2> DEFINE body == <<Instr(a)>> \o (IF i.tag \cap {"BRANCH", "CALL", "RET"} # {} THEN <<Br(t)>>
                                      ELSE IF Has(i, "TRAP") THEN <<Br(bb_trap)>> ELSE <<>>)
  <2>1. body = Taking(a, t, <<>>)
    BY <1>4, Pair DEF Taking, Jumps
  <2>2. X = Plain(i, a, Label(l), l, t, z)
    BY <1>4 DEF translate_instr
  <2>3. CASE Has(i, "CONDITIONAL")
    <3>1. X = Joined(Only(Label(l), <<Cond(a, CondBlock(l, a), z)>>), Only(CondBlock(l, a), body))
      BY <2>2, <2>3 DEF Plain
    <3> HIDE DEF body
    <3> QED BY <1>2, <1>4, <2>1, <2>3, <3>1 DEF Joined, Only, Translates
  <2>4. CASE ~Has(i, "CONDITIONAL")
    <3>1. X = Only(Label(l), body)
      BY <2>2, <2>4 DEF Plain
    <3> HIDE DEF body
    <3> QED BY <2>1, <2>4, <3>1 DEF Only, Translates
  <2> QED BY <2>3, <2>4
<1> QED BY <1>3, <1>4

Typed(f) == \A b \in DOMAIN f : b \in Names /\ f[b] \in Seq(Items)

LEMMA TakingTyped ==
  ASSUME conf \in Configs, NEW a \in Mem, NEW t \in Names, NEW c \in Seq(Items)
  PROVE  /\ Taking(a, t, c) \in Seq(Items)
         /\ ~GoesOn(conf.prog[a]) => Taking(a, t, <<>>) = Taking(a, t, c)
         /\ GoesOn(conf.prog[a]) => Taking(a, t, <<>>) = <<Instr(a)>>
         /\ GoesOn(conf.prog[a]) => Taking(a, t, c) = <<Instr(a)>> \o c
<1> DEFINE i == conf.prog[a]
<1>1. i \in Insn /\ a \in Addr /\ i.slot \in Addr /\ NoPc \in Addr
  BY ConfOK DEF Insn
<1>2. Instr(a) \in Items /\ Instr(i.slot) \in Items /\ Br(t) \in Items /\ Br(bb_trap) \in Items
  BY <1>1, Naming, Inserting
<1> HIDE DEF i
<1>3. <<Instr(a)>> \in Seq(Items) /\ <<Instr(a), Br(t)>> \in Seq(Items)
      /\ <<Instr(a), Br(bb_trap)>> \in Seq(Items)
      /\ <<Instr(a), Instr(i.slot), Br(t)>> \in Seq(Items)
  BY <1>2
<1>4. <<Instr(a)>> \o c \in Seq(Items) /\ <<Instr(a)>> \o <<>> = <<Instr(a)>>
  BY <1>3
<1>5. Taking(a, t, c) \in Seq(Items)
  BY <1>3, <1>4 DEF Taking, i
<1>6. ~GoesOn(i) => Taking(a, t, <<>>) = Taking(a, t, c)
  BY <1>1, Kinds DEF Taking, i
<1>7. GoesOn(i) => ~Has(i, "DELAY_SLOT") /\ ~Jumps(i) /\ ~Has(i, "TRAP")
  BY <1>1, Kinds DEF i
<1>8. GoesOn(i) => Taking(a, t, <<>>) = <<Instr(a)>> /\ Taking(a, t, c) = <<Instr(a)>> \o c
  BY <1>4, <1>7 DEF Taking, i
<1> QED BY <1>5, <1>6, <1>8 DEF i

LEMMA TranslatesTyped ==
  ASSUME conf \in Configs, NEW l \in Addr, NEW a \in Mem, NEW t \in Names, NEW z \in Names,
         NEW c \in Seq(Items), NEW f, Translates(f, l, a, t, z, c)
  PROVE  Typed(f)
<1> DEFINE i == conf.prog[a]
<1>1. i \in Insn /\ a \in Addr /\ i.slot \in Addr /\ NoPc \in Addr
  BY ConfOK DEF Insn
<1>2. /\ Label(l) \in Names /\ CondBlock(l, a) \in Names /\ DelayBlock(l, a) \in Names
      /\ Taking(a, t, c) \in Seq(Items)
  BY <1>1, Naming, TakingTyped
<1>3. /\ Cond(a, CondBlock(l, a), DelayBlock(l, a)) \in Items /\ Cond(a, CondBlock(l, a), z) \in Items
      /\ Instr(i.slot) \in Items /\ Br(z) \in Items
  BY <1>1, <1>2, Inserting
<1> HIDE DEF i
<1>4. /\ <<Cond(a, CondBlock(l, a), DelayBlock(l, a))>> \in Seq(Items)
      /\ <<Cond(a, CondBlock(l, a), z)>> \in Seq(Items)
      /\ <<Instr(i.slot), Br(z)>> \in Seq(Items)
  BY <1>3
<1> QED BY <1>2, <1>4 DEF Translates, Typed, i

LEMMA Ending ==
  ASSUME conf \in Configs, NEW l \in Addr, NEW a \in Mem, NEW t \in Names, NEW z \in Names,
         NEW c \in Seq(Items)
  PROVE  Translates(Emit(translate_instr(a, l, Label(l), t, z),
                         [b \in Continues(a, l, Label(l)) |-> c]), l, a, t, z, c)
<1> DEFINE i == conf.prog[a]
           X == translate_instr(a, l, Label(l), t, z)
           g == [b \in Continues(a, l, Label(l)) |-> c]
           Y == Emit(X, g)
<1> SUFFICES Translates(Y, l, a, t, z, c)
  OBVIOUS
<1>1. i \in Insn /\ Translates(X, l, a, t, z, <<>>) /\ Typed(X)
  <2>1. i \in Insn /\ <<>> \in Seq(Items)
    BY ConfOK
  <2> HIDE DEF i, X
  <2>2. Translates(X, l, a, t, z, <<>>)
    BY Inserted DEF X
  <2> QED BY <2>1, <2>2, TranslatesTyped
<1>2. /\ Label(l) # CondBlock(l, a) /\ Label(l) # DelayBlock(l, a)
      /\ CondBlock(l, a) # DelayBlock(l, a)
  BY DEF Label, CondBlock, DelayBlock
<1>3. CASE ~GoesOn(i)
  <2>1. DOMAIN g = {}
    BY <1>3 DEF Continues, GoesOn
  <2> HIDE DEF X, g
  <2>2. DOMAIN Y = DOMAIN X /\ \A b \in DOMAIN X : Y[b] = X[b]
    BY <1>1, <2>1 DEF Emit, Typed
  <2>3. Taking(a, t, <<>>) = Taking(a, t, c)
    BY <1>3, TakingTyped
  <2> HIDE DEF Y
  <2> QED BY <1>1, <2>2, <2>3 DEF Translates
<1>4. CASE GoesOn(i)
  <2>1. Taking(a, t, <<>>) = <<Instr(a)>> /\ Taking(a, t, c) = <<Instr(a)>> \o c
    BY <1>4, TakingTyped
  <2>2. CASE Has(i, "CONDITIONAL")
    <3>1. DOMAIN g = {CondBlock(l, a)} /\ g[CondBlock(l, a)] = c
      BY <1>4, <2>2 DEF Continues, GoesOn
    <3> HIDE DEF X, g
    <3>2. DOMAIN X = {Label(l), CondBlock(l, a)}
      BY <1>1, <1>4, <2>2 DEF Translates, GoesOn
    <3>3. DOMAIN Y = DOMAIN X /\ Y[Label(l)] = X[Label(l)] /\ Y[CondBlock(l, a)] = X[CondBlock(l, a)] \o c
      BY <1>1, <1>2, <3>1, <3>2 DEF Emit, Typed
    <3> HIDE DEF Y
    <3>4. X[CondBlock(l, a)] = Taking(a, t, <<>>)
      BY <1>1, <2>2 DEF Translates
    <3>5. Y[CondBlock(l, a)] = Taking(a, t, c)
      BY <2>1, <3>3, <3>4
    <3> QED BY <1>1, <1>4, <2>2, <3>3, <3>5 DEF Translates, GoesOn
  <2>3. CASE ~Has(i, "CONDITIONAL")
    <3>1. DOMAIN g = {Label(l)} /\ g[Label(l)] = c
      BY <1>4, <2>3 DEF Continues, GoesOn
    <3> HIDE DEF X, g
    <3>2. DOMAIN X = {Label(l)}
      BY <1>1, <2>3 DEF Translates
    <3>3. DOMAIN Y = DOMAIN X /\ Y[Label(l)] = X[Label(l)] \o c
      BY <3>1, <3>2 DEF Emit
    <3> HIDE DEF Y
    <3> QED BY <1>1, <2>1, <2>3, <3>3 DEF Translates
  <2> QED BY <2>2, <2>3
<1> QED BY <1>3, <1>4

--------------------------------------------------------------------------------
(***************************************************************************)
(* The three translators alike.  The code from the instruction at a on, in *)
(* the line of l: an instruction i of it goes To(l, i) when it jumps, to   *)
(* Untaken(i) when its condition does not hold, and otherwise Then(i) is   *)
(* executed, unless the line goes on with the instruction behind it.       *)
(***************************************************************************)
To(l, i) ==
    IF mode = "all" THEN Target(i)
    ELSE IF mode = "step" THEN StepTarget(i) ELSE LoopTarget(i, l)
Untaken(i) == IF mode = "all" THEN NotTaken(i) ELSE External(i.next)
Then(i) ==
    IF mode = "all" THEN <<Br(lookup_basicblock(i.next))>>
    ELSE IF mode = "step" THEN StorePcReturn(i.next) ELSE <<>>
Rest(l, a) ==
    IF mode = "all" THEN Line(l)[a] ELSE IF mode = "step" THEN Stepped(l) ELSE Straight(l)[a]
Last(l, a) ==
    IF mode = "all" THEN Ends(a, l) ELSE IF mode = "step" THEN TRUE ELSE StraightEnds(l, a)
Places == IF mode = "all" THEN Reached ELSE Mem
Inserts(l, a) == translate_instr(a, l, Label(l), To(l, conf.prog[a]), Untaken(conf.prog[a]))

Given == conf \in Configs /\ mode \in {"all", "step", "step_bb"} /\ elsewhere \subseteq Starts
InPlace(l, a) == l \in Mem /\ a \in Places /\ (mode = "step" => a = l)

LEMMA PlacesInMem == conf \in Configs => Places \subseteq Mem /\ Blocks \subseteq Reached
  /\ Blocks \subseteq Mem
BY ReachedInCode, ConfOK DEF Places, Blocks

LEMMA LookedUp ==
  ASSUME conf \in Configs, NEW a \in Addr
  PROVE  lookup_basicblock(a) \in Names
<1>1. Label(a) \in Names /\ External(a) \in Names
  BY ConfOK, Naming
<1> QED BY <1>1 DEF lookup_basicblock

LEMMA Exits ==
  ASSUME Given, NEW l \in Mem, NEW i \in Insn
  PROVE  To(l, i) \in Names /\ Untaken(i) \in Names /\ Then(i) \in Seq(Items)
<1>1. i.new \in Addr /\ i.next \in Addr /\ NoPc \in Addr /\ l \in Addr
  BY ConfOK DEF Insn, Given
<1>2. /\ External(i.new) \in Names /\ External(i.next) \in Names /\ Label(l) \in Names
      /\ Dispatch \in Names /\ bb_ret \in Names
  BY <1>1, Naming
<1>3. lookup_basicblock(i.new) \in Names /\ lookup_basicblock(i.next) \in Names
  BY <1>1, LookedUp DEF Given
<1>4. StorePcReturn(i.next) \in Seq(Items)
  BY <1>1, Storing
<1>5. Br(lookup_basicblock(i.next)) \in Items
  BY <1>1, <1>3, Inserting
<1>6. <<Br(lookup_basicblock(i.next))>> \in Seq(Items) /\ <<>> \in Seq(Items)
  BY <1>5
<1>7. To(l, i) \in Names
  BY <1>2, <1>3 DEF To, Target, StepTarget, LoopTarget
<1>8. Untaken(i) \in Names
  BY <1>2, <1>3 DEF Untaken, NotTaken
<1>9. Then(i) \in Seq(Items)
  BY <1>4, <1>6 DEF Then
<1> QED BY <1>7, <1>8, <1>9

LEMMA OneInserts ==
  ASSUME Given, NEW l \in Mem, NEW a \in Mem
  PROVE  Translates(Inserts(l, a), l, a, To(l, conf.prog[a]), Untaken(conf.prog[a]), <<>>)
<1>1. conf.prog[a] \in Insn /\ l \in Addr
  BY ConfOK DEF Given
<1>2. To(l, conf.prog[a]) \in Names /\ Untaken(conf.prog[a]) \in Names
  BY <1>1, Exits
<1> QED BY <1>1, <1>2, Inserted DEF Inserts, Given

LEMMA LastInserts ==
  ASSUME Given, NEW l, NEW a, InPlace(l, a), Last(l, a)
  PROVE  Translates(Rest(l, a), l, a, To(l, conf.prog[a]), Untaken(conf.prog[a]), Then(conf.prog[a]))
<1> DEFINE i == conf.prog[a]
           E == Emit(Inserts(l, a), [b \in Continues(a, l, Label(l)) |-> Then(i)])
<1>1. l \in Mem /\ a \in Mem /\ i \in Insn /\ l \in Addr
  BY ConfOK, PlacesInMem DEF Given, InPlace
<1>2. To(l, i) \in Names /\ Untaken(i) \in Names /\ Then(i) \in Seq(Items)
  BY <1>1, Exits
<1>3. Translates(E, l, a, To(l, i), Untaken(i), Then(i))
  <2> HIDE DEF i
  <2>1. Inserts(l, a) = translate_instr(a, l, Label(l), To(l, i), Untaken(i))
    BY DEF i, Inserts
  <2> QED BY <1>1, <1>2, <2>1, Ending DEF Given
<1>4. CASE mode = "all"
  <2>1. Line(l)[a] = LastOfLine(l, a)
    BY <1>4, LineDef, ReachedInCode DEF Given, Places, InPlace, Last
  <2>2. LastOfLine(l, a) = E
    BY <1>4 DEF LastOfLine, InLine, Inserts, To, Untaken, Then
  <2> QED BY <1>3, <1>4, <2>1, <2>2 DEF Rest
<1>5. CASE mode = "step"
  <2>1. Stepped(l) = E
    BY <1>5 DEF Stepped, Inserts, To, Untaken, Then, InPlace
  <2> QED BY <1>3, <1>5, <2>1 DEF Rest
<1>6. CASE mode = "step_bb"
  <2>1. Straight(l)[a] = Inserts(l, a)
    BY <1>1, <1>6, StraightDef DEF Given, Last, InStraight, Inserts, To, Untaken
  <2>2. Then(i) = <<>>
    BY <1>6 DEF Then
  <2> QED BY <1>1, <1>6, <2>1, <2>2, OneInserts DEF Rest
<1> QED BY <1>4, <1>5, <1>6 DEF Given

LEMMA OthersGoOn ==
  ASSUME Given, NEW l, NEW a, InPlace(l, a), ~Last(l, a)
  PROVE  /\ Rest(l, a) = Emit(Inserts(l, a), Rest(l, conf.prog[a].next))
         /\ InPlace(l, conf.prog[a].next) /\ conf.prog[a].next \in Code
         /\ GoesOn(conf.prog[a]) /\ mode # "step"
         /\ mode = "all" => ~Has(conf.prog[a], "CONDITIONAL")
<1> DEFINE i == conf.prog[a]
<1>1. l \in Mem /\ a \in Mem /\ i \in Insn /\ Code \subseteq Mem
  BY ConfOK, PlacesInMem DEF Given, InPlace
<1>2. CASE mode = "all"
  <2>1. a \in Reached /\ Reached \subseteq Code /\ ~Ends(a, l)
    BY <1>2, ReachedInCode DEF InPlace, Places, Last
  <2>2. Line(l)[a] = Emit(InLine(l, a), Line(l)[i.next])
    BY <2>1, LineDef DEF Given
  <2>3. InLine(l, a) = Inserts(l, a)
    BY <1>2 DEF InLine, Inserts, To, Untaken
  <2>4. i.next \in Reached /\ i.next \notin Starts /\ Continues(a, l, Label(l)) # {}
    BY <2>1 DEF Ends
  <2>5. GoesOn(i)
    BY <2>4 DEF Continues, GoesOn
  <2>6. ~Has(i, "CONDITIONAL")
    <3>1. SUFFICES ASSUME Has(i, "CONDITIONAL") PROVE i.next \in Starts
      BY <2>4
    <3>2. i.next \in SubseqLabels(i)
      BY <3>1 DEF SubseqLabels
    <3> QED BY <2>1, <2>4, <3>2 DEF Starts
  <2> QED BY <1>1, <1>2, <2>1, <2>2, <2>3, <2>4, <2>5, <2>6 DEF Rest, InPlace, Places
<1>3. CASE mode = "step_bb"
  <2>1. ~StraightEnds(l, a)
    BY <1>3 DEF Last
  <2>2. Straight(l)[a] = Emit(InStraight(l, a), Straight(l)[i.next])
    BY <1>1, <2>1, StraightDef DEF Given
  <2>3. InStraight(l, a) = Inserts(l, a)
    BY <1>3 DEF InStraight, Inserts, To, Untaken
  <2>4. i.next \in Code /\ Continues(a, l, Label(l)) # {}
    BY <2>1 DEF StraightEnds
  <2>5. GoesOn(i)
    BY <2>4 DEF Continues, GoesOn
  <2> QED BY <1>1, <1>3, <2>2, <2>3, <2>4, <2>5 DEF Rest, InPlace, Places
<1>4. mode # "step"
  BY DEF Last
<1> QED BY <1>2, <1>3, <1>4 DEF Given

--------------------------------------------------------------------------------
(***************************************************************************)
(* Blocks end in their only terminator, and branches go to blocks of the   *)
(* line (D) or out of it (W).                                              *)
(***************************************************************************)
Proper(s) == s # <<>> /\ \A n \in DOMAIN s : s[n].op \in Terminators <=> n = Len(s)
Goes(x, D, W) ==
    /\ x.op = "br" => x.to \in W
    /\ x.op = "cond" => x.yes \in D /\ x.no \in D \cup W
Linking(s, D, W) == \A n \in DOMAIN s : Goes(s[n], D, W)
Links(f, W) == \A b \in DOMAIN f : Linking(f[b], DOMAIN f, W)

LEMMA ConcatLinks ==
  ASSUME NEW s \in Seq(Items), NEW r \in Seq(Items), NEW D, NEW W,
         Linking(s, D, W), Linking(r, D, W)
  PROVE  Linking(s \o r, D, W)
<1> SUFFICES ASSUME NEW n \in DOMAIN (s \o r) PROVE Goes((s \o r)[n], D, W)
  BY DEF Linking
<1>1. n \in 1..(Len(s) + Len(r)) /\ Len(s) \in Nat /\ Len(r) \in Nat
  OBVIOUS
<1>2. CASE n <= Len(s)
  <2>1. (s \o r)[n] = s[n] /\ n \in DOMAIN s
    BY <1>1, <1>2
  <2> QED BY <2>1 DEF Linking
<1>3. CASE n > Len(s)
  <2>1. (s \o r)[n] = r[n - Len(s)] /\ n - Len(s) \in DOMAIN r
    BY <1>1, <1>3
  <2> QED BY <2>1 DEF Linking
<1> QED BY <1>1, <1>2, <1>3

\* h has the blocks of f and of g, those of g behind those of f.
Appends(h, f, g) ==
    /\ DOMAIN h = DOMAIN f \cup DOMAIN g
    /\ \A b \in DOMAIN g : b \notin DOMAIN f => h[b] = g[b]
    /\ \A b \in DOMAIN f : b \notin DOMAIN g => h[b] = f[b]
    /\ \A b \in DOMAIN f : b \in DOMAIN g => h[b] = f[b] \o g[b]

LEMMA EmitTyped ==
  ASSUME NEW f, NEW g, Typed(f), Typed(g)
  PROVE  Typed(Emit(f, g)) /\ Appends(Emit(f, g), f, g)
<1>1. DOMAIN Emit(f, g) = DOMAIN f \cup DOMAIN g
  BY DEF Emit
<1>2. \A b \in DOMAIN g : b \notin DOMAIN f => Emit(f, g)[b] = g[b]
  BY DEF Emit, Typed
<1>3. \A b \in DOMAIN f : b \notin DOMAIN g => Emit(f, g)[b] = f[b]
  BY DEF Emit, Typed
<1>4. \A b \in DOMAIN f : b \in DOMAIN g => Emit(f, g)[b] = f[b] \o g[b]
  BY DEF Emit
<1>5. ASSUME NEW b \in DOMAIN f \cup DOMAIN g
      PROVE  b \in Names /\ Emit(f, g)[b] \in Seq(Items)
  <2>1. b \in Names
    BY DEF Typed
  <2>2. CASE b \in DOMAIN f /\ b \in DOMAIN g
    <3>1. f[b] \in Seq(Items) /\ g[b] \in Seq(Items)
      BY <2>2 DEF Typed
    <3>2. f[b] \o g[b] \in Seq(Items)
      BY <3>1
    <3> QED BY <1>4, <2>1, <2>2, <3>2
  <2>3. CASE b \notin DOMAIN f
    BY <1>2, <2>1, <2>3 DEF Typed
  <2>4. CASE b \notin DOMAIN g
    BY <1>3, <2>1, <2>4 DEF Typed
  <2> QED BY <2>2, <2>3, <2>4
<1>6. Typed(Emit(f, g))
  BY <1>1, <1>5 DEF Typed
<1> QED BY <1>1, <1>2, <1>3, <1>4, <1>6 DEF Appends

LEMMA EmitLinks ==
  ASSUME NEW f, NEW g, NEW W, Typed(f), Typed(g), Links(f, W), Links(g, W)
  PROVE  Links(Emit(f, g), W)
<1> DEFINE D == DOMAIN f \cup DOMAIN g
<1>1. \A b \in DOMAIN f : Linking(f[b], D, W)
  BY DEF Links, Linking, Goes
<1>2. \A b \in DOMAIN g : Linking(g[b], D, W)
  BY DEF Links, Linking, Goes
<1>0. Appends(Emit(f, g), f, g)
  BY EmitTyped
<1>3. ASSUME NEW b \in D PROVE Linking(Emit(f, g)[b], D, W)
  <2>1. CASE b \in DOMAIN f /\ b \in DOMAIN g
    <3>1. f[b] \in Seq(Items) /\ g[b] \in Seq(Items)
      BY <2>1 DEF Typed
    <3>2. Linking(f[b] \o g[b], D, W)
      <4> HIDE DEF D
      <4> QED BY <1>1, <1>2, <2>1, <3>1, ConcatLinks
    <3> QED BY <1>0, <2>1, <3>2 DEF Appends
  <2>2. CASE b \notin DOMAIN f \/ b \notin DOMAIN g
    BY <1>0, <1>1, <1>2, <2>2 DEF Appends
  <2> QED BY <2>1, <2>2
<1>4. DOMAIN Emit(f, g) = D
  BY <1>0 DEF Appends
<1> HIDE DEF D
<1> QED BY <1>3, <1>4, Zenon DEF Links

LEMMA TakingProper ==
  ASSUME conf \in Configs, NEW a \in Mem, NEW t \in Names, NEW c \in Seq(Items),
         GoesOn(conf.prog[a]) => Proper(c)
  PROVE  Proper(Taking(a, t, c))
<1> DEFINE i == conf.prog[a]
<1>1. i \in Insn /\ a \in Addr /\ i.slot \in Addr
  BY ConfOK DEF Insn
<1> HIDE DEF i
<1>2. Proper(<<Instr(a), Instr(i.slot), Br(t)>>)
  BY DEF Proper, Instr, Br, Terminators
<1>3. Proper(<<Instr(a), Br(t)>>) /\ Proper(<<Instr(a), Br(bb_trap)>>)
  BY DEF Proper, Instr, Br, Terminators
<1>4. ASSUME Proper(c) PROVE Proper(<<Instr(a)>> \o c)
  <2>1. Instr(a) \in Items /\ Instr(a).op \notin Terminators
    BY <1>1, ConfOK DEF Instr, Terminators, Items
  <2>2. /\ <<Instr(a)>> \o c \in Seq(Items) /\ Len(<<Instr(a)>> \o c) = Len(c) + 1
        /\ (<<Instr(a)>> \o c)[1] = Instr(a)
        /\ \A k \in 1..Len(c) : (<<Instr(a)>> \o c)[k + 1] = c[k]
    BY <2>1, Prepended
  <2> DEFINE s == <<Instr(a)>> \o c
  <2>3. Len(c) \in Nat /\ Len(c) # 0 /\ DOMAIN c = 1..Len(c)
    BY <1>4 DEF Proper
  <2>4. ASSUME NEW n \in DOMAIN s PROVE s[n].op \in Terminators <=> n = Len(s)
    <3>1. n \in 1..(Len(c) + 1)
      BY <2>2
    <3>2. CASE n = 1
      BY <2>1, <2>2, <2>3, <3>2
    <3>3. CASE n # 1
      <4>1. n - 1 \in 1..Len(c) /\ s[n] = c[n - 1]
        BY <2>2, <2>3, <3>1, <3>3
      <4>2. c[n - 1].op \in Terminators <=> n - 1 = Len(c)
        BY <1>4, <2>3, <4>1 DEF Proper
      <4> QED BY <2>2, <2>3, <3>1, <4>1, <4>2
    <3> QED BY <3>2, <3>3
  <2> QED BY <2>2, <2>3, <2>4 DEF Proper
<1>5. GoesOn(i) \/ Jumps(i) \/ Has(i, "TRAP")
  BY <1>1, Kinds
<1>6. GoesOn(i) => ~Jumps(i) /\ ~Has(i, "TRAP") /\ ~Has(i, "DELAY_SLOT")
  BY <1>1, Kinds
<1> QED BY <1>2, <1>3, <1>4, <1>5, <1>6 DEF Taking, i

LEMMA TranslatesLinks ==
  ASSUME conf \in Configs, NEW l \in Addr, NEW a \in Mem, NEW W,
         NEW t \in Names \cap W, NEW z \in Names \cap W, bb_trap \in W,
         NEW c \in Seq(Items), Linking(c, {}, W),
         NEW f, Translates(f, l, a, t, z, c)
  PROVE  /\ Links(f, W)
         /\ (GoesOn(conf.prog[a]) => Proper(c)) => \A b \in DOMAIN f : Proper(f[b])
<1> DEFINE i == conf.prog[a]
           D == DOMAIN f
<1>1. i \in Insn /\ a \in Addr /\ i.slot \in Addr /\ Instr(a) \in Items
  BY ConfOK DEF Insn, Instr, Items
<1> HIDE DEF i
<1>2. Linking(Taking(a, t, c), D, W)
  <2>1. /\ Linking(<<Instr(a), Instr(i.slot), Br(t)>>, D, W)
        /\ Linking(<<Instr(a), Br(t)>>, D, W) /\ Linking(<<Instr(a), Br(bb_trap)>>, D, W)
    BY DEF Linking, Goes, Instr, Br
  <2>2. Linking(<<Instr(a)>> \o c, D, W)
    <3>1. Linking(<<Instr(a)>>, D, W) /\ Linking(c, D, W)
      BY DEF Linking, Goes, Instr
    <3>2. <<Instr(a)>> \in Seq(Items)
      BY <1>1
    <3> HIDE DEF D
    <3> QED BY <3>1, <3>2, ConcatLinks
  <2> QED BY <2>1, <2>2 DEF Taking, i
<1>3. /\ Linking(<<Instr(i.slot), Br(z)>>, D, W)
      /\ CondBlock(l, a) \in D => Linking(<<Cond(a, CondBlock(l, a), z)>>, D, W)
      /\ {CondBlock(l, a), DelayBlock(l, a)} \subseteq D =>
            Linking(<<Cond(a, CondBlock(l, a), DelayBlock(l, a))>>, D, W)
  BY DEF Linking, Goes, Instr, Br, Cond
<1>4. Links(f, W)
  BY <1>2, <1>3 DEF Translates, Links, i
<1>5. ASSUME GoesOn(i) => Proper(c) PROVE \A b \in DOMAIN f : Proper(f[b])
  <2>1. Proper(Taking(a, t, c))
    BY <1>5, TakingProper DEF i
  <2>2. /\ Proper(<<Instr(i.slot), Br(z)>>) /\ Proper(<<Cond(a, CondBlock(l, a), z)>>)
        /\ Proper(<<Cond(a, CondBlock(l, a), DelayBlock(l, a))>>)
    BY DEF Proper, Instr, Br, Cond, Terminators
  <2> QED BY <2>1, <2>2 DEF Translates, i
<1> QED BY <1>4, <1>5 DEF i

--------------------------------------------------------------------------------
(***************************************************************************)
(* The shape of a line: the blocks it has, what is in them, where they go. *)
(***************************************************************************)
Entrances(l) == IF mode = "all" THEN Blocks ELSE {l}
WaysOut(l) ==
    {External(a) : a \in Addr} \cup {Label(b) : b \in Entrances(l)} \cup {bb_ret, bb_trap}
    \cup (IF mode = "all" THEN {Dispatch} ELSE {})
Owned(l) == {Label(l)} \cup {CondBlock(l, a) : a \in Addr} \cup {DelayBlock(l, a) : a \in Addr}

Shape(g, l) ==
    /\ Typed(g) /\ DOMAIN g \subseteq Owned(l) /\ Label(l) \in DOMAIN g
    /\ Links(g, WaysOut(l))
    /\ mode # "step_bb" => \A b \in DOMAIN g : Proper(g[b])

LEMMA ExitsLead ==
  ASSUME Given, NEW l \in Mem, NEW i \in Insn
  PROVE  /\ To(l, i) \in WaysOut(l) /\ Untaken(i) \in WaysOut(l) /\ bb_trap \in WaysOut(l)
         /\ Linking(Then(i), {}, WaysOut(l))
         /\ mode # "step_bb" => Proper(Then(i))
<1>1. i.new \in Addr /\ i.next \in Addr
  BY DEF Insn
<1>2. External(i.new) \in WaysOut(l) /\ External(i.next) \in WaysOut(l)
  BY <1>1 DEF WaysOut
<1>3. bb_ret \in WaysOut(l) /\ bb_trap \in WaysOut(l)
  BY DEF WaysOut
<1>4. mode = "all" => /\ lookup_basicblock(i.new) \in WaysOut(l) /\ Dispatch \in WaysOut(l)
                      /\ lookup_basicblock(i.next) \in WaysOut(l)
  BY <1>2 DEF WaysOut, Entrances, lookup_basicblock
<1>5. mode # "all" => Label(l) \in WaysOut(l)
  BY DEF WaysOut, Entrances
<1>6. To(l, i) \in WaysOut(l)
  BY <1>2, <1>3, <1>4, <1>5 DEF To, Target, StepTarget, LoopTarget
<1>7. Untaken(i) \in WaysOut(l)
  BY <1>2, <1>4 DEF Untaken, NotTaken
<1>8. mode = "all" => /\ Linking(<<Br(lookup_basicblock(i.next))>>, {}, WaysOut(l))
                      /\ Proper(<<Br(lookup_basicblock(i.next))>>)
  BY <1>4 DEF Linking, Goes, Br, Proper, Terminators
<1>9. Linking(StorePcReturn(i.next), {}, WaysOut(l)) /\ Proper(StorePcReturn(i.next))
  BY <1>3 DEF Linking, Goes, Br, Proper, Terminators, StorePcReturn
<1>10. Linking(<<>>, {}, WaysOut(l))
  BY DEF Linking
<1>11. Linking(Then(i), {}, WaysOut(l)) /\ (mode # "step_bb" => Proper(Then(i)))
  BY <1>8, <1>9, <1>10 DEF Then, Given
<1> QED BY <1>3, <1>6, <1>7, <1>11

LEMMA TranslatesOwned ==
  ASSUME NEW f, NEW l, NEW a \in Addr, NEW t, NEW z, NEW c, Translates(f, l, a, t, z, c)
  PROVE  DOMAIN f \subseteq Owned(l) /\ Label(l) \in DOMAIN f
BY DEF Translates, Owned

LEMMA LastShape ==
  ASSUME Given, NEW l, NEW a, InPlace(l, a), Last(l, a)
  PROVE  Shape(Rest(l, a), l)
<1> DEFINE i == conf.prog[a]
           t == To(l, i)
           z == Untaken(i)
           c == Then(i)
           g == Rest(l, a)
<1>1. conf \in Configs /\ l \in Mem /\ a \in Mem /\ i \in Insn /\ l \in Addr /\ a \in Addr
  BY ConfOK, PlacesInMem DEF Given, InPlace
<1>2. t \in Names /\ z \in Names /\ c \in Seq(Items)
  BY <1>1, Exits
<1>3. /\ t \in WaysOut(l) /\ z \in WaysOut(l) /\ bb_trap \in WaysOut(l)
      /\ Linking(c, {}, WaysOut(l)) /\ (mode # "step_bb" => Proper(c))
  BY <1>1, ExitsLead
<1>4. Translates(g, l, a, t, z, c)
  BY LastInserts
<1> HIDE DEF t, z, c, g, i
<1>5. Typed(g)
  BY <1>1, <1>2, <1>4, TranslatesTyped
<1>6. DOMAIN g \subseteq Owned(l) /\ Label(l) \in DOMAIN g
  BY <1>1, <1>4, TranslatesOwned
<1>7. Links(g, WaysOut(l)) /\ (mode # "step_bb" => \A b \in DOMAIN g : Proper(g[b]))
  BY <1>1, <1>2, <1>3, <1>4, TranslatesLinks
<1> QED BY <1>5, <1>6, <1>7 DEF Shape, g

LEMMA GoingOnShape ==
  ASSUME Given, NEW l, NEW a, InPlace(l, a), ~Last(l, a),
         Shape(Rest(l, conf.prog[a].next), l)
  PROVE  Shape(Rest(l, a), l)
<1> DEFINE i == conf.prog[a]
           t == To(l, i)
           z == Untaken(i)
           h == Inserts(l, a)
           r == Rest(l, i.next)
           g == Rest(l, a)
           W == WaysOut(l)
<1>1. conf \in Configs /\ l \in Mem /\ a \in Mem /\ i \in Insn /\ l \in Addr /\ a \in Addr
  BY ConfOK, PlacesInMem DEF Given, InPlace
<1>2. t \in Names /\ z \in Names /\ <<>> \in Seq(Items)
  BY <1>1, Exits
<1>3. t \in W /\ z \in W /\ bb_trap \in W /\ Linking(<<>>, {}, W)
  BY <1>1, ExitsLead DEF Linking
<1>4. Translates(h, l, a, t, z, <<>>)
  BY <1>1, OneInserts
<1>5. g = Emit(h, r) /\ GoesOn(i) /\ mode # "step" /\ (mode = "all" => ~Has(i, "CONDITIONAL"))
  BY OthersGoOn
<1>6. Shape(r, l) /\ Instr(a) \in Items
  BY <1>1 DEF Instr, Items
<1>7. GoesOn(i) => Taking(a, t, <<>>) = <<Instr(a)>>
  <2> HIDE DEF t
  <2> QED BY <1>1, <1>2, TakingTyped
<1>8. g = Rest(l, a)
  OBVIOUS
<1>9. ~Has(i, "CONDITIONAL") => DOMAIN h = {Label(l)} /\ h[Label(l)] = Taking(a, t, <<>>)
  BY <1>4 DEF Translates
<1> HIDE DEF t, z, h, r, g, W, i
<1>10. Typed(h) /\ DOMAIN h \subseteq Owned(l) /\ Links(h, W)
  BY <1>1, <1>2, <1>3, <1>4, TranslatesTyped, TranslatesOwned, TranslatesLinks
<1>11. Typed(r) /\ DOMAIN r \subseteq Owned(l) /\ Label(l) \in DOMAIN r /\ Links(r, W)
  BY <1>6 DEF Shape, W
<1>12. Typed(g) /\ Appends(g, h, r) /\ Links(g, W)
  BY <1>5, <1>10, <1>11, EmitTyped, EmitLinks
<1>13. DOMAIN g \subseteq Owned(l) /\ Label(l) \in DOMAIN g
  BY <1>10, <1>11, <1>12 DEF Appends
<1>14. ASSUME mode # "step_bb", NEW b \in DOMAIN g PROVE Proper(g[b])
  <2>1. mode = "all" /\ \A x \in DOMAIN r : Proper(r[x])
    BY <1>5, <1>6, <1>14 DEF Given, Shape
  <2>2. DOMAIN h = {Label(l)} /\ h[Label(l)] = <<Instr(a)>>
    BY <1>5, <1>7, <1>9, <2>1
  <2>3. CASE b # Label(l)
    BY <1>12, <2>1, <2>2, <2>3 DEF Appends
  <2>4. CASE b = Label(l)
    <3>1. b \in DOMAIN r /\ b \in DOMAIN h
      BY <1>11, <2>2, <2>4
    <3>5. g[b] = h[b] \o r[b]
      BY <1>12, <3>1, Zenon DEF Appends
    <3>6. g[b] = <<Instr(a)>> \o r[b]
      BY <2>2, <2>4, <3>5
    <3>2. r[b] \in Seq(Items) /\ Proper(r[b])
      BY <1>11, <2>1, <3>1 DEF Typed
    <3>3. Taking(a, t, r[b]) = <<Instr(a)>> \o r[b]
      BY <1>1, <1>2, <1>5, <3>2, TakingTyped DEF i
    <3>4. Proper(Taking(a, t, r[b]))
      BY <1>1, <1>2, <3>2, TakingProper
    <3> QED BY <3>6, <3>3, <3>4
  <2> QED BY <2>3, <2>4
<1>15. Shape(g, l)
  BY <1>12, <1>13, <1>14 DEF Shape, W
<1> QED BY <1>8, <1>15

LEMMA LineShape ==
  ASSUME Given, NEW l
  PROVE  \A a : InPlace(l, a) => Shape(Rest(l, a), l)
<1> DEFINE T == {a \in Code : InPlace(l, a) /\ ~Shape(Rest(l, a), l)}
<1>1. T = {}
  <2>1. SUFFICES ASSUME T # {} PROVE FALSE
    OBVIOUS
  <2>2. PICK a \in T : conf.prog[a].next \notin T
    <3> HIDE DEF T
    <3>1. T \in SUBSET Code
      BY DEF T
    <3> QED BY <2>1, <3>1, ConfOK DEF Given
  <2>3. CASE Last(l, a)
    BY <2>2, <2>3, LastShape
  <2>4. CASE ~Last(l, a)
    <3>1. InPlace(l, conf.prog[a].next) /\ conf.prog[a].next \in Code
      BY <2>2, <2>4, OthersGoOn
    <3>2. Shape(Rest(l, conf.prog[a].next), l)
      BY <2>2, <3>1
    <3> QED BY <2>2, <2>4, <3>2, GoingOnShape
  <2> QED BY <2>3, <2>4
<1>2. ASSUME NEW a, InPlace(l, a) PROVE Shape(Rest(l, a), l)
  <2>1. CASE Last(l, a)
    BY <1>2, <2>1, LastShape
  <2>2. CASE ~Last(l, a)
    <3>1. InPlace(l, conf.prog[a].next) /\ conf.prog[a].next \in Code
      BY <1>2, <2>2, OthersGoOn
    <3>2. Shape(Rest(l, conf.prog[a].next), l)
      BY <1>1, <3>1
    <3> QED BY <1>2, <2>2, <3>2, GoingOnShape
  <2> QED BY <2>1, <2>2
<1> QED BY <1>2

--------------------------------------------------------------------------------
(***************************************************************************)
(* What the line of l has from a on, instruction by instruction.           *)
(***************************************************************************)
CarriesOn(l, a, b) ==
    /\ Rest(l, a)[Label(l)] = <<Instr(a)>> \o Rest(l, b)[Label(l)]
    /\ InPlace(l, b)
    /\ \A x \in DOMAIN Rest(l, b) \ {Label(l)} : x \in DOMAIN Rest(l, a) /\ Rest(l, a)[x] = Rest(l, b)[x]

Tests(l, a, i) ==
    /\ \E r \in Seq(Items) :
         Rest(l, a)[Label(l)] =
            <<Cond(a, CondBlock(l, a), IF Has(i, "DELAY_SLOT") THEN DelayBlock(l, a) ELSE Untaken(i))>> \o r
    /\ CondBlock(l, a) \in DOMAIN Rest(l, a)
    /\ Rest(l, a)[CondBlock(l, a)] = Taking(a, To(l, i), Then(i))
    /\ Has(i, "DELAY_SLOT") =>
         /\ DelayBlock(l, a) \in DOMAIN Rest(l, a)
         /\ Rest(l, a)[DelayBlock(l, a)] = <<Instr(i.slot), Br(Untaken(i))>>

Unfolds(l, a, i) ==
    IF Has(i, "CONDITIONAL") THEN Tests(l, a, i)
    ELSE \/ Rest(l, a)[Label(l)] = Taking(a, To(l, i), Then(i)) /\ Last(l, a)
         \/ GoesOn(i) /\ mode # "step" /\ CarriesOn(l, a, i.next)

LEMMA Fresh ==
  ASSUME Given, NEW l, NEW a, InPlace(l, a), ~Last(l, a)
  PROVE  CondBlock(l, a) \notin DOMAIN Rest(l, conf.prog[a].next)
<1> DEFINE T == {x \in Code : InPlace(l, x) /\ CondBlock(l, a) \in DOMAIN Rest(l, x)}
<1>1. SUFFICES ASSUME T # {} PROVE conf.prog[a].next \notin T
  BY OthersGoOn
<1>2. PICK x \in T : conf.prog[x].next \notin T
  <2> HIDE DEF T
  <2>1. T \in SUBSET Code
    BY DEF T
  <2> QED BY <1>1, <2>1, ConfOK DEF Given
<1>3. conf \in Configs /\ l \in Mem /\ x \in Mem /\ conf.prog[x] \in Insn /\ l \in Addr /\ InPlace(l, x)
  BY <1>2, ConfOK, PlacesInMem DEF Given, InPlace
<1>4. CondBlock(l, a) \in {Label(l), CondBlock(l, x), DelayBlock(l, x)} => a = x
  BY DEF Label, CondBlock, DelayBlock
<1>5. CASE Last(l, x)
  <2>1. Translates(Rest(l, x), l, x, To(l, conf.prog[x]), Untaken(conf.prog[x]), Then(conf.prog[x]))
    BY <1>3, <1>5, LastInserts
  <2>2. DOMAIN Rest(l, x) \subseteq {Label(l), CondBlock(l, x), DelayBlock(l, x)}
    BY <2>1 DEF Translates
  <2> QED BY <1>2, <1>4, <1>5, <2>2
<1>6. CASE ~Last(l, x)
  <2>1. /\ Rest(l, x) = Emit(Inserts(l, x), Rest(l, conf.prog[x].next))
        /\ InPlace(l, conf.prog[x].next) /\ conf.prog[x].next \in Code
    BY <1>3, <1>6, OthersGoOn
  <2>2. CondBlock(l, a) \in DOMAIN Inserts(l, x)
    BY <1>2, <2>1 DEF Emit
  <2>3. Translates(Inserts(l, x), l, x, To(l, conf.prog[x]), Untaken(conf.prog[x]), <<>>)
    BY <1>3, OneInserts
  <2>4. DOMAIN Inserts(l, x) \subseteq {Label(l), CondBlock(l, x), DelayBlock(l, x)}
    BY <2>3 DEF Translates
  <2> QED BY <1>2, <1>4, <2>2, <2>4
<1> QED BY <1>5, <1>6

LEMMA Unfolding ==
  ASSUME Given, NEW l, NEW a, InPlace(l, a)
  PROVE  Unfolds(l, a, conf.prog[a])
<1> DEFINE i == conf.prog[a]
           t == To(l, i)
           z == Untaken(i)
           g == Rest(l, a)
           x == Cond(a, CondBlock(l, a), IF Has(i, "DELAY_SLOT") THEN DelayBlock(l, a) ELSE z)
<1>1. conf \in Configs /\ l \in Mem /\ a \in Mem /\ i \in Insn /\ l \in Addr /\ a \in Addr
  BY ConfOK, PlacesInMem DEF Given, InPlace
<1>2. t \in Names /\ z \in Names /\ <<>> \in Seq(Items)
  BY <1>1, Exits
<1>3. x \in Items
  BY <1>1, <1>2, ConfOK, Naming, Inserting
<1>4. CASE Last(l, a)
  <2>1. Translates(g, l, a, t, z, Then(i))
    BY <1>4, LastInserts
  <2>2. CASE ~Has(i, "CONDITIONAL")
    BY <1>4, <2>1, <2>2 DEF Translates, Unfolds
  <2>3. CASE Has(i, "CONDITIONAL")
    <3>1. g[Label(l)] = <<x>>
      BY <2>1, <2>3 DEF Translates
    <3>2. <<x>> = <<x>> \o <<>>
      BY <1>3
    <3>3. \E r \in Seq(Items) : g[Label(l)] = <<x>> \o r
      <4> HIDE DEF x, g
      <4>1. g[Label(l)] = <<x>> \o <<>>
        BY <3>1, <3>2
      <4> QED BY <1>2, <4>1
    <3>4. /\ CondBlock(l, a) \in DOMAIN g /\ g[CondBlock(l, a)] = Taking(a, t, Then(i))
          /\ Has(i, "DELAY_SLOT") => /\ DelayBlock(l, a) \in DOMAIN g
                                     /\ g[DelayBlock(l, a)] = <<Instr(i.slot), Br(z)>>
      BY <2>1, <2>3 DEF Translates
    <3> QED BY <2>3, <3>3, <3>4 DEF Unfolds, Tests
  <2> QED BY <2>2, <2>3
<1>5. CASE ~Last(l, a)
  <2> DEFINE h == Inserts(l, a)
             r == Rest(l, i.next)
  <2>1. /\ g = Emit(h, r) /\ InPlace(l, i.next) /\ GoesOn(i) /\ mode # "step"
        /\ mode = "all" => ~Has(i, "CONDITIONAL")
    BY <1>5, OthersGoOn
  <2>2. Translates(h, l, a, t, z, <<>>)
    BY <1>1, OneInserts
  <2>3. Typed(r) /\ Label(l) \in DOMAIN r /\ CondBlock(l, a) \notin DOMAIN r
    BY <1>5, <2>1, LineShape, Fresh DEF Shape
  <2>4. Taking(a, t, <<>>) = <<Instr(a)>>
    <3> HIDE DEF t
    <3> QED BY <1>1, <1>2, <2>1, TakingTyped
  <2>5. Typed(h)
    <3> HIDE DEF t, z, h
    <3> QED BY <1>1, <1>2, <2>2, TranslatesTyped
  <2>6. Appends(g, h, r)
    <3> HIDE DEF g, h, r
    <3> QED BY <2>1, <2>3, <2>5, EmitTyped
  <2>7. CASE ~Has(i, "CONDITIONAL")
    <3>1. DOMAIN h = {Label(l)} /\ h[Label(l)] = <<Instr(a)>>
      BY <2>2, <2>4, <2>7 DEF Translates
    <3>2. CarriesOn(l, a, i.next)
      BY <2>1, <2>3, <2>6, <3>1 DEF Appends, CarriesOn
    <3> QED BY <2>1, <2>7, <3>2 DEF Unfolds
  <2>8. CASE Has(i, "CONDITIONAL")
    <3>1. mode = "step_bb" /\ ~Has(i, "DELAY_SLOT")
      BY <2>1, <2>8 DEF Given, GoesOn
    <3>2. /\ CondBlock(l, a) \in DOMAIN h /\ Label(l) \in DOMAIN h
          /\ h[CondBlock(l, a)] = Taking(a, t, <<>>) /\ h[Label(l)] = <<x>>
      BY <2>2, <2>8, <3>1 DEF Translates
    <3>3. Then(i) = <<>>
      BY <3>1 DEF Then
    <3>4. g[Label(l)] = <<x>> \o r[Label(l)] /\ r[Label(l)] \in Seq(Items)
      BY <2>3, <2>6, <3>2 DEF Appends, Typed
    <3>5. CondBlock(l, a) \in DOMAIN g /\ g[CondBlock(l, a)] = Taking(a, t, Then(i))
      BY <2>3, <2>6, <3>2, <3>3 DEF Appends
    <3> QED BY <2>8, <3>1, <3>4, <3>5 DEF Unfolds, Tests
  <2> QED BY <2>7, <2>8
<1> QED BY <1>4, <1>5

--------------------------------------------------------------------------------
(***************************************************************************)
(* The functions.  e is the address a function is made for when stepping.  *)
(***************************************************************************)
Function(e) ==
    CASE mode = "all" -> cpu_translate_all
      [] mode = "step" -> cpu_translate_singlestep(e)
      [] mode = "step_bb" -> cpu_translate_singlestep_bb(e)

Has_Lines(f, e) ==
    \A l \in Entrances(e) : \A b \in DOMAIN Rest(l, l) : b \in DOMAIN f /\ f[b] = Rest(l, l)[b]

\* The blocks of the lines, before they are linked.
Body(g, e) ==
    /\ Typed(g) /\ Links(g, WaysOut(e)) /\ Has_Lines(g, e)
    /\ \A l \in Entrances(e) : Label(l) \in DOMAIN g
    /\ \A b \in DOMAIN g : b[1] \in {"label", "cond", "delay"}
    /\ mode # "step_bb" => \A b \in DOMAIN g : Proper(g[b])

Built(f, e) ==
    /\ mode # "all" => e \in Mem
    /\ bb_ret \in DOMAIN f /\ f[bb_ret] = <<Return("NOERR")>>
    /\ bb_trap \in DOMAIN f /\ f[bb_trap] = <<Return("TRAP")>>
    /\ mode = "all" => Dispatch \in DOMAIN f /\ f[Dispatch] = <<[op |-> "switch"]>>
    /\ \A a \in Addr : External(a) \in DOMAIN f => f[External(a)] = StorePcReturn(a)
    /\ Has_Lines(f, e)
    /\ \A l \in Entrances(e) : Label(l) \in DOMAIN f
    /\ Typed(f) /\ Links(f, DOMAIN f)
    /\ mode # "step_bb" => \A b \in DOMAIN f : Proper(f[b])

LEMMA OwnedNames ==
  ASSUME NEW l, NEW b \in Owned(l)
  PROVE  b[1] \in {"label", "cond", "delay"} /\ b[2] = l
BY DEF Owned, Label, CondBlock, DelayBlock

LEMMA LinesBody ==
  ASSUME Given, mode = "all", NEW e
  PROVE  Body(Lines, e)
<1> DEFINE W == WaysOut(e)
           D == UNION {DOMAIN Line(l)[l] : l \in Blocks}
<1>1. ASSUME NEW l \in Blocks
      PROVE  /\ Shape(Rest(l, l), l) /\ Rest(l, l) = Line(l)[l] /\ WaysOut(l) = W
             /\ \A b \in DOMAIN Rest(l, l) : b[2] = l /\ b[1] \in {"label", "cond", "delay"}
  <2>1. InPlace(l, l)
    BY PlacesInMem DEF InPlace, Places, Given
  <2>2. Shape(Rest(l, l), l)
    BY <2>1, LineShape
  <2>3. \A b \in DOMAIN Rest(l, l) : b[2] = l /\ b[1] \in {"label", "cond", "delay"}
    BY <2>2, OwnedNames DEF Shape
  <2> QED BY <2>2, <2>3 DEF Rest, WaysOut, Entrances
<1>2. DOMAIN Lines = D
  BY DEF Lines
<1>3. ASSUME NEW l \in Blocks, NEW b \in DOMAIN Rest(l, l)
      PROVE  b \in DOMAIN Lines /\ Lines[b] = Rest(l, l)[b]
  <2>1. b \in D /\ b[2] = l /\ Rest(l, l) = Line(l)[l]
    BY <1>1, <1>3
  <2> QED BY <2>1 DEF Lines
<1>4. ASSUME NEW b \in DOMAIN Lines PROVE \E l \in Blocks : b \in DOMAIN Rest(l, l)
  BY <1>1, <1>2, <1>4
<1>5. Has_Lines(Lines, e)
  BY <1>3 DEF Has_Lines, Entrances
<1>6. \A l \in Entrances(e) : Label(l) \in DOMAIN Lines
  BY <1>1, <1>3 DEF Entrances, Shape
<1>7. ASSUME NEW b \in DOMAIN Lines
      PROVE  /\ b \in Names /\ Lines[b] \in Seq(Items) /\ Proper(Lines[b])
             /\ b[1] \in {"label", "cond", "delay"} /\ Linking(Lines[b], DOMAIN Lines, W)
  <2>1. PICK l \in Blocks : b \in DOMAIN Rest(l, l)
    BY <1>4
  <2>2. Lines[b] = Rest(l, l)[b]
    BY <1>3, <2>1
  <2>3. /\ b \in Names /\ Rest(l, l)[b] \in Seq(Items) /\ Proper(Rest(l, l)[b])
        /\ b[1] \in {"label", "cond", "delay"}
    BY <1>1, <2>1 DEF Shape, Typed
  <2>4. Linking(Rest(l, l)[b], DOMAIN Rest(l, l), W)
    BY <1>1, <2>1 DEF Shape, Links
  <2>5. DOMAIN Rest(l, l) \subseteq DOMAIN Lines
    BY <1>3
  <2> HIDE DEF W
  <2>6. Linking(Rest(l, l)[b], DOMAIN Lines, W)
    BY <2>4, <2>5 DEF Linking, Goes
  <2> QED BY <2>2, <2>3, <2>6
<1> QED BY <1>5, <1>6, <1>7 DEF Body, Typed, Links

LEMMA StepBody ==
  ASSUME Given, mode # "all", NEW e \in Mem
  PROVE  Body(Rest(e, e), e)
<1>1. InPlace(e, e)
  BY DEF InPlace, Places
<1>2. Shape(Rest(e, e), e)
  BY <1>1, LineShape
<1>3. Has_Lines(Rest(e, e), e)
  BY DEF Has_Lines, Entrances
<1>4. \A b \in DOMAIN Rest(e, e) : b[1] \in {"label", "cond", "delay"}
  BY <1>2, OwnedNames DEF Shape
<1>5. \A l \in Entrances(e) : Label(l) \in DOMAIN Rest(e, e)
  BY <1>2 DEF Shape, Entrances
<1> QED BY <1>2, <1>3, <1>4, <1>5 DEF Body, Shape

LEMMA DistinctNames ==
  /\ bb_ret # bb_trap /\ bb_ret # Dispatch /\ bb_trap # Dispatch
  /\ \A a : External(a) \notin {bb_ret, bb_trap, Dispatch} /\ External(a)[2] = a
  /\ \A b : b[1] \in {"label", "cond", "delay"} =>
        b \notin {bb_ret, bb_trap, Dispatch} /\ \A a : b # External(a)
BY DEF bb_ret, bb_trap, Dispatch, External

LEMMA LinkedBlocks ==
  ASSUME NEW g, \A b \in DOMAIN g : b[1] \in {"label", "cond", "delay"}
  PROVE  /\ DOMAIN Linked(g) = {bb_ret, bb_trap} \cup DOMAIN g \cup {External(a) : a \in Looked(g)}
         /\ Linked(g)[bb_ret] = <<Return("NOERR")>> /\ Linked(g)[bb_trap] = <<Return("TRAP")>>
         /\ \A b \in DOMAIN g : Linked(g)[b] = g[b]
         /\ \A a \in Looked(g) : Linked(g)[External(a)] = StorePcReturn(a)
<1> DEFINE x == [b \in {External(a) : a \in Looked(g)} |-> StorePcReturn(b[2])]
           y == Joined(g, x)
<1>1. /\ DOMAIN Ret = {bb_ret, bb_trap}
      /\ Ret[bb_ret] = <<Return("NOERR")>> /\ Ret[bb_trap] = <<Return("TRAP")>>
  BY DistinctNames DEF Ret, Joined, Only
<1>2. /\ DOMAIN x = {External(a) : a \in Looked(g)}
      /\ \A a \in Looked(g) : x[External(a)] = StorePcReturn(a)
  BY DistinctNames
<1> HIDE DEF x
<1>3. /\ DOMAIN y = DOMAIN g \cup DOMAIN x /\ \A b \in DOMAIN g : y[b] = g[b]
      /\ \A b \in DOMAIN x : b \notin DOMAIN g => y[b] = x[b]
  BY DEF Joined
<1>4. Linked(g) = Joined(Ret, y)
  BY DEF Linked, x
<1> HIDE DEF y
<1>5. /\ DOMAIN Linked(g) = DOMAIN Ret \cup DOMAIN y
      /\ \A b \in DOMAIN Ret : Linked(g)[b] = Ret[b]
      /\ \A b \in DOMAIN y : b \notin DOMAIN Ret => Linked(g)[b] = y[b]
  BY <1>4 DEF Joined
<1>6. \A b \in DOMAIN g : b \notin DOMAIN Ret
  BY <1>1, DistinctNames
<1>7. \A a \in Looked(g) : External(a) \notin DOMAIN g /\ External(a) \notin DOMAIN Ret
  BY <1>1, DistinctNames
<1>8. DOMAIN Linked(g) = {bb_ret, bb_trap} \cup DOMAIN g \cup {External(a) : a \in Looked(g)}
  BY <1>1, <1>2, <1>3, <1>5
<1>9. \A b \in DOMAIN g : Linked(g)[b] = g[b]
  BY <1>3, <1>5, <1>6
<1>10. \A a \in Looked(g) : Linked(g)[External(a)] = StorePcReturn(a)
  BY <1>2, <1>3, <1>5, <1>7
<1> QED BY <1>1, <1>5, <1>8, <1>9, <1>10

\* f is the linked g, with the dispatch block if there is one.
Whole(f, g) ==
    /\ DOMAIN f = {bb_ret, bb_trap} \cup DOMAIN g \cup {External(a) : a \in Looked(g)}
                  \cup (IF mode = "all" THEN {Dispatch} ELSE {})
    /\ f[bb_ret] = <<Return("NOERR")>> /\ f[bb_trap] = <<Return("TRAP")>>
    /\ \A b \in DOMAIN g : f[b] = g[b]
    /\ \A a \in Looked(g) : f[External(a)] = StorePcReturn(a)
    /\ mode = "all" => f[Dispatch] = <<[op |-> "switch"]>>

LEMMA FunctionWhole ==
  ASSUME Given, NEW e, mode # "all" => e \in Mem
  PROVE  \E g : Body(g, e) /\ Whole(Function(e), g)
<1>1. CASE mode = "all"
  <2>1. Body(Lines, e)
    BY <1>1, LinesBody
  <2>2. \A b \in DOMAIN Lines : b[1] \in {"label", "cond", "delay"}
    BY <2>1 DEF Body
  <2> DEFINE f == Function(e)
             o == Only(Dispatch, <<[op |-> "switch"]>>)
             g == Lines
             k == Linked(g)
  <2>3. f = Joined(o, k)
    BY <1>1 DEF Function, cpu_translate_all
  <2>4. DOMAIN o = {Dispatch} /\ o[Dispatch] = <<[op |-> "switch"]>>
    BY DEF Only
  <2> HIDE DEF g, o, f
  <2>5. /\ DOMAIN k = {bb_ret, bb_trap} \cup DOMAIN g \cup {External(a) : a \in Looked(g)}
        /\ k[bb_ret] = <<Return("NOERR")>> /\ k[bb_trap] = <<Return("TRAP")>>
        /\ \A b \in DOMAIN g : k[b] = g[b]
        /\ \A a \in Looked(g) : k[External(a)] = StorePcReturn(a)
    BY <2>2, LinkedBlocks DEF g
  <2> HIDE DEF k
  <2>6. /\ DOMAIN f = {Dispatch} \cup DOMAIN k /\ f[Dispatch] = <<[op |-> "switch"]>>
        /\ \A b \in DOMAIN k : b # Dispatch => f[b] = k[b]
    BY <2>3, <2>4 DEF Joined
  <2>7. /\ \A b \in DOMAIN g : f[b] = g[b]
        /\ \A a \in Looked(g) : f[External(a)] = StorePcReturn(a)
        /\ f[bb_ret] = <<Return("NOERR")>> /\ f[bb_trap] = <<Return("TRAP")>>
    BY <2>2, <2>5, <2>6, DistinctNames DEF g
  <2>8. Whole(f, g)
    BY <1>1, <2>5, <2>6, <2>7 DEF Whole
  <2> QED BY <2>1, <2>8 DEF f, g
<1>2. CASE mode # "all"
  <2>1. Body(Rest(e, e), e)
    BY <1>2, StepBody
  <2>2. Function(e) = Linked(Rest(e, e))
    BY <1>2 DEF Given, Function, Rest, cpu_translate_singlestep, cpu_translate_singlestep_bb
  <2>3. \A b \in DOMAIN Rest(e, e) : b[1] \in {"label", "cond", "delay"}
    BY <2>1 DEF Body
  <2>4. Whole(Linked(Rest(e, e)), Rest(e, e))
    BY <1>2, <2>3, LinkedBlocks DEF Whole
  <2> QED BY <2>1, <2>2, <2>4
<1> QED BY <1>1, <1>2

LEMMA WholeBuilt ==
  ASSUME Given, NEW e, mode # "all" => e \in Mem, NEW f, NEW g, Body(g, e), Whole(f, g)
  PROVE  Built(f, e)
<1> DEFINE D == DOMAIN f
           W == WaysOut(e)
           Kept(b) == Linking(f[b], D, D) /\ Proper(f[b]) /\ f[b] \in Seq(Items) /\ b \in Names
<1>1. /\ bb_ret \in D /\ bb_trap \in D /\ DOMAIN g \subseteq D
      /\ \A a \in Looked(g) : External(a) \in D
      /\ mode = "all" => Dispatch \in D
      /\ \A b \in D : \/ b \in DOMAIN g \/ b = bb_ret \/ b = bb_trap
                      \/ b = Dispatch /\ mode = "all"
                      \/ \E a \in Looked(g) : b = External(a)
  BY DEF Whole
<1>2. \A a \in Addr : External(a) \in D => a \in Looked(g)
  <2>1. \A a \in Addr : External(a) \notin DOMAIN g
    BY DistinctNames DEF Body
  <2>2. \A a, c : External(a) = External(c) => a = c
    BY DEF External
  <2> QED BY <1>1, <2>1, <2>2, DistinctNames
<1>3. Looked(g) \subseteq Addr /\ NoPc \in Addr
  BY AddrAssumption DEF Looked
<1>4. ASSUME NEW b \in DOMAIN g PROVE Linking(f[b], D, D)
  <2>1. Linking(g[b], DOMAIN g, W) /\ f[b] = g[b] /\ g[b] \in Seq(Items)
    BY DEF Body, Links, Whole, Typed
  <2>2. SUFFICES ASSUME NEW n \in DOMAIN g[b] PROVE Goes(g[b][n], D, D)
    BY <2>1 DEF Linking
  <2>3. Goes(g[b][n], DOMAIN g, W)
    BY <2>1 DEF Linking
  <2>4. ASSUME NEW x, x \in W, \A a \in Addr : x = External(a) => a \in Looked(g) PROVE x \in D
    <3>1. \A l \in Entrances(e) : Label(l) \in D
      BY <1>1 DEF Body
    <3> HIDE DEF D
    <3> QED BY <1>1, <2>4, <3>1 DEF WaysOut
  <2>5. ASSUME g[b][n].op = "br" PROVE g[b][n].to \in D
    <3>1. \A a \in Addr : g[b][n].to = External(a) => a \in Looked(g)
      BY <2>5 DEF Looked
    <3> QED BY <2>3, <2>4, <2>5, <3>1 DEF Goes
  <2>6. ASSUME g[b][n].op = "cond" PROVE g[b][n].yes \in D /\ g[b][n].no \in D
    <3>1. \A a \in Addr : g[b][n].no = External(a) => a \in Looked(g)
      BY <2>6 DEF Looked
    <3>2. g[b][n].yes \in D /\ (g[b][n].no \in D \/ g[b][n].no \in W)
      BY <1>1, <2>3, <2>6 DEF Goes
    <3> QED BY <2>4, <3>1, <3>2
  <2> QED BY <2>5, <2>6 DEF Goes
<1>5. ASSUME NEW a \in Looked(g) PROVE Kept(External(a))
  <2>1. f[External(a)] = StorePcReturn(a) /\ a \in Addr
    BY <1>3 DEF Whole
  <2>2. StorePcReturn(a) \in Seq(Items) /\ External(a) \in Names
    BY <1>3, <2>1, Storing, Naming
  <2>3. Linking(StorePcReturn(a), D, D) /\ Proper(StorePcReturn(a))
    BY <1>1 DEF Linking, Goes, Br, Proper, Terminators, StorePcReturn
  <2> QED BY <2>1, <2>2, <2>3
<1>6. Kept(bb_ret) /\ Kept(bb_trap)
  <2>1. f[bb_ret] = <<Return("NOERR")>> /\ f[bb_trap] = <<Return("TRAP")>>
    BY DEF Whole
  <2>2. Return("NOERR") \in Items /\ Return("TRAP") \in Items
    BY DEF Return, Items
  <2>3. <<Return("NOERR")>> \in Seq(Items) /\ <<Return("TRAP")>> \in Seq(Items)
    BY <2>2
  <2>4. bb_ret \in Names /\ bb_trap \in Names
    BY <1>3, Naming
  <2>5. \A c : Linking(<<Return(c)>>, D, D) /\ Proper(<<Return(c)>>)
    BY DEF Linking, Goes, Return, Proper, Terminators
  <2> QED BY <2>1, <2>3, <2>4, <2>5
<1>7. ASSUME mode = "all" PROVE Kept(Dispatch)
  <2>1. f[Dispatch] = <<[op |-> "switch"]>> /\ Dispatch \in Names
    BY <1>3, <1>7, Naming DEF Whole
  <2>2. [op |-> "switch"] \in Items
    BY DEF Items
  <2>3. <<[op |-> "switch"]>> \in Seq(Items)
    BY <2>2
  <2>4. Linking(<<[op |-> "switch"]>>, D, D) /\ Proper(<<[op |-> "switch"]>>)
    BY DEF Linking, Goes, Proper, Terminators
  <2> QED BY <2>1, <2>3, <2>4
<1>8. ASSUME NEW b \in DOMAIN g
      PROVE  /\ Linking(f[b], D, D) /\ f[b] \in Seq(Items) /\ b \in Names
             /\ mode # "step_bb" => Proper(f[b])
  BY <1>4 DEF Body, Whole, Typed
<1>9. ASSUME NEW b \in D
      PROVE  /\ Linking(f[b], D, D) /\ f[b] \in Seq(Items) /\ b \in Names
             /\ mode # "step_bb" => Proper(f[b])
  BY <1>1, <1>5, <1>6, <1>7, <1>8
<1>10. Typed(f) /\ Links(f, D) /\ (mode # "step_bb" => \A b \in DOMAIN f : Proper(f[b]))
  BY <1>9 DEF Typed, Links
<1>11. Has_Lines(f, e) /\ \A l \in Entrances(e) : Label(l) \in DOMAIN f
  BY <1>1 DEF Body, Has_Lines, Whole
<1>12. \A a \in Addr : External(a) \in DOMAIN f => f[External(a)] = StorePcReturn(a)
  BY <1>2 DEF Whole
<1> QED BY <1>1, <1>10, <1>11, <1>12 DEF Built, Whole

LEMMA FunctionBuilt ==
  ASSUME Given, NEW e, mode # "all" => e \in Mem
  PROVE  Built(Function(e), e)
BY FunctionWhole, WholeBuilt

--------------------------------------------------------------------------------
(***************************************************************************)
(* What is left of a block: from position n on, s is r.                    *)
(***************************************************************************)
OnFrom(s, n, r) ==
    /\ n \in Nat \ {0} /\ Len(s) = n - 1 + Len(r)
    /\ \A k \in 1..Len(r) : s[n - 1 + k] = r[k]

LEMMA AllOfIt ==
  ASSUME NEW s \in Seq(Items)
  PROVE  OnFrom(s, 1, s)
BY DEF OnFrom

LEMMA OneOn ==
  ASSUME NEW s \in Seq(Items), NEW n, NEW x \in Items, NEW r \in Seq(Items),
         OnFrom(s, n, <<x>> \o r)
  PROVE  n \in DOMAIN s /\ s[n] = x /\ OnFrom(s, n + 1, r)
<1> DEFINE q == <<x>> \o r
<1>1. /\ q \in Seq(Items) /\ Len(q) = Len(r) + 1 /\ q[1] = x
      /\ \A k \in 1..Len(r) : q[k + 1] = r[k]
  BY Prepended
<1> HIDE DEF q
<1>2. /\ n \in Nat \ {0} /\ Len(s) = n - 1 + Len(q) /\ \A k \in 1..Len(q) : s[n - 1 + k] = q[k]
  BY DEF OnFrom, q
<1>3. Len(r) \in Nat /\ Len(s) \in Nat /\ DOMAIN s = 1..Len(s)
  OBVIOUS
<1>4. n \in DOMAIN s /\ s[n] = x
  BY <1>1, <1>2, <1>3
<1>5. Len(s) = (n + 1) - 1 + Len(r) /\ n + 1 \in Nat \ {0}
  BY <1>1, <1>2, <1>3
<1>6. ASSUME NEW k \in 1..Len(r) PROVE s[(n + 1) - 1 + k] = r[k]
  <2>1. k + 1 \in 1..Len(q) /\ q[k + 1] = r[k]
    BY <1>1, <1>3
  <2>2. s[n - 1 + (k + 1)] = r[k]
    BY <1>2, <2>1
  <2>3. n - 1 + (k + 1) = (n + 1) - 1 + k
    BY <1>2
  <2> QED BY <2>2, <2>3
<1> QED BY <1>4, <1>5, <1>6 DEF OnFrom

LEMMA NothingOn ==
  ASSUME NEW s \in Seq(Items), NEW n, NEW r \in Seq(Items), OnFrom(s, n, r)
  PROVE  n \notin DOMAIN s => r = <<>>
BY DEF OnFrom

LEMMA Triple ==
  ASSUME NEW x, NEW y, NEW z
  PROVE  <<x>> \o <<y, z>> = <<x, y, z>>
<1> DEFINE S == {x, y, z}
<1>1. <<x>> \in Seq(S) /\ <<y, z>> \in Seq(S) /\ <<x, y, z>> \in Seq(S)
  OBVIOUS
<1>2. Len(<<x>> \o <<y, z>>) = 3 /\ Len(<<x, y, z>>) = 3
  BY <1>1
<1>3. /\ (<<x>> \o <<y, z>>)[1] = x /\ (<<x>> \o <<y, z>>)[2] = y /\ (<<x>> \o <<y, z>>)[3] = z
      /\ <<x>> \o <<y, z>> \in Seq(S)
  BY <1>1
<1>4. \A n \in 1..3 : (<<x>> \o <<y, z>>)[n] = <<x, y, z>>[n]
  <2> \A n \in 1..3 : n = 1 \/ n = 2 \/ n = 3
    OBVIOUS
  <2> QED BY <1>3
<1> QED BY <1>1, <1>2, <1>3, <1>4, SeqEqual

--------------------------------------------------------------------------------
(***************************************************************************)
(* What is left to execute, r, suits a guest at p that owes o, has done s  *)
(* in this function and has c as its stored program counter.               *)
(***************************************************************************)
States == {"none", "one", "many", "trap"}

\* The block t is where to go with the guest at p.
Leads(e, t, p, s, c) ==
    \/ t = Dispatch /\ mode = "all" /\ c = p /\ s # "trap"
    \/ t = bb_ret /\ c = p /\ s # "trap" /\ (mode = "all" => p \notin Blocks)
    \/ t = bb_trap /\ c = p /\ s = "trap"
    \/ t = External(p) /\ s # "trap" /\ (mode = "all" => p \notin Blocks)
    \/ t = Label(p) /\ p \in Entrances(e) /\ s # "trap" /\ mode # "step"

Switching(r, p, o, s, c) == r = <<[op |-> "switch"]>> /\ mode = "all" /\ o = <<>> /\ c = p /\ s # "trap"
Returning(r, p, o, s, c) ==
    /\ o = <<>> /\ c = p
    /\ \/ r = <<Return("NOERR")>> /\ s # "trap" /\ (mode = "all" => p \notin Blocks)
       \/ r = <<Return("TRAP")>> /\ s = "trap"
Leaving(r, p, o, s) ==
    r = StorePcReturn(p) /\ o = <<>> /\ s # "trap" /\ (mode = "all" => p \notin Blocks)
Branching(e, r, p, o, s, c) == \E t \in Names : r = <<Br(t)>> /\ o = <<>> /\ Leads(e, t, p, s, c)
InSlot(e, r, p, o, s, c) ==
    \E t \in Names, x \in Addr : r = <<Instr(x), Br(t)>> /\ o = <<x>> /\ Leads(e, t, p, s, c)
Tested(e, r, p, o, s) ==
    \E l \in Entrances(e), a \in Mem :
        LET i == conf.prog[a]
        IN /\ r = Taking(a, To(l, i), Then(i)) /\ o = <<a>> \o Delay(i)
           /\ p \in TakenTargets(i) /\ s # "trap" /\ ~Has(i, "TRAP") /\ Has(i, "CONDITIONAL")
OnLine(f, e, r, p, o, s) ==
    \E l \in Entrances(e) :
        /\ InPlace(l, p) /\ r = Rest(l, p)[Label(l)] /\ o = <<>>
        /\ s # "trap" /\ (mode = "step" => s = "none")
        /\ \A x \in DOMAIN Rest(l, p) \ {Label(l)} : x \in DOMAIN f /\ f[x] = Rest(l, p)[x]
AtEnd(r, o) == r = <<>> /\ o = <<>> /\ mode = "step_bb"

Ready(f, e, r, p, o, s, c) ==
    \/ Switching(r, p, o, s, c) \/ Returning(r, p, o, s, c) \/ Leaving(r, p, o, s)
    \/ Branching(e, r, p, o, s, c) \/ InSlot(e, r, p, o, s, c) \/ Tested(e, r, p, o, s)
    \/ OnLine(f, e, r, p, o, s)

\* The function f is executed at position n of the block b.
Now(f, e, b, n, p, o, s, c) ==
    /\ p \in Addr /\ c \in Addr /\ s \in States /\ b \in DOMAIN f
    /\ \E r \in Seq(Items) :
          /\ OnFrom(f[b], n, r)
          /\ Ready(f, e, r, p, o, s, c) \/ (AtEnd(r, o) /\ Unlinked(f, b, n))

\* The instruction i leaves the program counter where the guest goes.
Moves(i) == Has(i, "RET") \/ (i.new = NoPc /\ i.tag \cap {"CALL", "BRANCH"} # {}) \/ Has(i, "TRAP")

LEMMA EntrancesInMem ==
  ASSUME Given, NEW e, mode # "all" => e \in Mem
  PROVE  \A l \in Entrances(e) : l \in Mem /\ InPlace(l, l)
BY PlacesInMem DEF Given, Entrances, InPlace, Places

LEMMA GoesThere ==
  ASSUME Given, NEW e, NEW f, Built(f, e), NEW t \in DOMAIN f,
         NEW p \in Addr, NEW c \in Addr, NEW s \in States,
         Leads(e, t, p, s, c)
  PROVE  Now(f, e, t, 1, p, <<>>, s, c)
<1>1. f[t] \in Seq(Items)
  BY DEF Built, Typed
<1>2. OnFrom(f[t], 1, f[t])
  BY <1>1, AllOfIt
<1>3. SUFFICES Ready(f, e, f[t], p, <<>>, s, c)
  BY <1>1, <1>2 DEF Now
<1>4. CASE t = Dispatch /\ mode = "all" /\ c = p /\ s # "trap"
  BY <1>4 DEF Ready, Switching, Built
<1>5. CASE t = bb_ret /\ c = p /\ s # "trap" /\ (mode = "all" => p \notin Blocks)
  BY <1>5 DEF Ready, Returning, Built
<1>6. CASE t = bb_trap /\ c = p /\ s = "trap"
  BY <1>6 DEF Ready, Returning, Built
<1>7. CASE t = External(p) /\ s # "trap" /\ (mode = "all" => p \notin Blocks)
  BY <1>7 DEF Ready, Leaving, Built
<1>8. CASE t = Label(p) /\ p \in Entrances(e) /\ s # "trap" /\ mode # "step"
  <2>1. InPlace(p, p)
    BY <1>8, EntrancesInMem DEF Built
  <2>2. Shape(Rest(p, p), p)
    BY <2>1, LineShape
  <2>3. \A x \in DOMAIN Rest(p, p) : x \in DOMAIN f /\ f[x] = Rest(p, p)[x]
    BY <1>8 DEF Built, Has_Lines
  <2>4. f[t] = Rest(p, p)[Label(p)]
    BY <1>8, <2>2, <2>3 DEF Shape
  <2> QED BY <1>8, <2>1, <2>3, <2>4 DEF Ready, OnLine
<1> QED BY <1>4, <1>5, <1>6, <1>7, <1>8 DEF Leads

LEMMA JumpsLead ==
  ASSUME Given, NEW e, NEW l \in Entrances(e), l \in Mem, NEW i \in Insn, Jumps(i),
         NEW p \in TakenTargets(i), NEW s \in States, s # "trap",
         NEW c, c = p \/ ~Moves(i)
  PROVE  Leads(e, To(l, i), p, s, c)
<1>1. ~Has(i, "TRAP") /\ (Has(i, "BRANCH") \/ Has(i, "CALL") \/ Has(i, "RET"))
  BY Kinds
<1>2. CASE Has(i, "RET") \/ i.new = NoPc
  <2>1. c = p
    BY <1>1, <1>2 DEF Moves, Has
  <2>2. Has(i, "RET") \/ i.new # l
    BY <1>2, AddrAssumption
  <2> QED BY <1>2, <2>1, <2>2 DEF Leads, To, Target, StepTarget, LoopTarget, Given
<1>3. CASE ~Has(i, "RET") /\ i.new # NoPc
  <2>1. p = i.new
    BY <1>1, <1>3 DEF TakenTargets
  <2>2. CASE mode = "all"
    BY <1>3, <2>1, <2>2 DEF Leads, To, Target, lookup_basicblock, Entrances
  <2>3. CASE mode = "step"
    BY <1>3, <2>1, <2>3 DEF Leads, To, StepTarget
  <2>4. CASE mode = "step_bb"
    BY <1>3, <2>1, <2>4 DEF Leads, To, StepTarget, LoopTarget
  <2> QED BY <2>2, <2>3, <2>4 DEF Given
<1> QED BY <1>2, <1>3

LEMMA UntakenLeads ==
  ASSUME Given, NEW e, NEW i \in Insn, NEW s \in States, s # "trap", NEW c
  PROVE  Leads(e, Untaken(i), i.next, s, c)
BY DEF Leads, Untaken, NotTaken, lookup_basicblock, Entrances

LEMMA AfterTaking ==
  ASSUME Given, NEW e, NEW f, NEW l \in Entrances(e), l \in Mem, NEW a \in Mem,
         NEW p \in TakenTargets(conf.prog[a]), NEW s \in States,
         s = "trap" <=> Has(conf.prog[a], "TRAP"),
         NEW c, c = p \/ ~Moves(conf.prog[a])
  PROVE  \E r \in Seq(Items) :
            /\ Taking(a, To(l, conf.prog[a]), Then(conf.prog[a])) = <<Instr(a)>> \o r
            /\ \/ Ready(f, e, r, p, Delay(conf.prog[a]), s, c)
               \/ AtEnd(r, Delay(conf.prog[a])) /\ GoesOn(conf.prog[a])
<1> DEFINE i == conf.prog[a]
           t == To(l, i)
           K(r) == Taking(a, t, Then(i)) = <<Instr(a)>> \o r
           R(r) == Ready(f, e, r, p, Delay(i), s, c) \/ (AtEnd(r, Delay(i)) /\ GoesOn(i))
<1>1. i \in Insn /\ i.slot \in Addr /\ a \in Addr
  BY ConfOK DEF Given, Insn
<1>2. t \in Names /\ Then(i) \in Seq(Items)
  BY <1>1, Exits
<1>3. Br(t) \in Items /\ Instr(i.slot) \in Items /\ bb_trap \in Names
  BY <1>1, <1>2, ConfOK, Inserting, Naming DEF Given
<1>4. CASE Jumps(i)
  <2>1. Leads(e, t, p, s, c)
    <3>1. s # "trap"
      BY <1>1, <1>4, Kinds
    <3> HIDE DEF t
    <3> QED BY <1>1, <1>4, <3>1, JumpsLead DEF t
  <2>2. CASE Has(i, "DELAY_SLOT")
    <3>1. Delay(i) = <<i.slot>>
      BY <2>2 DEF Delay
    <3>2. R(<<Instr(i.slot), Br(t)>>)
      <4> HIDE DEF t
      <4> QED BY <1>1, <1>2, <2>1, <3>1 DEF Ready, InSlot
    <3>3. K(<<Instr(i.slot), Br(t)>>)
      BY <2>2, Triple DEF Taking
    <3>4. <<Instr(i.slot), Br(t)>> \in Seq(Items)
      BY <1>3
    <3> QED BY <3>2, <3>3, <3>4
  <2>3. CASE ~Has(i, "DELAY_SLOT")
    <3>1. Delay(i) = <<>>
      BY <2>3 DEF Delay
    <3>2. R(<<Br(t)>>)
      <4> HIDE DEF t
      <4> QED BY <1>2, <2>1, <3>1 DEF Ready, Branching
    <3>3. K(<<Br(t)>>)
      BY <1>4, <2>3, Pair DEF Taking
    <3>4. <<Br(t)>> \in Seq(Items)
      BY <1>3
    <3> QED BY <3>2, <3>3, <3>4
  <2> QED BY <2>2, <2>3
<1>5. CASE Has(i, "TRAP")
  <2>1. ~Jumps(i) /\ ~Has(i, "DELAY_SLOT")
    BY <1>1, <1>5, Kinds
  <2>2. Delay(i) = <<>>
    BY <2>1 DEF Delay
  <2>3. Leads(e, bb_trap, p, s, c)
    BY <1>5 DEF Leads, Moves
  <2>4. R(<<Br(bb_trap)>>)
    BY <1>3, <2>2, <2>3 DEF Ready, Branching
  <2>5. K(<<Br(bb_trap)>>)
    BY <1>5, <2>1, Pair DEF Taking
  <2>6. <<Br(bb_trap)>> \in Seq(Items)
    BY <1>3, Inserting, ConfOK DEF Given, Br, Items
  <2> QED BY <2>4, <2>5, <2>6, Zenon
<1>6. CASE ~Jumps(i) /\ ~Has(i, "TRAP")
  <2>1. GoesOn(i)
    BY <1>1, <1>6, Kinds
  <2>2. p = i.next /\ Delay(i) = <<>> /\ s # "trap"
    BY <1>1, <1>6, <2>1, Kinds DEF TakenTargets, Delay, GoesOn
  <2>3. K(Then(i))
    <3> HIDE DEF t
    <3> QED BY <1>1, <1>2, <2>1, TakingTyped DEF Given
  <2>4. R(Then(i))
    <3>1. CASE mode = "all"
      <4>1. Leads(e, Untaken(i), i.next, s, c)
        BY <1>1, <2>2, UntakenLeads
      <4>2. Then(i) = <<Br(Untaken(i))>> /\ Untaken(i) \in Names
        BY <1>1, <3>1, Exits DEF Then, Untaken, NotTaken
      <4> QED BY <2>2, <4>1, <4>2 DEF Ready, Branching
    <3>2. CASE mode = "step"
      BY <2>2, <3>2 DEF Ready, Leaving, Then
    <3>3. CASE mode = "step_bb"
      BY <2>1, <2>2, <3>3 DEF AtEnd, Then
    <3> QED BY <3>1, <3>2, <3>3 DEF Given
  <2> QED BY <1>2, <2>3, <2>4
<1> QED BY <1>4, <1>5, <1>6

--------------------------------------------------------------------------------
(***************************************************************************)
(* One step of the execution.                                              *)
(***************************************************************************)
After(i, s) == IF Has(i, "TRAP") THEN "trap" ELSE IF s = "none" THEN "one" ELSE "many"

LEMMA JustOne ==
  ASSUME NEW q \in Seq(Items), NEW n, NEW x, OnFrom(q, n, <<x>>)
  PROVE  n \in DOMAIN q /\ q[n] = x
<1>1. n \in Nat \ {0} /\ Len(q) = n - 1 + 1 /\ q[n - 1 + 1] = x
  BY DEF OnFrom
<1> QED BY <1>1

LEMMA TakingOpens ==
  ASSUME Given, NEW l \in Mem, NEW a \in Mem
  PROVE  \E q \in Seq(Items) : Taking(a, To(l, conf.prog[a]), Then(conf.prog[a])) = <<Instr(a)>> \o q
<1> DEFINE i == conf.prog[a]
           t == To(l, i)
<1>1. i \in Insn /\ i.slot \in Addr /\ NoPc \in Addr
  BY ConfOK DEF Given, Insn
<1>2. t \in Names /\ Then(i) \in Seq(Items) /\ bb_trap \in Names
  BY <1>1, Exits, Naming
<1> HIDE DEF t
<1>3. Br(t) \in Items /\ Instr(i.slot) \in Items /\ Br(bb_trap) \in Items
  BY <1>1, <1>2, Inserting
<1>4. <<Instr(i.slot), Br(t)>> \in Seq(Items) /\ <<Br(t)>> \in Seq(Items) /\ <<Br(bb_trap)>> \in Seq(Items)
  BY <1>3
<1>5. CASE Has(i, "DELAY_SLOT")
  <2>1. Taking(a, t, Then(i)) = <<Instr(a)>> \o <<Instr(i.slot), Br(t)>>
    BY <1>5, Triple DEF Taking
  <2> QED BY <1>4, <2>1 DEF t
<1>6. CASE ~Has(i, "DELAY_SLOT") /\ Jumps(i)
  <2>1. Taking(a, t, Then(i)) = <<Instr(a)>> \o <<Br(t)>>
    BY <1>6, Pair DEF Taking
  <2> QED BY <1>4, <2>1 DEF t
<1>7. CASE ~Has(i, "DELAY_SLOT") /\ ~Jumps(i) /\ Has(i, "TRAP")
  <2>1. Taking(a, t, Then(i)) = <<Instr(a)>> \o <<Br(bb_trap)>>
    BY <1>7, Pair DEF Taking
  <2> QED BY <1>4, <2>1 DEF t
<1>8. CASE ~Has(i, "DELAY_SLOT") /\ ~Jumps(i) /\ ~Has(i, "TRAP")
  <2>1. Taking(a, t, Then(i)) = <<Instr(a)>> \o Then(i)
    BY <1>8 DEF Taking
  <2> QED BY <1>2, <2>1 DEF t
<1> QED BY <1>5, <1>6, <1>7, <1>8

\* On a line, the condition of the instruction at p or the instruction comes next.
LineOpens(f, e, b, n, p) ==
    LET i == conf.prog[p]
    IN \E l \in Entrances(e) :
        /\ l \in Mem /\ InPlace(l, p) /\ n \in DOMAIN f[b]
        /\ \A x \in DOMAIN Rest(l, p) \ {Label(l)} : x \in DOMAIN f /\ f[x] = Rest(l, p)[x]
        /\ IF Has(i, "CONDITIONAL")
           THEN /\ f[b][n] = Cond(p, CondBlock(l, p),
                                  IF Has(i, "DELAY_SLOT") THEN DelayBlock(l, p) ELSE Untaken(i))
                /\ Tests(l, p, i)
           ELSE /\ f[b][n] = Instr(p)
                /\ \/ OnFrom(f[b], n, Taking(p, To(l, i), Then(i))) /\ Last(l, p)
                   \/ /\ GoesOn(i) /\ mode # "step" /\ CarriesOn(l, p, i.next)
                      /\ OnFrom(f[b], n + 1, Rest(l, i.next)[Label(l)])
                      /\ Rest(l, i.next)[Label(l)] \in Seq(Items)

LEMMA OpeningLine ==
  ASSUME Given, NEW e, NEW f, Built(f, e), NEW b \in DOMAIN f, NEW n, NEW r \in Seq(Items),
         NEW p \in Addr, NEW o, NEW s, OnFrom(f[b], n, r), OnLine(f, e, r, p, o, s)
  PROVE  LineOpens(f, e, b, n, p)
<1> DEFINE i == conf.prog[p]
<1>1. PICK l \in Entrances(e) :
        /\ InPlace(l, p) /\ r = Rest(l, p)[Label(l)]
        /\ \A x \in DOMAIN Rest(l, p) \ {Label(l)} : x \in DOMAIN f /\ f[x] = Rest(l, p)[x]
  BY DEF OnLine
<1>2. l \in Mem /\ p \in Mem /\ i \in Insn /\ f[b] \in Seq(Items) /\ l \in Addr
  BY <1>1, PlacesInMem, ConfOK DEF InPlace, Given, Built, Typed
<1>3. Unfolds(l, p, i)
  BY <1>1, Unfolding
<1>4. CASE Has(i, "CONDITIONAL")
  <2> DEFINE x == Cond(p, CondBlock(l, p), IF Has(i, "DELAY_SLOT") THEN DelayBlock(l, p) ELSE Untaken(i))
  <2>1. Tests(l, p, i)
    BY <1>3, <1>4 DEF Unfolds
  <2>2. PICK q \in Seq(Items) : r = <<x>> \o q
    BY <1>1, <2>1 DEF Tests
  <2>3. x \in Items
    <3>1. Untaken(i) \in Names /\ CondBlock(l, p) \in Names /\ DelayBlock(l, p) \in Names
      BY <1>2, Exits, Naming, ConfOK DEF Given
    <3> QED BY <3>1, Inserting
  <2> HIDE DEF x
  <2>4. n \in DOMAIN f[b] /\ f[b][n] = x
    BY <1>2, <2>2, <2>3, OneOn
  <2> QED BY <1>1, <1>2, <1>4, <2>1, <2>4 DEF LineOpens, x
<1>5. CASE ~Has(i, "CONDITIONAL")
  <2>1. Instr(p) \in Items
    BY <1>2 DEF Instr, Items
  <2>2. CASE r = Taking(p, To(l, i), Then(i)) /\ Last(l, p)
    <3>1. \E q \in Seq(Items) : Taking(p, To(l, i), Then(i)) = <<Instr(p)>> \o q
      BY <1>2, TakingOpens
    <3>2. PICK q \in Seq(Items) : r = <<Instr(p)>> \o q
      BY <2>2, <3>1
    <3>3. n \in DOMAIN f[b] /\ f[b][n] = Instr(p)
      BY <1>2, <2>1, <3>2, OneOn
    <3> QED BY <1>1, <1>2, <1>5, <2>2, <3>3 DEF LineOpens
  <2>3. CASE GoesOn(i) /\ mode # "step" /\ CarriesOn(l, p, i.next)
    <3> DEFINE q == Rest(l, i.next)[Label(l)]
    <3>1. r = <<Instr(p)>> \o q /\ InPlace(l, i.next)
      BY <1>1, <2>3 DEF CarriesOn
    <3>2. q \in Seq(Items)
      BY <3>1, LineShape DEF Shape, Typed
    <3> HIDE DEF q
    <3>3. n \in DOMAIN f[b] /\ f[b][n] = Instr(p) /\ OnFrom(f[b], n + 1, q)
      BY <1>2, <2>1, <3>1, <3>2, OneOn
    <3> QED BY <1>1, <1>2, <1>5, <2>3, <3>2, <3>3 DEF LineOpens, q
  <2> QED BY <1>1, <1>3, <1>5, <2>2, <2>3 DEF Unfolds
<1> QED BY <1>4, <1>5

LEMMA Firsts ==
  ASSUME Given, NEW e, NEW f, Built(f, e), NEW b \in DOMAIN f, NEW n, NEW r \in Seq(Items),
         NEW p \in Addr, NEW o, NEW s, NEW c, OnFrom(f[b], n, r)
  PROVE  /\ Switching(r, p, o, s, c) => n \in DOMAIN f[b] /\ f[b][n].op = "switch"
         /\ Returning(r, p, o, s, c) => n \in DOMAIN f[b] /\ f[b][n].op = "return" /\ r = <<f[b][n]>>
         /\ Leaving(r, p, o, s) => /\ n \in DOMAIN f[b] /\ f[b][n].op = "store" /\ f[b][n].pc = p
                                   /\ OnFrom(f[b], n + 1, <<Br(bb_ret)>>)
         /\ Branching(e, r, p, o, s, c) => n \in DOMAIN f[b] /\ f[b][n].op = "br" /\ r = <<f[b][n]>>
         /\ InSlot(e, r, p, o, s, c) => n \in DOMAIN f[b] /\ f[b][n].op = "instr"
         /\ Tested(e, r, p, o, s) => n \in DOMAIN f[b] /\ f[b][n].op = "instr"
         /\ OnLine(f, e, r, p, o, s) => n \in DOMAIN f[b] /\ f[b][n].op \in {"instr", "cond"}
<1>1. f[b] \in Seq(Items) /\ NoPc \in Addr
  BY ConfOK DEF Built, Typed, Given
<1>2. Switching(r, p, o, s, c) => n \in DOMAIN f[b] /\ f[b][n].op = "switch"
  <2>1. SUFFICES ASSUME r = <<[op |-> "switch"]>>
                 PROVE  n \in DOMAIN f[b] /\ f[b][n] = [op |-> "switch"]
    BY DEF Switching
  <2> QED BY <1>1, <2>1, JustOne
<1>3. Returning(r, p, o, s, c) => n \in DOMAIN f[b] /\ f[b][n].op = "return" /\ r = <<f[b][n]>>
  <2>1. SUFFICES ASSUME NEW k, r = <<Return(k)>>
                 PROVE  n \in DOMAIN f[b] /\ f[b][n] = Return(k)
    BY DEF Returning, Return
  <2> QED BY <1>1, <2>1, JustOne
<1>4. Leaving(r, p, o, s) => /\ n \in DOMAIN f[b] /\ f[b][n].op = "store" /\ f[b][n].pc = p
                             /\ OnFrom(f[b], n + 1, <<Br(bb_ret)>>)
  <2> DEFINE x == [op |-> "store", pc |-> p]
  <2>1. SUFFICES ASSUME r = StorePcReturn(p)
                 PROVE  n \in DOMAIN f[b] /\ f[b][n] = x /\ OnFrom(f[b], n + 1, <<Br(bb_ret)>>)
    BY DEF Leaving
  <2>2. x \in Items /\ Br(bb_ret) \in Items
    BY <1>1, Naming, Inserting DEF Items
  <2>3. r = <<x>> \o <<Br(bb_ret)>> /\ <<Br(bb_ret)>> \in Seq(Items)
    BY <2>1, <2>2, Pair DEF StorePcReturn
  <2> HIDE DEF x
  <2> QED BY <1>1, <2>2, <2>3, OneOn
<1>5. Branching(e, r, p, o, s, c) => n \in DOMAIN f[b] /\ f[b][n].op = "br" /\ r = <<f[b][n]>>
  <2>1. SUFFICES ASSUME NEW t \in Names, r = <<Br(t)>>
                 PROVE  n \in DOMAIN f[b] /\ f[b][n] = Br(t)
    BY DEF Branching, Br
  <2> QED BY <1>1, <2>1, JustOne
<1>6. InSlot(e, r, p, o, s, c) => n \in DOMAIN f[b] /\ f[b][n].op = "instr"
  <2>1. SUFFICES ASSUME NEW t \in Names, NEW x \in Addr, r = <<Instr(x), Br(t)>>
                 PROVE  n \in DOMAIN f[b] /\ f[b][n] = Instr(x)
    BY DEF InSlot, Instr
  <2>2. Instr(x) \in Items /\ <<Br(t)>> \in Seq(Items)
    BY Inserting
  <2>3. r = <<Instr(x)>> \o <<Br(t)>>
    BY <2>1, Pair
  <2> HIDE DEF InSlot
  <2>4. OnFrom(f[b], n, <<Instr(x)>> \o <<Br(t)>>)
    BY <2>3
  <2> QED BY <1>1, <2>2, <2>4, OneOn, Zenon
<1>7. Tested(e, r, p, o, s) => n \in DOMAIN f[b] /\ f[b][n].op = "instr"
  <2>1. SUFFICES ASSUME Tested(e, r, p, o, s) PROVE n \in DOMAIN f[b] /\ f[b][n].op = "instr"
    OBVIOUS
  <2>2. PICK l \in Entrances(e), a \in Mem : r = Taking(a, To(l, conf.prog[a]), Then(conf.prog[a]))
    BY <2>1 DEF Tested
  <2>3. PICK q \in Seq(Items) : r = <<Instr(a)>> \o q
    <3>1. l \in Mem
      BY EntrancesInMem DEF Built
    <3> QED BY <2>2, <3>1, TakingOpens
  <2>4. Instr(a) \in Items
    BY ConfOK DEF Instr, Items, Given
  <2>5. n \in DOMAIN f[b] /\ f[b][n] = Instr(a)
    BY <1>1, <2>3, <2>4, OneOn
  <2> QED BY <2>5 DEF Instr
<1>8. OnLine(f, e, r, p, o, s) => n \in DOMAIN f[b] /\ f[b][n].op \in {"instr", "cond"}
  <2>1. SUFFICES ASSUME OnLine(f, e, r, p, o, s) PROVE n \in DOMAIN f[b] /\ f[b][n].op \in {"instr", "cond"}
    OBVIOUS
  <2>2. LineOpens(f, e, b, n, p)
    BY <2>1, OpeningLine
  <2> QED BY <2>2 DEF LineOpens, Instr, Cond
<1> QED BY <1>2, <1>3, <1>4, <1>5, <1>6, <1>7, <1>8

LEMMA ReadyByOp ==
  ASSUME Given, NEW e, NEW f, Built(f, e), NEW b \in DOMAIN f, NEW n, NEW r \in Seq(Items),
         NEW p \in Addr, NEW o, NEW s, NEW c, OnFrom(f[b], n, r), Ready(f, e, r, p, o, s, c)
  PROVE  /\ n \in DOMAIN f[b]
         /\ n \in DOMAIN f[b] =>
              /\ f[b][n].op = "switch" => Switching(r, p, o, s, c)
              /\ f[b][n].op = "return" => Returning(r, p, o, s, c) /\ r = <<f[b][n]>>
              /\ f[b][n].op = "store" => /\ Leaving(r, p, o, s) /\ f[b][n].pc = p
                                         /\ OnFrom(f[b], n + 1, <<Br(bb_ret)>>)
              /\ f[b][n].op = "br" => Branching(e, r, p, o, s, c) /\ r = <<f[b][n]>>
              /\ f[b][n].op = "instr" => \/ InSlot(e, r, p, o, s, c) \/ Tested(e, r, p, o, s)
                                         \/ OnLine(f, e, r, p, o, s)
              /\ f[b][n].op = "cond" => OnLine(f, e, r, p, o, s)
<1> DEFINE x == f[b][n].op
           In == n \in DOMAIN f[b]
<1>2. /\ Switching(r, p, o, s, c) => In /\ x = "switch"
      /\ Returning(r, p, o, s, c) => In /\ x = "return" /\ r = <<f[b][n]>>
      /\ Leaving(r, p, o, s) => /\ In /\ x = "store" /\ f[b][n].pc = p
                                /\ OnFrom(f[b], n + 1, <<Br(bb_ret)>>)
      /\ Branching(e, r, p, o, s, c) => In /\ x = "br" /\ r = <<f[b][n]>>
      /\ InSlot(e, r, p, o, s, c) => In /\ x = "instr"
      /\ Tested(e, r, p, o, s) => In /\ x = "instr"
      /\ OnLine(f, e, r, p, o, s) => In /\ x \in {"instr", "cond"}
  BY Firsts
<1> HIDE DEF x, In
<1> QED BY <1>2 DEF Ready, x, In

\* What holds of the guest when an item of a kind is next.
Facing(f, e, b, n, p, o, s, c) ==
    Given /\ Built(f, e) /\ Now(f, e, b, n, p, o, s, c) /\ n \in DOMAIN f[b]

LEMMA FacesRest ==
  ASSUME NEW f, NEW e, NEW b, NEW n, NEW p, NEW o, NEW s, NEW c, Facing(f, e, b, n, p, o, s, c)
  PROVE  \E r \in Seq(Items) : OnFrom(f[b], n, r) /\ Ready(f, e, r, p, o, s, c)
<1>1. PICK r \in Seq(Items) :
        /\ OnFrom(f[b], n, r)
        /\ Ready(f, e, r, p, o, s, c) \/ (AtEnd(r, o) /\ Unlinked(f, b, n))
  BY DEF Facing, Now
<1>2. n \in DOMAIN f[b] /\ f[b] \in Seq(Items)
  BY DEF Facing, Now, Built, Typed
<1>3. ~AtEnd(r, o)
  BY <1>1, <1>2 DEF AtEnd, OnFrom
<1> QED BY <1>1, <1>3

LEMMA BranchStep ==
  ASSUME NEW f, NEW e, NEW b, NEW n, NEW p, NEW o, NEW s, NEW c,
         Facing(f, e, b, n, p, o, s, c), f[b][n].op = "br"
  PROVE  Now(f, e, f[b][n].to, 1, p, o, s, c)
<1>1. Given /\ Built(f, e) /\ b \in DOMAIN f /\ n \in DOMAIN f[b] /\ p \in Addr /\ c \in Addr
        /\ s \in States
  BY DEF Facing, Now
<1>2. PICK r \in Seq(Items) : OnFrom(f[b], n, r) /\ Ready(f, e, r, p, o, s, c)
  BY FacesRest
<1>3. Branching(e, r, p, o, s, c) /\ r = <<f[b][n]>>
  BY <1>1, <1>2, ReadyByOp
<1>4. PICK t \in Names : r = <<Br(t)>> /\ o = <<>> /\ Leads(e, t, p, s, c)
  BY <1>3 DEF Branching
<1>5. f[b][n] = Br(t)
  BY <1>3, <1>4
<1>6. f[b][n].to = t /\ t \in DOMAIN f
  BY <1>1, <1>5 DEF Br, Built, Links, Linking, Goes
<1> QED BY <1>1, <1>4, <1>6, GoesThere

LEMMA SwitchStep ==
  ASSUME NEW f, NEW e, NEW b, NEW n, NEW p, NEW o, NEW s, NEW c,
         Facing(f, e, b, n, p, o, s, c), f[b][n].op = "switch"
  PROVE  Now(f, e, IF c \in Blocks THEN Label(c) ELSE bb_ret, 1, p, o, s, c)
<1>1. Given /\ Built(f, e) /\ b \in DOMAIN f /\ n \in DOMAIN f[b] /\ p \in Addr /\ c \in Addr
        /\ s \in States
  BY DEF Facing, Now
<1>2. PICK r \in Seq(Items) : OnFrom(f[b], n, r) /\ Ready(f, e, r, p, o, s, c)
  BY FacesRest
<1>3. mode = "all" /\ o = <<>> /\ c = p /\ s # "trap"
  BY <1>1, <1>2, ReadyByOp DEF Switching
<1> DEFINE t == IF c \in Blocks THEN Label(c) ELSE bb_ret
<1>4. Leads(e, t, p, s, c) /\ t \in DOMAIN f
  BY <1>1, <1>3 DEF Leads, Entrances, Built
<1> HIDE DEF t
<1>5. Now(f, e, t, 1, p, <<>>, s, c)
  BY <1>1, <1>4, GoesThere
<1> QED BY <1>3, <1>5 DEF t

LEMMA ReturnStep ==
  ASSUME NEW f, NEW e, NEW b, NEW n, NEW p, NEW o, NEW s, NEW c,
         Facing(f, e, b, n, p, o, s, c), f[b][n].op = "return"
  PROVE  /\ o = <<>> /\ c = p /\ f[b][n].code \in {"NOERR", "TRAP"}
         /\ f[b][n].code = "TRAP" <=> s = "trap"
         /\ mode = "all" /\ s # "trap" => c \notin Blocks
<1>1. Given /\ Built(f, e) /\ b \in DOMAIN f /\ n \in DOMAIN f[b] /\ p \in Addr
  BY DEF Facing, Now
<1>2. PICK r \in Seq(Items) : OnFrom(f[b], n, r) /\ Ready(f, e, r, p, o, s, c)
  BY FacesRest
<1>3. Returning(r, p, o, s, c) /\ r = <<f[b][n]>>
  BY <1>1, <1>2, ReadyByOp
<1>4. CASE r = <<Return("NOERR")>> /\ s # "trap" /\ (mode = "all" => p \notin Blocks)
  <2>1. f[b][n] = Return("NOERR")
    BY <1>3, <1>4
  <2> QED BY <1>3, <1>4, <2>1 DEF Returning, Return
<1>5. CASE r = <<Return("TRAP")>> /\ s = "trap"
  <2>1. f[b][n] = Return("TRAP")
    BY <1>3, <1>5
  <2> QED BY <1>3, <1>5, <2>1 DEF Returning, Return
<1> QED BY <1>3, <1>4, <1>5 DEF Returning

LEMMA StoreStep ==
  ASSUME NEW f, NEW e, NEW b, NEW n, NEW p, NEW o, NEW s, NEW c,
         Facing(f, e, b, n, p, o, s, c), f[b][n].op = "store"
  PROVE  f[b][n].pc = p /\ Now(f, e, b, n + 1, p, o, s, p)
<1>1. Given /\ Built(f, e) /\ b \in DOMAIN f /\ n \in DOMAIN f[b] /\ p \in Addr /\ s \in States
  BY DEF Facing, Now
<1>2. PICK r \in Seq(Items) : OnFrom(f[b], n, r) /\ Ready(f, e, r, p, o, s, c)
  BY FacesRest
<1>3. Leaving(r, p, o, s) /\ f[b][n].pc = p /\ OnFrom(f[b], n + 1, <<Br(bb_ret)>>)
  BY <1>1, <1>2, ReadyByOp
<1>4. bb_ret \in Names
  BY <1>1, ConfOK, Naming DEF Given
<1>5. <<Br(bb_ret)>> \in Seq(Items)
  BY <1>4 DEF Br, Items
<1>6. Branching(e, <<Br(bb_ret)>>, p, o, s, p)
  BY <1>3, <1>4 DEF Branching, Leaving, Leads
<1> QED BY <1>1, <1>3, <1>5, <1>6 DEF Now, Ready

LEMMA LostStep ==
  ASSUME NEW f, NEW e, NEW b, NEW n, NEW p, NEW o, NEW s, NEW c,
         Given, Built(f, e), Now(f, e, b, n, p, o, s, c), n \notin DOMAIN f[b]
  PROVE  mode = "step_bb" /\ Unlinked(f, b, n)
<1>1. PICK r \in Seq(Items) :
        /\ OnFrom(f[b], n, r)
        /\ Ready(f, e, r, p, o, s, c) \/ (AtEnd(r, o) /\ Unlinked(f, b, n))
  BY DEF Now
<1>2. b \in DOMAIN f /\ p \in Addr
  BY DEF Now
<1>3. ~Ready(f, e, r, p, o, s, c)
  BY <1>1, <1>2, ReadyByOp
<1> QED BY <1>1, <1>3 DEF AtEnd

\* Behind the instruction at a the block may end if a is the last one of its line or
\* conditional.
LEMMA EndsBehind ==
  ASSUME NEW f, NEW e, NEW b, NEW n, NEW p, NEW s, NEW c, NEW a \in Mem, NEW q \in Seq(Items),
         p \in Addr, c \in Addr, s \in States, b \in DOMAIN f,
         n \in DOMAIN f[b], n \in Int, f[b][n] = Instr(a), OnFrom(f[b], n + 1, q),
         \/ Ready(f, e, q, p, Delay(conf.prog[a]), s, c)
         \/ AtEnd(q, Delay(conf.prog[a])) /\ GoesOn(conf.prog[a]),
         mode = "step_bb" /\ GoesOn(conf.prog[a])
            => Has(conf.prog[a], "CONDITIONAL") \/ conf.prog[a].next \notin Code
  PROVE  Now(f, e, b, n + 1, p, Delay(conf.prog[a]), s, c)
<1>1. n + 1 - 1 = n
  OBVIOUS
<1>2. AtEnd(q, Delay(conf.prog[a])) /\ GoesOn(conf.prog[a]) => Unlinked(f, b, n + 1)
  BY <1>1 DEF AtEnd, Unlinked, GoesOn
<1> QED BY <1>2 DEF Now

\* An instruction whose effect is owed: the guest has passed it already.
LEMMA OwedStep ==
  ASSUME NEW f, NEW e, NEW b, NEW n, NEW p, NEW o, NEW s, NEW c, NEW d,
         Facing(f, e, b, n, p, o, s, c), f[b][n].op = "instr", o # <<>>,
         d = p \/ (~Moves(conf.prog[f[b][n].pc]) /\ d = c)
  PROVE  Head(o) = f[b][n].pc /\ Now(f, e, b, n + 1, p, Tail(o), s, d)
<1>1. /\ Given /\ Built(f, e) /\ b \in DOMAIN f /\ n \in DOMAIN f[b] /\ p \in Addr /\ c \in Addr
      /\ s \in States /\ d \in Addr /\ f[b] \in Seq(Items)
  BY DEF Facing, Now, Built, Typed
<1>2. PICK r \in Seq(Items) : OnFrom(f[b], n, r) /\ Ready(f, e, r, p, o, s, c)
  BY FacesRest
<1>3. CASE InSlot(e, r, p, o, s, c)
  <2>1. PICK t \in Names, x \in Addr : r = <<Instr(x), Br(t)>> /\ o = <<x>> /\ Leads(e, t, p, s, c)
    BY <1>3 DEF InSlot
  <2>2. Instr(x) \in Items /\ <<Br(t)>> \in Seq(Items)
    BY Inserting
  <2>3. r = <<Instr(x)>> \o <<Br(t)>>
    BY <2>1, Pair
  <2>4. f[b][n] = Instr(x) /\ OnFrom(f[b], n + 1, <<Br(t)>>)
    BY <1>1, <1>2, <2>2, <2>3, OneOn
  <2>5. f[b][n].pc = x /\ Head(o) = x /\ Tail(o) = <<>>
    BY <2>1, <2>4 DEF Instr
  <2>6. Leads(e, t, p, s, d)
    BY <2>1 DEF Leads
  <2>7. Branching(e, <<Br(t)>>, p, Tail(o), s, d)
    BY <2>5, <2>6 DEF Branching
  <2> QED BY <1>1, <2>2, <2>4, <2>5, <2>7 DEF Now, Ready
<1>4. CASE Tested(e, r, p, o, s)
  <2>1. PICK l \in Entrances(e), a \in Mem :
          /\ r = Taking(a, To(l, conf.prog[a]), Then(conf.prog[a])) /\ o = <<a>> \o Delay(conf.prog[a])
          /\ p \in TakenTargets(conf.prog[a]) /\ s # "trap" /\ ~Has(conf.prog[a], "TRAP")
          /\ Has(conf.prog[a], "CONDITIONAL")
    BY <1>4 DEF Tested
  <2>2. l \in Mem
    BY <1>1, EntrancesInMem DEF Built
  <2>3. PICK u \in Seq(Items) : r = <<Instr(a)>> \o u
    BY <1>1, <2>1, <2>2, TakingOpens
  <2>4. Instr(a) \in Items
    BY <1>1, ConfOK DEF Instr, Items, Given
  <2>5. f[b][n] = Instr(a)
    BY <1>1, <1>2, <2>3, <2>4, OneOn
  <2>6. d = p \/ ~Moves(conf.prog[a])
    BY <2>5 DEF Instr
  <2>7. PICK q \in Seq(Items) :
          /\ r = <<Instr(a)>> \o q
          /\ \/ Ready(f, e, q, p, Delay(conf.prog[a]), s, d)
             \/ AtEnd(q, Delay(conf.prog[a])) /\ GoesOn(conf.prog[a])
    BY <1>1, <2>1, <2>2, <2>6, AfterTaking
  <2>8. OnFrom(f[b], n + 1, q)
    BY <1>1, <1>2, <2>4, <2>7, OneOn
  <2>9. Head(o) = a /\ Tail(o) = Delay(conf.prog[a])
    <3>1. CASE Has(conf.prog[a], "DELAY_SLOT")
      <4>1. o = <<a, conf.prog[a].slot>>
        BY <2>1, <3>1, Pair DEF Delay
      <4> QED BY <3>1, <4>1 DEF Delay
    <3>2. CASE ~Has(conf.prog[a], "DELAY_SLOT")
      <4>1. <<a>> \in Seq({a})
        OBVIOUS
      <4>2. o = <<a>>
        BY <2>1, <3>2, <4>1 DEF Delay
      <4> QED BY <3>2, <4>2 DEF Delay
    <3> QED BY <3>1, <3>2
  <2>10. Now(f, e, b, n + 1, p, Delay(conf.prog[a]), s, d)
    <3>1. n \in Int /\ Has(conf.prog[a], "CONDITIONAL")
      BY <1>1, <2>1
    <3>2. OnFrom(f[b], n + 1, q) /\ \/ Ready(f, e, q, p, Delay(conf.prog[a]), s, d)
                                    \/ AtEnd(q, Delay(conf.prog[a])) /\ GoesOn(conf.prog[a])
      BY <2>7, <2>8
    <3> QED BY <1>1, <2>5, <3>1, <3>2, EndsBehind
  <2>11. Head(o) = f[b][n].pc
    BY <2>5, <2>9 DEF Instr
  <2>12. Now(f, e, b, n + 1, p, Tail(o), s, d)
    BY <2>9, <2>10, Zenon
  <2> QED BY <2>11, <2>12
<1>5. ~OnLine(f, e, r, p, o, s)
  BY DEF OnLine
<1> QED BY <1>1, <1>2, <1>3, <1>4, <1>5, ReadyByOp

\* When nothing is owed, the guest is on a line.
LEMMA NothingOwed ==
  ASSUME NEW f, NEW e, NEW b, NEW n, NEW p, NEW o, NEW s, NEW c,
         Facing(f, e, b, n, p, o, s, c),
         f[b][n].op = "cond" \/ (f[b][n].op = "instr" /\ o = <<>>)
  PROVE  /\ LineOpens(f, e, b, n, p) /\ o = <<>> /\ f[b][n].pc = p /\ p \in Mem
         /\ s # "trap" /\ (mode = "step" => s = "none")
         /\ f[b][n].op = "cond" <=> Has(conf.prog[p], "CONDITIONAL")
<1>1. /\ Given /\ Built(f, e) /\ b \in DOMAIN f /\ n \in DOMAIN f[b] /\ p \in Addr
  BY DEF Facing, Now
<1>2. PICK r \in Seq(Items) : OnFrom(f[b], n, r) /\ Ready(f, e, r, p, o, s, c)
  BY FacesRest
<1>3. o = <<>> => ~InSlot(e, r, p, o, s, c)
  BY DEF InSlot
<1>4. o = <<>> => ~Tested(e, r, p, o, s)
  <2>1. SUFFICES ASSUME NEW a, NEW i, o = <<a>> \o Delay(i) PROVE o # <<>>
    BY DEF Tested
  <2> DEFINE S == {a, i.slot}
  <2>2. a \in S /\ i.slot \in S
    OBVIOUS
  <2> HIDE DEF S
  <2>3. <<a>> \in Seq(S) /\ <<i.slot>> \in Seq(S) /\ <<>> \in Seq(S)
    BY <2>2
  <2>4. <<a>> \in Seq(S) /\ Delay(i) \in Seq(S)
    BY <2>3 DEF Delay
  <2>5. Len(<<a>> \o Delay(i)) = 1 + Len(Delay(i)) /\ Len(Delay(i)) \in Nat
    BY <2>4
  <2> QED BY <2>1, <2>5
<1>5. OnLine(f, e, r, p, o, s)
  BY <1>1, <1>2, <1>3, <1>4, ReadyByOp
<1>6. LineOpens(f, e, b, n, p)
  BY <1>1, <1>2, <1>5, OpeningLine
<1>7. o = <<>> /\ s # "trap" /\ (mode = "step" => s = "none")
  BY <1>5 DEF OnLine
<1>8. /\ f[b][n].pc = p
      /\ f[b][n].op = "cond" <=> Has(conf.prog[p], "CONDITIONAL")
  BY <1>6 DEF LineOpens, Instr, Cond
<1>9. p \in Mem
  BY <1>1, <1>6, PlacesInMem DEF LineOpens, InPlace, Given
<1> QED BY <1>6, <1>7, <1>8, <1>9

LEMMA AfterState ==
  ASSUME NEW i \in Insn, NEW s \in States
  PROVE  After(i, s) \in States /\ (After(i, s) = "trap" <=> Has(i, "TRAP"))
BY DEF After, States

LEMMA TargetsInAddr ==
  ASSUME NEW i \in Insn
  PROVE  TakenTargets(i) \subseteq Addr /\ i.next \in Addr /\ i.slot \in Addr
BY DEF TakenTargets, Insn

LEMMA InstrStep ==
  ASSUME NEW f, NEW e, NEW b, NEW n, NEW p, NEW s, NEW c,
         Facing(f, e, b, n, p, <<>>, s, c), f[b][n].op = "instr",
         NEW q \in TakenTargets(conf.prog[p]), NEW d \in Addr, d = q \/ ~Moves(conf.prog[p])
  PROVE  Now(f, e, b, n + 1, q, Delay(conf.prog[p]), After(conf.prog[p], s), d)
<1> DEFINE i == conf.prog[p]
<1>1. /\ Given /\ Built(f, e) /\ b \in DOMAIN f /\ n \in DOMAIN f[b] /\ p \in Addr /\ c \in Addr
      /\ s \in States /\ f[b] \in Seq(Items)
  BY DEF Facing, Now, Built, Typed
<1>2. /\ LineOpens(f, e, b, n, p) /\ p \in Mem /\ s # "trap" /\ ~Has(i, "CONDITIONAL")
  BY NothingOwed
<1>3. i \in Insn /\ Instr(p) \in Items
  BY <1>1, <1>2, ConfOK DEF Given, Instr, Items
<1>4. After(i, s) \in States /\ (After(i, s) = "trap" <=> Has(i, "TRAP")) /\ q \in Addr
  BY <1>1, <1>3, AfterState, TargetsInAddr
<1>5. PICK l \in Entrances(e) :
        /\ l \in Mem /\ InPlace(l, p)
        /\ \A x \in DOMAIN Rest(l, p) \ {Label(l)} : x \in DOMAIN f /\ f[x] = Rest(l, p)[x]
        /\ f[b][n] = Instr(p)
        /\ \/ OnFrom(f[b], n, Taking(p, To(l, i), Then(i))) /\ Last(l, p)
           \/ /\ GoesOn(i) /\ mode # "step" /\ CarriesOn(l, p, i.next)
              /\ OnFrom(f[b], n + 1, Rest(l, i.next)[Label(l)])
              /\ Rest(l, i.next)[Label(l)] \in Seq(Items)
  BY <1>2 DEF LineOpens
<1>6. CASE OnFrom(f[b], n, Taking(p, To(l, i), Then(i))) /\ Last(l, p)
  <2>1. PICK r \in Seq(Items) : /\ Taking(p, To(l, i), Then(i)) = <<Instr(p)>> \o r
                                /\ \/ Ready(f, e, r, q, Delay(i), After(i, s), d)
                                   \/ AtEnd(r, Delay(i)) /\ GoesOn(i)
    <3>1. l \in Entrances(e) /\ l \in Mem
      BY <1>5
    <3> QED BY <1>1, <1>2, <1>4, <3>1, AfterTaking
  <2>2. OnFrom(f[b], n + 1, r)
    BY <1>1, <1>3, <1>6, <2>1, OneOn
  <2>3. mode = "step_bb" /\ GoesOn(i) => i.next \notin Code
    BY <1>2, <1>6 DEF Last, StraightEnds, Continues, GoesOn
  <2>4. n \in Int
    BY <1>1
  <2> QED BY <1>1, <1>2, <1>4, <1>5, <2>1, <2>2, <2>3, <2>4, EndsBehind
<1>7. CASE /\ GoesOn(i) /\ mode # "step" /\ CarriesOn(l, p, i.next)
           /\ OnFrom(f[b], n + 1, Rest(l, i.next)[Label(l)])
           /\ Rest(l, i.next)[Label(l)] \in Seq(Items)
  <2>1. ~Jumps(i) /\ ~Has(i, "TRAP") /\ ~Has(i, "DELAY_SLOT")
    BY <1>3, <1>7, Kinds
  <2>2. q = i.next /\ Delay(i) = <<>>
    BY <1>3, <2>1, Kinds DEF TakenTargets, Delay
  <2>3. \A x \in DOMAIN Rest(l, i.next) \ {Label(l)} : x \in DOMAIN f /\ f[x] = Rest(l, i.next)[x]
    BY <1>5, <1>7 DEF CarriesOn
  <2>4. OnLine(f, e, Rest(l, i.next)[Label(l)], q, Delay(i), After(i, s))
    BY <1>4, <1>7, <2>1, <2>2, <2>3 DEF OnLine, CarriesOn
  <2> QED BY <1>1, <1>4, <1>7, <2>4 DEF Now, Ready
<1> QED BY <1>5, <1>6, <1>7

LEMMA TestStep ==
  ASSUME NEW f, NEW e, NEW b, NEW n, NEW p, NEW o, NEW s, NEW c,
         Facing(f, e, b, n, p, o, s, c), f[b][n].op = "cond"
  PROVE  LET i == conf.prog[p]
         IN /\ \A q \in TakenTargets(i) : Now(f, e, f[b][n].yes, 1, q, <<p>> \o Delay(i), After(i, s), c)
            /\ Now(f, e, f[b][n].no, 1, i.next, Delay(i), After(i, s), c)
<1> DEFINE i == conf.prog[p]
           z == Untaken(i)
<1>1. /\ Given /\ Built(f, e) /\ b \in DOMAIN f /\ n \in DOMAIN f[b] /\ p \in Addr /\ c \in Addr
      /\ s \in States
  BY DEF Facing, Now
<1>2. /\ LineOpens(f, e, b, n, p) /\ p \in Mem /\ Has(i, "CONDITIONAL")
  BY NothingOwed
<1>3. i \in Insn
  BY <1>1, <1>2, ConfOK DEF Given
<1>4. ~Has(i, "TRAP") /\ TakenTargets(i) \subseteq Addr /\ i.next \in Addr /\ i.slot \in Addr
  BY <1>2, <1>3, Kinds, TargetsInAddr
<1>5. After(i, s) \in States /\ After(i, s) # "trap"
  BY <1>1, <1>3, <1>4, AfterState
<1>6. PICK l \in Entrances(e) :
        /\ l \in Mem /\ InPlace(l, p)
        /\ \A x \in DOMAIN Rest(l, p) \ {Label(l)} : x \in DOMAIN f /\ f[x] = Rest(l, p)[x]
        /\ f[b][n] = Cond(p, CondBlock(l, p), IF Has(i, "DELAY_SLOT") THEN DelayBlock(l, p) ELSE z)
        /\ Tests(l, p, i)
  BY <1>2 DEF LineOpens
<1>7. CondBlock(l, p) # Label(l) /\ DelayBlock(l, p) # Label(l)
  BY DEF CondBlock, DelayBlock, Label
<1>8. /\ f[b][n].yes = CondBlock(l, p)
      /\ f[b][n].no = IF Has(i, "DELAY_SLOT") THEN DelayBlock(l, p) ELSE z
  BY <1>6 DEF Cond
<1>9. ASSUME NEW q \in TakenTargets(i)
      PROVE  Now(f, e, f[b][n].yes, 1, q, <<p>> \o Delay(i), After(i, s), c)
  <2> DEFINE y == CondBlock(l, p)
  <2>1. y \in DOMAIN f /\ f[y] = Taking(p, To(l, i), Then(i))
    BY <1>6, <1>7 DEF Tests
  <2>2. f[y] \in Seq(Items)
    BY <1>1, <2>1 DEF Built, Typed
  <2>3. Tested(e, f[y], q, <<p>> \o Delay(i), After(i, s))
    BY <1>2, <1>4, <1>5, <2>1 DEF Tested
  <2> HIDE DEF y
  <2>4. OnFrom(f[y], 1, f[y])
    BY <2>2, AllOfIt
  <2>5. Now(f, e, y, 1, q, <<p>> \o Delay(i), After(i, s), c)
    BY <1>1, <1>4, <1>5, <2>1, <2>2, <2>3, <2>4 DEF Now, Ready
  <2> QED BY <1>8, <2>5 DEF y
<1>10. Now(f, e, f[b][n].no, 1, i.next, Delay(i), After(i, s), c)
  <2>1. Leads(e, z, i.next, After(i, s), c)
    BY <1>1, <1>3, <1>5, UntakenLeads
  <2>2. CASE Has(i, "DELAY_SLOT")
    <3> DEFINE y == DelayBlock(l, p)
    <3>1. y \in DOMAIN f /\ f[y] = <<Instr(i.slot), Br(z)>>
      BY <1>6, <1>7, <2>2 DEF Tests
    <3>2. f[y] \in Seq(Items) /\ z \in Names
      BY <1>1, <1>3, <1>6, <3>1, Exits DEF Built, Typed
    <3>3. Delay(i) = <<i.slot>>
      BY <2>2 DEF Delay
    <3> HIDE DEF y, z
    <3>4. InSlot(e, f[y], i.next, Delay(i), After(i, s), c)
      BY <1>4, <2>1, <3>1, <3>2, <3>3 DEF InSlot
    <3>5. OnFrom(f[y], 1, f[y])
      BY <3>2, AllOfIt
    <3>6. Now(f, e, y, 1, i.next, Delay(i), After(i, s), c)
      BY <1>1, <1>4, <1>5, <3>1, <3>2, <3>4, <3>5 DEF Now, Ready
    <3> QED BY <1>8, <2>2, <3>6 DEF y
  <2>3. CASE ~Has(i, "DELAY_SLOT")
    <3>1. Delay(i) = <<>> /\ f[b][n].no = z
      BY <1>8, <2>3 DEF Delay
    <3>2. z \in DOMAIN f
      BY <1>1, <3>1 DEF Built, Links, Linking, Goes
    <3> HIDE DEF z
    <3>3. Now(f, e, z, 1, i.next, <<>>, After(i, s), c)
      BY <1>1, <1>4, <1>5, <2>1, <3>2, GoesThere
    <3> QED BY <3>1, <3>3
  <2> QED BY <2>2, <2>3
<1> QED BY <1>9, <1>10

--------------------------------------------------------------------------------
(***************************************************************************)
(* The program and what was translated of it before do not change.         *)
(***************************************************************************)
LEMMA SameTags ==
  ASSUME conf' = conf, elsewhere' = elsewhere
  PROVE  Reached' = Reached /\ Starts' = Starts /\ Blocks' = Blocks
<1>1. Entries' = Entries
  BY DEF Entries
<1>2. \A S : Closed(S)' <=> Closed(S)
  BY DEF Closed
<1>3. Reached' = Reached
  BY <1>1, <1>2 DEF Reached
<1>4. Starts' = Starts
  BY <1>1, <1>3 DEF Starts, SubseqLabels
<1> QED BY <1>3, <1>4 DEF Blocks

LEMMA SameLines ==
  ASSUME conf' = conf, elsewhere' = elsewhere, NEW l
  PROVE  Line(l)' = Line(l) /\ Stepped(l)' = Stepped(l) /\ Straight(l)' = Straight(l)
<1>1. Reached' = Reached /\ Starts' = Starts /\ Blocks' = Blocks
  BY SameTags
<1>2. Line(l)' = Line(l)
  BY <1>1 DEF Line, translate_instr, Delayed, Plain, Continues, Target, NotTaken, lookup_basicblock, Ends
<1>3. Stepped(l)' = Stepped(l)
  BY DEF Stepped, translate_instr, Delayed, Plain, Continues, StepTarget
<1>4. Straight(l)' = Straight(l)
  BY DEF Straight, translate_instr, Delayed, Plain, Continues, LoopTarget, StepTarget
<1> QED BY <1>2, <1>3, <1>4

LEMMA SameParts ==
  ASSUME conf' = conf, mode' = mode, elsewhere' = elsewhere, NEW l, NEW a, NEW i, NEW t, NEW c
  PROVE  /\ Rest(l, a)' = Rest(l, a) /\ (InPlace(l, a)' <=> InPlace(l, a))
         /\ Entrances(l)' = Entrances(l)
         /\ To(l, i)' = To(l, i) /\ Then(i)' = Then(i)
         /\ Taking(a, t, c)' = Taking(a, t, c)
<1>1. Reached' = Reached /\ Starts' = Starts /\ Blocks' = Blocks
  BY SameTags
<1>2. Line(l)' = Line(l) /\ Stepped(l)' = Stepped(l) /\ Straight(l)' = Straight(l)
  BY SameLines
<1>3. Rest(l, a)' = Rest(l, a)
  BY <1>2 DEF Rest
<1>4. InPlace(l, a)' <=> InPlace(l, a)
  BY <1>1 DEF InPlace, Places
<1>5. Entrances(l)' = Entrances(l)
  BY <1>1 DEF Entrances
<1>6. To(l, i)' = To(l, i) /\ Then(i)' = Then(i)
  BY <1>1 DEF To, Then, Target, StepTarget, LoopTarget, lookup_basicblock
<1>7. Taking(a, t, c)' = Taking(a, t, c)
  BY DEF Taking
<1> QED BY <1>3, <1>4, <1>5, <1>6, <1>7

LEMMA SameTesting ==
  ASSUME conf' = conf, mode' = mode, elsewhere' = elsewhere,
         NEW e, NEW r, NEW p, NEW o, NEW s
  PROVE  Tested(e, r, p, o, s)' <=> Tested(e, r, p, o, s)
<1>1. Entrances(e)' = Entrances(e)
  BY SameParts
<1>2. ASSUME NEW l, NEW a
      PROVE  /\ To(l, conf.prog[a])' = To(l, conf.prog[a]) /\ Then(conf.prog[a])' = Then(conf.prog[a])
             /\ Taking(a, To(l, conf.prog[a]), Then(conf.prog[a]))'
                  = Taking(a, To(l, conf.prog[a]), Then(conf.prog[a]))
  <2>1. Reached' = Reached /\ Starts' = Starts /\ Blocks' = Blocks
    BY SameTags
  <2> QED BY <2>1 DEF Taking, To, Then, Target, StepTarget, LoopTarget, lookup_basicblock
<1>3. Tested(e, r, p, o, s)' <=>
        \E l \in Entrances(e)', a \in Mem :
           /\ r = Taking(a, To(l, conf.prog[a]), Then(conf.prog[a]))'
           /\ o = <<a>> \o Delay(conf'.prog[a]) /\ p \in TakenTargets(conf'.prog[a])
           /\ s # "trap" /\ ~Has(conf'.prog[a], "TRAP") /\ Has(conf'.prog[a], "CONDITIONAL")
  BY DEF Tested
<1> QED BY <1>1, <1>2, <1>3 DEF Tested

LEMMA SameReady ==
  ASSUME conf' = conf, mode' = mode, elsewhere' = elsewhere,
         NEW f, NEW e, NEW r, NEW p, NEW o, NEW s, NEW c
  PROVE  Ready(f, e, r, p, o, s, c)' <=> Ready(f, e, r, p, o, s, c)
<1>1. Blocks' = Blocks /\ Entrances(e)' = Entrances(e)
  BY SameTags, SameParts
<1>2. \A t : Leads(e, t, p, s, c)' <=> Leads(e, t, p, s, c)
  BY <1>1 DEF Leads
<1>3. /\ Switching(r, p, o, s, c)' <=> Switching(r, p, o, s, c)
      /\ Returning(r, p, o, s, c)' <=> Returning(r, p, o, s, c)
      /\ Leaving(r, p, o, s)' <=> Leaving(r, p, o, s)
  BY <1>1 DEF Switching, Returning, Leaving
<1>4. /\ Branching(e, r, p, o, s, c)' <=> Branching(e, r, p, o, s, c)
      /\ InSlot(e, r, p, o, s, c)' <=> InSlot(e, r, p, o, s, c)
  BY <1>2 DEF Branching, InSlot
<1>5. OnLine(f, e, r, p, o, s)' <=> OnLine(f, e, r, p, o, s)
  <2>1. \A l : Rest(l, p)' = Rest(l, p) /\ (InPlace(l, p)' <=> InPlace(l, p))
    BY SameParts
  <2> QED BY <1>1, <2>1 DEF OnLine
<1>6. Tested(e, r, p, o, s)' <=> Tested(e, r, p, o, s)
  BY SameTesting
<1> QED BY <1>3, <1>4, <1>5, <1>6 DEF Ready

LEMMA SameNow ==
  ASSUME conf' = conf, mode' = mode, elsewhere' = elsewhere, NEW f, NEW e
  PROVE  /\ Built(f, e)' <=> Built(f, e)
         /\ \A b, n, p, o, s, c : Now(f, e, b, n, p, o, s, c)' <=> Now(f, e, b, n, p, o, s, c)
<1>1. Entrances(e)' = Entrances(e)
  BY SameParts
<1>2. Has_Lines(f, e)' <=> Has_Lines(f, e)
  <2>1. \A l : Rest(l, l)' = Rest(l, l)
    BY SameParts
  <2> QED BY <1>1, <2>1 DEF Has_Lines
<1>3. Built(f, e)' <=> Built(f, e)
  BY <1>1, <1>2 DEF Built
<1>4. ASSUME NEW b, NEW n, NEW p, NEW o, NEW s, NEW c
      PROVE  Now(f, e, b, n, p, o, s, c)' <=> Now(f, e, b, n, p, o, s, c)
  <2>1. \A r : Ready(f, e, r, p, o, s, c)' <=> Ready(f, e, r, p, o, s, c)
    BY SameReady
  <2>2. /\ \A r : AtEnd(r, o)' <=> AtEnd(r, o)
        /\ Unlinked(f, b, n)' <=> Unlinked(f, b, n)
    BY DEF AtEnd, Unlinked
  <2> QED BY <2>1, <2>2 DEF Now
<1> QED BY <1>3, <1>4

--------------------------------------------------------------------------------
(***************************************************************************)
(* The invariant.  While a function is executed, what is left of it suits  *)
(* the guest; with the client, the guest is where the program counter says.*)
(***************************************************************************)
Executes ==
    \E f, e, b, n, p, o, s, c :
        /\ f = fn /\ b = bb /\ n = at /\ p = gpc /\ o = owed /\ s = steps /\ c = PC
        /\ Built(f, e) /\ Now(f, e, b, n, p, o, s, c)

WithClient ==
    /\ fn = <<>> /\ PC = gpc /\ owed = <<>> /\ steps \in States
    /\ steps # "none" => (code = "TRAP" <=> steps = "trap")
    /\ mode = "all" /\ steps \in {"one", "many"} => PC \notin Blocks

Invariant ==
    /\ Given /\ mode \in Modes
    /\ PC \in Addr /\ gpc \in Addr /\ Len(owed) <= 2 /\ agrees = TRUE
    /\ ctl \in {"client", "guest", "lost"} /\ code \in {"NOERR", "TRAP"}
    /\ ctl = "client" => WithClient
    /\ ctl = "guest" => Executes
    /\ ctl = "lost" => mode = "step_bb" /\ bb \in DOMAIN fn /\ Unlinked(fn, bb, at)

LEMMA InitInvariant == Init => Invariant
<1> SUFFICES ASSUME Init PROVE Invariant
  OBVIOUS
<1>1. Given /\ mode \in Modes
  BY TranslationAssumption DEF Init, Given
<1>2. PC \in Addr /\ gpc \in Addr /\ Len(owed) <= 2
  BY AddrAssumption DEF Init
<1>3. WithClient
  BY DEF Init, WithClient, States
<1> QED BY <1>1, <1>2, <1>3 DEF Init, Invariant

LEMMA OwesLittle ==
  ASSUME NEW f, NEW e, NEW b, NEW n, NEW p, NEW o, NEW s, NEW c, Now(f, e, b, n, p, o, s, c)
  PROVE  Len(o) <= 2
<1>1. PICK r : Ready(f, e, r, p, o, s, c) \/ AtEnd(r, o)
  BY DEF Now
<1>2. Len(<<>>) = 0 /\ \A x : Len(<<x>>) = 1
  OBVIOUS
<1>3. CASE Tested(e, r, p, o, s)
  <2>1. PICK a \in Mem : o = <<a>> \o Delay(conf.prog[a])
    BY <1>3 DEF Tested
  <2>2. CASE Has(conf.prog[a], "DELAY_SLOT")
    <3>1. o = <<a, conf.prog[a].slot>>
      BY <2>1, <2>2, Pair DEF Delay
    <3> QED BY <3>1
  <2>3. CASE ~Has(conf.prog[a], "DELAY_SLOT")
    <3>1. <<a>> \in Seq({a})
      OBVIOUS
    <3>2. o = <<a>>
      BY <2>1, <2>3, <3>1 DEF Delay
    <3> QED BY <3>2
  <2> QED BY <2>2, <2>3
<1>4. CASE InSlot(e, r, p, o, s, c)
  BY <1>2, <1>4 DEF InSlot
<1>5. CASE o = <<>>
  BY <1>2, <1>5
<1> QED BY <1>1, <1>3, <1>4, <1>5
    DEF Ready, Switching, Returning, Leaving, Branching, OnLine, AtEnd

\* A step within the function from this state of the execution to that one.
LEMMA StepWithin ==
  ASSUME Invariant, conf' = conf, mode' = mode, elsewhere' = elsewhere, fn' = fn,
         code' = code, agrees' = TRUE, ctl' = "guest",
         NEW e, Built(fn, e), NEW b, NEW n, NEW p, NEW o, NEW s, NEW c,
         Now(fn, e, b, n, p, o, s, c),
         bb' = b, at' = n, gpc' = p, owed' = o, steps' = s, PC' = c
  PROVE  Invariant'
<1>1. Given' /\ mode' \in Modes
  BY SameTags DEF Invariant, Given
<1>2. p \in Addr /\ c \in Addr /\ Len(o) <= 2
  BY OwesLittle DEF Now
<1>3. Executes'
  <2>1. PICK g : g = fn
    OBVIOUS
  <2>2. Built(g, e) /\ Now(g, e, b, n, p, o, s, c)
    BY <2>1
  <2>3. Built(g, e)' /\ Now(g, e, b, n, p, o, s, c)'
    BY <2>2, SameNow
  <2> QED BY <2>1, <2>3 DEF Executes
<1> QED BY <1>1, <1>2, <1>3 DEF Invariant

LEMMA RunKeeps == Invariant /\ Run => Invariant'
<1> SUFFICES ASSUME Invariant, Run PROVE Invariant'
  OBVIOUS
<1>1. conf' = conf /\ mode' = mode /\ elsewhere' = elsewhere
  BY DEF Run
<1>2. Given /\ WithClient /\ (mode # "all" => PC \in Mem) /\ PC \in Addr
  BY DEF Invariant, Run
<1>3. PICK e : e = PC
  OBVIOUS
<1>4. PICK f : f = Function(e)
  OBVIOUS
<1>5. fn' = f
  BY <1>3, <1>4 DEF Run, Function
<1>6. Built(f, e)
  BY <1>2, <1>3, <1>4, FunctionBuilt
<1>7. PICK b : b = IF mode = "all" THEN Dispatch ELSE Label(e)
  OBVIOUS
<1>8. Now(f, e, b, 1, e, <<>>, "none", e)
  <2>1. e \in Addr /\ "none" \in States
    BY <1>2, <1>3 DEF States
  <2>2. CASE mode = "all"
    <3>1. b \in DOMAIN f /\ Leads(e, b, e, "none", e)
      BY <1>6, <1>7, <2>2 DEF Built, Leads
    <3> QED BY <1>2, <1>6, <2>1, <3>1, GoesThere
  <2>3. CASE mode # "all"
    <3>1. e \in Entrances(e) /\ b = Label(e) /\ e \in Mem
      BY <1>2, <1>3, <1>7, <2>3 DEF Entrances
    <3>2. InPlace(e, e)
      BY <2>3, <3>1 DEF InPlace, Places
    <3>3. \A x \in DOMAIN Rest(e, e) : x \in DOMAIN f /\ f[x] = Rest(e, e)[x]
      BY <1>6, <3>1 DEF Built, Has_Lines
    <3>4. b \in DOMAIN f /\ f[b] = Rest(e, e)[Label(e)] /\ f[b] \in Seq(Items)
      BY <1>2, <1>6, <3>1, <3>2, <3>3, LineShape DEF Shape, Built, Typed
    <3>5. OnFrom(f[b], 1, f[b])
      BY <3>4, AllOfIt
    <3>6. OnLine(f, e, f[b], e, <<>>, "none")
      BY <3>1, <3>2, <3>3, <3>4 DEF OnLine
    <3> QED BY <2>1, <3>4, <3>5, <3>6 DEF Now, Ready
  <2> QED BY <2>2, <2>3
<1>9. Built(f, e)' /\ Now(f, e, b, 1, e, <<>>, "none", e)'
  BY <1>1, <1>6, <1>8, SameNow
<1>10. /\ bb' = b /\ at' = 1 /\ gpc' = e /\ owed' = <<>> /\ steps' = "none" /\ PC' = e
       /\ ctl' = "guest" /\ code' = code /\ agrees' = agrees
  BY <1>2, <1>3, <1>7 DEF Run, WithClient
<1>11. Executes'
  BY <1>5, <1>9, <1>10 DEF Executes
<1>12. Given' /\ mode' \in Modes
  BY <1>1, SameTags DEF Invariant, Given
<1>13. PC' \in Addr /\ gpc' \in Addr /\ Len(owed') <= 2
  BY <1>2, <1>3, <1>10
<1> QED BY <1>10, <1>11, <1>12, <1>13 DEF Invariant

LEMMA Faced ==
  ASSUME Invariant, ctl = "guest"
  PROVE  \E e : /\ Given /\ Built(fn, e) /\ Now(fn, e, bb, at, gpc, owed, steps, PC)
                /\ at \in DOMAIN fn[bb] => Facing(fn, e, bb, at, gpc, owed, steps, PC)
BY DEF Invariant, Executes, Facing

LEMMA TestKeeps == Invariant /\ Test => Invariant'
<1> SUFFICES ASSUME Invariant, Test PROVE Invariant'
  OBVIOUS
<1>1. /\ ctl = "guest" /\ at \in DOMAIN fn[bb] /\ Here.op = "cond"
      /\ conf' = conf /\ mode' = mode /\ elsewhere' = elsewhere /\ fn' = fn /\ PC' = PC
      /\ code' = code /\ ctl' = ctl /\ at' = 1 /\ agrees
  BY DEF Test, Executing, Goto, Invariant
<1>2. PICK e : Given /\ Built(fn, e) /\ Facing(fn, e, bb, at, gpc, owed, steps, PC)
  BY <1>1, Faced
<1> DEFINE i == conf.prog[gpc]
<1>3. Here.pc = gpc /\ owed = <<>> /\ Here = fn[bb][at]
  BY <1>1, <1>2, NothingOwed DEF Here
<1>4. /\ \A q \in TakenTargets(i) :
            Now(fn, e, Here.yes, 1, q, <<gpc>> \o Delay(i), After(i, steps), PC)
      /\ Now(fn, e, Here.no, 1, i.next, Delay(i), After(i, steps), PC)
  BY <1>1, <1>2, <1>3, TestStep
<1>5. steps' = After(i, steps) /\ agrees' = TRUE
  BY <1>1, <1>3 DEF Test, Passed, After
<1>6. \/ /\ bb' = Here.yes /\ owed' = <<gpc>> \o Delay(i) /\ gpc' \in TakenTargets(i)
      \/ bb' = Here.no /\ owed' = Delay(i) /\ gpc' = i.next
  BY <1>3 DEF Test, Goto
<1>7. Now(fn, e, bb', 1, gpc', owed', steps', PC)
  BY <1>4, <1>5, <1>6
<1> QED BY <1>1, <1>2, <1>5, <1>7, StepWithin

LEMMA DoKeeps == Invariant /\ Do => Invariant'
<1> SUFFICES ASSUME Invariant, Do PROVE Invariant'
  OBVIOUS
<1>1. /\ ctl = "guest" /\ at \in DOMAIN fn[bb] /\ Here.op = "instr" /\ Here = fn[bb][at]
      /\ conf' = conf /\ mode' = mode /\ elsewhere' = elsewhere /\ fn' = fn
      /\ code' = code /\ ctl' = ctl /\ at' = at + 1 /\ bb' = bb /\ agrees
      /\ PC \in Addr /\ gpc \in Addr
  BY DEF Do, Executing, GoOn, Invariant, Here
<1>2. PICK e : Given /\ Built(fn, e) /\ Facing(fn, e, bb, at, gpc, owed, steps, PC)
  BY <1>1, Faced
<1> DEFINE a == Here.pc
           i == conf.prog[a]
<1>3. CASE /\ owed # <<>> /\ owed' = Tail(owed) /\ agrees' = (agrees /\ Head(owed) = a)
           /\ Sets(i, a, gpc) /\ UNCHANGED <<gpc, steps>>
  <2>1. PC' = gpc \/ (~Moves(i) /\ PC' = PC)
    BY <1>3 DEF Sets, Moves
  <2>3. a = fn[bb][at].pc /\ fn[bb][at].op = "instr" /\ owed # <<>>
    BY <1>1, <1>3
  <2>4. PC' = gpc \/ (~Moves(conf.prog[fn[bb][at].pc]) /\ PC' = PC)
    BY <2>1, <2>3
  <2>2. Head(owed) = a /\ Now(fn, e, bb, at + 1, gpc, Tail(owed), steps, PC')
    <3> HIDE DEF a, i
    <3>1. Head(owed) = fn[bb][at].pc /\ Now(fn, e, bb, at + 1, gpc, Tail(owed), steps, PC')
      BY <1>2, <2>3, <2>4, OwedStep, Zenon
    <3> QED BY <2>3, <3>1
  <2> QED BY <1>1, <1>2, <1>3, <2>2, StepWithin
<1>4. CASE /\ owed = <<>> /\ owed' = Delay(i)
           /\ agrees' = (agrees /\ gpc = a /\ ~Has(i, "CONDITIONAL"))
           /\ gpc' \in TakenTargets(i) /\ Sets(i, a, gpc') /\ Passed(i)
  <2>1. a = gpc /\ ~Has(i, "CONDITIONAL") /\ a \in Mem
    BY <1>1, <1>2, <1>4, NothingOwed
  <2>2. i \in Insn /\ steps' = After(i, steps) /\ agrees' = TRUE
    BY <1>1, <1>2, <1>4, <2>1, ConfOK DEF Passed, After, Given
  <2>3. gpc' \in Addr
    BY <1>4, <2>2, TargetsInAddr
  <2>4. (PC' = gpc' \/ ~Moves(i)) /\ PC' \in Addr
    BY <1>1, <1>4, <2>3 DEF Sets, Moves
  <2>5. Now(fn, e, bb, at + 1, gpc', Delay(i), After(i, steps), PC')
    <3> HIDE DEF i
    <3>1. Facing(fn, e, bb, at, gpc, <<>>, steps, PC) /\ fn[bb][at].op = "instr" /\ i = conf.prog[gpc]
      BY <1>1, <1>2, <1>4, <2>1 DEF i
    <3> QED BY <1>4, <2>4, <3>1, InstrStep
  <2> QED BY <1>1, <1>2, <1>4, <2>2, <2>5, StepWithin
<1> QED BY <1>3, <1>4 DEF Do

LEMMA StoreKeeps == Invariant /\ Store => Invariant'
<1> SUFFICES ASSUME Invariant, Store PROVE Invariant'
  OBVIOUS
<1>1. /\ ctl = "guest" /\ at \in DOMAIN fn[bb] /\ Here.op = "store" /\ Here = fn[bb][at]
      /\ conf' = conf /\ mode' = mode /\ elsewhere' = elsewhere /\ fn' = fn /\ PC' = Here.pc
      /\ code' = code /\ ctl' = ctl /\ at' = at + 1 /\ bb' = bb /\ agrees' = agrees /\ agrees = TRUE
      /\ gpc' = gpc /\ owed' = owed /\ steps' = steps
  BY DEF Store, Executing, GoOn, Invariant, Here
<1>2. PICK e : Given /\ Built(fn, e) /\ Facing(fn, e, bb, at, gpc, owed, steps, PC)
  BY <1>1, Faced
<1>3. Here.pc = gpc /\ Now(fn, e, bb, at + 1, gpc, owed, steps, gpc)
  BY <1>1, <1>2, StoreStep
<1> QED BY <1>1, <1>2, <1>3, StepWithin

LEMMA BranchKeeps == Invariant /\ Branch => Invariant'
<1> SUFFICES ASSUME Invariant, Branch PROVE Invariant'
  OBVIOUS
<1>1. /\ ctl = "guest" /\ at \in DOMAIN fn[bb] /\ Here.op = "br" /\ Here = fn[bb][at]
      /\ conf' = conf /\ mode' = mode /\ elsewhere' = elsewhere /\ fn' = fn /\ PC' = PC
      /\ code' = code /\ ctl' = ctl /\ at' = 1 /\ bb' = Here.to /\ agrees' = agrees /\ agrees = TRUE
      /\ gpc' = gpc /\ owed' = owed /\ steps' = steps
  BY DEF Branch, Executing, Goto, Invariant, Here
<1>2. PICK e : Given /\ Built(fn, e) /\ Facing(fn, e, bb, at, gpc, owed, steps, PC)
  BY <1>1, Faced
<1>3. Now(fn, e, Here.to, 1, gpc, owed, steps, PC)
  BY <1>1, <1>2, BranchStep
<1> QED BY <1>1, <1>2, <1>3, StepWithin

LEMMA SwitchKeeps == Invariant /\ Switch => Invariant'
<1> SUFFICES ASSUME Invariant, Switch PROVE Invariant'
  OBVIOUS
<1> DEFINE t == IF PC \in Blocks THEN Label(PC) ELSE bb_ret
<1>1. /\ ctl = "guest" /\ at \in DOMAIN fn[bb] /\ Here.op = "switch" /\ Here = fn[bb][at]
      /\ conf' = conf /\ mode' = mode /\ elsewhere' = elsewhere /\ fn' = fn /\ PC' = PC
      /\ code' = code /\ ctl' = ctl /\ at' = 1 /\ bb' = t /\ agrees' = agrees /\ agrees = TRUE
      /\ gpc' = gpc /\ owed' = owed /\ steps' = steps
  BY DEF Switch, Executing, Goto, Invariant, Here
<1>2. PICK e : Given /\ Built(fn, e) /\ Facing(fn, e, bb, at, gpc, owed, steps, PC)
  BY <1>1, Faced
<1>3. Now(fn, e, t, 1, gpc, owed, steps, PC)
  BY <1>1, <1>2, SwitchStep
<1> HIDE DEF t
<1> QED BY <1>1, <1>2, <1>3, StepWithin

LEMMA LeaveKeeps == Invariant /\ Leave => Invariant'
<1> SUFFICES ASSUME Invariant, Leave PROVE Invariant'
  OBVIOUS
<1>1. /\ ctl = "guest" /\ at \in DOMAIN fn[bb] /\ Here.op = "return" /\ Here = fn[bb][at]
      /\ conf' = conf /\ mode' = mode /\ elsewhere' = elsewhere /\ fn' = <<>> /\ PC' = PC
      /\ code' = Here.code /\ ctl' = "client" /\ agrees' = agrees /\ agrees = TRUE
      /\ gpc' = gpc /\ owed' = owed /\ steps' = steps
  BY DEF Leave, Executing, Invariant, Here
<1>2. PICK e : Given /\ Built(fn, e) /\ Facing(fn, e, bb, at, gpc, owed, steps, PC)
  BY <1>1, Faced
<1>3. /\ owed = <<>> /\ PC = gpc /\ Here.code \in {"NOERR", "TRAP"}
      /\ Here.code = "TRAP" <=> steps = "trap"
      /\ mode = "all" /\ steps # "trap" => PC \notin Blocks
  BY <1>1, <1>2, ReturnStep
<1>4. steps \in States
  BY <1>2 DEF Facing, Now
<1>5. Given' /\ Blocks' = Blocks
  BY <1>1, SameTags DEF Invariant, Given
<1>6. WithClient'
  BY <1>1, <1>3, <1>4, <1>5 DEF WithClient
<1> QED BY <1>1, <1>3, <1>5, <1>6 DEF Invariant

LEMMA LostKeeps == Invariant /\ Lost => Invariant'
<1> SUFFICES ASSUME Invariant, Lost PROVE Invariant'
  OBVIOUS
<1>1. /\ ctl = "guest" /\ (bb \notin DOMAIN fn \/ at \notin DOMAIN fn[bb]) /\ ctl' = "lost"
      /\ conf' = conf /\ mode' = mode /\ elsewhere' = elsewhere /\ fn' = fn /\ PC' = PC
      /\ code' = code /\ agrees' = agrees /\ bb' = bb /\ gpc' = gpc /\ owed' = owed
  BY DEF Lost
<1>2. PICK e : Given /\ Built(fn, e) /\ Now(fn, e, bb, at, gpc, owed, steps, PC)
  BY <1>1, Faced
<1>3. bb \in DOMAIN fn
  BY <1>2 DEF Now
<1>4. mode = "step_bb" /\ Unlinked(fn, bb, at)
  BY <1>1, <1>2, <1>3, LostStep
<1>5. Given'
  BY <1>1, SameTags DEF Invariant, Given
<1>6. Unlinked(fn, bb, at)'
  BY <1>1, <1>4 DEF Unlinked, Lost
<1> QED BY <1>1, <1>3, <1>4, <1>5, <1>6 DEF Invariant

LEMMA NextInvariant == Invariant /\ [Next]_vars => Invariant'
<1>1. ASSUME Invariant, UNCHANGED vars PROVE Invariant'
  <2>1. Given' /\ Blocks' = Blocks /\ conf' = conf /\ mode' = mode /\ elsewhere' = elsewhere
    BY <1>1, SameTags DEF Invariant, Given, vars
  <2>2. Executes => Executes'
    BY <1>1, <2>1, SameNow DEF Executes, vars
  <2>3. WithClient => WithClient'
    BY <1>1, <2>1 DEF WithClient, vars
  <2>4. Unlinked(fn, bb, at)' <=> Unlinked(fn, bb, at)
    BY <1>1 DEF Unlinked, vars
  <2> QED BY <1>1, <2>1, <2>2, <2>3, <2>4 DEF Invariant, vars
<1> QED BY <1>1, RunKeeps, TestKeeps, DoKeeps, StoreKeeps, BranchKeeps, SwitchKeeps, LeaveKeeps,
           LostKeeps DEF Next

--------------------------------------------------------------------------------
(***************************************************************************)
(* What holds for every guest program.                                     *)
(***************************************************************************)
LEMMA Always == Spec => []Invariant
BY InitInvariant, NextInvariant, PTL DEF Spec

\* Execution stays in a block of the function, and no more than an instruction and its
\* delay slot is owed.
THEOREM TypeCorrect == Spec => []TypeOK
<1>1. Invariant => TypeOK
  <2>1. Executes => bb \in DOMAIN fn
    BY DEF Executes, Now
  <2> QED BY <2>1 DEF Invariant, Given, TypeOK
<1> QED BY <1>1, Always, PTL

\* cpu_translate_all() and cpu_translate_singlestep(): every block ends in its only
\* terminator and branches within the function.
THEOREM BlocksWellFormed == Spec => []WellFormed
<1>1. Invariant => WellFormed
  <2> SUFFICES ASSUME Invariant, mode # "step_bb", NEW b \in DOMAIN fn
               PROVE  LET block == fn[b]
                      IN /\ block # <<>>
                         /\ \A n \in DOMAIN block :
                              /\ block[n].op \in Terminators <=> n = Len(block)
                              /\ block[n].op = "br" => block[n].to \in DOMAIN fn
                              /\ block[n].op = "cond" => {block[n].yes, block[n].no} \subseteq DOMAIN fn
    BY DEF WellFormed
  <2>1. ctl = "guest"
    BY DEF Invariant, WithClient
  <2>2. PICK e : Built(fn, e)
    BY <2>1 DEF Invariant, Executes
  <2>3. Proper(fn[b]) /\ Linking(fn[b], DOMAIN fn, DOMAIN fn)
    BY <2>2 DEF Built, Links
  <2> QED BY <2>3 DEF Proper, Linking, Goes
<1> QED BY <1>1, Always, PTL

\* translate_instr() and the three translators: every instruction takes effect where the
\* guest passes it, and delay slots once behind their branch; the only ends that nothing
\* follows are those of cpu_translate_singlestep_bb() at the end of the code area and
\* behind a conditional instruction that goes on.
THEOREM OrderKept == Spec => []GuestOrder
<1>1. Invariant => GuestOrder
  BY DEF Invariant, GuestOrder
<1> QED BY <1>1, Always, PTL

\* The exits of a function: the program counter is the guest's when it returns, nothing is
\* owed, and its exit code tells a trap.
THEOREM ReturnsThere == Spec => []ReturnsWhereGuestIs
<1>1. Invariant => ReturnsWhereGuestIs
  BY DEF Invariant, WithClient, ReturnsWhereGuestIs
<1> QED BY <1>1, Always, PTL

\* cpu_translate_all(): the function is left only for code it does not have, or by a trap.
THEOREM LeavesWhenUnknown == Spec => []LeavesOnlyWhenUnknown
<1>1. Invariant => LeavesOnlyWhenUnknown
  BY DEF Invariant, WithClient, LeavesOnlyWhenUnknown
<1> QED BY <1>1, Always, PTL

\* cpu_translate_singlestep(): the guest passes one instruction, and no second one.
THEOREM StepsOnlyOnce == Spec => StepsOnce
<1>1. Invariant /\ [Next]_vars =>
        [mode = "step" /\ steps = "one" /\ ctl = "guest" => steps' = "one"]_vars
  <2> SUFFICES ASSUME Invariant, Next, mode = "step", steps = "one", ctl = "guest"
               PROVE  steps' = "one"
    OBVIOUS
  <2>1. PICK e : at \in DOMAIN fn[bb] => Facing(fn, e, bb, at, gpc, owed, steps, PC)
    BY Faced
  <2>2. ASSUME at \in DOMAIN fn[bb],
               fn[bb][at].op = "cond" \/ (fn[bb][at].op = "instr" /\ owed = <<>>)
        PROVE  FALSE
    BY <2>1, <2>2, NothingOwed
  <2>3. ~Test
    BY <2>2 DEF Test, Executing, Here
  <2>4. Do => UNCHANGED steps
    BY <2>2 DEF Do, Executing, Here
  <2>5. ~Run
    BY DEF Run
  <2> QED BY <2>3, <2>4, <2>5 DEF Next, Store, Branch, Switch, Leave, Lost
<1> QED BY <1>1, Always, PTL DEF Spec, StepsOnce
================================================================================
