------------------------------ MODULE Translation ------------------------------
(***************************************************************************)
(* The functions that libcpu generates: translate.cpp, translate_all.cpp,  *)
(* translate_singlestep.cpp and translate_singlestep_bb.cpp build basic    *)
(* blocks from guest instructions, and the host executes them.  Engine     *)
(* abstracts such a function to the addresses it can be entered at; here   *)
(* it has its blocks and their instructions.                               *)
(*                                                                         *)
(* A block is a sequence of what was inserted at its end:                  *)
(*   instr   the code of the guest instruction at pc                       *)
(*   cond    branch to yes or no after testing the condition of pc         *)
(*   store   the guest's program counter becomes pc                        *)
(*   br      branch                                                        *)
(*   switch  branch to the block of the guest's program counter            *)
(*   return  leave the function with an exit code                          *)
(***************************************************************************)
EXTENDS GuestProgram, FiniteSets

CONSTANTS
    Modes,        \* subset of {"all", "step", "step_bb"}: which translator runs
    MaxElsewhere  \* bound: labels that earlier functions have

ASSUME TranslationAssumption ==
    Modes \subseteq {"all", "step", "step_bb"} /\ MaxElsewhere \in Nat

\* next_pc is pc plus a length: going from instruction to instruction never comes
\* back, so every set of instructions of the code has one that leads out of it.
ASSUME ForwardAssumption ==
    \A c \in Configs : \A S \in SUBSET Code :
        S # {} => \E a \in S : c.prog[a].next \notin S

VARIABLES
    conf,      \* the guest program and the client's settings
    mode,      \* the translator that the client's debug flags choose
    elsewhere, \* labels that an earlier function has: TAG_TRANSLATED
    fn,        \* the function: block -> what it consists of
    bb,        \* the block that is executed
    at,        \* the position in it
    PC,        \* the guest's program counter in the register file
    ctl,       \* "client", "guest", "lost": nothing to execute
    code,      \* the exit code returned last
    gpc,       \* history: where the guest is by its own rules
    owed,      \* history: effects of instructions the guest has passed
    steps,     \* history: what the guest did in this function: none, one, many, trap
    agrees     \* history: every effect came in the guest's order

vars == <<conf, mode, elsewhere, fn, bb, at, PC, ctl, code, gpc, owed, steps, agrees>>

--------------------------------------------------------------------------------
(***************************************************************************)
(* What cpu_tag() left: the instructions reached from the entry points     *)
(* and the labels at them (Tagging.Exactness, Tagging.Labels).             *)
(***************************************************************************)
Entries == {conf.cache[n] : n \in DOMAIN conf.cache}

Closed(S) == \A a \in S : KnownSuccessors(conf.prog[a], conf.hint) \cap Code \subseteq S

Reached ==
    {a \in Code : \A S \in SUBSET Code : Entries \cap Code \subseteq S /\ Closed(S) => a \in S}

SubseqLabels(i) ==
    (IF Has(i, "CALL") \/ Has(i, "BRANCH") THEN {i.new} ELSE {})
    \cup (IF Has(i, "CALL") \/ Has(i, "CONDITIONAL") THEN {i.next} ELSE {})
    \cup (IF Has(i, "TRAP") THEN KnownSuccessors(i, conf.hint) ELSE {})

\* is_start_of_basicblock()
Starts ==
    LET tagged == Reached
    IN (Entries \cup UNION {SubseqLabels(conf.prog[a]) : a \in tagged}) \cap tagged

--------------------------------------------------------------------------------
(***************************************************************************)
(* Blocks.  Two blocks of the same kind for the same address and label     *)
(* have the same contents and share a name here.                           *)
(***************************************************************************)
Label(a) == <<"label", a, a>>
External(a) == <<"external", a, a>>
CondBlock(l, a) == <<"cond", l, a>>
DelayBlock(l, a) == <<"delay", l, a>>
Dispatch == <<"dispatch", NoPc, NoPc>>
bb_ret == <<"ret", NoPc, NoPc>>
bb_trap == <<"trap", NoPc, NoPc>>

Instr(a) == [op |-> "instr", pc |-> a]
Cond(a, yes, no) == [op |-> "cond", pc |-> a, yes |-> yes, no |-> no]
Br(b) == [op |-> "br", to |-> b]
Return(c) == [op |-> "return", code |-> c]
Terminators == {"cond", "br", "switch", "return"}

\* Mutant: the program counter is not stored.
StorePcReturn_NoStore(a) == <<Br(bb_ret)>>

\* emit_store_pc_return()
StorePcReturn(a) == <<[op |-> "store", pc |-> a], Br(bb_ret)>>

\* One block; and the blocks of two functions, which agree on those they share.
Only(b, body) == [x \in {b} |-> body]
Joined(f, g) ==
    [b \in DOMAIN f \cup DOMAIN g |-> IF b \in DOMAIN f THEN f[b] ELSE g[b]]

\* Insert the blocks of g behind what the blocks of f hold already.
Emit(f, g) ==
    [b \in DOMAIN f \cup DOMAIN g |->
        (IF b \in DOMAIN f THEN f[b] ELSE <<>>) \o (IF b \in DOMAIN g THEN g[b] ELSE <<>>)]

\* "special case: delay slot"
Delayed(i, pc, cur, l, target, next) ==
    IF Has(i, "CONDITIONAL")
    THEN Joined(Only(cur, <<Cond(pc, CondBlock(l, pc), DelayBlock(l, pc))>>),
                Joined(Only(CondBlock(l, pc), <<Instr(pc), Instr(i.slot), Br(target)>>),
                       Only(DelayBlock(l, pc), <<Instr(i.slot), Br(next)>>)))
    ELSE Only(cur, <<Instr(pc), Instr(i.slot), Br(target)>>)

\* "no delay slot"
Plain(i, pc, cur, l, target, next) ==
    LET body == <<Instr(pc)>> \o
                (IF i.tag \cap {"BRANCH", "CALL", "RET"} # {} THEN <<Br(target)>>
                 ELSE IF Has(i, "TRAP") THEN <<Br(bb_trap)>> ELSE <<>>)
    IN IF Has(i, "CONDITIONAL")
       THEN Joined(Only(cur, <<Cond(pc, CondBlock(l, pc), next)>>), Only(CondBlock(l, pc), body))
       ELSE Only(cur, body)

\* translate_instr(): what it inserts.  l is the block's label.
translate_instr(pc, l, cur, target, next) ==
    LET i == conf.prog[pc]
    IN IF Has(i, "DELAY_SLOT") THEN Delayed(i, pc, cur, l, target, next)
       ELSE Plain(i, pc, cur, l, target, next)

\* Mutant: code goes on in the block before the condition.
Continues_Cur(pc, l, cur) == IF Has(conf.prog[pc], "CONTINUE") THEN {cur} ELSE {}

\* Its result: the block in which execution continues, if any.
Continues(pc, l, cur) ==
    LET i == conf.prog[pc]
    IN IF Has(i, "DELAY_SLOT") \/ ~Has(i, "CONTINUE") THEN {}
       ELSE IF Has(i, "CONDITIONAL") THEN {CondBlock(l, pc)} ELSE {cur}

Ret == Joined(Only(bb_ret, <<Return("NOERR")>>), Only(bb_trap, <<Return("TRAP")>>))

\* The addresses whose block, not in this function, something branches to.
Looked(f) ==
    {a \in Addr : \E b \in DOMAIN f : \E n \in DOMAIN f[b] :
        \/ f[b][n].op = "br" /\ f[b][n].to = External(a)
        \/ f[b][n].op = "cond" /\ f[b][n].no = External(a)}

\* The function with the lines f: with the exit blocks, and for an address that is
\* Looked up the block that leaves with it, which lookup_basicblock() creates, and
\* create_singlestep_return_basicblock() stepping.
Linked(f) ==
    Joined(Ret, Joined(f, [b \in {External(a) : a \in Looked(f)} |-> StorePcReturn(b[2])]))

--------------------------------------------------------------------------------
(***************************************************************************)
(* cpu_translate_all()                                                     *)
(***************************************************************************)
\* The labels that get a block in this function.
Blocks == Starts \ elsewhere

\* Mutant: no block is found.
lookup_basicblock_None(a) == External(a)

lookup_basicblock(a) == IF a \in Blocks THEN Label(a) ELSE External(a)

\* The block a jump of the instruction i goes to, and that of an untaken one.
Target(i) == IF Has(i, "RET") \/ i.new = NoPc THEN Dispatch ELSE lookup_basicblock(i.new)
NotTaken(i) == lookup_basicblock(i.next)

\* "new basic block starts here", "end of code section", "last instruction jumped away"
Ends(a, l) ==
    LET i == conf.prog[a]
    IN \/ i.next \in Starts
       \/ i.next \notin Reached
       \/ Continues(a, l, Label(l)) = {}

\* The block of label l, from the instruction at a on.
Line(l) ==
    LET line[a \in Code] ==
            LET i == conf.prog[a]
                here == translate_instr(a, l, Label(l), Target(i), NotTaken(i))
                cont == Continues(a, l, Label(l))
            IN IF Ends(a, l) THEN Emit(here, [b \in cont |-> <<Br(lookup_basicblock(i.next))>>])
               ELSE Emit(here, line[i.next])
    IN line

Lines == [b \in UNION {DOMAIN Line(l)[l] : l \in Blocks} |-> Line(b[2])[b[2]][b]]

cpu_translate_all == Joined(Only(Dispatch, <<[op |-> "switch"]>>), Linked(Lines))

--------------------------------------------------------------------------------
(***************************************************************************)
(* cpu_translate_singlestep() and cpu_translate_singlestep_bb().           *)
(***************************************************************************)
StepTarget(i) == IF Has(i, "RET") \/ i.new = NoPc THEN bb_ret ELSE External(i.new)

\* Mutant: a jump to itself stays in the function.
cpu_translate_singlestep_Loop(pc) ==
    LET i == conf.prog[pc]
        target == IF i.new = pc THEN Label(pc) ELSE StepTarget(i)
    IN Linked(Emit(translate_instr(pc, pc, Label(pc), target, External(i.next)),
                   [b \in Continues(pc, pc, Label(pc)) |-> StorePcReturn(i.next)]))

\* "If it's not a branch, append store PC & return to basic block"
Stepped(pc) ==
    LET i == conf.prog[pc]
    IN Emit(translate_instr(pc, pc, Label(pc), StepTarget(i), External(i.next)),
            [b \in Continues(pc, pc, Label(pc)) |-> StorePcReturn(i.next)])

cpu_translate_singlestep(pc) == Linked(Stepped(pc))

\* "tight loop"
LoopTarget(i, l) == IF ~Has(i, "RET") /\ i.new = l THEN Label(l) ELSE StepTarget(i)

\* Mutant: a block ends where the next one may begin, as those of cpu_translate_all() do.
Straight_Labels(l) ==
    LET line[a \in Mem] ==
            LET i == conf.prog[a]
                here == translate_instr(a, l, Label(l), LoopTarget(i, l), External(i.next))
            IN IF i.next \notin Code \ Starts \/ Continues(a, l, Label(l)) = {} THEN here
               ELSE Emit(here, line[i.next])
    IN line

\* Everything goes to the first block, whatever translate_instr() returned.
Straight(l) ==
    LET line[a \in Mem] ==
            LET i == conf.prog[a]
                here == translate_instr(a, l, Label(l), LoopTarget(i, l), External(i.next))
            IN IF i.next \notin Code \/ Continues(a, l, Label(l)) = {} THEN here
               ELSE Emit(here, line[i.next])
    IN line

cpu_translate_singlestep_bb(pc) == Linked(Straight(pc)[pc])

--------------------------------------------------------------------------------
(***************************************************************************)
(* Execution.  The guest, by its own rules, passes an instruction when the *)
(* function tests its condition or, without one, executes it; its effect   *)
(* and that of its delay slot are owed from then on.                       *)
(***************************************************************************)
Init ==
    /\ conf \in Configs
    /\ mode \in Modes
    /\ elsewhere \in {e \in SUBSET Starts : Cardinality(e) <= MaxElsewhere}
    /\ mode # "all" => elsewhere = {}
    /\ PC \in Mem /\ gpc = PC
    /\ fn = <<>> /\ bb = bb_ret /\ at = 1 /\ owed = <<>>
    /\ ctl = "client" /\ code = "NOERR" /\ steps = "none" /\ agrees = TRUE

\* cpu_run() translates, and enters the function at its first block.
Run ==
    /\ ctl = "client"
    /\ mode = "all" \/ PC \in Mem
    /\ fn' = CASE mode = "all" -> cpu_translate_all
               [] mode = "step" -> cpu_translate_singlestep(PC)
               [] mode = "step_bb" -> cpu_translate_singlestep_bb(PC)
    /\ bb' = IF mode = "all" THEN Dispatch ELSE Label(PC)
    /\ at' = 1 /\ ctl' = "guest" /\ steps' = "none"
    /\ UNCHANGED <<conf, mode, elsewhere, PC, code, gpc, owed, agrees>>

Here == fn[bb][at]

\* The next position or block; without a terminator or a block there is none.
GoOn == at' = at + 1 /\ UNCHANGED <<bb, ctl>>
Goto(b) == bb' = b /\ at' = 1 /\ UNCHANGED ctl

Passed(i) ==
    steps' = IF Has(i, "TRAP") THEN "trap" ELSE IF steps = "none" THEN "one" ELSE "many"

Executing(op) == ctl = "guest" /\ bb \in DOMAIN fn /\ at \in DOMAIN fn[bb] /\ Here.op = op

\* A condition may hold or not.
Test ==
    /\ Executing("cond")
    /\ LET i == conf.prog[Here.pc]
       IN /\ \/ /\ Goto(Here.yes) /\ owed' = <<Here.pc>> \o Delay(i)
                /\ gpc' \in TakenTargets(i)
             \/ /\ Goto(Here.no) /\ owed' = Delay(i) /\ gpc' = i.next
          /\ Passed(i)
          /\ agrees' = (agrees /\ owed = <<>> /\ gpc = Here.pc)
    /\ UNCHANGED <<conf, mode, elsewhere, fn, PC, code>>

\* translate_instr() sets the program counter itself when the target is in a
\* register, and the m88k behind a trap.
Sets(i, a, where) ==
    IF Has(i, "RET") \/ (i.new = NoPc /\ i.tag \cap {"CALL", "BRANCH"} # {}) \/ Has(i, "TRAP")
    THEN PC' = where ELSE PC' = PC

Do ==
    /\ Executing("instr")
    /\ LET a == Here.pc
           i == conf.prog[a]
       IN \/ /\ owed # <<>>
             /\ owed' = Tail(owed) /\ agrees' = (agrees /\ Head(owed) = a)
             /\ Sets(i, a, gpc)
             /\ UNCHANGED <<gpc, steps>>
          \/ /\ owed = <<>>
             /\ owed' = Delay(i) /\ agrees' = (agrees /\ gpc = a /\ ~Has(i, "CONDITIONAL"))
             /\ gpc' \in TakenTargets(i)
             /\ Sets(i, a, gpc')
             /\ Passed(i)
    /\ GoOn
    /\ UNCHANGED <<conf, mode, elsewhere, fn, code>>

Store ==
    /\ Executing("store")
    /\ PC' = Here.pc
    /\ GoOn
    /\ UNCHANGED <<conf, mode, elsewhere, fn, code, gpc, owed, steps, agrees>>

Branch ==
    /\ Executing("br")
    /\ Goto(Here.to)
    /\ UNCHANGED <<conf, mode, elsewhere, fn, PC, code, gpc, owed, steps, agrees>>

Switch ==
    /\ Executing("switch")
    /\ Goto(IF PC \in Blocks THEN Label(PC) ELSE bb_ret)
    /\ UNCHANGED <<conf, mode, elsewhere, fn, PC, code, gpc, owed, steps, agrees>>

Leave ==
    /\ Executing("return")
    /\ code' = Here.code /\ ctl' = "client" /\ fn' = <<>>
    /\ UNCHANGED <<conf, mode, elsewhere, bb, at, PC, gpc, owed, steps, agrees>>

\* No block, or nothing left in it.
Lost ==
    /\ ctl = "guest" /\ (bb \notin DOMAIN fn \/ at \notin DOMAIN fn[bb])
    /\ ctl' = "lost"
    /\ UNCHANGED <<conf, mode, elsewhere, fn, bb, at, PC, code, gpc, owed, steps, agrees>>

Next == Run \/ Test \/ Do \/ Store \/ Branch \/ Switch \/ Leave \/ Lost

Spec == Init /\ [][Next]_vars

--------------------------------------------------------------------------------
TypeOK ==
    /\ mode \in Modes /\ elsewhere \subseteq Starts
    /\ PC \in Addr /\ gpc \in Addr
    /\ ctl \in {"client", "guest", "lost"} /\ code \in {"NOERR", "TRAP"}
    /\ Len(owed) <= 2 /\ agrees \in BOOLEAN
    /\ ctl = "guest" => bb \in DOMAIN fn

(***************************************************************************)
(* "The caller needs this to link the basic block" (translate.cpp:21):     *)
(* every basic block ends in its only terminator, and branches go to       *)
(* blocks of the function.  cpu_translate_singlestep_bb() does not always  *)
(* link its blocks: see GuestOrder.                                        *)
(***************************************************************************)
WellFormed ==
    mode # "step_bb" => \A b \in DOMAIN fn :
        LET block == fn[b]
        IN /\ block # <<>>
           /\ \A n \in DOMAIN block :
                /\ block[n].op \in Terminators <=> n = Len(block)
                /\ block[n].op = "br" => block[n].to \in DOMAIN fn
                /\ block[n].op = "cond" => {block[n].yes, block[n].no} \subseteq DOMAIN fn

(***************************************************************************)
(* translate_instr() and its callers: instructions take effect in the      *)
(* order in which the guest passes them, none is left out, a delay slot    *)
(* is executed once after its branch whether that is taken or not, and a   *)
(* conditional instruction only when its condition holds.  Nothing runs    *)
(* into a block without an end but for the two that                        *)
(* cpu_translate_singlestep_bb() leaves so: where the code area ends       *)
(* (translate_singlestep_bb.cpp:54), and behind a conditional instruction  *)
(* that goes on in a block of its own, which is forgotten (:50).           *)
(***************************************************************************)
Unlinked(f, b, n) ==
    \E a \in Mem :
        LET i == conf.prog[a]
        IN /\ n - 1 \in DOMAIN f[b] /\ f[b][n - 1] = Instr(a)
           /\ Has(i, "CONTINUE") /\ ~Has(i, "DELAY_SLOT")
           /\ Has(i, "CONDITIONAL") \/ i.next \notin Code

GuestOrder ==
    agrees /\ (ctl = "lost" => mode = "step_bb" /\ bb \in DOMAIN fn /\ Unlinked(fn, bb, at))

(***************************************************************************)
(* emit_store_pc_return(), the dispatch block and the trap block: when the *)
(* function returns, the program counter is the guest's, nothing is owed,  *)
(* and the exit code says whether the guest's last instruction trapped.    *)
(***************************************************************************)
ReturnsWhereGuestIs ==
    ctl = "client" => PC = gpc /\ owed = <<>> /\ (steps # "none" => (code = "TRAP" <=> steps = "trap"))

(***************************************************************************)
(* "execution will always exit after the instruction"                      *)
(* (translate_singlestep.cpp:6): never a second one.                       *)
(***************************************************************************)
StepsOnce == [][mode = "step" /\ steps = "one" /\ ctl = "guest" => steps' = "one"]_vars

(***************************************************************************)
(* cpu_translate_all() stops only where it has to: the function is left    *)
(* with the program counter outside the labels it has, or by a trap.       *)
(***************************************************************************)
LeavesOnlyWhenUnknown ==
    mode = "all" /\ ctl = "client" /\ steps \in {"one", "many"} => PC \notin Blocks
================================================================================
