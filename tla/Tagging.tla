-------------------------------- MODULE Tagging --------------------------------
(***************************************************************************)
(* libcpu/tag.cpp: the depth-first search over the guest's code that       *)
(* decides which addresses are instructions and which of them need a       *)
(* label, before anything is translated.                                   *)
(*                                                                         *)
(* tag_recursive() is a loop over consecutive instructions that calls      *)
(* itself for branch targets, subroutines and trap returns.  Its call      *)
(* stack is the variable stack: one frame per call that is running or      *)
(* still to be made, the first one running.  One step is one turn of the   *)
(* loop: a frame is replaced by the calls that turn makes, in the code's   *)
(* order, followed by the frame of the loop's next turn.  Only TAG_CODE is *)
(* read during the search and only its own turn sets it, so the or_tag()s  *)
(* a turn makes between its calls are made with the turn.                  *)
(***************************************************************************)
EXTENDS GuestProgram, FiniteSets

CONSTANT LimitDFS    \* LIMIT_TAGGING_DFS

ASSUME LimitAssumption == LimitDFS \in Nat \ {0}

VARIABLES
    conf,        \* the guest program and the client's settings
    tag,         \* cpu->tag[], by address
    allocated,   \* cpu->tag != NULL
    tags_dirty,  \* cpu->tags_dirty
    stack,       \* the calls of tag_recursive()
    entries      \* history: the addresses tag_start() was given

tvars == <<conf, tag, allocated, tags_dirty, stack, entries>>

Frame == [pc: Addr, level: Nat]

TagTypeOK ==
    /\ conf \in Config
    /\ tag \in [Code -> SUBSET TagBits]
    /\ allocated \in BOOLEAN
    /\ tags_dirty \in BOOLEAN
    /\ stack \in Seq(Frame)
    /\ entries \subseteq Addr

\* get_tag() and the tests made with it.
get_tag(a) == IF a \in Code THEN tag[a] ELSE {}
is_code(a) == "CODE" \in get_tag(a)

(***************************************************************************)
(* One turn of the loop at pc, whose instruction is i.                     *)
(***************************************************************************)
TrapEnds(i) == Has(i, "TRAP") /\ conf.hint = "none"

\* Mutant: the address behind a conditional instruction is not marked.
NextBits_NoAfterCond(i) ==
    (IF Has(i, "TRAP") /\ ~TrapEnds(i) THEN {"AFTER_TRAP"} ELSE {})
    \cup (IF Has(i, "CALL") /\ ~TrapEnds(i) THEN {"AFTER_CALL"} ELSE {})

\* The bits or_tag() adds at the address that follows, resp. the target.
NextBits(i) ==
    (IF Has(i, "CONDITIONAL") THEN {"AFTER_COND"} ELSE {})
    \cup (IF Has(i, "TRAP") /\ ~TrapEnds(i) THEN {"AFTER_TRAP"} ELSE {})
    \cup (IF Has(i, "CALL") /\ ~TrapEnds(i) THEN {"AFTER_CALL"} ELSE {})

NewBits(i) ==
    IF TrapEnds(i) THEN {}
    ELSE (IF Has(i, "CALL") THEN {"SUBROUTINE"} ELSE {})
         \cup (IF Has(i, "BRANCH") THEN {"BRANCH_TARGET"} ELSE {})

SkipBits(i) ==
    IF Has(i, "TRAP") /\ conf.hint = "returns_twice" THEN {"AFTER_TRAP"} ELSE {}

or_tags(i, pc) ==
    [a \in Code |->
        tag[a] \cup (IF a = pc THEN i.tag \cup {"CODE"} ELSE {})
               \cup (IF a = i.next THEN NextBits(i) ELSE {})
               \cup (IF a = i.new THEN NewBits(i) ELSE {})
               \cup (IF a = i.skip THEN SkipBits(i) ELSE {})]

\* The addresses tag_recursive() calls itself with, in order.
Calls(i) ==
    IF TrapEnds(i) THEN <<>>
    ELSE (IF Has(i, "TRAP") /\ conf.hint = "returns_twice"
          THEN <<i.skip>> ELSE <<>>)
         \o (IF Has(i, "CALL") THEN <<i.new>> ELSE <<>>)
         \o (IF Has(i, "BRANCH") THEN <<i.new>> ELSE <<>>)

\* Mutants: every branch ends the loop; so does a call.
Continues_BranchEnds(i) == ~TrapEnds(i) /\ ~Has(i, "BRANCH") /\ ~Has(i, "RET")

Continues_CallEnds(i) ==
    /\ ~TrapEnds(i)
    /\ ~(Has(i, "BRANCH") /\ ~Has(i, "CONDITIONAL"))
    /\ ~Has(i, "RET") /\ ~Has(i, "CALL")

\* Whether the loop goes on to next_pc.
Continues(i) ==
    /\ ~TrapEnds(i)
    /\ ~(Has(i, "BRANCH") /\ ~Has(i, "CONDITIONAL"))
    /\ ~Has(i, "RET")

\* Mutant: the level counts down from the first call.
Work_CountsDown(i, level) ==
    [k \in 1..Len(Calls(i)) |-> [pc |-> Calls(i)[k], level |-> level - 1]]
    \o (IF Continues(i) THEN <<[pc |-> i.next, level |-> level]>> ELSE <<>>)

Work(i, level) ==
    [k \in 1..Len(Calls(i)) |-> [pc |-> Calls(i)[k], level |-> level + 1]]
    \o (IF Continues(i) THEN <<[pc |-> i.next, level |-> level]>> ELSE <<>>)

\* Mutant: a limited search is not cut.
Returns_NoLimit(f) == f.pc \notin Code \/ is_code(f.pc)

\* The returns at the top: too deep, not guest code, been here before.
Returns(f) ==
    \/ conf.limited /\ f.level = LimitDFS
    \/ f.pc \notin Code
    \/ is_code(f.pc)

\* Mutant: code that has been tagged before is tried again instead of returned from.
TagReturn_Spins ==
    /\ stack # <<>>
    /\ Returns(Head(stack))
    /\ stack' = IF is_code(Head(stack).pc) THEN stack ELSE Tail(stack)
    /\ UNCHANGED <<conf, tag, allocated, tags_dirty, entries>>

TagReturn ==
    /\ stack # <<>>
    /\ Returns(Head(stack))
    /\ stack' = Tail(stack)
    /\ UNCHANGED <<conf, tag, allocated, tags_dirty, entries>>

TagInsn ==
    /\ stack # <<>>
    /\ ~Returns(Head(stack))
    /\ LET f == Head(stack)
           i == conf.prog[f.pc]
       IN /\ tag' = or_tags(i, f.pc)
          /\ stack' = Work(i, f.level) \o Tail(stack)
    /\ UNCHANGED <<conf, allocated, tags_dirty, entries>>

TagStep == TagReturn \/ TagInsn

(***************************************************************************)
(* tag_start(pc), the whole of it: nothing but the dirty mark when single  *)
(* stepping; otherwise the tag array is allocated on demand, which, when   *)
(* the search is not limited, first runs tag_start() on every entry of the *)
(* cache file; then the search starts at pc.                               *)
(***************************************************************************)
Cached == IF allocated \/ conf.limited THEN <<>> ELSE conf.cache

Starts(pc) == Append(Cached, pc)

Started(pc) == {Starts(pc)[k] : k \in 1..Len(Starts(pc))}

\* Mutant: only the search that allocates the tags makes them dirty.
TagStart_DirtyOnce(pc) ==
    /\ stack = <<>>
    /\ tags_dirty' = (tags_dirty \/ ~allocated)
    /\ IF conf.singlestep
       THEN UNCHANGED <<tag, allocated, stack, entries>>
       ELSE /\ allocated' = TRUE
            /\ tag' = [a \in Code |-> IF a \in Started(pc) THEN tag[a] \cup {"ENTRY"}
                                      ELSE tag[a]]
            /\ stack' = [k \in 1..Len(Starts(pc)) |->
                            [pc |-> Starts(pc)[k], level |-> 0]]
            /\ entries' = entries \cup Started(pc)
    /\ UNCHANGED conf

TagStart(pc) ==
    /\ stack = <<>>
    /\ tags_dirty' = TRUE
    /\ IF conf.singlestep
       THEN UNCHANGED <<tag, allocated, stack, entries>>
       ELSE /\ allocated' = TRUE
            /\ tag' = [a \in Code |-> IF a \in Started(pc) THEN tag[a] \cup {"ENTRY"}
                                      ELSE tag[a]]
            /\ stack' = [k \in 1..Len(Starts(pc)) |->
                            [pc |-> Starts(pc)[k], level |-> 0]]
            /\ entries' = entries \cup Started(pc)
    /\ UNCHANGED conf

TagInit ==
    /\ conf \in Configs
    /\ tag = [a \in Code |-> {}]
    /\ allocated = FALSE
    /\ tags_dirty = FALSE
    /\ stack = <<>>
    /\ entries = {}

\* The client may call cpu_tag() with any address, whenever a search is over.
CpuTag == \E pc \in Addr : TagStart(pc)

TagNext == CpuTag \/ TagStep

TagSpec == TagInit /\ [][TagNext]_tvars /\ WF_tvars(TagStep)

--------------------------------------------------------------------------------
(***************************************************************************)
(* What the search must get right.                                         *)
(***************************************************************************)
CodeSet == {a \in Code : is_code(a)}

Closed(S) == \A a \in S :
                KnownSuccessors(conf.prog[a], conf.hint) \cap Code \subseteq S

\* When the search is over and was not limited, the addresses marked TAG_CODE
\* are exactly the least set that holds the entries and is closed under the
\* successors an instruction shows (tag.cpp:116-189): nothing reachable is
\* missed, whatever was tagged by earlier searches and in whatever order, and
\* no data is taken for code.
TaggingExact ==
    stack = <<>> /\ ~conf.limited =>
        /\ entries \cap Code \subseteq CodeSet
        /\ Closed(CodeSet)
        /\ \A S \in SUBSET Code :
              entries \cap Code \subseteq S /\ Closed(S) => CodeSet \subseteq S

\* An address some tagged instruction jumps or calls to, returns to, or skips
\* to when its condition fails carries the label bit that makes
\* is_start_of_basicblock() (basicblock.cpp:18-30) give it a basic block of its
\* own once it is code, in limited searches too: translate_all() has no other
\* way to find the places where its own branches land (tag.cpp:141-178).
IsLabel(a) == get_tag(a) \cap LabelBits # {}

Labelled(i) ==
    /\ (Has(i, "CALL") \/ Has(i, "BRANCH")) /\ i.new \in Code => IsLabel(i.new)
    /\ (Has(i, "CALL") \/ Has(i, "CONDITIONAL")) /\ i.next \in Code => IsLabel(i.next)
    /\ Has(i, "TRAP") /\ conf.hint # "none"
           => \A b \in KnownSuccessors(i, conf.hint) \cap Code : IsLabel(b)

LabelsKnown == \A a \in CodeSet : Labelled(conf.prog[a])

\* The native stack tag_recursive() needs: each level of recursion has tagged
\* an instruction of its own before it called the next one, and a limited
\* search never runs a level beyond the limit (tag.cpp:123-125, 166, 174, 179).
DepthBounded ==
    \A k \in 1..Len(stack) :
        /\ stack[k].level <= Cardinality(CodeSet)
        /\ conf.limited => stack[k].level <= LimitDFS

\* A limited search leaves code for later, but only behind a recursive call it
\* cut: the straight line that starts at an entry, as far as it is followed by
\* falling through, is always tagged to its end (tag.cpp:127-188).
FallThrough(i) == Has(i, "CONTINUE") \/ Has(i, "CALL")
                  \/ (Has(i, "BRANCH") /\ Has(i, "CONDITIONAL"))
                  \/ (Has(i, "TRAP") /\ conf.hint # "none")

StraightLineTagged ==
    stack = <<>> =>
        /\ entries \cap Code \subseteq CodeSet
        /\ \A a \in CodeSet :
              FallThrough(conf.prog[a]) /\ conf.prog[a].next \in Code
                  => is_code(conf.prog[a].next)

\* Every search ends (tag.cpp:127-188), on programs with loops and recursion.
SearchEnds == stack # <<>> ~> stack = <<>>
================================================================================
