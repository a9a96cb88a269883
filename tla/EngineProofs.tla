------------------------------ MODULE EngineProofs ------------------------------
(***************************************************************************)
(* Proofs about Tagging and Engine, for every guest program, every client  *)
(* and every number of functions: all code is found, cpu_run() is the      *)
(* guest machine, and code gets translated once, and all of what is known. *)
(*                                                                         *)
(* The argument about tagging: at any moment of a search, what has been    *)
(* tagged is reachable, and what a tagged instruction leads to has been    *)
(* tagged too or is in a frame of the call stack.  When the stack is empty *)
(* nothing is left in between.                                             *)
(*                                                                         *)
(* The argument about execution: what it may do inside a function is fixed *)
(* when the function is translated (FuncOK), and the loop of cpu_run()     *)
(* calls a function only with the program counter the guest is at (AtPc).  *)
(***************************************************************************)
EXTENDS Engine, SequenceTheorems, FiniteSetTheorems, TLAPS

(***************************************************************************)
(* Tagging.                                                                *)
(***************************************************************************)
FrameAddrs(s) == {f.pc : f \in Range(s)}

--------------------------------------------------------------------------------
(***************************************************************************)
(* Call stacks.                                                            *)
(***************************************************************************)

\* Replacing the running frame by the calls of its turn (tag.cpp:166-187) leaves
\* the other frames in place.
LEMMA ConcatFrames ==
    ASSUME NEW s \in Seq(Frame), NEW t \in Seq(Frame)
    PROVE  Range(s \o t) = Range(s) \cup Range(t)
  BY RangeConcatenation

\* So it does with their addresses.
LEMMA ConcatAddrs ==
    ASSUME NEW s \in Seq(Frame), NEW t \in Seq(Frame)
    PROVE  FrameAddrs(s \o t) = FrameAddrs(s) \cup FrameAddrs(t)
  BY ConcatFrames DEF FrameAddrs

\* The running frame and the waiting ones make up the stack.
LEMMA HeadTailAddrs ==
    ASSUME NEW s \in Seq(Frame), s # <<>>
    PROVE  /\ Head(s) \in Frame
           /\ Tail(s) \in Seq(Frame)
           /\ FrameAddrs(s) = {Head(s).pc} \cup FrameAddrs(Tail(s))
<1>1. /\ Head(s) \in Frame
      /\ Tail(s) \in Seq(Frame)
      /\ s = <<Head(s)>> \o Tail(s)
  OBVIOUS
<1>2. /\ <<Head(s)>> \in Seq(Frame)
      /\ Range(<<Head(s)>>) = {Head(s)}
  BY <1>1 DEF Range
<1>3. FrameAddrs(<<Head(s)>>) = {Head(s).pc}
  BY <1>2 DEF FrameAddrs
<1> QED
  BY <1>1, <1>2, <1>3, ConcatAddrs

\* No call, no address.
LEMMA EmptyAddrs == FrameAddrs(<<>>) = {}
  BY DEF FrameAddrs, Range

\* One call, one address.
LEMMA OneFrame ==
    ASSUME NEW a \in Addr, NEW l \in Nat
    PROVE  /\ <<[pc |-> a, level |-> l]>> \in Seq(Frame)
           /\ FrameAddrs(<<[pc |-> a, level |-> l]>>) = {a}
<1> DEFINE f == [pc |-> a, level |-> l]
<1>1. f \in Frame /\ f.pc = a
  BY DEF Frame
<1> HIDE DEF f
<1>2. Range(<<f>>) = {f}
  BY DEF Range
<1>3. <<f>> \in Seq(Frame) /\ FrameAddrs(<<f>>) = {a}
  BY <1>1, <1>2 DEF FrameAddrs
<1> QED
  BY <1>3 DEF f

--------------------------------------------------------------------------------
(***************************************************************************)
(* One turn of the loop.                                                   *)
(***************************************************************************)

\* tag_instr()'s answer has the type that is assumed of it.
LEMMA DecodedInsn ==
    ASSUME TagTypeOK, NEW a \in Code
    PROVE  conf.prog[a] \in Insn
<1>1. conf.prog \in [Mem -> Insn]
  BY DEF TagTypeOK, Config
<1> QED
  BY <1>1, AddrAssumption

\* A turn makes at most one recursive call: the kinds of instruction that have a
\* target do not trap, and a trap only recurses for the second return address.
LEMMA CallsOfInsn ==
    ASSUME NEW i \in Insn
    PROVE  Calls(i) = IF Has(i, "TRAP")
                      THEN IF conf.hint = "returns_twice" THEN <<i.skip>> ELSE <<>>
                      ELSE IF Has(i, "CALL") \/ Has(i, "BRANCH") THEN <<i.new>> ELSE <<>>
<1>1. i.tag \in InsnTags
  BY DEF Insn
<1>2. /\ Has(i, "TRAP") => ~Has(i, "CALL") /\ ~Has(i, "BRANCH")
      /\ ~(Has(i, "CALL") /\ Has(i, "BRANCH"))
  BY <1>1 DEF InsnTags, Has
<1>3. /\ \A x : <<>> \o <<x>> = <<x>>
      /\ \A x : <<x>> \o <<>> = <<x>>
      /\ <<>> \o <<>> = <<>>
  OBVIOUS
<1> QED
  BY <1>2, <1>3 DEF Calls, TrapEnds

\* The frames a turn leaves behind are calls for exactly the successors the
\* instruction shows (tag.cpp:144-187).
LEMMA WorkOfInsn ==
    ASSUME TagTypeOK, NEW i \in Insn, NEW l \in Nat
    PROVE  /\ Work(i, l) \in Seq(Frame)
           /\ FrameAddrs(Work(i, l)) = KnownSuccessors(i, conf.hint)
<1> DEFINE C == [k \in 1..Len(Calls(i)) |-> [pc |-> Calls(i)[k], level |-> l + 1]]
           N == IF Continues(i) THEN <<[pc |-> i.next, level |-> l]>> ELSE <<>>
           called == IF Has(i, "TRAP")
                     THEN IF conf.hint = "returns_twice" THEN {i.skip} ELSE {}
                     ELSE IF Has(i, "CALL") \/ Has(i, "BRANCH") THEN {i.new} ELSE {}
           next == IF Continues(i) THEN {i.next} ELSE {}
<1>1. /\ i.tag \in InsnTags
      /\ i.new \in Addr /\ i.next \in Addr /\ i.skip \in Addr
      /\ conf.hint \in Hints
  BY DEF Insn, TagTypeOK, Config
<1>2. C \in Seq(Frame) /\ FrameAddrs(C) = called
  <2>1. CASE Calls(i) = <<>>
    <3>1. C = <<>> /\ called = {}
      BY <2>1, CallsOfInsn
    <3> HIDE DEF C, called
    <3> QED
      BY <3>1, EmptyAddrs
  <2>2. ASSUME NEW a \in Addr, Calls(i) = <<a>>, called = {a}
        PROVE  C \in Seq(Frame) /\ FrameAddrs(C) = called
    <3>1. C = <<[pc |-> a, level |-> l + 1]>>
      BY <2>2
    <3>2. l + 1 \in Nat
      OBVIOUS
    <3> HIDE DEF C, called
    <3> QED
      BY <2>2, <3>1, <3>2, OneFrame
  <2> QED
    BY <1>1, <2>1, <2>2, CallsOfInsn
<1>3. N \in Seq(Frame) /\ FrameAddrs(N) = next
  <2>1. CASE Continues(i)
    <3>1. N = <<[pc |-> i.next, level |-> l]>> /\ next = {i.next}
      BY <2>1
    <3> HIDE DEF N, next
    <3> QED
      BY <1>1, <3>1, OneFrame
  <2>2. CASE ~Continues(i)
    <3>1. N = <<>> /\ next = {}
      BY <2>2
    <3> HIDE DEF N, next
    <3> QED
      BY <3>1, EmptyAddrs
  <2> QED
    BY <2>1, <2>2
<1>4. called \cup next = KnownSuccessors(i, conf.hint)
  BY <1>1 DEF InsnTags, Hints, Has, KnownSuccessors, Continues, TrapEnds
<1>5. Work(i, l) = C \o N
  BY DEF Work
<1> HIDE DEF C, N, called, next
<1>6. C \o N \in Seq(Frame)
  BY <1>2, <1>3
<1>7. FrameAddrs(C \o N) = FrameAddrs(C) \cup FrameAddrs(N)
  BY <1>2, <1>3, ConcatAddrs
<1> QED
  BY <1>2, <1>3, <1>4, <1>5, <1>6, <1>7

--------------------------------------------------------------------------------
(***************************************************************************)
(* Types.                                                                  *)
(***************************************************************************)

\* The frames tag_start() begins with: the cached entries, then the client's.
LEMMA StartFrames ==
    ASSUME TagTypeOK, NEW pc \in Addr
    PROVE  LET s == [k \in 1..Len(Starts(pc)) |-> [pc |-> Starts(pc)[k], level |-> 0]]
           IN /\ s \in Seq(Frame)
              /\ FrameAddrs(s) = Started(pc)
              /\ Started(pc) \subseteq Addr
<1> DEFINE q == Starts(pc)
           s == [k \in 1..Len(q) |-> [pc |-> q[k], level |-> 0]]
<1>1. q \in Seq(Addr)
  <2>1. conf.cache \in Seq(Addr)
    BY DEF TagTypeOK, Config
  <2>2. Cached \in Seq(Addr)
    BY <2>1 DEF Cached
  <2> QED
    BY <2>2 DEF Starts
<1>2. Started(pc) = {q[k] : k \in 1..Len(q)}
  BY DEF Started
<1> HIDE DEF q
<1>3. Len(q) \in Nat /\ \A k \in 1..Len(q) : q[k] \in Addr
  BY <1>1
<1>4. s \in [1..Len(q) -> Frame]
  BY <1>3 DEF Frame
<1>5. s \in Seq(Frame)
  <2> HIDE DEF s
  <2> QED
    BY <1>3, <1>4, SeqDef
<1>6. Range(s) = {[pc |-> q[k], level |-> 0] : k \in 1..Len(q)}
  BY DEF Range
<1>7. FrameAddrs(s) = {q[k] : k \in 1..Len(q)}
  <2> HIDE DEF s
  <2>1. \A k : [pc |-> q[k], level |-> 0].pc = q[k]
    OBVIOUS
  <2>2. \A a : a \in FrameAddrs(s) <=> \E k \in 1..Len(q) : a = [pc |-> q[k], level |-> 0].pc
    BY <1>6, Zenon DEF FrameAddrs
  <2> QED
    BY <2>1, <2>2, Zenon
<1> QED
  BY <1>2, <1>3, <1>5, <1>7 DEF q

\* The bits tag_start() and tag_recursive() add are tag bits.
LEMMA AddedBits ==
    ASSUME NEW i
    PROVE  /\ "ENTRY" \in TagBits
           /\ "CODE" \in TagBits
           /\ NextBits(i) \subseteq TagBits
           /\ NewBits(i) \subseteq TagBits
           /\ SkipBits(i) \subseteq TagBits
<1>1. LabelBits \subseteq TagBits /\ {"CODE", "TRANSLATED"} \subseteq TagBits
  BY DEF TagBits
<1>2. NextBits(i) \subseteq LabelBits
  BY DEF NextBits, LabelBits
<1>3. NewBits(i) \subseteq LabelBits
  BY DEF NewBits, LabelBits
<1>4. SkipBits(i) \subseteq LabelBits
  BY DEF SkipBits, LabelBits
<1>5. "ENTRY" \in LabelBits
  BY DEF LabelBits
<1> QED
  BY <1>1, <1>2, <1>3, <1>4, <1>5

\* The empty tag array and call stack have their types.
LEMMA TypeInit == TagInit => TagTypeOK
<1> SUFFICES ASSUME TagInit PROVE TagTypeOK
  OBVIOUS
<1>1. conf \in Config
  BY ConfigAssumption DEF TagInit
<1>2. tag \in [Code -> SUBSET TagBits]
  BY DEF TagInit
<1>3. stack \in Seq(Frame)
  BY DEF TagInit
<1> QED
  BY <1>1, <1>2, <1>3 DEF TagInit, TagTypeOK

\* Every step of the search, and every cpu_tag(), keeps the types.
LEMMA TypeStep == TagTypeOK /\ [TagNext]_tvars => TagTypeOK'
<1> SUFFICES ASSUME TagTypeOK, [TagNext]_tvars
             PROVE  TagTypeOK'
  OBVIOUS
<1> USE DEF TagTypeOK
<1>1. ASSUME NEW pc \in Addr, TagStart(pc)
      PROVE  TagTypeOK'
  <2>1. CASE conf.singlestep
    BY <1>1, <2>1 DEF TagStart
  <2>2. CASE ~conf.singlestep
    <3>1. stack' \in Seq(Frame) /\ entries' \subseteq Addr
      BY <1>1, <2>2, StartFrames DEF TagStart
    <3>2. "ENTRY" \in TagBits
      BY AddedBits
    <3>3. tag' \in [Code -> SUBSET TagBits]
      BY <1>1, <2>2, <3>2 DEF TagStart
    <3> QED
      BY <1>1, <2>2, <3>1, <3>3 DEF TagStart
  <2> QED
    BY <2>1, <2>2
<1>2. CASE TagReturn
  BY <1>2, HeadTailAddrs DEF TagReturn
<1>3. CASE TagInsn
  <2> DEFINE f == Head(stack)
             i == conf.prog[f.pc]
  <2>1. /\ f \in Frame /\ f.level \in Nat
        /\ Tail(stack) \in Seq(Frame)
        /\ f.pc \in Code
    BY <1>3, HeadTailAddrs DEF TagInsn, Returns, Frame
  <2>2. i \in Insn
    BY <2>1, DecodedInsn
  <2>3. tag' = or_tags(i, f.pc) /\ stack' = Work(i, f.level) \o Tail(stack)
        /\ UNCHANGED <<conf, allocated, tags_dirty, entries>>
    BY <1>3 DEF TagInsn
  <2> HIDE DEF f, i
  <2>4. stack' \in Seq(Frame)
    BY <2>1, <2>2, <2>3, WorkOfInsn
  <2>5. i.tag \subseteq TagBits
    BY <2>2 DEF Insn, TagBits
  <2>6. NextBits(i) \cup NewBits(i) \cup SkipBits(i) \cup {"CODE"} \subseteq TagBits
    BY AddedBits
  <2>7. tag' \in [Code -> SUBSET TagBits]
    BY <2>3, <2>5, <2>6 DEF or_tags
  <2> QED
    BY <2>3, <2>4, <2>7
<1>4. CASE UNCHANGED tvars
  BY <1>4 DEF tvars
<1> QED
  BY <1>1, <1>2, <1>3, <1>4 DEF TagNext, CpuTag, TagStep

\* The tags, the call stack and the entries always have their types.
THEOREM TypeCorrect == TagSpec => []TagTypeOK
<1> QED
  BY TypeInit, TypeStep, PTL DEF TagSpec

--------------------------------------------------------------------------------
(***************************************************************************)
(* The search finds exactly the code that can be reached.                  *)
(***************************************************************************)
Pending == FrameAddrs(stack)

\* What is tagged, or about to be, is in every set a disassembler that starts at
\* the entries could end with.
Sound ==
    \A S \in SUBSET Code :
        entries \cap Code \subseteq S /\ Closed(S)
            => CodeSet \subseteq S /\ Pending \cap Code \subseteq S

\* Nothing an entry or a tagged instruction leads to has been forgotten.
Complete ==
    ~conf.limited =>
        /\ entries \cap Code \subseteq CodeSet \cup Pending
        /\ \A a \in CodeSet :
              KnownSuccessors(conf.prog[a], conf.hint) \cap Code
                  \subseteq CodeSet \cup Pending

SearchInv == TagTypeOK /\ Sound /\ Complete

\* When no frame is left, the invariant is the exactness of the search.
LEMMA InvGivesExact == SearchInv => TaggingExact
<1> SUFFICES ASSUME SearchInv, stack = <<>>, ~conf.limited
             PROVE  /\ entries \cap Code \subseteq CodeSet
                    /\ Closed(CodeSet)
                    /\ \A S \in SUBSET Code :
                          entries \cap Code \subseteq S /\ Closed(S) => CodeSet \subseteq S
  BY DEF TaggingExact
<1>1. Pending = {}
  BY EmptyAddrs DEF Pending
<1>2. Closed(CodeSet)
  BY <1>1 DEF SearchInv, Complete, Closed
<1> QED
  BY <1>1, <1>2 DEF SearchInv, Sound, Complete

\* A turn of the loop tags the instruction it is at and no other
\* (tag.cpp:139-178).
LEMMA TurnTagsOne ==
    ASSUME TagTypeOK, NEW i \in Insn, NEW a \in Code, tag' = or_tags(i, a)
    PROVE  CodeSet' = CodeSet \cup {a}
<1>1. "CODE" \notin NextBits(i) \cup NewBits(i) \cup SkipBits(i)
  BY DEF NextBits, NewBits, SkipBits
<1>2. ASSUME NEW b \in Code
      PROVE  "CODE" \in tag'[b] <=> "CODE" \in tag[b] \/ b = a
  BY <1>1, <1>2 DEF or_tags
<1> QED
  BY <1>2 DEF CodeSet, is_code, get_tag

\* Nothing is tagged and nothing is pending before the first cpu_tag().
LEMMA SearchInit == TagInit => SearchInv
<1> SUFFICES ASSUME TagInit PROVE SearchInv
  OBVIOUS
<1>1. CodeSet = {} /\ Pending = {} /\ entries = {}
  BY EmptyAddrs DEF TagInit, CodeSet, is_code, get_tag, Pending
<1> QED
  BY <1>1, TypeInit DEF SearchInv, Sound, Complete

\* Every step of the search, and every cpu_tag(), keeps the invariant.
LEMMA SearchStep == SearchInv /\ [TagNext]_tvars => SearchInv'
<1> SUFFICES ASSUME SearchInv, [TagNext]_tvars
             PROVE  SearchInv'
  OBVIOUS
<1>1. TagTypeOK /\ TagTypeOK'
  BY TypeStep DEF SearchInv
<1>2. conf' = conf
  BY DEF TagNext, CpuTag, TagStart, TagStep, TagReturn, TagInsn, tvars
<1>3. ASSUME NEW pc \in Addr, TagStart(pc)
      PROVE  (Sound /\ Complete)'
  <2>1. CodeSet' = CodeSet
    BY <1>1, <1>3 DEF TagStart, CodeSet, is_code, get_tag, TagTypeOK
  <2>2. CASE conf.singlestep
    <3>1. Pending' = Pending /\ entries' = entries
      BY <1>3, <2>2 DEF TagStart, Pending
    <3> QED
      BY <1>2, <2>1, <3>1 DEF SearchInv, Sound, Complete, Closed
  <2>3. CASE ~conf.singlestep
    <3>1. /\ Pending = {}
          /\ Pending' = Started(pc)
          /\ entries' = entries \cup Started(pc)
      BY <1>1, <1>3, <2>3, EmptyAddrs, StartFrames DEF TagStart, Pending
    <3>2. Sound'
      BY <1>2, <2>1, <3>1 DEF SearchInv, Sound, Closed
    <3>3. Complete'
      BY <1>2, <2>1, <3>1 DEF SearchInv, Complete
    <3> QED
      BY <3>2, <3>3
  <2> QED
    BY <2>2, <2>3
<1>4. CASE TagReturn
  <2> DEFINE f == Head(stack)
  <2>1. /\ Pending = {f.pc} \cup Pending'
        /\ CodeSet' = CodeSet /\ entries' = entries
    BY <1>1, <1>4, HeadTailAddrs
       DEF TagReturn, Pending, CodeSet, is_code, get_tag, TagTypeOK
  <2>2. conf.limited \/ f.pc \notin Code \/ f.pc \in CodeSet
    BY <1>4 DEF TagReturn, Returns, CodeSet
  <2>3. Sound'
    BY <1>2, <2>1 DEF SearchInv, Sound, Closed
  <2>4. Complete'
    BY <1>2, <2>1, <2>2 DEF SearchInv, Complete
  <2> QED
    BY <1>1, <2>3, <2>4 DEF SearchInv
<1>5. CASE TagInsn
  <2> DEFINE f == Head(stack)
             i == conf.prog[f.pc]
             rest == FrameAddrs(Tail(stack))
             succ == KnownSuccessors(i, conf.hint)
  <2>1. /\ f \in Frame /\ f.level \in Nat
        /\ Tail(stack) \in Seq(Frame)
        /\ Pending = {f.pc} \cup rest
        /\ f.pc \in Code
    BY <1>1, <1>5, HeadTailAddrs DEF TagInsn, Returns, Frame, Pending, TagTypeOK
  <2>2. i \in Insn
    BY <1>1, <2>1, DecodedInsn
  <2>3. /\ tag' = or_tags(i, f.pc)
        /\ stack' = Work(i, f.level) \o Tail(stack)
        /\ entries' = entries
    BY <1>5 DEF TagInsn
  <2>4. CodeSet' = CodeSet \cup {f.pc}
    <3> HIDE DEF f, i
    <3> QED
      BY <1>1, <2>1, <2>2, <2>3, TurnTagsOne
  <2>5. Pending' = succ \cup rest
    <3>1. Work(i, f.level) \in Seq(Frame) /\ FrameAddrs(Work(i, f.level)) = succ
      <4> HIDE DEF i, f
      <4> QED
        BY <1>1, <2>1, <2>2, WorkOfInsn
    <3> QED
      BY <2>1, <2>3, <3>1, ConcatAddrs DEF Pending
  <2>6. Sound'
    <3> SUFFICES ASSUME NEW S \in SUBSET Code,
                        entries \cap Code \subseteq S, Closed(S)
                 PROVE  CodeSet' \subseteq S /\ Pending' \cap Code \subseteq S
      BY <1>2, <2>3 DEF Sound, Closed
    <3>1. CodeSet \subseteq S /\ Pending \cap Code \subseteq S
      BY DEF SearchInv, Sound
    <3>2. f.pc \in S
      BY <2>1, <3>1
    <3>3. succ \cap Code \subseteq S
      BY <3>2 DEF Closed
    <3> QED
      BY <2>1, <2>4, <2>5, <3>1, <3>2, <3>3
  <2>7. Complete'
    <3> SUFFICES ASSUME ~conf.limited
                 PROVE  /\ entries \cap Code \subseteq CodeSet' \cup Pending'
                        /\ \A a \in CodeSet' :
                              KnownSuccessors(conf.prog[a], conf.hint) \cap Code
                                  \subseteq CodeSet' \cup Pending'
      BY <1>2, <2>3 DEF Complete
    <3>1. CodeSet \cup Pending \subseteq CodeSet' \cup Pending'
      BY <2>1, <2>4, <2>5
    <3>2. entries \cap Code \subseteq CodeSet' \cup Pending'
      BY <3>1 DEF SearchInv, Complete
    <3>3. ASSUME NEW a \in CodeSet'
          PROVE  KnownSuccessors(conf.prog[a], conf.hint) \cap Code
                     \subseteq CodeSet' \cup Pending'
      <4>1. CASE a = f.pc
        BY <2>5, <4>1
      <4>2. CASE a \in CodeSet
        BY <3>1, <4>2 DEF SearchInv, Complete
      <4> QED
        BY <2>4, <4>1, <4>2
    <3> QED
      BY <3>2, <3>3
  <2> QED
    BY <1>1, <2>6, <2>7 DEF SearchInv
<1>6. CASE UNCHANGED tvars
  <2>1. CodeSet' = CodeSet /\ Pending' = Pending /\ entries' = entries
    BY <1>6 DEF tvars, CodeSet, is_code, get_tag, Pending
  <2> QED
    BY <1>1, <1>2, <2>1 DEF SearchInv, Sound, Complete, Closed
<1>7. (Sound /\ Complete)'
  BY <1>3, <1>4, <1>5, <1>6 DEF TagNext, CpuTag, TagStep, SearchInv
<1> QED
  BY <1>1, <1>7 DEF SearchInv

\* A search that was not limited ends with exactly the reachable code tagged,
\* whatever the guest program is and in whatever order entries are asked for.
THEOREM Exactness == TagSpec => []TaggingExact
<1> QED
  BY SearchInit, SearchStep, InvGivesExact, PTL DEF TagSpec

--------------------------------------------------------------------------------
(***************************************************************************)
(* The labels.                                                             *)
(***************************************************************************)

\* Tag bits are added and never taken away while code is searched (tag.cpp:95).
LEMMA BitsStay ==
    ASSUME TagTypeOK, [TagNext]_tvars, NEW a \in Code
    PROVE  tag[a] \subseteq tag'[a]
<1>1. ASSUME NEW pc \in Addr, TagStart(pc)
      PROVE  tag[a] \subseteq tag'[a]
  BY <1>1 DEF TagStart
<1>2. CASE TagInsn
  BY <1>2 DEF TagInsn, or_tags
<1>3. CASE TagReturn \/ UNCHANGED tvars
  BY <1>3 DEF TagReturn, tvars
<1> QED
  BY <1>1, <1>2, <1>3 DEF TagNext, CpuTag, TagStep

\* So an address stays a label.
LEMMA LabelStays ==
    ASSUME TagTypeOK, [TagNext]_tvars, NEW a \in Code, IsLabel(a)
    PROVE  IsLabel(a)'
  BY BitsStay DEF IsLabel, get_tag

\* A turn marks every address its instruction may continue at (tag.cpp:141-178).
LEMMA TurnLabels ==
    ASSUME TagTypeOK, NEW i \in Insn, NEW a \in Code, tag' = or_tags(i, a),
           conf' = conf
    PROVE  Labelled(i)'
<1>1. i.tag \in InsnTags /\ conf.hint \in Hints
  BY DEF Insn, TagTypeOK, Config
<1>2. /\ Has(i, "TRAP") => ~Has(i, "CALL") /\ ~Has(i, "BRANCH") /\ ~Has(i, "CONDITIONAL")
  BY <1>1 DEF InsnTags, Has
<1>3. ASSUME NEW b \in Code
      PROVE  /\ b = i.next => NextBits(i) \subseteq tag'[b]
             /\ b = i.new => NewBits(i) \subseteq tag'[b]
             /\ b = i.skip => SkipBits(i) \subseteq tag'[b]
  BY <1>3 DEF or_tags
<1>4. ASSUME NEW b \in Code, NEW bit \in LabelBits, bit \in tag'[b]
      PROVE  IsLabel(b)'
  BY <1>4 DEF IsLabel, get_tag
<1>5. ASSUME Has(i, "CALL") \/ Has(i, "BRANCH"), i.new \in Code
      PROVE  IsLabel(i.new)'
  <2>1. "SUBROUTINE" \in NewBits(i) \/ "BRANCH_TARGET" \in NewBits(i)
    BY <1>2, <1>5 DEF NewBits, TrapEnds
  <2> QED
    BY <1>3, <1>4, <1>5, <2>1 DEF LabelBits
<1>6. ASSUME Has(i, "CALL") \/ Has(i, "CONDITIONAL"), i.next \in Code
      PROVE  IsLabel(i.next)'
  <2>1. "AFTER_CALL" \in NextBits(i) \/ "AFTER_COND" \in NextBits(i)
    BY <1>2, <1>6 DEF NextBits, TrapEnds
  <2> QED
    BY <1>3, <1>4, <1>6, <2>1 DEF LabelBits
<1>7. ASSUME Has(i, "TRAP"), conf.hint # "none",
             NEW b \in KnownSuccessors(i, conf.hint) \cap Code
      PROVE  IsLabel(b)'
  <2>1. b = i.next \/ (b = i.skip /\ conf.hint = "returns_twice")
    BY <1>1, <1>7 DEF KnownSuccessors, Hints
  <2>2. CASE b = i.next
    <3>1. "AFTER_TRAP" \in NextBits(i)
      BY <1>7 DEF NextBits, TrapEnds
    <3> QED
      BY <1>3, <1>4, <2>2, <3>1 DEF LabelBits
  <2>3. CASE b = i.skip /\ conf.hint = "returns_twice"
    <3>1. "AFTER_TRAP" \in SkipBits(i)
      BY <1>7, <2>3 DEF SkipBits
    <3> QED
      BY <1>3, <1>4, <2>3, <3>1 DEF LabelBits
  <2> QED
    BY <2>1, <2>2, <2>3
<1> QED
  BY <1>5, <1>6, <1>7 DEF Labelled, Has, KnownSuccessors

\* Every step of the search keeps the labels of what has been tagged, and makes
\* those of what it tags.
LEMMA LabelsStep ==
    ASSUME TagTypeOK, LabelsKnown, [TagNext]_tvars
    PROVE  LabelsKnown'
<1>1. conf' = conf
  BY DEF TagNext, CpuTag, TagStart, TagStep, TagReturn, TagInsn, tvars
<1>2. ASSUME NEW a \in CodeSet
      PROVE  Labelled(conf.prog[a])'
  <2>1. Labelled(conf.prog[a])
    BY DEF LabelsKnown
  <2> QED
    BY <1>1, <2>1, LabelStays DEF Labelled, Has, KnownSuccessors
<1>3. CASE TagInsn
  <2>1. PICK a \in Code : tag' = or_tags(conf.prog[a], a)
    BY <1>3 DEF TagInsn, Returns
  <2>2. PICK i \in Insn : i = conf.prog[a]
    BY <2>1, DecodedInsn
  <2>3. CodeSet' = CodeSet \cup {a}
    BY <2>1, <2>2, TurnTagsOne
  <2>4. Labelled(i)'
    BY <1>1, <2>1, <2>2, TurnLabels
  <2>5. Labelled(conf.prog[a])'
    BY <1>1, <2>2, <2>4 DEF Labelled, Has, KnownSuccessors
  <2> QED
    BY <1>2, <2>3, <2>5 DEF LabelsKnown
<1>4. CASE ~TagInsn
  <2>1. CodeSet' = CodeSet
    BY <1>4 DEF TagNext, CpuTag, TagStart, TagStep, TagReturn, tvars,
                CodeSet, is_code, get_tag, TagTypeOK
  <2> QED
    BY <1>2, <2>1, <1>1 DEF LabelsKnown
<1> QED
  BY <1>3, <1>4

\* Wherever tagged code may continue, in the code area and as far as it can be
\* known, there is a label for a basic block.
THEOREM Labels == TagSpec => []LabelsKnown
<1>1. TagInit => LabelsKnown
  BY DEF TagInit, LabelsKnown, CodeSet, is_code, get_tag
<1> QED
  BY <1>1, LabelsStep, TypeCorrect, PTL DEF TagSpec

--------------------------------------------------------------------------------
(***************************************************************************)
(* Levels of recursion, and what a limited search leaves out.              *)
(***************************************************************************)

\* The running frame and the waiting ones.
LEMMA HeadTailFrames ==
    ASSUME NEW s \in Seq(Frame), s # <<>>
    PROVE  /\ Head(s) \in Frame
           /\ Tail(s) \in Seq(Frame)
           /\ Range(s) = {Head(s)} \cup Range(Tail(s))
<1>1. /\ Head(s) \in Frame
      /\ Tail(s) \in Seq(Frame)
      /\ s = <<Head(s)>> \o Tail(s)
  OBVIOUS
<1>2. /\ <<Head(s)>> \in Seq(Frame)
      /\ Range(<<Head(s)>>) = {Head(s)}
  BY <1>1 DEF Range
<1>3. Range(<<Head(s)>> \o Tail(s)) = Range(<<Head(s)>>) \cup Range(Tail(s))
  BY <1>1, <1>2, ConcatFrames
<1> QED
  BY <1>1, <1>2, <1>3

\* A turn pushes calls one level down and goes on at its own level
\* (tag.cpp:166-187).
LEMMA WorkFrames ==
    ASSUME TagTypeOK, NEW i \in Insn, NEW l \in Nat
    PROVE  /\ \A g \in Range(Work(i, l)) : g.level \in {l, l + 1}
           /\ Continues(i) => [pc |-> i.next, level |-> l] \in Range(Work(i, l))
<1> DEFINE C == [k \in 1..Len(Calls(i)) |-> [pc |-> Calls(i)[k], level |-> l + 1]]
           N == IF Continues(i) THEN <<[pc |-> i.next, level |-> l]>> ELSE <<>>
<1>1. i.new \in Addr /\ i.next \in Addr /\ i.skip \in Addr
  BY DEF Insn
<1>2. C \in Seq(Frame) /\ \A g \in Range(C) : g.level = l + 1
  <2>1. Calls(i) \in Seq(Addr)
    <3>1. \A a \in Addr : <<a>> \in Seq(Addr)
      OBVIOUS
    <3>2. <<>> \in Seq(Addr)
      OBVIOUS
    <3>3. Calls(i) \in {<<>>, <<i.new>>, <<i.skip>>}
      BY CallsOfInsn
    <3> QED
      BY <1>1, <3>1, <3>2, <3>3
  <2> DEFINE c == Calls(i)
  <2> HIDE DEF c
  <2>2. Len(c) \in Nat /\ \A k \in 1..Len(c) : c[k] \in Addr
    BY <2>1 DEF c
  <2>3. C = [k \in 1..Len(c) |-> [pc |-> c[k], level |-> l + 1]]
    BY DEF c
  <2> HIDE DEF C
  <2>4. C \in [1..Len(c) -> Frame]
    <3>1. l + 1 \in Nat
      OBVIOUS
    <3>2. \A k \in 1..Len(c) : [pc |-> c[k], level |-> l + 1] \in Frame
      BY <2>2, <3>1 DEF Frame
    <3> QED
      BY <2>3, <3>2
  <2>5. \A g \in Range(C) : g.level = l + 1
    BY <2>2, <2>3 DEF Range
  <2> QED
    BY <2>2, <2>4, <2>5, SeqDef
<1>3. /\ N \in Seq(Frame) /\ \A g \in Range(N) : g.level = l
      /\ Continues(i) => [pc |-> i.next, level |-> l] \in Range(N)
  <2>1. CASE Continues(i)
    <3> DEFINE n == [pc |-> i.next, level |-> l]
    <3>1. N = <<n>> /\ n \in Frame /\ n.level = l
      BY <1>1, <2>1 DEF Frame
    <3> HIDE DEF N, n
    <3>2. Range(N) = {n} /\ N \in Seq(Frame)
      BY <3>1 DEF Range
    <3>3. n \in Range(N) /\ \A g \in Range(N) : g.level = l
      BY <3>1, <3>2
    <3> QED
      BY <3>2, <3>3 DEF n
  <2>2. CASE ~Continues(i)
    <3>1. N = <<>>
      BY <2>2
    <3> HIDE DEF N
    <3> QED
      BY <2>2, <3>1 DEF Range
  <2> QED
    BY <2>1, <2>2
<1>4. Work(i, l) = C \o N
  BY DEF Work
<1> HIDE DEF C, N
<1>5. Range(C \o N) = Range(C) \cup Range(N)
  BY <1>2, <1>3, ConcatFrames
<1> QED
  BY <1>2, <1>3, <1>4, <1>5

\* tag_start() calls tag_recursive() on level 0.
LEMMA StartLevels ==
    ASSUME TagTypeOK, NEW pc \in Addr
    PROVE  LET s == [k \in 1..Len(Starts(pc)) |-> [pc |-> Starts(pc)[k], level |-> 0]]
           IN \A g \in Range(s) : g.level = 0
  BY DEF Range

DepthInv ==
    /\ IsFiniteSet(CodeSet)
    /\ \A g \in Range(stack) :
          /\ g.level <= Cardinality(CodeSet)
          /\ conf.limited => g.level <= LimitDFS

\* The levels on the stack, read off position by position.
LEMMA DepthInvGivesBound == TagTypeOK /\ DepthInv => DepthBounded
  BY DEF DepthInv, DepthBounded, Range, TagTypeOK

\* Nothing is tagged and nothing is called before the first cpu_tag().
LEMMA DepthInit == TagInit => DepthInv
<1> SUFFICES ASSUME TagInit PROVE DepthInv
  OBVIOUS
<1>1. CodeSet = {}
  BY DEF TagInit, CodeSet, is_code, get_tag
<1>2. Range(stack) = {}
  BY DEF TagInit, Range
<1> QED
  BY <1>1, <1>2, FS_EmptySet DEF DepthInv

\* A turn that calls one level down has tagged one more instruction, and is not at
\* the limit (tag.cpp:123-125).
LEMMA DepthStep ==
    ASSUME TagTypeOK, DepthInv, [TagNext]_tvars
    PROVE  DepthInv'
<1>1. conf' = conf
  BY DEF TagNext, CpuTag, TagStart, TagStep, TagReturn, TagInsn, tvars
<1>2. Cardinality(CodeSet) \in Nat
  BY FS_CardinalityType DEF DepthInv
<1>3. ASSUME NEW pc \in Addr, TagStart(pc)
      PROVE  DepthInv'
  <2>1. CodeSet' = CodeSet
    BY <1>3 DEF TagStart, CodeSet, is_code, get_tag, TagTypeOK
  <2>2. CASE conf.singlestep
    <3>1. stack' = stack
      BY <1>3, <2>2 DEF TagStart
    <3> QED
      BY <1>1, <2>1, <3>1 DEF DepthInv
  <2>3. CASE ~conf.singlestep
    <3>1. \A g \in Range(stack') : g.level = 0
      BY <1>3, <2>3, StartLevels DEF TagStart
    <3> QED
      BY <1>1, <1>2, <2>1, <3>1, LimitAssumption DEF DepthInv
  <2> QED
    BY <2>2, <2>3
<1>4. CASE TagReturn
  <2>1. CodeSet' = CodeSet /\ Range(stack') \subseteq Range(stack)
    BY <1>4, HeadTailFrames DEF TagReturn, CodeSet, is_code, get_tag, TagTypeOK
  <2> QED
    BY <1>1, <2>1 DEF DepthInv
<1>5. CASE TagInsn
  <2>1. PICK f \in Frame :
            /\ f = Head(stack)
            /\ ~Returns(f)
            /\ tag' = or_tags(conf.prog[f.pc], f.pc)
            /\ stack' = Work(conf.prog[f.pc], f.level) \o Tail(stack)
    BY <1>5, HeadTailFrames DEF TagInsn, TagTypeOK
  <2>2. /\ f.pc \in Code /\ f.pc \notin CodeSet
        /\ conf.limited => f.level # LimitDFS
        /\ f.level \in Nat
    BY <2>1 DEF Returns, CodeSet, Frame
  <2>3. PICK i \in Insn : i = conf.prog[f.pc]
    BY <2>2, DecodedInsn
  <2>4. /\ CodeSet' = CodeSet \cup {f.pc}
        /\ IsFiniteSet(CodeSet')
        /\ Cardinality(CodeSet') = Cardinality(CodeSet) + 1
    <3>1. CodeSet' = CodeSet \cup {f.pc}
      BY <2>1, <2>2, <2>3, TurnTagsOne
    <3> QED
      BY <2>2, <3>1, FS_AddElement DEF DepthInv
  <2>5. /\ f \in Range(stack)
        /\ Tail(stack) \in Seq(Frame)
        /\ Range(Tail(stack)) \subseteq Range(stack)
    BY <1>5, <2>1, HeadTailFrames DEF TagInsn, TagTypeOK
  <2>6. Range(stack') = Range(Work(i, f.level)) \cup Range(Tail(stack))
    <3>1. Work(i, f.level) \in Seq(Frame)
      BY <2>2, WorkOfInsn
    <3>2. stack' = Work(i, f.level) \o Tail(stack)
      BY <2>1, <2>3
    <3>3. Range(Work(i, f.level) \o Tail(stack))
              = Range(Work(i, f.level)) \cup Range(Tail(stack))
      BY <2>5, <3>1, ConcatFrames
    <3> QED
      BY <3>2, <3>3
  <2>7. ASSUME NEW g \in Range(Work(i, f.level))
        PROVE  /\ g.level <= Cardinality(CodeSet) + 1
               /\ conf.limited => g.level <= LimitDFS
    <3>1. g.level \in {f.level, f.level + 1}
      BY <2>2, WorkFrames
    <3>2. /\ f.level <= Cardinality(CodeSet)
          /\ conf.limited => f.level <= LimitDFS
      BY <2>5 DEF DepthInv
    <3> QED
      BY <1>2, <2>2, <3>1, <3>2, LimitAssumption
  <2>8. ASSUME NEW g \in Range(Tail(stack))
        PROVE  /\ g.level <= Cardinality(CodeSet) + 1
               /\ conf.limited => g.level <= LimitDFS
    <3>1. g \in Frame
      BY <2>5 DEF Range
    <3>2. g.level \in Nat
      BY <3>1 DEF Frame
    <3> QED
      BY <1>2, <2>5, <3>2 DEF DepthInv
  <2> QED
    BY <1>1, <2>4, <2>6, <2>7, <2>8 DEF DepthInv
<1>6. CASE UNCHANGED tvars
  BY <1>6 DEF tvars, DepthInv, CodeSet, is_code, get_tag
<1> QED
  BY <1>3, <1>4, <1>5, <1>6 DEF TagNext, CpuTag, TagStep

\* tag_recursive() is never deeper than the number of instructions it has tagged,
\* and a limited search never deeper than the limit, for any program.
THEOREM Depth == TagSpec => []DepthBounded
<1> QED
  BY TypeCorrect, DepthInit, DepthStep, DepthInvGivesBound, PTL DEF TagSpec

\* The calls that will not be cut at the limit.
Live == {g \in Range(stack) : conf.limited => g.level # LimitDFS}

\* Where an entry, or a tagged instruction that does not end the loop, leads to
\* has been tagged or is in a frame that will not be cut.
LineInv ==
    LET kept == {g.pc : g \in Live}
    IN /\ entries \cap Code \subseteq CodeSet \cup kept
       /\ \A a \in CodeSet :
             Continues(conf.prog[a]) /\ conf.prog[a].next \in Code
                 => conf.prog[a].next \in CodeSet \cup kept

\* The loop goes on exactly behind the instructions that fall through.
LEMMA ContinuesFalls ==
    ASSUME TagTypeOK, NEW i \in Insn
    PROVE  Continues(i) <=> FallThrough(i)
<1>1. i.tag \in InsnTags
  BY DEF Insn
<1> QED
  BY <1>1 DEF InsnTags, Has, Continues, FallThrough, TrapEnds

\* When no frame is left, every straight line has been tagged to its end.
LEMMA LineInvGivesTagged == TagTypeOK /\ LineInv => StraightLineTagged
<1> SUFFICES ASSUME TagTypeOK, LineInv, stack = <<>>
             PROVE  /\ entries \cap Code \subseteq CodeSet
                    /\ \A a \in CodeSet :
                          FallThrough(conf.prog[a]) /\ conf.prog[a].next \in Code
                              => is_code(conf.prog[a].next)
  BY DEF StraightLineTagged
<1>1. Live = {}
  BY DEF Live, Range
<1>2. \A a \in CodeSet : conf.prog[a] \in Insn
  BY DecodedInsn DEF CodeSet
<1> QED
  BY <1>1, <1>2, ContinuesFalls DEF LineInv, CodeSet

\* Nothing was asked for and nothing is tagged before the first cpu_tag().
LEMMA LineInit == TagInit => LineInv
  BY DEF TagInit, LineInv, CodeSet, is_code, get_tag

\* A return from a frame that was not cut is one from tagged code, and a turn that
\* continues leaves a frame of its own level for the rest of the line
\* (tag.cpp:123-137, 182-187).
LEMMA LineStep ==
    ASSUME TagTypeOK, LineInv, [TagNext]_tvars
    PROVE  LineInv'
<1>1. conf' = conf
  BY DEF TagNext, CpuTag, TagStart, TagStep, TagReturn, TagInsn, tvars
<1> DEFINE kept == {g.pc : g \in Live}
<1>2. ASSUME NEW pc \in Addr, TagStart(pc)
      PROVE  LineInv'
  <2>1. CodeSet' = CodeSet
    BY <1>2 DEF TagStart, CodeSet, is_code, get_tag, TagTypeOK
  <2>2. CASE conf.singlestep
    <3>1. stack' = stack /\ entries' = entries
      BY <1>2, <2>2 DEF TagStart
    <3> QED
      BY <1>1, <2>1, <3>1 DEF LineInv, Live, Continues, TrapEnds
  <2>3. CASE ~conf.singlestep
    <3>1. /\ FrameAddrs(stack') = Started(pc)
          /\ \A g \in Range(stack') : g.level = 0
          /\ entries' = entries \cup Started(pc)
      BY <1>2, <2>3, StartFrames, StartLevels DEF TagStart
    <3>2. Live' = Range(stack')
      BY <3>1, LimitAssumption DEF Live
    <3>3. kept' = Started(pc)
      BY <3>1, <3>2 DEF FrameAddrs
    <3>4. kept = {}
      BY <1>2 DEF TagStart, Live, Range
    <3> QED
      BY <1>1, <2>1, <3>1, <3>3, <3>4 DEF LineInv, Continues, TrapEnds
  <2> QED
    BY <2>2, <2>3
<1>3. CASE TagReturn
  <2>1. /\ CodeSet' = CodeSet /\ entries' = entries
        /\ Range(stack) = {Head(stack)} \cup Range(stack')
    BY <1>3, HeadTailFrames DEF TagReturn, CodeSet, is_code, get_tag, TagTypeOK
  <2>2. Head(stack) \in Live /\ Head(stack).pc \in Code => Head(stack).pc \in CodeSet
    BY <1>3 DEF TagReturn, Returns, Live, CodeSet
  <2>3. Live \subseteq {Head(stack)} \cup Live'
    BY <1>1, <2>1 DEF Live
  <2>4. kept \cap Code \subseteq CodeSet' \cup kept'
    BY <2>1, <2>2, <2>3
  <2> QED
    BY <1>1, <2>1, <2>4 DEF LineInv, Continues, TrapEnds
<1>4. CASE TagInsn
  <2>1. PICK f \in Frame :
            /\ f = Head(stack)
            /\ ~Returns(f)
            /\ tag' = or_tags(conf.prog[f.pc], f.pc)
            /\ stack' = Work(conf.prog[f.pc], f.level) \o Tail(stack)
            /\ entries' = entries
    BY <1>4, HeadTailFrames DEF TagInsn, TagTypeOK
  <2>2. /\ f.pc \in Code
        /\ conf.limited => f.level # LimitDFS
        /\ f.level \in Nat
    BY <2>1 DEF Returns, Frame
  <2>3. PICK i \in Insn : i = conf.prog[f.pc]
    BY <2>2, DecodedInsn
  <2>4. CodeSet' = CodeSet \cup {f.pc}
    BY <2>1, <2>2, <2>3, TurnTagsOne
  <2>5. Range(stack) = {f} \cup Range(Tail(stack)) /\ Tail(stack) \in Seq(Frame)
    BY <1>4, <2>1, HeadTailFrames DEF TagInsn, TagTypeOK
  <2>6. Range(stack') = Range(Work(i, f.level)) \cup Range(Tail(stack))
    <3>1. Work(i, f.level) \in Seq(Frame)
      BY <2>2, WorkOfInsn
    <3>2. stack' = Work(i, f.level) \o Tail(stack)
      BY <2>1, <2>3
    <3>3. Range(Work(i, f.level) \o Tail(stack))
              = Range(Work(i, f.level)) \cup Range(Tail(stack))
      BY <2>5, <3>1, ConcatFrames
    <3> QED
      BY <3>2, <3>3
  <2>7. Live \subseteq {f} \cup Live'
    BY <1>1, <2>5, <2>6 DEF Live
  <2>8. kept \subseteq CodeSet' \cup kept'
    BY <2>4, <2>7
  <2>9. Continues(i)' <=> Continues(i)
    BY <1>1 DEF Continues, TrapEnds, Has
  <2>10. Continues(i) => i.next \in kept'
    <3> DEFINE g == [pc |-> i.next, level |-> f.level]
    <3>1. Continues(i) => g \in Range(stack')
      BY <2>2, <2>6, WorkFrames
    <3>2. g.level = f.level /\ g.pc = i.next
      OBVIOUS
    <3> HIDE DEF g
    <3>3. Continues(i) => g \in Live'
      BY <1>1, <2>2, <3>1, <3>2 DEF Live
    <3> QED
      BY <3>2, <3>3
  <2>11. entries' \cap Code \subseteq CodeSet' \cup kept'
    BY <2>1, <2>4, <2>8 DEF LineInv
  <2>12. ASSUME NEW a \in CodeSet', Continues(conf.prog[a])', conf.prog[a].next \in Code
         PROVE  conf.prog[a].next \in CodeSet' \cup kept'
    <3>1. Continues(conf.prog[a])
      BY <1>1, <2>12 DEF Continues, TrapEnds, Has
    <3>2. CASE a = f.pc
      BY <2>3, <2>10, <3>1, <3>2
    <3>3. CASE a \in CodeSet
      BY <2>4, <2>8, <2>12, <3>1, <3>3 DEF LineInv
    <3> QED
      BY <2>4, <3>2, <3>3
  <2> QED
    BY <1>1, <2>11, <2>12 DEF LineInv
<1>5. CASE UNCHANGED tvars
  <2>1. CodeSet' = CodeSet /\ Live' = Live /\ entries' = entries
    BY <1>5 DEF tvars, CodeSet, is_code, get_tag, Live
  <2> QED
    BY <1>1, <2>1 DEF LineInv, Continues, TrapEnds
<1> QED
  BY <1>2, <1>3, <1>4, <1>5 DEF TagNext, CpuTag, TagStep

\* A limited search cuts recursive calls only: from every entry the straight line
\* is tagged to its end, for any program and any limit.
THEOREM StraightLine == TagSpec => []StraightLineTagged
<1> QED
  BY TypeCorrect, LineInit, LineStep, LineInvGivesTagged, PTL DEF TagSpec

--------------------------------------------------------------------------------
(***************************************************************************)
(* Types.                                                                  *)
(***************************************************************************)
\* What a function of this program can be (cpu_translate_function()).
FuncOK(f) ==
    IF conf.singlestep
    THEN f.entry \in Mem /\ f.miss = "SINGLESTEP" /\ f.labels = {} /\ f.code = {}
    ELSE f.entry = NoPc /\ f.miss = "FUNCNOTFOUND" /\ f.labels \subseteq Code
         /\ f.code \subseteq Code

FuncsOK ==
    /\ funcs \in Seq(Func)
    /\ \A k \in 1..Len(funcs) : FuncOK(funcs[k])

Typed ==
    /\ TagTypeOK
    /\ PC \in Addr
    /\ ctl \in Controls /\ back \in {"client", "top"}
    /\ cur \in Nat /\ tagged \in Nat
    /\ ctl \in {"guest", "returned"} => cur \in 1..Len(funcs)
    /\ ctl = "scan" => cur \in 1..(Len(funcs) + 1)

\* The search runs on its own, and nothing is tagged while single stepping.
Searching ==
    /\ ctl # "tag" => stack = <<>>
    /\ conf.singlestep => stack = <<>> /\ \A a \in Code : tag[a] = {}

TypeInv == Typed /\ FuncsOK /\ Searching

\* Before the first call there is no function and no tag.
LEMMA EngineInit == Init => TypeInv
<1> SUFFICES ASSUME Init PROVE TypeInv
  OBVIOUS
<1>1. TagTypeOK /\ stack = <<>> /\ \A a \in Code : tag[a] = {}
  BY TypeInit DEF Init, TagInit
<1>2. FuncsOK
  BY DEF Init, FuncsOK
<1> QED BY <1>1, <1>2 DEF Init, TypeInv, Typed, Searching, Controls

\* A turn of the search is a turn of Tagging's.
LEMMA TagTurn ==
    ASSUME TypeInv, [TagNext]_tvars
    PROVE  TagTypeOK' /\ conf' = conf
BY TypeStep DEF TypeInv, Typed, TagNext, CpuTag, TagStart, TagStep, TagReturn, TagInsn, tvars

\* The functions stay what they are as long as the program does.
LEMMA FuncsStay ==
    ASSUME FuncsOK, conf' = conf, funcs' = funcs
    PROVE  FuncsOK'
BY DEF FuncsOK, FuncOK

\* Translation yields such a function, and marks tags with TRANSLATED only.
LEMMA Translates ==
    ASSUME TypeInv, conf.singlestep => PC \in Mem
    PROVE  /\ NewFunc \in Func /\ FuncOK(NewFunc)
           /\ mark_translated(NewFunc) \in [Code -> SUBSET TagBits]
           /\ \A a \in Code : mark_translated(NewFunc)[a] =
                 IF a \in NewFunc.labels THEN tag[a] \cup {"TRANSLATED"} ELSE tag[a]
<1> USE DEF TypeInv, Typed
<1>1. StartSet \subseteq Code /\ CodeSet \subseteq Code
  BY DEF StartSet, CodeSet
<1>2. NoPc \in Addr /\ Mem \subseteq Addr
  BY AddrAssumption
<1>3. NewFunc \in Func /\ FuncOK(NewFunc)
  <2>1. CASE conf.singlestep
    BY <1>2, <2>1 DEF NewFunc, TranslatedSinglestep, Func, FuncOK, Codes
  <2>2. CASE ~conf.singlestep
    <3>1. NewFunc = [entry |-> NoPc, miss |-> "FUNCNOTFOUND",
                     labels |-> {a \in StartSet : "TRANSLATED" \notin tag[a]},
                     starts |-> StartSet, code |-> CodeSet]
      BY <2>2 DEF NewFunc, TranslatedAll
    <3> QED BY <1>1, <1>2, <2>2, <3>1 DEF Func, FuncOK, Codes
  <2> QED BY <2>1, <2>2
<1>4. "TRANSLATED" \in TagBits
  BY DEF TagBits
<1> QED BY <1>3, <1>4 DEF mark_translated, TagTypeOK

\* Translation, successful or not, keeps the types.
LEMMA TranslateTyped ==
    ASSUME TypeInv, conf.singlestep => PC \in Mem, NEW next \in {"client", "top"},
           ctl = next, TranslateFunction(next)
    PROVE  TypeInv'
<1> USE DEF TypeInv
<1>1. UNCHANGED <<conf, allocated, stack, entries, PC, cur, tagged>> /\ tags_dirty' = FALSE
      /\ back' = next
  BY DEF TranslateFunction
<1>2. CASE Len(funcs) = MaxFunctions
  <2>1. ctl' = "array_overflow" /\ UNCHANGED <<tag, funcs>>
    BY <1>2 DEF TranslateFunction
  <2>2. FuncsOK'
    BY <1>1, <2>1, FuncsStay
  <2> QED BY <1>1, <2>1, <2>2 DEF Typed, TagTypeOK, Searching, Controls
<1>3. CASE Len(funcs) # MaxFunctions
  <2>1. tag' = mark_translated(NewFunc)
    BY <1>3 DEF TranslateFunction
  <2>2. \/ ctl' = "duplicate_symbol" /\ funcs' = funcs
        \/ ctl' = next /\ funcs' = Append(funcs, NewFunc)
    BY <1>3 DEF TranslateFunction
  <2>3. FuncsOK'
    <3>1. CASE funcs' = funcs
      BY <1>1, <3>1, FuncsStay
    <3>2. CASE funcs' = Append(funcs, NewFunc)
      BY <1>1, <3>2, Translates DEF FuncsOK, FuncOK
    <3> QED BY <2>2, <3>1, <3>2
  <2>4. TagTypeOK'
    BY <1>1, <2>1, Translates DEF Typed, TagTypeOK
  <2>5. Searching'
    <3>1. ASSUME conf.singlestep, NEW a \in Code PROVE tag'[a] = {}
      BY <2>1, <3>1, Translates DEF Searching, FuncOK
    <3> QED BY <1>1, <2>2, <3>1 DEF Searching
  <2> QED BY <1>1, <2>2, <2>3, <2>4, <2>5 DEF Typed, Controls
<1> QED BY <1>2, <1>3

--------------------------------------------------------------------------------
(***************************************************************************)
(* Where the guest is while cpu_run() is running.                          *)
(***************************************************************************)
Misses == IF conf.singlestep THEN {"SINGLESTEP"} ELSE {"FUNCNOTFOUND"}

AtPc ==
    /\ ctl = "guest" => IF conf.singlestep THEN at = PC ELSE at \in Code
    /\ ctl = "returned" => ret \in Misses \cup {"TRAP"}
    /\ conf.singlestep /\ InCpuRun /\ ctl # "returned" =>
          PC \in Mem /\ \A k \in 1..Len(funcs) : funcs[k].entry = PC

Inv == TypeInv /\ AtPc

\* The instruction about to be executed is one.
LEMMA Executing ==
    ASSUME Inv, ctl = "guest"
    PROVE  at \in Mem /\ conf.prog[at] \in Insn /\ (conf.singlestep \/ at \in Code)
           /\ funcs[cur] \in Func /\ FuncOK(funcs[cur])
<1> USE DEF Inv, TypeInv
<1>1. at \in Mem /\ (conf.singlestep \/ at \in Code)
  BY AddrAssumption DEF AtPc, InCpuRun
<1>2. cur \in 1..Len(funcs)
  BY DEF Typed
<1>3. funcs[cur] \in Func /\ FuncOK(funcs[cur])
  BY <1>2 DEF FuncsOK
<1> QED BY <1>1, <1>3 DEF Typed, TagTypeOK, Config

\* Going on inside the function at pc, or leaving it with pc stored.
Goes(f, pc, code) ==
    \/ /\ ctl' = "guest" /\ at' = pc /\ UNCHANGED <<PC, ret>>
       /\ pc \in f.labels \cup f.code
    \/ ctl' = "returned" /\ PC' = pc /\ at' = NoPc /\ ret' = code
       /\ (code # "TRAP" => pc \notin f.labels)

\* A step of a translated function has an outcome of the guest instruction,
\* and only a trap and an address without a basic block leave the function.
LEMMA Executes ==
    ASSUME Inv, ExecInsn
    PROVE  LET f == funcs[cur]
               i == conf.prog[at]
           IN \E o \in Outcomes(i, at) :
                 /\ o.pc \in Addr
                 /\ eff' = o.eff
                 /\ IF Has(i, "TRAP") THEN ctl' = "returned" /\ Goes(f, o.pc, "TRAP")
                    ELSE Goes(f, o.pc, f.miss)
<1> DEFINE f == funcs[cur]
           i == conf.prog[at]
<1>1. ctl = "guest" /\ i \in Insn /\ f \in Func /\ FuncOK(f)
  BY Executing DEF ExecInsn
<1>2. /\ i.tag \in InsnTags
      /\ i.new \in Addr /\ i.next \in Addr /\ i.slot \in Addr /\ i.trap \in Addr
  BY <1>1 DEF Insn
<1>3. f.miss # "TRAP"
  BY <1>1 DEF FuncOK
<1>4. \/ eff' = <<at>> \o Delay(i) /\ Taken(f, i)
      \/ Has(i, "CONDITIONAL") /\ eff' = Delay(i) /\ Goto(f, i.next)
  BY DEF ExecInsn
<1> HIDE DEF f, i
<1>5. ASSUME NEW pc \in Addr, Goto(f, pc) PROVE Goes(f, pc, f.miss)
  BY <1>1, <1>5 DEF Goto, Stay, Exit, Goes
<1>6. /\ Has(i, "TRAP") => ~Jumps(i) /\ ~Has(i, "CONTINUE") /\ ~Has(i, "CONDITIONAL")
      /\ Has(i, "CONTINUE") => ~Jumps(i)
      /\ Has(i, "RET") => ~Has(i, "CALL") /\ ~Has(i, "BRANCH")
  BY <1>2 DEF InsnTags, Has, Jumps
<1> DEFINE Left(pc) == IF Has(i, "TRAP") THEN ctl' = "returned" /\ Goes(f, pc, "TRAP")
                       ELSE Goes(f, pc, f.miss)
           Done == \E o \in Outcomes(i, at) : o.pc \in Addr /\ eff' = o.eff /\ Left(o.pc)
<1>7. ASSUME NEW pc \in Addr, pc \in TakenTargets(i), Left(pc), eff' = <<at>> \o Delay(i)
      PROVE  Done
  <2>1. [pc |-> pc, eff |-> <<at>> \o Delay(i)] \in Outcomes(i, at)
    BY <1>7 DEF Outcomes
  <2> QED BY <1>7, <2>1
<1>8. ASSUME eff' = <<at>> \o Delay(i), Taken(f, i) PROVE Done
  <2> HIDE DEF Done
  <2>1. CASE Indirect(i)
    <3>1. ~Has(i, "TRAP") /\ ~Has(i, "CONTINUE") /\ TakenTargets(i) = Addr
      BY <1>6, <2>1 DEF Indirect, Jumps, TakenTargets
    <3>2. PICK pc \in Addr : Goto(f, pc)
      BY <1>8, <2>1, <3>1 DEF Taken
    <3> QED BY <1>5, <1>7, <1>8, <3>1, <3>2
  <2>2. CASE Jumps(i) /\ ~Indirect(i)
    <3>1. ~Has(i, "TRAP") /\ ~Has(i, "CONTINUE") /\ TakenTargets(i) = {i.new}
      BY <1>6, <2>2 DEF Indirect, Jumps, TakenTargets
    <3>2. Goto(f, i.new)
      BY <1>8, <2>2, <3>1 DEF Taken
    <3> QED BY <1>2, <1>5, <1>7, <1>8, <3>1, <3>2
  <2>3. CASE Has(i, "TRAP")
    <3>1. Exit(i.trap, "TRAP") /\ TakenTargets(i) = {i.trap}
      BY <1>6, <1>8, <2>3 DEF Taken, Jumps, Indirect, TakenTargets
    <3>2. ctl' = "returned" /\ Goes(f, i.trap, "TRAP")
      BY <3>1 DEF Exit, Goes
    <3> QED BY <1>2, <1>7, <1>8, <2>3, <3>1, <3>2
  <2>4. CASE ~Jumps(i) /\ ~Has(i, "TRAP")
    <3>1. Fall(f, i.next) /\ TakenTargets(i) = {i.next}
      BY <1>8, <2>4 DEF Taken, Jumps, Indirect, TakenTargets
    <3>2. Goes(f, i.next, f.miss)
      BY <1>1, <1>2, <1>5, <3>1 DEF Fall, Stay, Goes
    <3> QED BY <1>2, <1>7, <1>8, <2>4, <3>1, <3>2
  <2>5. Indirect(i) => Jumps(i)
    BY DEF Indirect, Jumps
  <2> QED BY <2>1, <2>2, <2>3, <2>4, <2>5
<1>9. ASSUME Has(i, "CONDITIONAL"), eff' = Delay(i), Goto(f, i.next) PROVE Done
  <2>1. [pc |-> i.next, eff |-> Delay(i)] \in Outcomes(i, at) /\ ~Has(i, "TRAP")
    BY <1>6, <1>9 DEF Outcomes
  <2> QED BY <1>2, <1>5, <1>9, <2>1
<1>10. Done
  BY <1>4, <1>8, <1>9
<1> QED BY <1>10 DEF f, i

--------------------------------------------------------------------------------
(***************************************************************************)
(* The invariant.                                                          *)
(***************************************************************************)
\* Steps that neither tag nor translate.
LEMMA Kept ==
    ASSUME TypeInv, stack = <<>>, UNCHANGED <<tvars, funcs, back, tagged>>,
           PC' \in Addr, ctl' \in Controls \ {"tag"}, cur' \in Nat,
           ctl' \in {"guest", "returned"} => cur' \in 1..Len(funcs),
           ctl' = "scan" => cur' \in 1..(Len(funcs) + 1)
    PROVE  TypeInv'
<1>1. FuncsOK'
  BY FuncsStay DEF TypeInv, tvars
<1>2. TagTypeOK'
  BY DEF TypeInv, Typed, TagTypeOK, tvars
<1> QED BY <1>1, <1>2 DEF TypeInv, Typed, Searching, tvars

\* Steps of the search, and those that start one.
LEMMA SearchKept ==
    ASSUME TypeInv, [TagNext]_tvars, UNCHANGED <<PC, funcs>>, ctl' = "tag",
           back' \in {"client", "top"}, cur' \in Nat, tagged' \in Nat,
           conf.singlestep => UNCHANGED <<tag, stack>>
    PROVE  TypeInv'
<1>1. TagTypeOK' /\ conf' = conf
  BY TagTurn
<1>2. FuncsOK'
  BY <1>1, FuncsStay DEF TypeInv
<1> QED BY <1>1, <1>2 DEF TypeInv, Typed, Searching, Controls

\* What a client does between two calls keeps the invariant.
LEMMA ClientKeeps == ASSUME Inv, Client PROVE Inv'
<1> USE DEF Inv
<1>1. CASE SetPC
  <2>1. TypeInv'
    BY <1>1, Kept DEF SetPC, TypeInv, Typed, Searching, Controls
  <2> QED BY <1>1, <2>1 DEF SetPC, AtPc, InCpuRun, Misses
<1>2. CASE CpuTagCall
  <2>1. [TagNext]_tvars /\ (conf.singlestep => UNCHANGED <<tag, stack>>)
    BY <1>2 DEF CpuTagCall, TagNext, CpuTag, TagStart
  <2>2. TypeInv'
    BY <1>2, <2>1, SearchKept DEF CpuTagCall, TypeInv, Typed
  <2> QED BY <1>2, <2>2 DEF CpuTagCall, AtPc, InCpuRun
<1>3. CASE CpuTranslate
  <2>1. TypeInv'
    BY <1>3, TranslateTyped DEF CpuTranslate
  <2>2. ctl' \in {"client", "array_overflow", "duplicate_symbol"} /\ back' = "client"
    BY <1>3 DEF CpuTranslate, TranslateFunction
  <2> QED BY <2>1, <2>2 DEF AtPc, InCpuRun
<1>4. CASE CpuFlush
  <2>1. funcs' = <<>> /\ UNCHANGED <<tvars, PC, ctl, back, cur, tagged>> /\ ctl = "client"
    BY <1>4 DEF CpuFlush
  <2>2. FuncsOK'
    BY <2>1 DEF FuncsOK
  <2> QED BY <2>1, <2>2 DEF TypeInv, Typed, TagTypeOK, Searching, tvars, AtPc, InCpuRun
<1>5. CASE CpuRun
  <2>1. TypeInv'
    BY <1>5, Kept DEF CpuRun, TypeInv, Typed, Searching, Controls
  <2> QED BY <1>5, <2>1 DEF CpuRun, AtPc, tvars
<1> QED BY <1>1, <1>2, <1>3, <1>4, <1>5 DEF Client

\* What cpu_tag() and cpu_run() do keeps the invariant.
LEMMA EngineKeeps == ASSUME Inv, Engine PROVE Inv'
<1> USE DEF Inv
<1>0. ctl # "tag" => stack = <<>>
  BY DEF TypeInv, Searching
<1>1. CASE Tag
  <2>1. ctl' = ctl /\ ctl = "tag" /\ TagStep /\ UNCHANGED <<PC, funcs, back, cur, tagged>>
    BY <1>1 DEF Tag, evars
  <2>2. conf.singlestep => UNCHANGED <<tag, stack>>
    BY <2>1 DEF TypeInv, Searching, TagStep, TagReturn, TagInsn
  <2>3. TypeInv' /\ conf' = conf
    BY <2>1, <2>2, SearchKept, TagTurn DEF TagNext, TypeInv, Typed
  <2> QED BY <2>1, <2>3 DEF AtPc, InCpuRun
<1>2. CASE TagDone
  <2>1. TypeInv'
    BY <1>2, Kept DEF TagDone, TypeInv, Typed, Controls
  <2> QED BY <1>2, <2>1 DEF TagDone, AtPc, InCpuRun, tvars, TypeInv, Typed
<1>3. CASE RunTranslate
  <2>1. conf.singlestep => PC \in Mem
    BY <1>3 DEF RunTranslate, AtPc, InCpuRun
  <2>2. TypeInv'
    BY <1>3, <2>1, TranslateTyped DEF RunTranslate
  <2>3. /\ ctl = "top" /\ ctl' \in {"top", "array_overflow", "duplicate_symbol"}
        /\ UNCHANGED <<conf, PC>>
        /\ funcs' \in {funcs, Append(funcs, NewFunc)}
    BY <1>3 DEF RunTranslate, TranslateFunction
  <2>4. ASSUME conf.singlestep, NEW k \in 1..Len(funcs') PROVE funcs'[k].entry = PC
    <3>1. \A j \in 1..Len(funcs) : funcs[j].entry = PC
      BY <2>3, <2>4 DEF AtPc, InCpuRun
    <3>2. funcs \in Seq(Func) /\ NewFunc \in Func /\ NewFunc.entry = PC
      BY <2>1, <2>4, Translates DEF TypeInv, FuncsOK, NewFunc, TranslatedSinglestep
    <3>3. CASE funcs' = funcs
      BY <3>1, <3>3
    <3>4. CASE funcs' = Append(funcs, NewFunc)
      BY <3>1, <3>2, <3>4
    <3> QED BY <2>3, <3>3, <3>4
  <2> QED BY <2>1, <2>2, <2>3, <2>4 DEF AtPc
<1>4. CASE StartScan
  <2>1. TypeInv'
    BY <1>0, <1>4, Kept DEF StartScan, TypeInv, Typed, Controls, FuncsOK
  <2> QED BY <1>4, <2>1 DEF StartScan, AtPc, InCpuRun, tvars
<1>5. CASE CallFunction
  <2>1. ctl = "scan" /\ cur \in 1..Len(funcs) /\ UNCHANGED <<tvars, PC, funcs, back, cur, tagged>>
    BY <1>5 DEF CallFunction, TypeInv, Typed, FuncsOK
  <2>2. funcs[cur] \in Func /\ FuncOK(funcs[cur])
    BY <2>1 DEF TypeInv, FuncsOK
  <2>3. ctl' \in {"guest", "returned"}
    BY <1>5 DEF CallFunction
  <2>4. TypeInv'
    BY <1>0, <2>1, <2>3, Kept DEF TypeInv, Typed, Controls
  <2>5. CASE conf.singlestep
    <3>1. funcs[cur].entry = PC /\ PC # NoPc
      BY <2>1, <2>5, AddrAssumption DEF AtPc, InCpuRun
    <3>2. ctl' = "guest" /\ at' = PC
      BY <1>5, <3>1 DEF CallFunction
    <3> QED BY <2>1, <2>4, <2>5, <3>2 DEF AtPc, InCpuRun, tvars
  <2>6. CASE ~conf.singlestep
    <3>1. IF PC \in funcs[cur].labels THEN at' = PC /\ ctl' = "guest"
          ELSE ret' = "FUNCNOTFOUND" /\ ctl' = "returned"
      BY <1>5, <2>2, <2>6 DEF CallFunction, FuncOK
    <3> QED BY <2>1, <2>2, <2>4, <2>6, <3>1 DEF AtPc, FuncOK, Misses, tvars
  <2> QED BY <2>5, <2>6
<1>6. CASE ExecInsn
  <2>1. ctl = "guest" /\ UNCHANGED <<tvars, funcs, back, cur, tagged>>
    BY <1>6 DEF ExecInsn
  <2>2. /\ cur \in 1..Len(funcs) /\ FuncOK(funcs[cur])
        /\ at \in Mem
    BY <2>1, Executing DEF TypeInv, Typed
  <2>3. PICK o \in Outcomes(conf.prog[at], at) :
            /\ o.pc \in Addr
            /\ IF Has(conf.prog[at], "TRAP")
               THEN ctl' = "returned" /\ Goes(funcs[cur], o.pc, "TRAP")
               ELSE Goes(funcs[cur], o.pc, funcs[cur].miss)
    BY <1>6, Executes
  <2>4. PC' \in Addr /\ ctl' \in {"guest", "returned"}
    BY <2>3 DEF Goes, TypeInv, Typed
  <2>5. TypeInv'
    BY <1>0, <2>1, <2>2, <2>4, Kept DEF TypeInv, Typed, Controls
  <2>6. ctl' = "returned" => ret' \in {"TRAP", funcs[cur].miss}
    BY <2>3 DEF Goes
  <2>7. ctl' = "guest" => PC' = PC /\ at' \in funcs[cur].labels \cup funcs[cur].code
    BY <2>3 DEF Goes
  <2>8. ctl' = "guest" => ~conf.singlestep /\ at' \in Code
    BY <2>2, <2>7 DEF FuncOK
  <2> QED BY <2>1, <2>2, <2>4, <2>5, <2>6, <2>8 DEF AtPc, Misses, FuncOK, tvars
<1>7. CASE ReturnToClient
  <2>1. TypeInv'
    BY <1>0, <1>7, Kept DEF ReturnToClient, TypeInv, Typed, Controls
  <2> QED BY <1>7, <2>1 DEF ReturnToClient, AtPc, InCpuRun
<1>8. CASE ScanAgain
  <2>1. TypeInv'
    BY <1>0, <1>8, Kept DEF ScanAgain, TypeInv, Typed, Controls
  <2> QED BY <1>8, <2>1 DEF ScanAgain, AtPc, Misses, tvars
<1>9. CASE NextFunction
  <2>1. cur \in 1..Len(funcs) /\ Len(funcs) \in Nat
    BY <1>9 DEF NextFunction, TypeInv, Typed, FuncsOK
  <2>2. TypeInv'
    BY <1>0, <1>9, <2>1, Kept DEF NextFunction, TypeInv, Typed, Controls
  <2> QED BY <1>9, <2>2 DEF NextFunction, AtPc, Misses, tvars
<1>10. CASE Miss
  <2>1. [TagNext]_tvars /\ (conf.singlestep => UNCHANGED <<tag, stack>>) /\ conf' = conf
    BY <1>10 DEF Miss, TagNext, CpuTag, TagStart, TypeInv, Typed
  <2>2. TypeInv'
    BY <1>10, <2>1, SearchKept DEF Miss, TypeInv, Typed
  <2> QED BY <1>10, <2>1, <2>2 DEF Miss, AtPc, InCpuRun
<1> QED BY <1>1, <1>2, <1>3, <1>4, <1>5, <1>6, <1>7, <1>8, <1>9, <1>10 DEF Engine

\* The invariant holds at every moment.
LEMMA Invariance == Spec => []Inv
<1>1. Init => Inv
  BY EngineInit DEF Inv, AtPc, Init, InCpuRun
<1>2. Inv /\ [Next]_vars => Inv'
  <2> SUFFICES ASSUME Inv, [Next]_vars PROVE Inv'
    OBVIOUS
  <2>1. CASE UNCHANGED vars
    <3>1. UNCHANGED <<tvars, evars>>
      BY <2>1 DEF vars
    <3>2. FuncsOK'
      BY <3>1, FuncsStay DEF Inv, TypeInv, tvars, evars
    <3> QED BY <3>1, <3>2 DEF tvars, evars, Inv, TypeInv, Typed, TagTypeOK, Searching, AtPc,
                              InCpuRun, Misses
  <2> QED BY <2>1, ClientKeeps, EngineKeeps DEF Next
<1> QED BY <1>1, <1>2, PTL DEF Spec

--------------------------------------------------------------------------------
(***************************************************************************)
(* The refinement: each step of a translated function is a step of the     *)
(* guest, cpu_run()'s call and its return are the machine's, and tagging,  *)
(* translating, flushing and looking functions up are none.                *)
(***************************************************************************)
MPc == IF ctl = "guest" THEN at ELSE PC

MPhase ==
    IF ~InCpuRun THEN "client"
    ELSE IF ctl = "returned" /\ ret = "TRAP" THEN "trapped"
    ELSE IF ctl = "returned" /\ ret = "SINGLESTEP" THEN "stepped"
    ELSE "running"

MResult == IF InCpuRun THEN "NOERR" ELSE ret

\* The actions of the machine, over those three.
LEMMA MachineActions ==
    /\ Machine!gvars = <<conf, MPc, MPhase, eff, MResult>>
    /\ Machine!Init <=> conf \in Configs /\ MPc \in Addr /\ MPhase = "client"
                        /\ eff = <<>> /\ MResult = "NOERR"
    /\ Machine!SetPC <=> MPhase = "client" /\ MPc' \in Addr
                         /\ UNCHANGED <<conf, MPhase, eff, MResult>>
    /\ Machine!Run <=> MPhase = "client" /\ MPhase' = "running" /\ MResult' = "NOERR"
                       /\ UNCHANGED <<conf, MPc, eff>>
    /\ Machine!Return <=>
          /\ \/ MPhase = "trapped" /\ MResult' = "TRAP"
             \/ MPhase = "stepped" /\ MResult' = "SINGLESTEP"
             \/ MPhase = "running" /\ MPc \notin Code /\ MResult' = "FUNCNOTFOUND"
          /\ MPhase' = "client"
          /\ eff' = <<>>
          /\ UNCHANGED <<conf, MPc>>
    /\ Machine!Next <=> Machine!SetPC \/ Machine!Run \/ Machine!Step \/ Machine!Return
BY DEF Machine!gvars, Machine!Init, Machine!SetPC, Machine!Run, Machine!Return,
       Machine!Next, MPc, MPhase, MResult, InCpuRun

\* An outcome of the instruction at the machine's program counter is a step.
LEMMA MachineStep ==
    ASSUME MPhase = "running", MPc \in IF conf.singlestep THEN Mem ELSE Code,
           NEW o \in Outcomes(conf.prog[MPc], MPc), MPc' = o.pc, eff' = o.eff,
           MPhase' = IF Has(conf.prog[MPc], "TRAP") THEN "trapped"
                     ELSE IF conf.singlestep THEN "stepped" ELSE "running",
           UNCHANGED <<conf, MResult>>
    PROVE  Machine!Step
BY DEF Machine!Step, Machine!Executable, Machine!Outcomes, Machine!TakenTargets,
       Machine!Has, Machine!Delay, Outcomes, TakenTargets, Has, Delay, MPc, MPhase,
       MResult, InCpuRun

\* Nothing of the guest changes.
Stutters == UNCHANGED <<conf, MPc, MPhase, eff, MResult>>

\* A client sets the program counter and calls cpu_run(); the rest is its own affair.
LEMMA ClientRefines ==
    ASSUME Inv, Client
    PROVE  Machine!SetPC \/ Machine!Run \/ Stutters
<1> USE DEF MPc, MPhase, MResult, InCpuRun, tvars
<1>1. CASE SetPC
  BY <1>1, MachineActions DEF SetPC
<1>2. CASE CpuTagCall
  BY <1>2 DEF CpuTagCall, CpuTag, TagStart, Stutters
<1>3. CASE CpuTranslate
  BY <1>3 DEF CpuTranslate, TranslateFunction, Stutters
<1>4. CASE CpuFlush
  BY <1>4 DEF CpuFlush, Stutters
<1>5. CASE CpuRun
  BY <1>5, MachineActions DEF CpuRun
<1> QED BY <1>1, <1>2, <1>3, <1>4, <1>5 DEF Client

\* An instruction of a translated function is one of the guest.
LEMMA ExecRefines == ASSUME Inv, ExecInsn PROVE Machine!Step
<1>1. ctl = "guest" /\ conf' = conf
  BY DEF ExecInsn, tvars
<1>2. MPc = at /\ MPhase = "running" /\ MResult = "NOERR"
  BY <1>1 DEF MPc, MPhase, MResult, InCpuRun
<1>3. /\ at \in IF conf.singlestep THEN Mem ELSE Code
      /\ FuncOK(funcs[cur])
  BY <1>1, Executing
<1>4. PICK o \in Outcomes(conf.prog[at], at) :
          /\ eff' = o.eff
          /\ IF Has(conf.prog[at], "TRAP")
             THEN ctl' = "returned" /\ Goes(funcs[cur], o.pc, "TRAP")
             ELSE Goes(funcs[cur], o.pc, funcs[cur].miss)
  BY Executes
<1>5. MPc' = o.pc /\ MResult' = "NOERR"
  BY <1>4 DEF Goes, MPc, MResult, InCpuRun
<1>6. MPhase' = IF Has(conf.prog[at], "TRAP") THEN "trapped"
                ELSE IF conf.singlestep THEN "stepped" ELSE "running"
  <2>1. CASE Has(conf.prog[at], "TRAP")
    BY <1>4, <2>1 DEF Goes, MPhase, InCpuRun
  <2>2. CASE ~Has(conf.prog[at], "TRAP") /\ conf.singlestep
    BY <1>3, <1>4, <2>2 DEF Goes, FuncOK, MPhase, InCpuRun
  <2>3. CASE ~Has(conf.prog[at], "TRAP") /\ ~conf.singlestep
    BY <1>3, <1>4, <2>3 DEF Goes, FuncOK, MPhase, InCpuRun
  <2> QED BY <2>1, <2>2, <2>3
<1> QED BY <1>1, <1>2, <1>3, <1>4, <1>5, <1>6, MachineStep

\* cpu_run() executes, returns or does what is none of the guest's business.
LEMMA EngineRefines ==
    ASSUME Inv, Engine
    PROVE  Machine!Step \/ Machine!Return \/ Stutters
<1> USE DEF Stutters, MPc, MPhase, MResult, InCpuRun, tvars
<1>1. CASE Tag
  BY <1>1 DEF Tag, TagStep, TagReturn, TagInsn, evars
<1>2. CASE TagDone
  BY <1>2 DEF TagDone, Inv, TypeInv, Typed
<1>3. CASE RunTranslate
  BY <1>3 DEF RunTranslate, TranslateFunction
<1>4. CASE StartScan
  BY <1>4 DEF StartScan
<1>5. CASE CallFunction
  <2>1. funcs[cur] \in Func /\ FuncOK(funcs[cur]) /\ cur \in 1..Len(funcs)
    BY <1>5 DEF CallFunction, Inv, TypeInv, Typed, FuncsOK
  <2>2. CASE conf.singlestep
    BY <1>5, <2>1, <2>2, AddrAssumption DEF CallFunction, Inv, AtPc, FuncOK
  <2>3. CASE ~conf.singlestep
    BY <1>5, <2>1, <2>3 DEF CallFunction, FuncOK
  <2> QED BY <2>2, <2>3
<1>6. CASE ExecInsn
  BY <1>6, ExecRefines
<1>7. CASE ReturnToClient
  <2>1. /\ ctl = "returned" /\ ctl' = "client" /\ UNCHANGED <<conf, PC, ret>> /\ eff' = <<>>
        /\ ret # "FUNCNOTFOUND" \/ PC \notin Code
        /\ ret \in {"TRAP", "SINGLESTEP", "FUNCNOTFOUND"}
    BY <1>7 DEF ReturnToClient, Inv, AtPc, Misses
  <2> QED BY <2>1, MachineActions
<1>8. CASE ScanAgain
  BY <1>8 DEF ScanAgain
<1>9. CASE NextFunction
  BY <1>9 DEF NextFunction
<1>10. CASE Miss
  BY <1>10 DEF Miss, TagStart
<1> QED BY <1>1, <1>2, <1>3, <1>4, <1>5, <1>6, <1>7, <1>8, <1>9, <1>10 DEF Engine

\* libcpu implements the guest machine: whatever is tagged, translated, cached,
\* flushed or looked up, cpu_run() executes guest instructions one after the other
\* and returns for a reason that is true of the guest (interface.cpp:379-447).
THEOREM EngineImplements == Spec => Implements
<1>1. Init => Machine!Init
  BY MachineActions DEF Init, TagInit, MPc, MPhase, MResult, InCpuRun
<1>2. Inv /\ [Next]_vars => [Machine!Next]_Machine!gvars
  <2> SUFFICES ASSUME Inv, [Next]_vars PROVE [Machine!Next]_Machine!gvars
    OBVIOUS
  <2>1. ASSUME UNCHANGED vars PROVE Stutters
    BY <2>1 DEF vars, tvars, evars, Stutters, MPc, MPhase, MResult, InCpuRun
  <2>2. Machine!Next \/ Stutters
    BY <2>1, ClientRefines, EngineRefines, MachineActions DEF Next
  <2>3. Stutters => UNCHANGED Machine!gvars
    BY DEF Stutters, Machine!gvars, MPc, MPhase, MResult, InCpuRun
  <2> QED BY <2>2, <2>3
<1> QED BY <1>1, <1>2, Invariance, PTL DEF Spec, Implements, Machine!Spec

--------------------------------------------------------------------------------
(***************************************************************************)
(* Translation: what a step does to the tags and to the functions.         *)
(***************************************************************************)
\* cpu_translate_function() succeeds.
Translating ==
    /\ funcs' = Append(funcs, NewFunc)
    /\ tag' = mark_translated(NewFunc)
    /\ UNCHANGED <<conf, stack, entries>>
    /\ tags_dirty' = FALSE

\* The JIT rejects the name, after the marks have been made.
Rejected ==
    /\ ctl' = "duplicate_symbol" /\ UNCHANGED <<funcs, conf, stack, entries>>
    /\ tag' = mark_translated(NewFunc)

\* Every step tags, translates or leaves both the tags and the functions alone.
LEMMA StepKinds ==
    ASSUME Inv, [Next]_vars
    PROVE  \/ [TagNext]_tvars /\ funcs' = funcs
           \/ [TagNext]_tvars /\ funcs' = <<>> /\ ClientFlushes
           \/ Translating /\ (conf.singlestep => PC \in Mem)
           \/ Rejected /\ (conf.singlestep => PC \in Mem)
           \/ UNCHANGED <<funcs, conf, tag, stack, entries>> /\ ctl' = "array_overflow"
<1>1. ASSUME NEW next, TranslateFunction(next), conf.singlestep => PC \in Mem
      PROVE  \/ Translating \/ Rejected
             \/ UNCHANGED <<funcs, conf, tag, stack, entries>> /\ ctl' = "array_overflow"
  BY <1>1 DEF TranslateFunction, Translating, Rejected
<1>2. CASE Client
  <2>1. CASE SetPC \/ CpuRun
    BY <2>1 DEF SetPC, CpuRun
  <2>2. CASE CpuTagCall
    BY <2>2 DEF CpuTagCall, TagNext
  <2>3. CASE CpuTranslate
    BY <1>1, <2>3 DEF CpuTranslate
  <2>4. CASE CpuFlush
    BY <2>4 DEF CpuFlush
  <2> QED BY <1>2, <2>1, <2>2, <2>3, <2>4 DEF Client
<1>3. CASE Engine
  <2>1. CASE Tag
    BY <2>1 DEF Tag, TagNext, evars
  <2>2. CASE TagDone \/ StartScan \/ CallFunction \/ ReturnToClient \/ ScanAgain \/ NextFunction
    BY <2>2 DEF TagDone, StartScan, CallFunction, ReturnToClient, ScanAgain, NextFunction
  <2>3. CASE ExecInsn
    BY <2>3 DEF ExecInsn
  <2>4. CASE RunTranslate
    BY <1>1, <2>4 DEF RunTranslate, Inv, AtPc, InCpuRun
  <2>5. CASE Miss
    BY <2>5 DEF Miss, TagNext, CpuTag, Inv, TypeInv, Typed
  <2> QED BY <1>3, <2>1, <2>2, <2>3, <2>4, <2>5 DEF Engine
<1>4. CASE UNCHANGED vars
  BY <1>4 DEF vars, evars
<1> QED BY <1>2, <1>3, <1>4 DEF Next

\* The labels a new function gets are those no function has.
LEMMA NewLabels ==
    ASSUME Inv, conf.singlestep => PC \in Mem
    PROVE  /\ NewFunc \in Func
           /\ NewFunc.labels \subseteq Code
           /\ \A a \in Code : a \in NewFunc.labels <=>
                 ~conf.singlestep /\ a \in StartSet /\ "TRANSLATED" \notin tag[a]
<1>1. NewFunc \in Func
  BY Translates DEF Inv
<1>2. CASE conf.singlestep
  BY <1>1, <1>2 DEF NewFunc, TranslatedSinglestep
<1>3. CASE ~conf.singlestep
  <2>1. NewFunc.labels = {a \in StartSet : "TRANSLATED" \notin tag[a]}
    BY <1>3 DEF NewFunc, TranslatedAll
  <2> QED BY <1>1, <1>3, <2>1 DEF StartSet
<1> QED BY <1>2, <1>3, <1>1

\* Marks are TRANSLATED bits of the new function's blocks.
LEMMA Marks ==
    ASSUME Inv, conf.singlestep => PC \in Mem, tag' = mark_translated(NewFunc)
    PROVE  /\ \A a \in Code : tag'[a] =
                 IF a \in NewFunc.labels THEN tag[a] \cup {"TRANSLATED"} ELSE tag[a]
           /\ CodeSet' = CodeSet /\ StartSet' = StartSet
<1>1. \A a \in Code : tag'[a] =
          IF a \in NewFunc.labels THEN tag[a] \cup {"TRANSLATED"} ELSE tag[a]
  BY Translates DEF Inv
<1>2. ASSUME NEW a \in Code PROVE "CODE" \in tag'[a] <=> "CODE" \in tag[a]
  <2>1. CASE a \in NewFunc.labels
    <3>1. tag'[a] = tag[a] \cup {"TRANSLATED"}
      BY <1>1, <2>1
    <3>2. "CODE" # "TRANSLATED"
      OBVIOUS
    <3> QED BY <3>1, <3>2
  <2>2. CASE a \notin NewFunc.labels
    BY <1>1, <2>2
  <2> QED BY <2>1, <2>2
<1>3. "TRANSLATED" \notin LabelBits
  BY DEF LabelBits
<1>4. \A a \in Code : tag'[a] \cap LabelBits = tag[a] \cap LabelBits
  BY <1>1, <1>3
<1>5. CodeSet' = CodeSet
  BY <1>2 DEF CodeSet, is_code, get_tag
<1>6. StartSet' = StartSet
  BY <1>2, <1>4 DEF StartSet, is_start_of_basicblock, is_code, get_tag
<1> QED BY <1>1, <1>5, <1>6

--------------------------------------------------------------------------------
\* A block a function has is marked.
MarkedOnce ==
    /\ \A k \in 1..Len(funcs) : \A a \in funcs[k].labels : a \in Code /\ "TRANSLATED" \in tag[a]
    /\ TranslatedOnce

\* A new function takes only blocks that are not marked, and marks them.
LEMMA MarkedStep == ASSUME Inv, MarkedOnce, [Next]_vars PROVE MarkedOnce'
<1> USE DEF MarkedOnce
<1>1. CASE [TagNext]_tvars /\ funcs' \in {funcs, <<>>}
  <2>1. \A a \in Code : tag[a] \subseteq tag'[a]
    BY <1>1, BitsStay DEF Inv, TypeInv, Typed
  <2>2. CASE funcs' = funcs
    BY <2>1, <2>2 DEF TranslatedOnce
  <2>3. CASE funcs' = <<>>
    BY <2>3 DEF TranslatedOnce
  <2> QED BY <1>1, <2>2, <2>3
<1>2. CASE Translating /\ (conf.singlestep => PC \in Mem)
  <2> DEFINE n == Len(funcs)
             new == NewFunc
  <2>1. new \in Func /\ funcs \in Seq(Func)
    BY <1>2, NewLabels DEF Inv, TypeInv, FuncsOK
  <2>2. \A a \in Code : tag'[a] =
          IF a \in new.labels THEN tag[a] \cup {"TRANSLATED"} ELSE tag[a]
    BY <1>2, Marks DEF Translating
  <2>3. new.labels \subseteq Code /\ \A a \in new.labels : "TRANSLATED" \notin tag[a]
    BY <1>2, NewLabels
  <2>4. funcs' = Append(funcs, new)
    BY <1>2 DEF Translating
  <2> HIDE DEF new
  <2>5. /\ n \in Nat /\ Len(funcs') = n + 1 /\ funcs'[n + 1] = new
        /\ \A k \in 1..n : funcs'[k] = funcs[k]
    BY <2>1, <2>4
  <2>6. ASSUME NEW k \in 1..Len(funcs'), NEW a \in funcs'[k].labels
        PROVE  a \in Code /\ "TRANSLATED" \in tag'[a]
    <3>1. CASE k = n + 1
      BY <2>2, <2>3, <2>5, <2>6, <3>1
    <3>2. CASE k \in 1..n
      <4>1. a \in Code /\ "TRANSLATED" \in tag[a]
        BY <2>5, <2>6, <3>2
      <4>2. tag[a] \subseteq tag'[a]
        BY <2>2, <4>1
      <4> QED BY <4>1, <4>2
    <3> QED BY <2>5, <3>1, <3>2
  <2>7. ASSUME NEW j \in 1..Len(funcs'), NEW k \in 1..Len(funcs'), j # k
        PROVE  funcs'[j].labels \cap funcs'[k].labels = {}
    <3>1. \A m \in 1..n : funcs[m].labels \cap new.labels = {}
      BY <2>3
    <3>2. CASE j \in 1..n /\ k \in 1..n
      BY <2>5, <2>7, <3>2 DEF TranslatedOnce
    <3>3. CASE j = n + 1 \/ k = n + 1
      BY <2>5, <2>7, <3>1, <3>3
    <3> QED BY <2>5, <3>2, <3>3
  <2> QED BY <2>6, <2>7 DEF TranslatedOnce
<1>3. CASE Rejected /\ (conf.singlestep => PC \in Mem)
  <2>1. funcs' = funcs /\ \A a \in Code : tag[a] \subseteq tag'[a]
    BY <1>3, Marks DEF Rejected
  <2> QED BY <2>1 DEF TranslatedOnce
<1>4. CASE UNCHANGED <<funcs, conf, tag, stack, entries>>
  BY <1>4 DEF TranslatedOnce
<1> QED BY <1>1, <1>2, <1>3, <1>4, StepKinds

\* No two functions have a basic block for the same address, flushed or not
\* (cpu_translate_all(): "Do not create the basic block if it is already present
\* in some other function").
THEOREM BlocksTranslatedOnce == Spec => []TranslatedOnce
<1>1. Init => MarkedOnce
  BY DEF Init, MarkedOnce, TranslatedOnce
<1>2. Inv /\ MarkedOnce /\ [Next]_vars => MarkedOnce'
  BY MarkedStep
<1>3. MarkedOnce => TranslatedOnce
  BY DEF MarkedOnce
<1> QED BY <1>1, <1>2, <1>3, Invariance, PTL DEF Spec

--------------------------------------------------------------------------------
(***************************************************************************)
(* A client that never flushes.                                            *)
(***************************************************************************)
Stuck == {"duplicate_symbol", "array_overflow"}

\* Marked blocks are in a function, and so is every start of a basic block unless
\* a translation is due.
KnownInv ==
    /\ ctl = "tag" => tags_dirty
    /\ ctl \notin Stuck =>
          /\ \A a \in Code : "TRANSLATED" \in tag[a] =>
                \E k \in 1..Len(funcs) : a \in funcs[k].labels
          /\ ~tags_dirty => \A a \in StartSet : \E k \in 1..Len(funcs) : a \in funcs[k].labels

\* The search marks nothing as translated.
LEMMA SearchTranslatesNothing ==
    ASSUME TagTypeOK, [TagNext]_tvars, NEW a \in Code
    PROVE  /\ "TRANSLATED" \in tag'[a] => "TRANSLATED" \in tag[a]
           /\ "ENTRY" \in tag'[a] => "ENTRY" \in tag[a] \/ a \in entries'
           /\ entries \subseteq entries'
<1>1. ASSUME NEW pc \in Addr, TagStart(pc)
      PROVE  /\ "TRANSLATED" \in tag'[a] => "TRANSLATED" \in tag[a]
             /\ "ENTRY" \in tag'[a] => "ENTRY" \in tag[a] \/ a \in entries'
             /\ entries \subseteq entries'
  BY <1>1 DEF TagStart
<1>2. CASE TagInsn
  <2> DEFINE f == Head(stack)
             i == conf.prog[f.pc]
  <2>1. f.pc \in Code
    BY <1>2, HeadTailAddrs DEF TagInsn, Returns, Frame, TagTypeOK
  <2>2. i.tag \in InsnTags
    BY <2>1, DecodedInsn DEF Insn
  <2>3. tag' = or_tags(i, f.pc) /\ entries' = entries
    BY <1>2 DEF TagInsn
  <2> HIDE DEF f, i
  <2>4. {"TRANSLATED", "ENTRY"} \cap i.tag = {}
    BY <2>2 DEF InsnTags
  <2>5. {"TRANSLATED", "ENTRY"} \cap (NextBits(i) \cup NewBits(i) \cup SkipBits(i)) = {}
    BY DEF NextBits, NewBits, SkipBits
  <2> QED BY <2>3, <2>4, <2>5 DEF or_tags
<1>3. CASE TagReturn \/ UNCHANGED tvars
  BY <1>3 DEF TagReturn, tvars
<1> QED BY <1>1, <1>2, <1>3 DEF TagNext, CpuTag, TagStep

\* Only translation makes the tags clean; nothing follows a failed assertion.
LEMMA StepDirties ==
    ASSUME Inv, ctl = "tag" => tags_dirty, [Next]_vars
    PROVE  /\ ctl' = "tag" => tags_dirty'
           /\ UNCHANGED tvars \/ tags_dirty' \/ Translating \/ ctl' \in Stuck
           /\ ctl \in Stuck => UNCHANGED vars
<1> USE DEF Stuck
<1>1. CASE Client
  BY <1>1 DEF Client, SetPC, CpuTagCall, CpuTag, TagStart, CpuTranslate, TranslateFunction,
              Translating, CpuFlush, CpuRun, tvars
<1>2. CASE Engine
  <2>1. CASE Tag
    BY <2>1 DEF Tag, TagStep, TagReturn, TagInsn, evars
  <2>2. CASE TagDone \/ StartScan \/ CallFunction \/ ReturnToClient \/ ScanAgain \/ NextFunction
    BY <2>2 DEF TagDone, StartScan, CallFunction, ReturnToClient, ScanAgain, NextFunction,
                Inv, TypeInv, Typed
  <2>3. CASE ExecInsn
    <3>1. ctl = "guest" /\ UNCHANGED tvars
      BY <2>3 DEF ExecInsn
    <3>2. ctl' \in {"guest", "returned"}
      BY <2>3, Executes DEF Goes
    <3> QED BY <3>1, <3>2
  <2>4. CASE RunTranslate
    BY <2>4 DEF RunTranslate, TranslateFunction, Translating
  <2>5. CASE Miss
    BY <2>5 DEF Miss, TagStart
  <2> QED BY <1>2, <2>1, <2>2, <2>3, <2>4, <2>5 DEF Engine
<1>3. CASE UNCHANGED vars
  BY <1>3 DEF vars, tvars, evars
<1> QED BY <1>1, <1>2, <1>3 DEF Next

\* Before the first cpu_tag() nothing starts a basic block.
LEMMA KnownInit == Init => KnownInv
<1>1. ASSUME Init PROVE StartSet = {}
  BY <1>1 DEF Init, TagInit, StartSet, is_start_of_basicblock, get_tag
<1> QED BY <1>1 DEF Init, TagInit, KnownInv

\* Translation leaves no start of a basic block without one.
LEMMA KnownStep ==
    ASSUME ~ClientFlushes, Inv, KnownInv, [Next]_vars
    PROVE  KnownInv'
<1> USE DEF KnownInv
<1>1. /\ ctl' = "tag" => tags_dirty'
      /\ UNCHANGED tvars \/ tags_dirty' \/ Translating \/ ctl' \in Stuck
      /\ ctl \in Stuck => UNCHANGED vars
  BY StepDirties
<1>2. CASE ctl \in Stuck
  <2>1. UNCHANGED <<ctl, tags_dirty>>
    BY <1>1, <1>2 DEF vars, tvars, evars
  <2> QED BY <1>2, <2>1
<1>3. CASE ctl' \in Stuck
  BY <1>1, <1>3
<1>4. CASE ctl \notin Stuck /\ ctl' \notin Stuck /\ [TagNext]_tvars /\ funcs' = funcs
  <2>1. \A a \in Code : "TRANSLATED" \in tag'[a] => "TRANSLATED" \in tag[a]
    BY <1>4, SearchTranslatesNothing DEF Inv, TypeInv, Typed
  <2>2. CASE UNCHANGED tvars
    <3>1. StartSet' = StartSet /\ tags_dirty' = tags_dirty
      BY <2>2 DEF tvars, StartSet, is_start_of_basicblock, is_code, get_tag
    <3> QED BY <1>1, <1>4, <2>1, <3>1
  <2>3. CASE tags_dirty'
    BY <1>4, <2>1, <2>3
  <2>4. CASE Translating
    <3>1. Len(funcs') = Len(funcs) + 1
      BY <2>4, NewLabels, Translates DEF Translating, Inv, TypeInv, FuncsOK
    <3>2. Len(funcs) \in Nat
      BY DEF Inv, TypeInv, FuncsOK
    <3> QED BY <1>4, <3>1, <3>2
  <2> QED BY <1>1, <1>4, <2>2, <2>3, <2>4
<1>5. CASE ctl \notin Stuck /\ Translating /\ (conf.singlestep => PC \in Mem)
  <2> DEFINE n == Len(funcs)
             new == NewFunc
  <2>1. new \in Func /\ funcs \in Seq(Func)
    BY <1>5, NewLabels DEF Inv, TypeInv, FuncsOK
  <2>2. /\ \A a \in Code : tag'[a] =
              IF a \in new.labels THEN tag[a] \cup {"TRANSLATED"} ELSE tag[a]
        /\ StartSet' = StartSet
    BY <1>5, Marks DEF Translating
  <2>3. \A a \in Code : a \in new.labels <=>
            ~conf.singlestep /\ a \in StartSet /\ "TRANSLATED" \notin tag[a]
    BY <1>5, NewLabels
  <2>4. funcs' = Append(funcs, new)
    BY <1>5 DEF Translating
  <2>5. conf.singlestep => StartSet = {}
    BY DEF StartSet, is_start_of_basicblock, get_tag, Inv, TypeInv, Searching
  <2> HIDE DEF new
  <2>6. /\ n \in Nat /\ Len(funcs') = n + 1 /\ funcs'[n + 1] = new
        /\ \A k \in 1..n : funcs'[k] = funcs[k]
    BY <2>1, <2>4
  <2> DEFINE In(a)  == \E k \in 1..n : a \in funcs[k].labels
             InP(a) == \E k \in 1..(n + 1) : a \in funcs'[k].labels
  <2>7. \A a : In(a) \/ a \in new.labels => InP(a)
    BY <2>6
  <2>8. \A a \in Code : "TRANSLATED" \in tag[a] => In(a)
    BY <1>5
  <2> HIDE DEF In, InP
  <2>9. \A a \in Code : "TRANSLATED" \in tag'[a] => InP(a)
    BY <2>2, <2>7, <2>8
  <2>10. \A a \in StartSet' : InP(a)
    BY <2>2, <2>3, <2>5, <2>7, <2>8 DEF StartSet
  <2> QED BY <1>1, <2>6, <2>9, <2>10 DEF InP
<1> QED BY <1>2, <1>3, <1>4, <1>5, StepKinds DEF Rejected, Stuck

\* Without a flush, what needs a basic block has one when no translation is due, so
\* a function left for known code is left for code some function has
\* (cpu_run(), cpu_translate_all()).
THEOREM KnownTranslated == ASSUME ~ClientFlushes PROVE Spec => []KnownCodeIsTranslated
<1>1. Init => KnownInv
  BY KnownInit
<1>2. Inv /\ KnownInv /\ [Next]_vars => KnownInv'
  BY KnownStep
<1>3. KnownInv => KnownCodeIsTranslated
  BY DEF KnownInv, KnownCodeIsTranslated, Stuck
<1> QED BY <1>1, <1>2, <1>3, Invariance, PTL DEF Spec

--------------------------------------------------------------------------------
(***************************************************************************)
(* How often cpu_run() misses.                                             *)
(***************************************************************************)
\* The functions cpu_run() has been through do not have the address.
ScanInv ==
    /\ ctl \in {"scan", "guest", "returned"} =>
          /\ ~tags_dirty
          /\ \A k \in 1..Len(funcs) : k < cur => orig_pc \notin funcs[k].labels
    /\ ctl = "scan" => PC = orig_pc /\ (cur > 1 => PC \in Code)
    /\ ctl = "returned" /\ ret = "FUNCNOTFOUND" => PC \notin funcs[cur].labels

\* cpu_run() goes on to the next function only with the address it has looked up.
LEMMA ScanStep == ASSUME Inv, ScanInv, [Next]_vars PROVE ScanInv'
<1> USE DEF ScanInv
<1>1. CASE Client
  <2>1. ctl' \in {"client", "tag", "top"} \cup Stuck
    BY <1>1 DEF Client, SetPC, CpuTagCall, CpuTranslate, TranslateFunction, CpuFlush, CpuRun,
                Stuck
  <2> QED BY <2>1 DEF Stuck
<1>2. CASE Tag \/ TagDone \/ RunTranslate \/ ReturnToClient \/ ScanAgain \/ Miss
  <2>1. ctl' \in {"client", "tag", "top"} \cup Stuck
    BY <1>2 DEF Tag, evars, TagDone, RunTranslate, TranslateFunction, ReturnToClient,
                ScanAgain, Miss, Stuck, Inv, TypeInv, Typed
  <2> QED BY <2>1 DEF Stuck
<1>3. CASE StartScan
  BY <1>3 DEF StartScan, tvars
<1>4. CASE CallFunction
  <2>1. /\ ctl = "scan" /\ UNCHANGED <<tvars, PC, funcs, cur, orig_pc>>
        /\ \/ ctl' = "guest"
           \/ ctl' = "returned" /\ PC \notin funcs[cur].labels
    BY <1>4 DEF CallFunction
  <2> QED BY <2>1 DEF tvars
<1>5. CASE ExecInsn
  <2>1. ctl = "guest" /\ UNCHANGED <<tvars, funcs, cur, orig_pc>>
    BY <1>5 DEF ExecInsn
  <2>2. \/ ctl' = "guest"
        \/ ctl' = "returned" /\ (ret' # "TRAP" => PC' \notin funcs[cur].labels)
    BY <1>5, Executes DEF Goes
  <2> QED BY <2>1, <2>2 DEF tvars
<1>6. CASE NextFunction
  <2>1. /\ ctl = "returned" /\ ctl' = "scan" /\ PC = orig_pc /\ PC \in Code
        /\ UNCHANGED <<tvars, PC, funcs, orig_pc>> /\ cur' = cur + 1
        /\ PC \notin funcs[cur].labels
    BY <1>6 DEF NextFunction
  <2>2. cur \in Nat /\ Len(funcs) \in Nat
    BY DEF Inv, TypeInv, Typed, FuncsOK
  <2>3. ASSUME NEW k \in 1..Len(funcs), k < cur' PROVE orig_pc \notin funcs[k].labels
    BY <2>1, <2>2, <2>3
  <2> QED BY <2>1, <2>3 DEF tvars
<1>7. CASE UNCHANGED vars
  BY <1>7 DEF vars, tvars, evars
<1> QED BY <1>1, <1>2, <1>3, <1>4, <1>5, <1>6, <1>7 DEF Next, Engine

\* Entries are tagged as code once their search is over, limited or not.
EntryInv == LineInv /\ \A a \in Code : "ENTRY" \in tag[a] => a \in entries

\* Translation leaves entries and code as the search left them.
LEMMA EntryStep == ASSUME Inv, EntryInv, [Next]_vars PROVE EntryInv'
<1> USE DEF EntryInv
<1>1. CASE [TagNext]_tvars
  <2>1. LineInv'
    BY <1>1, LineStep DEF Inv, TypeInv, Typed
  <2>2. \A a \in Code : "ENTRY" \in tag'[a] => a \in entries'
    BY <1>1, SearchTranslatesNothing DEF Inv, TypeInv, Typed
  <2> QED BY <2>1, <2>2
<1>2. CASE (Translating \/ Rejected) /\ (conf.singlestep => PC \in Mem)
  <2>1. UNCHANGED <<conf, stack, entries>> /\ tag' = mark_translated(NewFunc)
    BY <1>2 DEF Translating, Rejected
  <2>2. CodeSet' = CodeSet
    BY <1>2, <2>1, Marks
  <2>3. ASSUME NEW a \in Code, "ENTRY" \in tag'[a] PROVE "ENTRY" \in tag[a]
    <3>1. tag'[a] \in {tag[a], tag[a] \cup {"TRANSLATED"}}
      BY <1>2, <2>1, Marks
    <3>2. "ENTRY" # "TRANSLATED"
      OBVIOUS
    <3> QED BY <2>3, <3>1, <3>2
  <2> QED BY <2>1, <2>2, <2>3 DEF LineInv, Live, Continues, TrapEnds, Has
<1>3. CASE UNCHANGED <<conf, tag, stack, entries>>
  BY <1>3 DEF LineInv, Live, Continues, TrapEnds, Has, CodeSet, is_code, get_tag
<1> QED BY <1>1, <1>2, <1>3, StepKinds

\* Without a flush cpu_run() misses an address of the code only before it has been
\* an entry, and one outside only while there is no function (interface.cpp:423-447).
THEOREM MissesOnce == ASSUME ~ClientFlushes PROVE Spec => []MissedOnce
<1>1. Init => KnownInv
  BY KnownInit
<1>2. Init => ScanInv /\ EntryInv
  BY LineInit DEF Init, ScanInv, EntryInv, TagInit
<1>3. Inv /\ KnownInv /\ ScanInv /\ EntryInv => MissedOnce
  <2> SUFFICES ASSUME Inv, KnownInv, ScanInv, EntryInv, ctl = "scan", cur > Len(funcs)
               PROVE  IF PC \in Code THEN "ENTRY" \notin tag[PC] ELSE funcs = <<>>
    BY DEF MissedOnce
  <2>1. /\ cur \in Nat /\ Len(funcs) \in Nat /\ ~tags_dirty /\ funcs \in Seq(Func)
        /\ cur \in 1..(Len(funcs) + 1) /\ stack = <<>>
    BY DEF Inv, TypeInv, Typed, FuncsOK, ScanInv, Searching
  <2>2. \A k \in 1..Len(funcs) : PC \notin funcs[k].labels
    BY <2>1 DEF ScanInv
  <2>3. CASE PC \in Code
    <3>1. ASSUME "ENTRY" \in tag[PC] PROVE FALSE
      <4>1. PC \in CodeSet
        BY <2>1, <2>3, <3>1, LineInvGivesTagged
        DEF EntryInv, StraightLineTagged, Inv, TypeInv, Typed
      <4>2. PC \in StartSet
        BY <2>3, <3>1, <4>1
        DEF StartSet, is_start_of_basicblock, CodeSet, get_tag, LabelBits
      <4> QED BY <2>1, <2>2, <4>2 DEF KnownInv, Stuck
    <3> QED BY <2>3, <3>1
  <2>4. CASE PC \notin Code
    <3>1. Len(funcs) = 0
      BY <2>1, <2>4 DEF ScanInv
    <3> QED BY <2>1, <2>4, <3>1
  <2> QED BY <2>3, <2>4
<1>4. Inv /\ KnownInv /\ [Next]_vars => KnownInv'
  BY KnownStep
<1>5. Inv /\ ScanInv /\ [Next]_vars => ScanInv'
  BY ScanStep
<1>6. Inv /\ EntryInv /\ [Next]_vars => EntryInv'
  BY EntryStep
<1> QED BY <1>1, <1>2, <1>3, <1>4, <1>5, <1>6, Invariance, PTL DEF Spec

--------------------------------------------------------------------------------
(***************************************************************************)
(* How many functions there are.                                           *)
(***************************************************************************)
Blocks == UNION {funcs[k].labels : k \in 1..Len(funcs)}

\* A translation is due for a cpu_tag() of the client that none has answered yet,
\* or for the address cpu_run() has just missed, which no function has.
FewInv ==
    /\ Blocks \subseteq Code
    /\ FewFunctions
    /\ conf.singlestep /\ ctl = "scan" => cur = 1
    /\ tags_dirty /\ ctl \notin Stuck =>
          \/ Len(funcs) <= tagged + Cardinality(Blocks)
          \/ /\ (ctl = "tag" /\ back = "top") \/ ctl = "top"
             /\ PC \in Code \ Blocks /\ "ENTRY" \in tag[PC]

\* Cardinalities of subsets of the code area.
LEMMA Counts ==
    ASSUME IsFiniteSet(Code), NEW S \in SUBSET Code
    PROVE  /\ IsFiniteSet(S) /\ Cardinality(S) \in Nat
           /\ \A T \in SUBSET S : Cardinality(T) \in Nat /\ Cardinality(T) <= Cardinality(S)
           /\ \A T \in SUBSET S : T # S => Cardinality(T) + 1 <= Cardinality(S)
<1>1. IsFiniteSet(S) /\ Cardinality(S) \in Nat
  BY FS_Subset, FS_CardinalityType
<1>2. ASSUME NEW T \in SUBSET S
      PROVE  /\ Cardinality(T) \in Nat /\ Cardinality(T) <= Cardinality(S)
             /\ T # S => Cardinality(T) + 1 <= Cardinality(S)
  <2>1. /\ IsFiniteSet(T) /\ Cardinality(T) \in Nat /\ Cardinality(T) <= Cardinality(S)
        /\ Cardinality(T) = Cardinality(S) => T = S
    BY <1>1, FS_Subset, FS_CardinalityType
  <2> QED BY <1>1, <2>1
<1> QED BY <1>1, <1>2

\* A function that is translated is counted.
LEMMA TranslationCounts ==
    ASSUME IsFiniteSet(Code), Inv, KnownInv, EntryInv, FewInv, tags_dirty, stack = <<>>,
           ctl \in {"client", "top"}, Translating, conf.singlestep => PC \in Mem,
           UNCHANGED <<PC, tagged>>
    PROVE  Blocks' \subseteq Code /\ FewFunctions'
<1> DEFINE n == Len(funcs)
           new == NewFunc
<1>1. new \in Func /\ funcs \in Seq(Func) /\ new.labels \subseteq Code
  BY NewLabels DEF Inv, TypeInv, FuncsOK
<1>2. funcs' = Append(funcs, new)
  BY DEF Translating
<1>3. \A a \in Code : a \in new.labels <=>
          ~conf.singlestep /\ a \in StartSet /\ "TRANSLATED" \notin tag[a]
  BY NewLabels
<1> HIDE DEF new
<1>4. /\ n \in Nat /\ Len(funcs') = n + 1 /\ funcs'[n + 1] = new
      /\ \A k \in 1..n : funcs'[k] = funcs[k]
  BY <1>1, <1>2
<1>5. Blocks' = Blocks \cup new.labels
  BY <1>4 DEF Blocks
<1>6. Blocks \subseteq Code /\ Blocks' \subseteq Code
  BY <1>1, <1>5 DEF FewInv
<1>7. /\ Cardinality(Blocks) \in Nat /\ Cardinality(Blocks') \in Nat
      /\ Cardinality(Blocks) <= Cardinality(Blocks')
      /\ Blocks # Blocks' => Cardinality(Blocks) + 1 <= Cardinality(Blocks')
  BY <1>5, <1>6, Counts
<1>8. tagged \in Nat
  BY DEF Inv, TypeInv, Typed
<1>9. FewFunctions' <=> Len(funcs') <= tagged + Cardinality(Blocks') + 1
  BY DEF FewFunctions, Blocks
<1>10. CASE n <= tagged + Cardinality(Blocks)
  BY <1>4, <1>6, <1>7, <1>8, <1>9, <1>10
<1>11. CASE PC \in Code \ Blocks /\ "ENTRY" \in tag[PC]
  <2>1. ~conf.singlestep
    BY <1>11 DEF Inv, TypeInv, Searching
  <2>2. PC \in CodeSet
    BY <1>11, LineInvGivesTagged DEF EntryInv, StraightLineTagged, Inv, TypeInv, Typed
  <2>3. PC \in StartSet
    BY <1>11, <2>2 DEF StartSet, is_start_of_basicblock, CodeSet, get_tag, LabelBits
  <2>4. "TRANSLATED" \notin tag[PC]
    BY <1>11 DEF KnownInv, Stuck, Blocks
  <2>5. PC \in Blocks' /\ PC \notin Blocks
    BY <1>3, <1>5, <1>11, <2>1, <2>3, <2>4
  <2>6. n <= tagged + Cardinality(Blocks) + 1
    BY DEF FewInv, FewFunctions, Blocks
  <2>7. Cardinality(Blocks) + 1 <= Cardinality(Blocks')
    BY <1>7, <2>5
  <2> QED BY <1>4, <1>6, <1>7, <1>8, <1>9, <2>6, <2>7
<1> QED BY <1>10, <1>11 DEF FewInv, Stuck

\* When nothing is tagged, translated or flushed the count stands.
LEMMA CountStands ==
    ASSUME FewInv, UNCHANGED funcs, tagged' = tagged
    PROVE  Blocks' = Blocks /\ FewFunctions'
BY DEF FewInv, FewFunctions, Blocks

\* A cpu_tag() of the client pays for the translation it asks for.
LEMMA FewClient ==
    ASSUME ~ClientFlushes, IsFiniteSet(Code), Inv, KnownInv, EntryInv, FewInv, Client
    PROVE  FewInv'
<1>0. Cardinality(Blocks) \in Nat /\ Len(funcs) \in Nat /\ tagged \in Nat
  BY Counts DEF FewInv, Inv, TypeInv, Typed, FuncsOK
<1>1. CASE SetPC \/ CpuRun
  <2>1. /\ UNCHANGED <<tvars, funcs, tagged>> /\ ctl = "client"
        /\ ctl' \in {"client", "top"}
    BY <1>1 DEF SetPC, CpuRun
  <2>2. tags_dirty => Len(funcs) <= tagged + Cardinality(Blocks)
    BY <2>1 DEF FewInv, Stuck
  <2> QED BY <2>1, <2>2, CountStands DEF FewInv, tvars
<1>2. CASE CpuTagCall
  <2>1. UNCHANGED <<conf, funcs>> /\ tagged' = tagged + 1 /\ ctl' = "tag"
    BY <1>2 DEF CpuTagCall, CpuTag, TagStart
  <2>2. Blocks' = Blocks
    BY <2>1 DEF Blocks
  <2>3. Len(funcs) <= tagged + Cardinality(Blocks) + 1
    BY DEF FewInv, FewFunctions, Blocks
  <2>4. Len(funcs') <= tagged' + Cardinality(Blocks')
    BY <1>0, <2>1, <2>2, <2>3
  <2>5. FewFunctions'
    <3>1. Len(funcs') <= tagged' + Cardinality(Blocks') + 1
      BY <1>0, <2>1, <2>2, <2>3
    <3> QED BY <3>1 DEF FewFunctions, Blocks
  <2> QED BY <2>1, <2>2, <2>4, <2>5 DEF FewInv
<1>3. CASE CpuTranslate
  <2>1. /\ TranslateFunction("client") /\ tags_dirty /\ ctl = "client" /\ stack = <<>>
        /\ conf.singlestep => PC \in Mem
    BY <1>3 DEF CpuTranslate, Inv, TypeInv, Searching
  <2>2. UNCHANGED <<PC, tagged>> /\ ~tags_dirty' /\ ctl' # "scan"
    BY <2>1 DEF TranslateFunction
  <2>3. CASE Translating
    BY <2>1, <2>2, <2>3, TranslationCounts DEF FewInv
  <2>4. CASE funcs' = funcs
    BY <2>2, <2>4, CountStands DEF FewInv
  <2>5. Translating \/ funcs' = funcs
    BY <2>1 DEF TranslateFunction, Translating
  <2> QED BY <2>3, <2>4, <2>5
<1>4. ~CpuFlush
  BY DEF CpuFlush
<1> QED BY <1>1, <1>2, <1>3, <1>4 DEF Client

\* A miss is for an address that no function has (cpu_run()).
LEMMA FewEngine ==
    ASSUME ~ClientFlushes, IsFiniteSet(Code), Inv, KnownInv, ScanInv, EntryInv, FewInv, Engine
    PROVE  FewInv'
<1>0. /\ Cardinality(Blocks) \in Nat /\ Len(funcs) \in Nat /\ tagged \in Nat
      /\ funcs \in Seq(Func) /\ cur \in Nat
  BY Counts DEF FewInv, Inv, TypeInv, Typed, FuncsOK
<1>1. CASE Tag
  <2>1. /\ ctl = "tag" /\ TagStep /\ UNCHANGED evars /\ [TagNext]_tvars
    BY <1>1 DEF Tag, TagNext
  <2>2. /\ UNCHANGED <<PC, funcs, ctl, back, tagged>> /\ UNCHANGED tags_dirty
    BY <2>1 DEF evars, TagStep, TagReturn, TagInsn
  <2>3. \A a \in Code : tag[a] \subseteq tag'[a]
    BY <2>1, BitsStay DEF Inv, TypeInv, Typed
  <2>4. Blocks' = Blocks /\ FewFunctions'
    BY <2>2, CountStands
  <2> QED BY <2>1, <2>2, <2>3, <2>4 DEF FewInv
<1>2. CASE TagDone
  <2>1. /\ ctl = "tag" /\ UNCHANGED <<tvars, PC, funcs, back, tagged>> /\ ctl' = back
        /\ back \in {"client", "top"}
    BY <1>2 DEF TagDone, Inv, TypeInv, Typed
  <2>2. Blocks' = Blocks /\ FewFunctions'
    BY <2>1, CountStands
  <2> QED BY <2>1, <2>2 DEF FewInv, tvars, Stuck
<1>3. CASE RunTranslate
  <2>1. /\ TranslateFunction("top") /\ tags_dirty /\ ctl = "top" /\ stack = <<>>
        /\ conf.singlestep => PC \in Mem
    BY <1>3 DEF RunTranslate, Inv, TypeInv, Searching, AtPc, InCpuRun
  <2>2. UNCHANGED <<PC, tagged>> /\ ~tags_dirty' /\ ctl' # "scan"
    BY <2>1 DEF TranslateFunction
  <2>3. CASE Translating
    BY <2>1, <2>2, <2>3, TranslationCounts DEF FewInv
  <2>4. CASE funcs' = funcs
    BY <2>2, <2>4, CountStands DEF FewInv
  <2>5. Translating \/ funcs' = funcs
    BY <2>1 DEF TranslateFunction, Translating
  <2> QED BY <2>3, <2>4, <2>5
<1>4. CASE StartScan \/ CallFunction \/ ExecInsn \/ ReturnToClient \/ ScanAgain \/ NextFunction
  <2>1. UNCHANGED <<tvars, funcs, tagged>> /\ ~tags_dirty
    BY <1>4 DEF StartScan, CallFunction, ExecInsn, ReturnToClient, ScanAgain, NextFunction,
                ScanInv
  <2>2. conf.singlestep /\ ctl' = "scan" => cur' = 1
    <3>1. CASE NextFunction
      BY <3>1 DEF NextFunction, Inv, AtPc, Misses
    <3>2. CASE ExecInsn
      BY <3>2, Executes DEF Goes
    <3> QED BY <1>4, <3>1, <3>2 DEF StartScan, CallFunction, ReturnToClient, ScanAgain
  <2> QED BY <2>1, <2>2, CountStands DEF FewInv, tvars
<1>5. CASE Miss
  <2>1. /\ ctl = "scan" /\ cur > Len(funcs) /\ TagStart(PC) /\ ctl' = "tag" /\ back' = "top"
        /\ UNCHANGED <<PC, funcs, tagged>> /\ PC \in Addr
        /\ cur \in 1..(Len(funcs) + 1)
    BY <1>5 DEF Miss, Inv, TypeInv, Typed
  <2>2. Blocks' = Blocks /\ FewFunctions'
    BY <2>1, CountStands
  <2>3. \/ Len(funcs) <= tagged + Cardinality(Blocks)
        \/ PC \in Code \ Blocks /\ "ENTRY" \in tag'[PC]
    <3>1. CASE conf.singlestep \/ PC \notin Code
      <4>1. cur = 1
        BY <1>0, <2>1, <3>1 DEF FewInv, ScanInv
      <4>2. Len(funcs) = 0
        BY <1>0, <2>1, <4>1
      <4> QED BY <1>0, <4>2
    <3>2. CASE ~conf.singlestep /\ PC \in Code
      <4>1. \A k \in 1..Len(funcs) : PC \notin funcs[k].labels
        BY <1>0, <2>1 DEF ScanInv
      <4>2. PC \notin Blocks
        BY <4>1 DEF Blocks
      <4>3. PC \in Started(PC)
        <5>1. Cached \in Seq(Addr)
          BY DEF Cached, Inv, TypeInv, Typed, TagTypeOK, Config
        <5>2. /\ Len(Starts(PC)) \in 1..Len(Starts(PC))
              /\ Starts(PC)[Len(Starts(PC))] = PC
          BY <2>1, <5>1 DEF Starts
        <5> QED BY <5>2 DEF Started
      <4>4. "ENTRY" \in tag'[PC]
        BY <2>1, <3>2, <4>3 DEF TagStart
      <4> QED BY <3>2, <4>2, <4>4
    <3> QED BY <3>1, <3>2
  <2> QED BY <2>1, <2>2, <2>3 DEF FewInv
<1> QED BY <1>1, <1>2, <1>3, <1>4, <1>5 DEF Engine

\* There are no more functions than cpu_tag() calls of the client and basic blocks,
\* and one: what nothing in the code compares with the 1024 of cpu->func[] is
\* bounded by the guest's code as long as nothing is flushed (cpu_run()).
THEOREM FunctionsBounded ==
    ASSUME ~ClientFlushes, IsFiniteSet(Code) PROVE Spec => []FewFunctions
<1>1. Init => KnownInv
  BY KnownInit
<1>2. Init => ScanInv /\ EntryInv
  BY LineInit DEF Init, ScanInv, EntryInv, TagInit
<1>3. Init => FewInv
  <2>1. ASSUME Init PROVE FewInv
    <3>1. funcs = <<>> /\ tagged = 0 /\ ~tags_dirty /\ ctl = "client"
      BY <2>1 DEF Init, TagInit
    <3>2. UNION {funcs[k].labels : k \in 1..Len(funcs)} = {} /\ Len(funcs) = 0
      BY <3>1
    <3>3. Cardinality({}) = 0
      BY FS_EmptySet
    <3>4. FewFunctions
      <4>1. FewFunctions <=> Len(funcs) <= tagged + Cardinality(Blocks) + 1
        BY DEF FewFunctions, Blocks
      <4>2. Blocks = {}
        BY <3>2 DEF Blocks
      <4>3. Cardinality(Blocks) = 0
        BY <3>3, <4>2
      <4>4. Len(funcs) <= tagged + Cardinality(Blocks) + 1
        BY <3>1, <3>2, <4>3
      <4> QED BY <4>1, <4>4
    <3> QED BY <3>1, <3>2, <3>4 DEF FewInv, Blocks
  <2> QED BY <2>1
<1>4. Inv /\ KnownInv /\ [Next]_vars => KnownInv'
  BY KnownStep
<1>5. Inv /\ ScanInv /\ [Next]_vars => ScanInv'
  BY ScanStep
<1>6. Inv /\ EntryInv /\ [Next]_vars => EntryInv'
  BY EntryStep
<1>7. Inv /\ KnownInv /\ ScanInv /\ EntryInv /\ FewInv /\ [Next]_vars => FewInv'
  <2> SUFFICES ASSUME Inv, KnownInv, ScanInv, EntryInv, FewInv, [Next]_vars PROVE FewInv'
    OBVIOUS
  <2>1. CASE UNCHANGED vars
    <3>1. UNCHANGED <<tvars, evars>>
      BY <2>1 DEF vars
    <3> QED BY <3>1, CountStands DEF FewInv, tvars, evars
  <2> QED BY <2>1, FewClient, FewEngine DEF Next
<1>8. FewInv => FewFunctions
  BY DEF FewInv
<1> QED BY <1>1, <1>2, <1>3, <1>4, <1>5, <1>6, <1>7, <1>8, Invariance, PTL DEF Spec
================================================================================
