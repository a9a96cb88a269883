----------------------------- MODULE DebuggerProofs -----------------------------
(***************************************************************************)
(* What a session of the debugger leaves behind, for every guest, every    *)
(* set of commands in any order and any number of steps.                   *)
(*                                                                         *)
(* One fact carries all of it: until run88 detaches, no function outlives  *)
(* a step (Clean), so every step translates its own.                       *)
(***************************************************************************)
EXTENDS Debugger, TLAPS

ClientFlags == debug = ClientDebug /\ optimize = ClientOptimize

Controls ==
    /\ ctl \in {"loop", "prompt", "handle", "exit", "aborted"}
    /\ ctl = "prompt" => debugging
    /\ interactive \in BOOLEAN /\ debugging \in BOOLEAN

Flagged ==
    /\ ctl = "prompt" \/ leaked => "SINGLESTEP" \in debug
    /\ ctl \in {"loop", "handle", "exit"} /\ ~leaked => ClientFlags

Saved ==
    ctl = "prompt" =>
        IF leaked THEN "SINGLESTEP" \in ctx.debug
        ELSE ctx.debug = ClientDebug /\ ctx.optimize = ClientOptimize

Clean == debugging => funcs = <<>>

\* Every step is one instruction, also when "B" has announced a basic block.
Single == ctl = "prompt" /\ last_command \in {1, 2} /\ interactive => ran = <<stepped_at>>

Inv == Controls /\ Flagged /\ Saved /\ Clean /\ Single /\ ErasedOnce

--------------------------------------------------------------------------------
\* A command is one of the handlers, whatever the user types.
LEMMA Commanded ==
    ASSUME NEW c, Command(c)
    PROVE  \/ Quit \/ NonInteractive \/ Ignore
           \/ \E n \in {1, 2} : Step(n)
           \/ \E flag \in {"PRINT_IR", "SINGLESTEP_BB"} : Toggle(flag)
           \/ \E o \in Operands : PrintReg(o)
           \/ \E f \in Formats : Examine(f)
           \/ UNCHANGED dvars
BY DEF Command, Repeat

\* With nothing left of earlier steps, a step calls the function it translates.
LEMMA OwnFunction ==
    ASSUME funcs = <<>>, "SINGLESTEP" \in debug, NEW l \in Lookups
    PROVE  l.fs = <<NewFunc>> /\ l.at = 1 /\ Executions(l.fs[l.at]) = {<<PC>>}
<1>1. NewFunc = [mode |-> "step", entry |-> PC]
  BY DEF NewFunc, Mode
<1>2. PICK first : first = IF tags_dirty THEN <<NewFunc>> ELSE <<>>
  OBVIOUS
<1> DEFINE missed == {k \in 1..Len(first) : \A j \in 1..(k - 1) : first[j].mode = "all"}
           again  == IF \A k \in 1..Len(first) : first[k].mode = "all"
                     THEN {[fs |-> Append(first, NewFunc), at |-> Len(first) + 1]} ELSE {}
<1>3. Append(<<>>, NewFunc) = <<NewFunc>> /\ Append(funcs, NewFunc) = <<NewFunc>>
  OBVIOUS
<1>4. Lookups = [fs: {first}, at: missed] \cup again
  <2>1. first = IF tags_dirty THEN Append(funcs, NewFunc) ELSE funcs
    BY <1>2, <1>3
  <2> QED BY <2>1 DEF Lookups
<1>5. l.fs = <<NewFunc>> /\ l.at = 1
  <2>1. CASE tags_dirty
    <3>1. first = <<NewFunc>>
      BY <1>2, <2>1
    <3>2. Len(first) = 1 /\ first[1] = NewFunc
      BY <3>1
    <3>3. again = {} /\ missed \subseteq {1}
      BY <1>1, <3>2
    <3> HIDE DEF missed, again
    <3>4. l \in [fs: {first}, at: missed]
      BY <1>4, <3>3
    <3> QED BY <3>1, <3>3, <3>4
  <2>2. CASE ~tags_dirty
    <3>1. first = <<>>
      BY <1>2, <2>2
    <3>2. Len(first) = 0
      BY <3>1
    <3>3. missed = {} /\ again = {[fs |-> <<NewFunc>>, at |-> 1]}
      BY <1>3, <3>1, <3>2
    <3> HIDE DEF missed, again
    <3> QED BY <1>4, <3>3
  <2> QED BY <2>1, <2>2
<1> QED BY <1>1, <1>5 DEF Executions

\* No debugger has run yet.
LEMMA Initially == Init => Inv
BY DEF Init, Inv, Controls, Flagged, Saved, Clean, Single, ErasedOnce, ClientFlags,
       ClientDebug, ClientOptimize

\* A step leaves no function behind, and a trap in it leaks the flags (idbg_step()).
LEMMA StepKeeps ==
    ASSUME Inv, ctl = "prompt", interactive, NEW n \in {1, 2}, Step(n)
    PROVE  Inv'
<1> USE DEF Inv
<1>1. debugging /\ funcs = <<>> /\ "SINGLESTEP" \in debug
  BY DEF Controls, Flagged, Clean
<1>2. PICK l \in Lookups :
          \/ MayReject(l.fs) /\ Abort
          \/ /\ CpuRun(l)
             /\ Flushed(l)
             /\ IF rc' = "SINGLESTEP"
                THEN last_command' = n /\ UNCHANGED <<ctl, leaked>>
                ELSE ctl' = "handle" /\ last_command' = 0 /\ leaked' = TRUE
             /\ shown' = <<"step", l.fs[l.at].mode>>
             /\ UNCHANGED <<flags, debugging, ctx, interactive>>
  BY DEF Step
<1>3. CASE Abort
  BY <1>3 DEF Abort, flags, cpu, client, idbg, hist, Controls, Flagged, Saved, Clean,
              Single, ErasedOnce, ClientFlags
<1>4. CASE ~Abort
  <2>1. l.fs = <<NewFunc>> /\ Executions(l.fs[l.at]) = {<<PC>>}
    BY <1>1, OwnFunction
  <2>2. ran' = <<PC>> /\ stepped_at' = PC
    BY <1>2, <1>4, <2>1 DEF CpuRun
  <2>3. funcs' = <<>> /\ cur_func' = "erased"
    <3>1. Len(l.fs) = 1 /\ Len(funcs) = 0
      BY <1>1, <2>1
    <3>2. Translated(l) = "live"
      BY <3>1 DEF Translated
    <3> QED BY <1>2, <1>4, <3>2 DEF Flushed, Erased
  <2>4. UNCHANGED <<debug, optimize, debugging, ctx, interactive>>
    BY <1>2, <1>4 DEF flags
  <2> QED
    BY <1>1, <1>2, <1>4, <2>2, <2>3, <2>4
    DEF Controls, Flagged, Saved, Clean, Single, ErasedOnce, ClientFlags
<1> QED BY <1>3, <1>4

\* A command leaves the flags to be restored as they were saved (cpu_debugger()).
LEMMA PromptKeeps == ASSUME Inv, Prompt PROVE Inv'
<1> USE DEF Inv
<1>1. ctl = "prompt" /\ interactive
  BY DEF Prompt
<1>2. PICK c \in Commands : Command(c)
  BY DEF Prompt
<1> USE DEF Controls, Flagged, Saved, Clean, Single, ErasedOnce, ClientFlags, cpu, client,
            idbg, flags, hist
<1>3. CASE Quit
  BY <1>1, <1>3 DEF Quit, Leave, idbg_done
<1>4. CASE NonInteractive
  BY <1>1, <1>4 DEF NonInteractive
<1>5. CASE Ignore
  BY <1>1, <1>5 DEF Ignore
<1>6. ASSUME NEW flag \in {"PRINT_IR", "SINGLESTEP_BB"}, Toggle(flag) PROVE Inv'
  BY <1>1, <1>6 DEF Toggle
<1>7. ASSUME NEW o \in Operands, PrintReg(o) PROVE Inv'
  BY <1>1, <1>7 DEF PrintReg
<1>8. ASSUME NEW f \in Formats, Examine(f) PROVE Inv'
  BY <1>1, <1>8 DEF Examine
<1>9. CASE UNCHANGED dvars
  BY <1>1, <1>9 DEF dvars
<1> QED BY <1>1, <1>2, <1>3, <1>4, <1>5, <1>6, <1>7, <1>8, <1>9, Commanded, StepKeeps

\* run88's loop between sessions: the flags change only in idbg_init().
LEMMA Run88Keeps == ASSUME Inv, Run88 PROVE Inv'
<1> USE DEF Inv, Controls, Flagged, Saved, Clean, Single, ErasedOnce, ClientFlags, cpu,
            client, idbg, flags, hist, ClientDebug, ClientOptimize
<1>1. CASE EnterDebugger
  BY <1>1 DEF EnterDebugger
<1>2. CASE RunFree
  <2>1. PICK l \in Lookups :
            \/ Abort
            \/ /\ CpuRun(l)
               /\ funcs' = l.fs
               /\ cur_func' = Translated(l)
               /\ ctl' = "handle"
               /\ UNCHANGED <<flags, debugging, idbg, shown, leaked>>
    BY <1>2 DEF RunFree
  <2>2. cur_func' \in {"live", cur_func} \/ Abort
    BY <2>1 DEF Translated
  <2>3. ctl = "loop" /\ ~debugging
    BY <1>2 DEF RunFree
  <2> QED BY <2>1, <2>2, <2>3 DEF Abort
<1>3. CASE Detached
  BY <1>3 DEF Detached
<1>4. CASE NotFound
  BY <1>4 DEF NotFound
<1>5. CASE Stepped
  <2>1. ~leaked => UNCHANGED <<funcs, cur_func>>
    BY <1>5 DEF Stepped
  <2>2. funcs' \in {funcs, <<>>}
    BY <1>5 DEF Stepped
  <2> QED BY <1>5, <2>1, <2>2 DEF Stepped
<1> QED BY <1>1, <1>2, <1>3, <1>4, <1>5 DEF Run88

\* All of it holds at every moment.
LEMMA Invariance == Spec => []Inv
<1>1. Inv /\ [Next]_dvars => Inv'
  <2> SUFFICES ASSUME Inv, [Next]_dvars PROVE Inv'
    OBVIOUS
  <2>1. CASE Automatic
    BY <2>1 DEF Automatic, Quit, Leave, idbg_done, Inv, Controls, Flagged, Saved, Clean,
                Single, ErasedOnce, ClientFlags, cpu, idbg, hist
  <2>2. CASE UNCHANGED dvars
    BY <2>2 DEF dvars, Inv, Controls, Flagged, Saved, Clean, Single, ErasedOnce,
                ClientFlags, cpu, client, idbg, flags, hist
  <2> QED BY <2>1, <2>2, PromptKeeps, Run88Keeps DEF Next
<1> QED BY <1>1, Initially, PTL DEF Spec

--------------------------------------------------------------------------------
\* Whatever was stepped or toggled, the client gets its own flags back, unless a
\* step ended in a trap (cpu_debugger() then returns without idbg_done()).
THEOREM FlagsBack == Spec => []ClientFlagsBack
<1>1. Inv => ClientFlagsBack
  BY DEF Inv, Flagged, ClientFlags, ClientFlagsBack
<1> QED BY <1>1, Invariance, PTL

\* Once a trap has leaked SINGLESTEP into the client's flags, no later session
\* removes it (idbg_init(), idbg_done()).
THEOREM LeakRemains == Spec => []LeakStays
<1>1. Inv => LeakStays
  BY DEF Inv, Flagged, LeakStays
<1> QED BY <1>1, Invariance, PTL

\* A step executes the one instruction at the program counter, after any sequence
\* of commands, and no other: nothing that an earlier step translated, and no block
\* when "B" has not announced one.  The code promises more than it does here, and
\* the invariant is stronger than the property: no step is ever a block, because
\* SINGLESTEP is tested first (idbg.cpp:1099-1102, interface.cpp:344).
THEOREM OneInstruction == Spec => []StepsOne
<1>1. ASSUME ran = <<stepped_at>>
      PROVE  ran # <<>> /\ ran[1] = stepped_at /\ ~(Len(ran) > 1)
  <2>1. Len(<<stepped_at>>) = 1 /\ <<stepped_at>>[1] = stepped_at /\ <<stepped_at>> # <<>>
    OBVIOUS
  <2>2. ~(1 > 1)
    OBVIOUS
  <2> QED BY <1>1, <2>1, <2>2
<1>2. Inv => StepsOne
  BY <1>1, Zenon DEF Inv, Single, StepsOne
<1> QED BY <1>2, Invariance, PTL

\* Without a trap, cpu_flush() erases no function twice (interface.cpp:454).
THEOREM NoDoubleErase == Spec => []ErasedOnce
<1>1. Inv => ErasedOnce
  BY DEF Inv
<1> QED BY <1>1, Invariance, PTL
================================================================================
