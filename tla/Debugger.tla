-------------------------------- MODULE Debugger --------------------------------
(***************************************************************************)
(* libcpu/idbg.cpp, the interactive debugger, under the client that uses   *)
(* it (test/m88k/run88.cpp).  cpu_debugger() saves the client's flags,     *)
(* turns single stepping on, and executes commands until one of them       *)
(* leaves it; a step is a cpu_run() followed by a cpu_flush().             *)
(*                                                                         *)
(* cpu_run() is one step here: Engine has its inside.  What matters to the *)
(* debugger is which function it calls, which mode that function was       *)
(* translated in, and which instructions it executed.                      *)
(***************************************************************************)
EXTENDS Naturals, Sequences

CONSTANTS
    Addr,        \* values of the program counter
    Code,        \* [code_start, code_end)
    Traps,       \* whether the guest makes system calls
    Commands,    \* what the user types; "eof" when there is no more input
    MaxSteps,    \* bound: cpu_run() calls
    LittleEndian \* the guest's byte order

ASSUME DebuggerAssumption ==
    /\ Code \subseteq Addr
    /\ {Traps, LittleEndian} \subseteq BOOLEAN
    /\ MaxSteps \in Nat

VARIABLES
    debug,         \* flags_debug
    optimize,      \* CPU_CODEGEN_OPTIMIZE in flags_codegen
    PC,
    funcs,         \* the functions translated, by mode and first instruction
    jit,           \* the names the JIT has a definition for
    tags_dirty,
    cur_func,      \* what cpu_flush() will erase: "live", "erased", "corrupt"
    ctl,           \* where the program is
    debugging,     \* run88's variable
    rc,            \* what cpu_debugger() or cpu_run() returned last
    ctx,           \* the flags idbg_init() saved
    last_command,  \* what an empty line repeats
    interactive,
    ran,           \* history: the instructions of the last cpu_run()
    stepped_at,    \* history: PC before the last cpu_run()
    runs,          \* history: cpu_run() calls
    shown,         \* history: what the last command displayed
    leaked         \* history: a session ended without idbg_done()

client == <<debugging, rc>>
idbg   == <<ctx, last_command, interactive>>
cpu    == <<PC, funcs, jit, tags_dirty, cur_func>>
flags  == <<debug, optimize>>
hist   == <<ran, stepped_at, runs, shown, leaked>>
dvars  == <<flags, cpu, ctl, client, idbg, hist>>

Modes == {"step", "bb", "all"}
Codes == {"NOERR", "FUNCNOTFOUND", "SINGLESTEP", "TRAP", "DETACHED"}
DebugFlags == {"SINGLESTEP", "SINGLESTEP_BB", "PRINT_IR"}

\* What run88 sets before its loop.
ClientDebug == {}
ClientOptimize == TRUE

TypeOK ==
    /\ debug \subseteq DebugFlags /\ optimize \in BOOLEAN
    /\ PC \in Addr
    /\ funcs \in Seq([mode: Modes, entry: Addr])
    /\ jit \subseteq Nat
    /\ tags_dirty \in BOOLEAN /\ debugging \in BOOLEAN /\ interactive \in BOOLEAN
    /\ cur_func \in {"none", "live", "erased", "corrupt"}
    /\ ctl \in {"loop", "prompt", "handle", "exit", "aborted"}
    /\ rc \in Codes
    /\ ctx \in [debug: SUBSET DebugFlags, optimize: BOOLEAN]
    /\ last_command \in 0..3
    /\ ran \in Seq(Addr) /\ stepped_at \in Addr /\ runs \in 0..MaxSteps
    /\ leaked \in BOOLEAN

(***************************************************************************)
(* The library under the debugger.                                         *)
(***************************************************************************)
\* cpu_translate_function(): SINGLESTEP is tested first.
Mode == IF "SINGLESTEP" \in debug THEN "step"
        ELSE IF "SINGLESTEP_BB" \in debug THEN "bb" ELSE "all"

NewFunc == [mode |-> Mode, entry |-> PC]

\* The functions cpu_run() can end up with: one more when tagging is due, and
\* one more again when none of them has the address.
Lookups ==
    LET first == IF tags_dirty THEN Append(funcs, NewFunc) ELSE funcs
        missed == {k \in 1..Len(first) :
                      \A j \in 1..(k - 1) : first[j].mode = "all"}
    IN [fs: {first}, at: missed]
       \cup IF \A k \in 1..Len(first) : first[k].mode = "all"
            THEN {[fs |-> Append(first, NewFunc), at |-> Len(first) + 1]} ELSE {}

Names(fs) == {k - 1 : k \in (Len(funcs) + 1)..Len(fs)}

\* Whether the JIT takes a second definition of a name depends on how it is built.
MayReject(fs) == Names(fs) \cap jit # {}

\* What a function executes: the instruction it was translated for, a block from
\* there on, or whatever follows PC.
Executions(f) ==
    LET from == IF f.mode = "all" THEN PC ELSE f.entry
    IN {<<from>>} \cup IF f.mode = "step" THEN {} ELSE {<<from, a>> : a \in Code}

Results(f) ==
    (IF f.mode = "all" THEN [pc: Addr \ Code, code: {"FUNCNOTFOUND"}]
     ELSE [pc: Addr, code: {"SINGLESTEP"}])
    \cup IF Traps THEN [pc: Addr, code: {"TRAP"}] ELSE {}

\* cpu_run(); an assertion fails in it when the JIT rejects a name.
CpuRun(l) ==
    /\ runs < MaxSteps
    /\ runs' = runs + 1
    /\ stepped_at' = PC
    /\ jit' = jit \cup Names(l.fs)
    /\ tags_dirty' = FALSE
    /\ ran' \in Executions(l.fs[l.at])
    /\ \E r \in Results(l.fs[l.at]) : PC' = r.pc /\ rc' = r.code

Translated(l) == IF Len(l.fs) > Len(funcs) THEN "live" ELSE cur_func

\* cpu_flush(): erases cur_func, whether or not it did so before.
Erased(f) == IF f = "live" THEN "erased" ELSE "corrupt"

Abort ==
    /\ ctl' = "aborted"
    /\ UNCHANGED <<flags, cpu, client, idbg, hist>>

(***************************************************************************)
(* run88's loop.                                                           *)
(***************************************************************************)
\* idbg_init()
EnterDebugger ==
    /\ ctl = "loop" /\ debugging
    /\ ctx' = [debug |-> debug, optimize |-> optimize]
    /\ debug' = debug \cup {"SINGLESTEP"}
    /\ optimize' = FALSE
    /\ last_command' = 0
    /\ interactive' = TRUE
    /\ shown' = <<>>
    /\ ctl' = "prompt"
    /\ UNCHANGED <<cpu, client, ran, stepped_at, runs, leaked>>

RunFree ==
    /\ ctl = "loop" /\ ~debugging
    /\ \E l \in Lookups :
          \/ MayReject(l.fs) /\ Abort
          \/ /\ CpuRun(l)
             /\ funcs' = l.fs
             /\ cur_func' = Translated(l)
             /\ ctl' = "handle"
             /\ UNCHANGED <<flags, debugging, idbg, shown, leaked>>

\* The user has left the debugger.
Detached ==
    /\ ctl = "handle" /\ rc = "DETACHED"
    /\ debugging' = FALSE
    /\ ctl' = "loop"
    /\ UNCHANGED <<flags, cpu, rc, idbg, hist>>

NotFound ==
    /\ ctl = "handle" /\ rc = "FUNCNOTFOUND"
    /\ ctl' = "exit"
    /\ UNCHANGED <<flags, cpu, client, idbg, hist>>

\* A system call may be the last one, and may change PC; what was translated for
\* one step is flushed before the next one.
Stepped ==
    /\ ctl = "handle" /\ rc \in {"TRAP", "SINGLESTEP"}
    /\ \/ ctl' = "loop"
       \/ rc = "TRAP" /\ ctl' = "exit"
    /\ PC' \in IF rc = "TRAP" THEN Addr ELSE {PC}
    /\ IF debug \cap {"SINGLESTEP", "SINGLESTEP_BB"} # {}
       THEN funcs' = <<>> /\ cur_func' = Erased(cur_func)
       ELSE UNCHANGED <<funcs, cur_func>>
    /\ UNCHANGED <<flags, jit, tags_dirty, client, idbg, hist>>

(***************************************************************************)
(* cpu_debugger()'s commands.                                              *)
(***************************************************************************)
Leave(code) == ctl' = "handle" /\ rc' = code

\* Mutant: the codegen flags are not put back.
idbg_done_Debug == debug' = ctx.debug /\ UNCHANGED optimize

\* Mutant: stepping is always turned off.
idbg_done_Clears == debug' = ctx.debug \ {"SINGLESTEP"} /\ optimize' = ctx.optimize

idbg_done == debug' = ctx.debug /\ optimize' = ctx.optimize

\* Mutant: the functions are flushed when the debugger is left.
Quit_Flushes ==
    /\ idbg_done
    /\ Leave("DETACHED")
    /\ funcs' = <<>> /\ cur_func' = Erased(cur_func)
    /\ UNCHANGED <<PC, jit, tags_dirty, debugging, idbg, hist>>

Quit ==
    /\ idbg_done
    /\ Leave("DETACHED")
    /\ UNCHANGED <<cpu, debugging, idbg, hist>>

\* Mutant: the function of a step is kept.
Flushed_Never(l) == funcs' = l.fs /\ cur_func' = Translated(l)

Flushed(l) == funcs' = <<>> /\ cur_func' = Erased(Translated(l))

\* "s" and ".": idbg_step() and idbg_step_diff().  Anything but a step returns
\* from cpu_debugger() then and there.
Step(command) ==
    \E l \in Lookups :
       \/ MayReject(l.fs) /\ Abort
       \/ /\ CpuRun(l)
          /\ Flushed(l)
          /\ IF rc' = "SINGLESTEP"
             THEN last_command' = command /\ UNCHANGED <<ctl, leaked>>
             ELSE ctl' = "handle" /\ last_command' = 0 /\ leaked' = TRUE
          /\ shown' = <<"step", l.fs[l.at].mode>>
          /\ UNCHANGED <<flags, debugging, ctx, interactive>>

Toggle(flag) ==
    /\ debug' = (debug \ {flag}) \cup ({flag} \ debug)
    /\ last_command' = 0
    /\ shown' = <<"toggle", flag>>
    /\ UNCHANGED <<optimize, cpu, ctl, client, ctx, interactive, ran, stepped_at, runs, leaked>>

\* ">": the next line is not read; p stays NULL and last_count is set where
\* last_command is meant.
NonInteractive ==
    /\ last_command' = 2
    /\ interactive' = FALSE
    /\ shown' = <<"auto">>
    /\ UNCHANGED <<flags, cpu, ctl, client, ctx, ran, stepped_at, runs, leaked>>

\* "p": idbg_register_operand() reads a register or reports an error, except for
\* operands it does not know at all, for which it reports success.
Operands == {"pc", "psr", "r", "r_beyond", "f", "f_beyond", "v"}

Operand(o) ==
    CASE o \in {"pc", "psr", "r", "f"} -> "read"
      [] o \in {"r_beyond", "f_beyond"} -> "error"
      [] OTHER -> "uninitialised"

PrintReg(o) ==
    /\ shown' = IF Operand(o) = "error" THEN <<"error">> ELSE <<"print", o, Operand(o)>>
    /\ last_command' = 0
    /\ UNCHANGED <<flags, cpu, ctl, client, ctx, interactive, ran, stepped_at, runs, leaked>>

\* "x": the formats idbg_examine_one() takes.
Formats == {"b", "h", "w", "d", "q", "f", "F", "l", "L"}

\* The offsets of the bytes idbg_read_*() puts together, most significant first.
\* (idbg_read_word() writes four elements of an array of two, and the build leaves
\* them readable.)
Half(at) == <<at, at + 1>>
Word(at) == Half(at) \o Half(at + 2)

Dword(at) ==
    IF LittleEndian THEN Word(at + 4) \o Word(at) ELSE Word(at) \o Word(at + 4)

Qword == IF LittleEndian THEN Dword(8) \o Dword(0) ELSE Dword(0) \o Dword(8)

BytesRead(format) ==
    CASE format = "b" -> <<0>> [] format = "h" -> Half(0)
      [] format \in {"w", "f"} -> Word(0)
      [] format \in {"d", "F", "l"} -> Dword(0)
      [] format \in {"q", "L"} -> Qword

Examine(format) ==
    /\ shown' = <<"examine", format, BytesRead(format)>>
    /\ last_command' = 3
    /\ UNCHANGED <<flags, cpu, ctl, client, ctx, interactive, ran, stepped_at, runs, leaked>>

\* Comments, mistakes, help, an x of no items.
Ignore ==
    /\ last_command' = 0
    /\ shown' = <<>>
    /\ UNCHANGED <<flags, cpu, ctl, client, ctx, interactive, ran, stepped_at, runs, leaked>>

\* An empty line does the last step or examines what follows.
Repeat ==
    \/ last_command \in {1, 2} /\ Step(last_command)
    \/ last_command \in {0, 3} /\ UNCHANGED dvars

Command(c) ==
    CASE c \in {"c", "q", "eof"} -> Quit
      [] c = "s" -> Step(1)
      [] c = "." -> Step(2)
      [] c = "i" -> Toggle("PRINT_IR")
      [] c = "B" -> Toggle("SINGLESTEP_BB")
      [] c = ">" -> NonInteractive
      [] c = "p" -> \E o \in Operands : PrintReg(o)
      [] c = "x" -> \E f \in Formats : Examine(f)
      [] c = "" -> Repeat
      [] OTHER -> Ignore

Prompt ==
    /\ ctl = "prompt" /\ interactive
    /\ \E c \in Commands : Command(c)

\* Without a line p is NULL, which the loop takes for the end of the input.
Automatic ==
    /\ ctl = "prompt" /\ ~interactive
    /\ Quit

Init ==
    /\ debug = ClientDebug /\ optimize = ClientOptimize
    /\ PC \in Code
    /\ funcs = <<>> /\ jit = {} /\ tags_dirty = TRUE /\ cur_func = "none"
    /\ ctl = "loop" /\ debugging = TRUE /\ rc = "NOERR"
    /\ ctx = [debug |-> ClientDebug, optimize |-> ClientOptimize]
    /\ last_command = 0 /\ interactive = TRUE
    /\ ran = <<>> /\ stepped_at \in {PC} /\ runs = 0 /\ shown = <<>> /\ leaked = FALSE

Run88 == EnterDebugger \/ RunFree \/ Detached \/ NotFound \/ Stepped

Next == Run88 \/ Prompt \/ Automatic

Spec == Init /\ [][Next]_dvars

--------------------------------------------------------------------------------
(***************************************************************************)
(* What a user of the debugger relies on.                                  *)
(***************************************************************************)
\* Outside the debugger the flags are the ones the client set: "c" detaches
\* (idbg.cpp:36, 1007), so what runs afterwards runs optimised and at full
\* speed, whatever was stepped or toggled in between.  Only a step that ends in
\* a trap leaves them changed (cpu_debugger() returns without idbg_done()).
ClientFlagsBack ==
    ctl \in {"loop", "handle", "exit"} /\ ~leaked =>
        debug = ClientDebug /\ optimize = ClientOptimize

\* No session brings back what a trap has leaked: the next one saves SINGLESTEP
\* as the client's flag and restores it (idbg_init(), idbg_done()).
LeakStays == leaked => "SINGLESTEP" \in debug

\* "B" has announced that a step executes a basic block (idbg.cpp:31, 1101).
BlockSteps == "SINGLESTEP_BB" \in debug

\* A step executes the instruction the debugger has just displayed and nothing an
\* earlier step translated (idbg.cpp:752-757, 1081-1087), and only that instruction
\* unless "B" has announced block steps.  What "B" announces does not happen:
\* cpu_translate_function() tests SINGLESTEP first (interface.cpp:344), and the
\* debugger always sets it, so that a step after "B" is one instruction as well.
StepsOne ==
    ctl = "prompt" /\ last_command \in {1, 2} /\ interactive =>
        ran # <<>> /\ ran[1] = stepped_at /\ (Len(ran) > 1 => BlockSteps)

\* cpu_flush() erases a function once (interface.cpp:454), unless a trap made
\* run88 flush what the step has flushed.
ErasedOnce == ~leaked => cur_func # "corrupt"
================================================================================
