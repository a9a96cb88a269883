--------------------------------- MODULE Engine ---------------------------------
(***************************************************************************)
(* libcpu/interface.cpp, translate_all.cpp, translate.cpp and              *)
(* translate_singlestep.cpp over Tagging: cpu_run() looks the guest's      *)
(* program counter up in every function translated so far, executes what   *)
(* it finds there, and tags and translates more code when nothing is       *)
(* found.  A client calls it between steps of its own.                     *)
(*                                                                         *)
(* A translated function is what decides where execution inside it may go: *)
(* the addresses it has basic blocks for (labels, the cases of its         *)
(* dispatch switch), and the tags as they were when it was translated      *)
(* (code, starts).  A single-step function holds the one instruction that  *)
(* was at the program counter when it was translated (entry).              *)
(***************************************************************************)
EXTENDS Tagging

CONSTANTS
    MaxFunctions,   \* the length of cpu->func[], fp[], ctx[] and mod[]
    ClientFlushes,  \* whether the client ever calls cpu_flush()
    MaxTags         \* bound: how often the client calls cpu_tag()

ASSUME EngineAssumption ==
    MaxFunctions \in Nat /\ ClientFlushes \in BOOLEAN /\ MaxTags \in Nat

VARIABLES
    PC,        \* the guest's program counter in the register file
    funcs,     \* cpu->func[0 .. functions-1]
    jit,       \* the names (indices) the JIT has a definition for
    ctl,       \* where the program is
    back,      \* where cpu_tag() or cpu_translate() was called from
    cur,       \* cpu_run()'s loop counter i, from 1; 0 when not in use
    orig_pc,   \* cpu_run()'s orig_pc
    at,        \* inside a function: the instruction about to be executed
    ret,       \* what the function, then cpu_run(), returned
    eff,       \* history: the effects of the last guest step
    tagged     \* history: cpu_tag() calls the client made

evars == <<PC, funcs, jit, ctl, back, cur, orig_pc, at, ret, eff, tagged>>
vars  == <<tvars, evars>>

Codes == {"NOERR", "FUNCNOTFOUND", "SINGLESTEP", "TRAP"}

Func == [entry: Addr, miss: Codes, labels: SUBSET Code,
         starts: SUBSET Code, code: SUBSET Code]

Controls == {"client", "tag", "top", "scan", "guest", "returned",
             "duplicate_symbol", "array_overflow"}

TypeOK ==
    /\ TagTypeOK
    /\ PC \in Addr
    /\ funcs \in Seq(Func) /\ Len(funcs) <= MaxFunctions
    /\ jit \subseteq 0..MaxFunctions
    /\ ctl \in Controls
    /\ back \in {"client", "top"}
    /\ cur \in 0..(Len(funcs) + 1)
    /\ orig_pc \in Addr
    /\ at \in Addr
    /\ ret \in Codes
    /\ tagged \in 0..MaxTags

(***************************************************************************)
(* cpu_translate_function().                                               *)
(***************************************************************************)
\* Mutant: the addresses the client enters at are forgotten.
is_start_of_basicblock_NoEntry(a) ==
    get_tag(a) \cap (LabelBits \ {"ENTRY"}) # {} /\ is_code(a)

is_start_of_basicblock(a) == get_tag(a) \cap LabelBits # {} /\ is_code(a)

StartSet == {a \in Code : is_start_of_basicblock(a)}

\* Mutant: blocks other functions have are created again.
TranslatedAll_Again ==
    [entry |-> NoPc, miss |-> "FUNCNOTFOUND",
     labels |-> StartSet, starts |-> StartSet, code |-> CodeSet]

\* cpu_translate_all(): a basic block for every label no function has yet.
TranslatedAll ==
    [entry |-> NoPc, miss |-> "FUNCNOTFOUND",
     labels |-> {a \in StartSet : "TRANSLATED" \notin tag[a]},
     starts |-> StartSet, code |-> CodeSet]

\* cpu_translate_singlestep(): the instruction at PC; every way out returns.
TranslatedSinglestep ==
    [entry |-> PC, miss |-> "SINGLESTEP", labels |-> {}, starts |-> {}, code |-> {}]

NewFunc == IF conf.singlestep THEN TranslatedSinglestep ELSE TranslatedAll

mark_translated(f) ==
    [a \in Code |-> IF a \in f.labels THEN tag[a] \cup {"TRANSLATED"} ELSE tag[a]]

\* The function is created as func[functions], under the name "<functions>";
\* the basic blocks it gets are marked; then the JIT is given the module and
\* rejects a name it has a definition for, which assert(!err) does not allow.
TranslateFunction(next) ==
    /\ IF Len(funcs) = MaxFunctions
       THEN ctl' = "array_overflow" /\ UNCHANGED <<tag, funcs, jit>>
       ELSE /\ tag' = mark_translated(NewFunc)
            /\ IF Len(funcs) \in jit
               THEN ctl' = "duplicate_symbol" /\ UNCHANGED <<funcs, jit>>
               ELSE /\ funcs' = Append(funcs, NewFunc)
                    /\ jit' = jit \cup {Len(funcs)}
                    /\ ctl' = next
    /\ tags_dirty' = FALSE
    /\ back' = next
    /\ UNCHANGED <<conf, allocated, stack, entries,
                   PC, cur, orig_pc, at, ret, eff, tagged>>

(***************************************************************************)
(* The client, between two calls.                                          *)
(***************************************************************************)
SetPC ==
    /\ ctl = "client"
    /\ PC' \in Addr
    /\ UNCHANGED <<tvars, funcs, jit, ctl, back, cur, orig_pc, at, ret, eff, tagged>>

CpuTagCall ==
    /\ ctl = "client"
    /\ tagged < MaxTags
    /\ CpuTag
    /\ ctl' = "tag"
    /\ back' = "client"
    /\ tagged' = tagged + 1
    /\ UNCHANGED <<PC, funcs, jit, cur, orig_pc, at, ret, eff>>

\* Mutant: translates although nothing was tagged since the last time.
CpuTranslate_Always ==
    /\ ctl = "client"
    /\ conf.singlestep => PC \in Mem
    /\ TranslateFunction("client")

\* cpu_translate() ahead of time.  A client that single steps calls it, and
\* cpu_run(), only where there is an instruction.
CpuTranslate ==
    /\ ctl = "client"
    /\ tags_dirty
    /\ conf.singlestep => PC \in Mem
    /\ TranslateFunction("client")

CpuFlush ==
    /\ ClientFlushes
    /\ ctl = "client"
    /\ funcs # <<>>
    /\ funcs' = <<>>
    /\ UNCHANGED <<tvars, PC, jit, ctl, back, cur, orig_pc, at, ret, eff, tagged>>

\* A client that single steps flushes what was translated for another address.
CpuRun ==
    /\ ctl = "client"
    /\ conf.singlestep => PC \in Mem /\ \A k \in 1..Len(funcs) : funcs[k].entry = PC
    /\ ctl' = "top"
    /\ UNCHANGED <<tvars, PC, funcs, jit, back, cur, orig_pc, at, ret, eff, tagged>>

Client == SetPC \/ CpuTagCall \/ CpuTranslate \/ CpuFlush \/ CpuRun

(***************************************************************************)
(* cpu_tag(), wherever it was called from.                                 *)
(***************************************************************************)
Tag ==
    /\ ctl = "tag"
    /\ TagStep
    /\ UNCHANGED evars

TagDone ==
    /\ ctl = "tag"
    /\ stack = <<>>
    /\ ctl' = back
    /\ UNCHANGED <<tvars, PC, funcs, jit, back, cur, orig_pc, at, ret, eff, tagged>>

(***************************************************************************)
(* cpu_run().                                                              *)
(***************************************************************************)
RunTranslate ==
    /\ ctl = "top"
    /\ tags_dirty
    /\ TranslateFunction("top")

StartScan ==
    /\ ctl = "top"
    /\ ~tags_dirty
    /\ orig_pc' = PC
    /\ cur' = 1
    /\ ctl' = "scan"
    /\ UNCHANGED <<tvars, PC, funcs, jit, back, at, ret, eff, tagged>>

\* FP(): a function dispatches on PC, a single-step function does not.
CallFunction ==
    /\ ctl = "scan"
    /\ cur <= Len(funcs)
    /\ LET f == funcs[cur]
       IN IF f.entry # NoPc \/ PC \in f.labels
          THEN /\ at' = IF f.entry # NoPc THEN f.entry ELSE PC
               /\ ctl' = "guest"
               /\ UNCHANGED ret
          ELSE /\ ret' = f.miss
               /\ ctl' = "returned"
               /\ UNCHANGED at
    /\ UNCHANGED <<tvars, PC, funcs, jit, back, cur, orig_pc, eff, tagged>>

\* Leaving the function, with PC stored.
Exit(pc, code) ==
    /\ PC' = pc
    /\ at' = NoPc
    /\ ret' = code
    /\ ctl' = "returned"

Stay(pc) ==
    /\ at' = pc
    /\ UNCHANGED <<PC, ret, ctl>>

\* lookup_basicblock(), and the dispatch switch with PC just set.
Goto(f, pc) == IF pc \in f.labels THEN Stay(pc) ELSE Exit(pc, f.miss)

\* The instruction that follows in the same basic block, or the next block.
Fall(f, pc) ==
    IF pc \in f.code \ f.starts THEN Stay(pc) ELSE Goto(f, pc)

\* The frontend has set PC (an indirect jump or a return), or the target is known.
Jumps(i) == Has(i, "RET") \/ Has(i, "CALL") \/ Has(i, "BRANCH")
Indirect(i) == Has(i, "RET") \/ (Jumps(i) /\ i.new = NoPc)

Taken(f, i) ==
    \/ Indirect(i) /\ \E pc \in Addr : Goto(f, pc)
    \/ Jumps(i) /\ ~Indirect(i) /\ Goto(f, i.new)
    \/ Has(i, "TRAP") /\ Exit(i.trap, "TRAP")
    \/ Has(i, "CONTINUE") /\ Fall(f, i.next)

\* Mutant: a delay slot is executed with a taken branch only.
ExecInsn_DelayIfTaken ==
    /\ ctl = "guest"
    /\ LET f == funcs[cur]
           i == conf.prog[at]
       IN \/ eff' = <<at>> \o Delay(i) /\ Taken(f, i)
          \/ Has(i, "CONDITIONAL") /\ eff' = <<>> /\ Goto(f, i.next)
    /\ UNCHANGED <<tvars, funcs, jit, back, cur, orig_pc, tagged>>

\* translate_instr(): a taken instruction is executed with its delay slot, of
\* one that is not taken only the delay slot is.
ExecInsn ==
    /\ ctl = "guest"
    /\ LET f == funcs[cur]
           i == conf.prog[at]
       IN \/ eff' = <<at>> \o Delay(i) /\ Taken(f, i)
          \/ Has(i, "CONDITIONAL") /\ eff' = Delay(i) /\ Goto(f, i.next)
    /\ UNCHANGED <<tvars, funcs, jit, back, cur, orig_pc, tagged>>

\* Mutant: cpu_run() returns whatever a function returns.
ReturnToClient_Always ==
    /\ ctl = "returned"
    /\ ctl' = "client"
    /\ cur' = 0
    /\ orig_pc' = NoPc
    /\ eff' = <<>>
    /\ UNCHANGED <<tvars, PC, funcs, jit, back, at, ret, tagged>>

ReturnToClient ==
    /\ ctl = "returned"
    /\ ret # "FUNCNOTFOUND" \/ PC \notin Code
    /\ ctl' = "client"
    /\ cur' = 0
    /\ orig_pc' = NoPc
    /\ eff' = <<>>
    /\ UNCHANGED <<tvars, PC, funcs, jit, back, at, ret, tagged>>

\* The guest moved: look its new address up from the first function on.
ScanAgain ==
    /\ ctl = "returned"
    /\ ret = "FUNCNOTFOUND" /\ PC \in Code
    /\ PC # orig_pc
    /\ ctl' = "top"
    /\ cur' = 0
    /\ orig_pc' = NoPc
    /\ UNCHANGED <<tvars, PC, funcs, jit, back, at, ret, eff, tagged>>

NextFunction ==
    /\ ctl = "returned"
    /\ ret = "FUNCNOTFOUND" /\ PC \in Code
    /\ PC = orig_pc
    /\ ctl' = "scan"
    /\ cur' = cur + 1
    /\ UNCHANGED <<tvars, PC, funcs, jit, back, orig_pc, at, ret, eff, tagged>>

\* No function has the address: cpu_tag(pc), then translate and try again.
Miss ==
    /\ ctl = "scan"
    /\ cur > Len(funcs)
    /\ TagStart(PC)
    /\ ctl' = "tag"
    /\ back' = "top"
    /\ cur' = 0
    /\ orig_pc' = NoPc
    /\ UNCHANGED <<PC, funcs, jit, at, ret, eff, tagged>>

Engine == Tag \/ TagDone \/ RunTranslate \/ StartScan \/ CallFunction \/ ExecInsn
          \/ ReturnToClient \/ ScanAgain \/ NextFunction \/ Miss

Init ==
    /\ TagInit
    /\ PC \in Addr
    /\ funcs = <<>>
    /\ jit = {}
    /\ ctl = "client"
    /\ back = "client"
    /\ cur = 0
    /\ orig_pc = NoPc
    /\ at = NoPc
    /\ ret = "NOERR"
    /\ eff = <<>>
    /\ tagged = 0

Next == Client \/ Engine

Spec == Init /\ [][Next]_vars /\ WF_vars(Engine)

--------------------------------------------------------------------------------
(***************************************************************************)
(* What must hold however tagging, translation and lookups are interleaved *)
(* with what the guest and the client do.                                  *)
(***************************************************************************)
\* A basic block is translated into one function only, and a tag says
\* TRANSLATED exactly when some function has the block (translate_all.cpp:27:
\* "Do not create the basic block if it is already present in some other
\* function").
TranslatedOnce ==
    \A j, k \in 1..Len(funcs) :
        j # k => funcs[j].labels \cap funcs[k].labels = {}

TranslatedIsPresent ==
    \A a \in Code :
        "TRANSLATED" \in tag[a] => \E k \in 1..Len(funcs) : a \in funcs[k].labels

\* The JIT takes every module it is given (interface.cpp:375, assert(!err)).
SymbolAccepted == ctl # "duplicate_symbol"

\* When no translation is due, every address that needs a basic block has one,
\* so a function that is left for known code is left for code some function has
\* (interface.cpp:385-394, translate_all.cpp:26-33).
KnownCodeIsTranslated ==
    ~tags_dirty /\ ctl \in {"client", "top", "scan", "guest", "returned"} =>
        \A a \in StartSet : \E k \in 1..Len(funcs) : a \in funcs[k].labels

\* cpu_run() misses an address at most once: the cpu_tag() and cpu_translate() it
\* answers a miss with give the address a basic block that later scans find, so
\* it never tags and translates the same address over and over; and outside the
\* code area it only misses while there is no function (interface.cpp:423-447).
MissedOnce ==
    ctl = "scan" /\ cur > Len(funcs) /\ ~conf.singlestep =>
        IF PC \in Code THEN "ENTRY" \notin tag[PC] ELSE funcs = <<>>

\* The arrays of 1024 entries are indexed by a counter nothing bounds; what
\* bounds it is that a function translated for a miss has a basic block no other
\* one has, and that other functions are asked for by a cpu_tag() of the client.
FewFunctions ==
    Len(funcs) <= tagged + Cardinality(UNION {funcs[k].labels : k \in 1..Len(funcs)}) + 1

\* cpu_run() always gets back to the guest or to the client.
Progress == ctl \notin {"client", "guest"} ~> ctl \in {"client", "guest"}

\* libcpu is the guest machine: every step of a translated function is a step of
\* the guest, everything else leaves the guest alone, and cpu_run() returns for
\* the reason it gives.
InCpuRun ==
    IF ctl \in {"tag", "duplicate_symbol", "array_overflow"} THEN back = "top"
    ELSE ctl # "client"

Machine == INSTANCE GuestMachine WITH
    pc     <- IF ctl = "guest" THEN at ELSE PC,
    phase  <- IF ~InCpuRun THEN "client"
              ELSE IF ctl = "returned" /\ ret = "TRAP" THEN "trapped"
              ELSE IF ctl = "returned" /\ ret = "SINGLESTEP" THEN "stepped"
              ELSE "running",
    result <- IF InCpuRun THEN "NOERR" ELSE ret

Implements == Machine!Spec
================================================================================
