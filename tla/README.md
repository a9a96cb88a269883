# libcpu in TLA+

libcpu runs guest machine code by translating it to LLVM IR and compiling that.
Before it can translate, it must find the code (tagging); while the guest runs it
must notice that it does not have the code the guest wants, and go back to tagging
and translating. This directory models that machinery, the code it generates, the
frontends that decode and translate the instructions of seven guest architectures,
the interactive debugger and the register analysis of the description compiler upcl.
TLC checks the models on small instances; TLAPS proves what matters most for every
instance. Paths below are relative to the repository.

## Inventory

| part | state | operations | talks to | status |
|---|---|---|---|---|
| tagging, `libcpu/tag.cpp` | `cpu->tag[]`, `tags_dirty`, the native stack of `tag_recursive()` | `tag_start`, `tag_recursive`, `or_tag`, `get_tag`, `is_code` | the frontend's `tag_instr`; read by the translators | modelled, proved |
| entry cache, `libcpu/tag.cpp` | a file per guest code in `/tmp`, `cpu->file_entries` | read on the first tag, append on every tag | other programs that run the same guest | modelled, proved |
| translators, `translate_all.cpp`, `translate_singlestep.cpp`, `translate_singlestep_bb.cpp`, `translate.cpp`, `basicblock.cpp` | `func_bb`, `TAG_TRANSLATED`, one LLVM function | `cpu_translate_all`, `cpu_translate_singlestep`, `cpu_translate_singlestep_bb`, `translate_instr`, `create_basicblock`, `lookup_basicblock` | tags, PC, frontend | modelled, proved |
| run loop, `interface.cpp` | `func[]`, `fp[]`, `ctx[]`, `mod[]`, `functions`, the JIT | `cpu_run`, `cpu_tag`, `cpu_translate`, `cpu_flush` | everything above; the client | modelled, proved |
| set-up, `interface.cpp` | the flags of `cpu_t` | setters, `cpu_new`, `cpu_free`, statistics | the client | partly: initial values and flags |
| function frame, `function.cpp` | register copies, `exit_code` | prologue, `ret` and `trap` blocks, spills | frontends | modelled, proved |
| frontend helpers, `frontend.cpp`, `fp.cpp` | none | IR for registers, flags, memory, floating point | frontends | modelled, proved |
| debugger, `idbg.cpp` | saved flags and registers, last command | command loop over `cpu_run`/`cpu_flush` | the client, the setters | modelled, proved |
| register structs, `arch/*/*_arch.cpp`, `*_types.h` | the register file in memory | `init`, `get_pc`, `get_reg` | generated code, clients | modelled, proved |
| 6502, Fapra | none at run time | `tag_instr`, `translate_cond`, `translate_instr`, disassembly | tagging, translators | modelled, proved |
| x86, M68K | none at run time | the same, but x86 translates little and M68K nothing | the same | modelled |
| MIPS, M88K, ARM | none at run time | the same | the same | partly, see "Not modelled"; proved |
| upcl, registers: `upcl/c`, `upcl/sema` | the dependencies of registers | analysis, resolution, definitions | the rest of upcl | modelled |
| upcl, the rest | syntax trees | parsing, typing, printing of C++ | not used at run time | not modelled |
| optimizer, disassembler front, SHA-1 | none | a list of passes, a layout, a hash | | not modelled |
| clients, `test/*` | guest memory, system call bridges, loaders | drive the library | the public interface | as the client of `Engine`, `Debugger` and `RegisterFile` |

The library is single-threaded. What makes it hard is not threads but three actors
that take turns: the *client* (sets PC and flags, tags, translates, flushes, runs),
the *engine* (tags, translates, scans functions), and the *guest* (runs inside
translated functions and leaves them at addresses it alone knows). Between any two
turns the tags, the functions and the block map may describe different moments: a
function keeps the basic blocks and the fall-through decisions of the tags it was
translated from, and works on copies of the client's registers. Only the entry cache
is shared by concurrent programs and outlives a crash. The frontends are hard for
another reason: each architecture decodes an instruction three times, to tag it, to
translate it and to display it, with nothing that keeps the three in step.

What makes each part correct:

- tagging: finds exactly the reachable code, whatever the order of entries; every
  address a jump, call, return, skipped condition or returning trap may continue at
  carries a label bit; recursion is bounded; it ends.
- entry cache: an entry once stored is an entry of every later run; nothing else is.
- translation: one basic block per label over all functions, none missing when no
  translation is due; blocks are well formed; leaving a function for an address means
  that address next.
- run loop: what is executed is what the guest machine would execute, one
  instruction after the other with its delay slot; the return code is true; a missing
  address is translated once; `cpu_run` always gets back to the guest or the client.
- function frame and helpers: guest and client see one register file; memory has the
  guest's byte order whatever the host's is; the two descriptions of a register file
  name the same bytes.
- debugger: the flags it changes are restored, a step is one guest instruction.
- frontends: what `tag_instr` answers agrees with what `translate_instr` generates,
  what is generated agrees with the comments and the interpreter of the repository, and
  what is displayed agrees with what is executed.
- upcl: the definitions do not depend on the order of declarations, say what was declared,
  and give no register two storages.

`PROJECT.json` lists the hazards one by one with their lines and the properties that
would catch each.

## Modules

| module | what it is |
|---|---|
| `GuestProgram` | the guest as libcpu sees it: what `tag_instr` answers for an address, the client's settings, the outcomes of a guest step |
| `GuestMachine` | abstract specification: what `cpu_run` promises a client, with no tags and no functions |
| `Tagging` | `tag.cpp`: the search, one action per turn of its loop |
| `Engine` | `interface.cpp` and the translators, over `Tagging`; implements `GuestMachine` |
| `Translation` | the basic blocks the three translators build, and their execution |
| `EntryCache` | the cache file between programs that stop and restart |
| `Debugger` | `idbg.cpp` under the loop of `test/m88k/run88.cpp` |
| `Frontend`, `TypedIR` | the macros and helpers of `frontend.h`/`frontend.cpp`, without and with LLVM's types |
| `Registers` | abstract specification: one set of registers for a guest and its client |
| `RegisterFile` | `function.cpp`: copies, flags, spills and exits; implements `Registers` |
| `MemoryAccess`, `FpRegisters`, `RegisterLayout` | memory in both byte orders; synthesized 80 bit registers; registers in memory byte by byte |
| `Mos6502` | the 6502: tagging, conditions and every instruction, over any sequence of opcodes |
| `Mips`, `MipsDisasm` | MIPS; `Mips` also has the interpreter of `test/mips/interpreter` to compare with |
| `M88kDecode`, `M88k`, `M88kDisasm` | the opcode tables, translation and display of the M88000 |
| `Arm`, `ArmDisasm` | translation of the ARM and the table of its disassembler |
| `X86Decode`, `X86Disasm` | the decoder's tables and tagging; both disassemblers and the translator's operands |
| `Fapra`, `M68k` | these two, the latter a length and a display only |
| `UpclTracker`, `UpclRegisters` | upcl's dependencies of registers, and the definitions built from them |
| `EngineProofs` | theorems about `Tagging` and `Engine`, and their proofs |
| `TranslationProofs`, `EntryCacheProofs`, `DebuggerProofs`, `RegisterLayoutProofs` | the same for one module each |
| `FrontendLemmas` | lemmas on numbers, their bits and the operators of `Frontend`, for every width |
| `FrontendProofs` | theorems about `RegisterFile`, and about the composition `MCFrontend` with `MemoryAccess`, `FpRegisters` and `RegisterLayout` |
| `GuestsProofs` | theorems about the composition `MCGuests`: 6502, MIPS, ARM, Fapra, M88000 |
| `MC*` | small instances for TLC; `MCFrontend` and `MCGuests` compose several modules into one state machine that first chooses a part |

`Engine` EXTENDS `Tagging` EXTENDS `GuestProgram`. `MCFrontend` has an instance of
`RegisterLayoutProofs`, so that `FrontendProofs`, which EXTENDS it, can use its lemmas. The
frontends EXTEND `Frontend` or `TypedIR`; `MCGuests` has an instance of each but the 6502, which
it EXTENDS. Recursion is written as functions and folds, but for `UpclRegisters`, which has no
theorems.

### GuestProgram

An instruction is the record `Insn`: `tag` (a set of bits, only the combinations
`tag.h:3-14` allows), `new` (`new_pc`), `next` (`next_pc`), `slot` (the instruction
after this one), `skip` (the one after `next`) and `trap` (where a trap leaves PC,
which frontends decide differently: behind it on the m88k, at it on the 6502).
Addresses are abstract; `Code` is the code area, `Mem` what is backed by RAM, `NoPc`
is `NEW_PC_NONE`. A `Config` is a guest program with what a client settles before the
first `cpu_tag()`: `limited` (`CPU_CODEGEN_TAG_LIMIT`), `hint` (`CPU_HINT_TRAP_*`),
`singlestep` and the entries the cache file holds. `AddrAssumption` is the sentence of
`tag.h:39-40` about `NEW_PC_NONE`.

### Tagging

`tag_recursive()` is a loop that calls itself. Its call stack is `stack`, one frame
`[pc, level]` per call that runs or is still to be made, the running one first.
`TagReturn` is a return at the top of the loop (`tag.cpp:123-131`), `TagInsn` one turn
(`133-188`): `or_tags` makes every `or_tag()` of the turn, `Work` replaces the frame by
the calls the turn makes in the code's order and the frame of the next turn. That
the bits of a turn are set together although the code sets some between two
recursive calls is sound because the search reads `TAG_CODE` only, which only the
instruction's own turn sets, and because bits are only ever added. `TagStart` is
`tag_start()` with the `init_tagging()` it may call; `entries` is history.

### Engine

One variable `ctl` says where the program is; `Client` is the client between two
calls, `Engine` everything else.

| action | code |
|---|---|
| `SetPC`, `CpuTagCall`, `CpuTranslate`, `CpuFlush`, `CpuRun` | the client's calls (`interface.cpp:316-460`, `test/*/main.cpp`) |
| `Tag`, `TagDone` | a turn of the search, and its end |
| `RunTranslate` | `cpu_translate()` at the top of `cpu_run` (418-421) |
| `StartScan`, `CallFunction`, `NextFunction`, `ScanAgain`, `Miss` | the loop over functions (423-447) |
| `ExecInsn` | one guest instruction inside a function, as `translate_instr()` lays it out |
| `ReturnToClient` | 434-437 |

A function is modelled by what decides where execution inside it may go: `labels` (the
blocks it has), `starts` and `code` (the tags when it was translated, which decide
whether the following instruction is in the same block), `entry` (single step) and
`miss`, the code it returns when it is left. `Goto` is `lookup_basicblock()` and the
dispatch switch, which agree; `Fall` is the end of the do-while loop of
`cpu_translate_all()`. Two stops are modelled as states: `duplicate_symbol`, where
`assert(!err)` fails because the JIT has a definition for the function's name (LLVM's
ORC rejects a second strong definition in a dylib; this is taken from LLVM, not from
the repository), and `array_overflow`, the first write past `func[]`.

A single-stepping client runs a function only at the address it was translated for;
that is a precondition of the interface the clients keep by flushing after each step.

### GuestMachine and the refinement

`GuestMachine` has the guest's PC, a phase and the effects of the last guest step.
`Implements` maps PC to the register file's PC, or to the instruction about to be
executed while inside a function; all of tagging, translation and scanning are
stuttering steps. So it shows that no combination of older and newer functions ever
makes the guest skip or repeat an instruction or a delay slot, and that `cpu_run`
returns `FUNCNOTFOUND` only outside the code area, `TRAP` only behind a trap and
`SINGLESTEP` only after exactly one step.

### EntryCache

Programs in `Procs` read the file entry by entry, append, search and stop at any
step; stopping loses everything but the file. An entry is what `fputc` keeps of an
address (`Encode`) and is read back with the sign of an `int` (`Decode`); widths are
`AddrBits` and `IntBits`.

### Translation

`Engine` abstracts a function to the addresses it can be entered at. `Translation` builds
it: blocks of `instr`, `cond`, `store`, `br`, `switch` and `return`, in the order
`translate_instr()` and the three translators insert them, then executes them against a
guest that counts its own program counter (`gpc`) and the effects it is owed (`owed`).
`elsewhere` are labels earlier functions have. `cpu_translate_singlestep_bb()` leaves blocks
without a terminator: the last one of a line that goes on where it has no block
(`translate_singlestep_bb.cpp:54`), and the one in which a conditional instruction falls through
to an instruction that does not start a block (`:50`). `Lost` models running into such an end, and
`GuestOrder` exempts a lost execution only at one of these two (`Unlinked`), where all that
was due has been done. A block of that translator that would go on at the entry goes
back to the loop, but a return does not (`LoopTarget`, `translate_singlestep_bb.cpp:34-36`).

What was tagged is `Reached`, the least set of instructions that holds the entries and is
closed: the set that `Tagging` is proved to find (`Exactness`). `ForwardAssumption` says that
going from an instruction to its `next` never comes back, which holds because every
frontend's `next_pc` is `pc` plus the length of the instruction. The translators' loops
end for that reason, and so are the functions of the model that stand for them defined.

### RegisterFile and Registers

`Enter` copies the file into `local` and decodes the first extra register into
`flag`; `Ret` and `Trap` spill; `DirectReturn` is an instruction that returns without the
`ret` block and so without the spill (`6502_translate.cpp:100`). The refinement to
`Registers` says that none of this is visible. Two things break it and are its
hypotheses: direct returns, allowed for as a step of their own, and a PC that is one of the
registers (`PcIndex`), which is written in place while its copy is not.

### Debugger

`Prompt` is one command, `Run88` one turn of the client's loop; `cpu_run()` is a set of
outcomes (`Lookups`, `Executions`, `Results`) because `Engine` has its inside. Whether the
JIT refuses a name twice is nondeterministic (`MayReject`), `Abort` is the assertion that then
fails. `leaked` records a session that ended without `idbg_done()`. `StepsOne` lets a step run
more than one instruction only after `B` has announced block steps; see the section on the code as it is.

### FpRegisters

Floating point registers are written by the client, and by generated code where
`arch_put_fp_reg()` accepts what `arch_store_fp_reg()` gives it (`Accepts`); a store that an
assertion refuses ends the process (`aborted`), as in every build of the repository
(`CMakeLists.txt:10`). On a host without 80 bit floats every store of generated code ends
so, and the words of a register come from the client.

### Frontends

Each module has the fields of an instruction word, the tables, `tag_instr` as an
operator that gives the tag and the addresses, and, where there is a translation, what the
generated code computes; steps are composed as `translate_singlestep.cpp` does it, with the
condition before and the delay slot after it. `TypedIR` carries LLVM's type with every
value: an operation LLVM refuses is `Mistyped`, where the process aborts, and poison is
a value of its own. Widths are constants where a run cannot afford the real ones. What an instance is a model of is
an operator of its module (`Mips!MipsAssumed`, `M88k!BytesAssumed`, `Arm!IsInstruction`,
`Fapra!IsState` and the like); `MCGuests` assumes it of its constants, and so do the proofs.

### UpclTracker and UpclRegisters

`Declare` analyses one register declaration: it creates registers, fields, placeholders for
names that come later, and dependencies. `Resolve` turns placeholders into registers and
refuses loops; `Analyze` builds the definitions, every failed assertion included.
`Meant` is the reference: what the declarations say on their own, read as a set. A field
that is copied into (`<- r`) has storage of its own there, as `sema_analyzer.cpp:443-450` says; that the
code gives its register no definition is the exception `Undefined`. The exception
`Repeated` are parts of a register without storage that are defined at the top and once more
inside another register.

## Runs

| run | what it shows | bounds |
|---|---|---|
| `tagging` | `TaggingExact`, `LabelsKnown`, `DepthBounded`, `StraightLineTagged`, `SearchEnds` | 5 x 5 x 4 x 4 programs of four code addresses with every kind of instruction, self-loops, mutual recursion, targets in delay slots and lines that leave the code; depth limit 2; every trap hint; with and without a cache; any sequence of entries |
| `engine` | the refinement of `GuestMachine`, blocks translated once and all of them, no second miss, few functions, `Progress`, deadlock freedom | ten programs plus a trap program with each hint, limited or not, single-stepping or not; one `cpu_tag` of the client, any number of everything else; a table of 8 functions is never filled |
| `engine_flush` | the refinement, with flushes and a full table | table of 2, ends in the two modelled stops |
| `translation` | blocks are well formed, do what the guest does in its order, leave with the guest's PC, and only for addresses they do not have | the same programs, three translators, one label that another function has |
| `frontend` | one register file for guest and client; memory in guest order; floating point values kept; registers in place | two registers and one extra register of 3 bits with two flags; words of four 2-bit bytes, three stores, all four byte orders; guests with floats of 64, 80 and 128 bits on every host, four registers, exponents at every boundary of the compression; four layouts with at most 8 of each register |
| `guests` | see below | see below |
| `debugger` | flags restored, what a trap leaked stays, steps of one instruction, no double erase | any sequence of commands, three `cpu_run()` calls |
| `entry_cache` | no entry lost or invented | two programs, three code addresses, three entries in the file |
| `upcl` | definitions mean what was declared, one storage each, with the exceptions `Undefined` and `Repeated` | every sequence of three out of 35 declarations: plain, repeated, with fields, aliases, copies, bidirectional bindings, pseudo registers; every sequence of the four or five of a family in `MCLonger`: registers whose parts have parts |
| `flush_stale_tags`, `flush_duplicate_symbol`, `entry_cache_high_code` | violations, see Findings | as above |

Four addresses are enough for what the properties distinguish: a branch source, its
delay slot, its fall-through and its target can be different or coincide, and two
functions can meet in one straight line. A limit of 2 cuts both a first and a nested
call. `engine` lets the client tag once on its own because that already produces
functions translated before and after each miss; the misses themselves are unbounded.
A third declaration is what it takes for a name to be used, declared and used again, and a
fourth or fifth for a register inside a register inside another.
`CHECK_DEADLOCK FALSE` stands where a bound ends a behaviour, a modelled stop does
(`engine_flush`, `debugger`), or the model is of one instruction and not of a program that goes on.

### The run guests

A behaviour is one architecture. Its properties are conjunctions, one part for each:

| property | part | bounds |
|---|---|---|
| `ArithmeticOf6502`, `ReturnsOf6502` | each opcode against a reference definition of its arithmetic; JSR, RTS and the stack around its wrap | bytes of 4 bits; all opcodes but CLI, SEI, CLD, SED, whose flags the small layout has not; five steps; calls start with flags where N is V and Z is C |
| `InterpretersAgree` | MIPS in 32 and 64 bit mode does what `test/mips/interpreter` does, branches and their slots included, where LLVM accepts the types; the three known differences are `Mips!Disputed` | widths 1, 2, 4, 8; values around every carry and sign |
| `GuestsAsCommented` | M88K instructions, branch codes and returns; ARM conditions and comparisons; Fapra's calls: as the comments beside the code say | M88K words of 8 bits, ARM immediates of 2 bits rotated by 0 to 6, Fapra words of 8 bits and three steps |
| `TranslatedAsTagged` | M88K, ARM, Fapra, M68K, x86: an instruction that is tagged to continue continues, and one that is not does not | x86: prefixes x all opcodes x chosen ModRM and SIB bytes; M68K: all 65536 opcodes with chosen extension words |
| `DisassembledAsTranslated` | ARM, MIPS, M88K, x86, M68K: what is displayed is the instruction that is tagged and translated, with its length. For ARM and MIPS the displayed name stands for its meaning, the ARM's arithmetic, the MIPS interpreter's instruction, and the registers after the instruction are compared with it; but for ARM's SUB and moves to r15 (`ArmDisasm!FallsThrough`), MIPS's J and REGIMM, `Disputed` and what LLVM refuses | the same; x86 words are only displayed |

`frontend` composes the same way: `RegistersInPlace` are `RegistersShared`,
`GuestReadsClient`, `PcKept` and `SpillsInside` of `RegisterLayout`; `FloatsKept` are
`KeptValues` and `CastsToWidest`; `MemoryInGuestOrder` are
`LoadsInGuestOrder` and `StoresInGuestStep`. Type invariants that no run names are
documentation of their module.

## Fairness

`TagSpec` and `Spec` of `Engine` assume weak fairness of the search, resp. of `Engine` as a
whole: code between two calls of a single-threaded program keeps running. Nothing is
assumed of the client. `Progress` says that the engine gets to the guest or to the
client, not that a guest ends. `EntryCache` assumes no fairness: that a program gets to the end of
the file is not claimed, because others may append as fast as it reads.
The other specifications state no fairness and are checked for safety only.

## Proofs

TLC checks a property before it is proved; what is proved holds for every value of the
constants. The proofs rest on the named assumptions of the modules (`AddrAssumption`,
`ConfigAssumption`, `LimitAssumption`, `RegistersAssumption`, `LayoutAssumption`,
`DebuggerAssumption`, `MemoryAssumption`, `MipsAssumption`, `M88kAssumption` and the others),
which TLC evaluates in the runs, and on the hypotheses stated in the theorems.

Where a state may be the empty sequence (`did = <<>>`, nothing executed) the proofs keep that
in an operator of its own (`Idle`, `MipsIdle`). The SMT encoding of the empty sequence takes
every function for a sequence, which the register files of the guests, with indices from 0,
are not. No leaf rests on that: each was solved again with the axioms about sequences
restricted to sequences.

`EngineProofs`, first about tagging, for every address space, program, limit and cache:

- `TypeCorrect`: `TagSpec => []TagTypeOK`. The work is in the stack: `WorkOfInsn` (the
  frames a turn pushes are frames) and `StartFrames`.
- `Exactness`: `TagSpec => []TaggingExact`. At the end of a search, the tagged code is the
  least closed set, but in between it is neither closed nor all found. The inductive
  invariant `SearchInv` says what is true all along: every tagged address's known
  successors are tagged or pending on the stack (`Complete`, so at the end the set is
  closed), and every tagged or pending address belongs to every closed set that holds
  the entries (`Sound`, so nothing else is tagged). `TurnTagsOne` says what a turn does
  to the set, `SearchStep` that the invariant is kept by both actions and by a new search.
- `Labels`: `TagSpec => []LabelsKnown`. The property is inductive: bits are never taken
  away (`BitsStay`), and the turn that tags an instruction makes its labels (`TurnLabels`).
- `Depth`: `TagSpec => []DepthBounded`. `DepthInv` states the bound for every frame and that
  the tagged set is finite; a turn that pushes a level tags one more instruction
  (`WorkFrames`, `TurnTagsOne`), and a frame at the limit never makes a turn.
- `StraightLine`: `TagSpec => []StraightLineTagged`. `LineInv` is `Complete` weakened for a
  limited search: what follows a tagged instruction is tagged or in a frame that is not
  at the limit (`Live`). A turn continues on its own level, which is not the limit, so
  only the calls it makes can be cut.

Then about the engine, which builds on these:

- `EngineImplements`: `Spec => Implements`, the refinement of `GuestMachine`, flushed or not.
  What execution may do inside a function is fixed when it is translated: `FuncOK` relates
  its labels, code and exit code to the mode. `AtPc` says that the loop of `cpu_run()` calls a
  function only with the PC the guest is at; it is the reason that lines of different
  functions can overlap. One lemma per side (`ClientRefines`, `ExecRefines`,
  `EngineRefines`) shows a step of the engine to be a guest step or a stutter.
- `BlocksTranslatedOnce`: `MarkedOnce` adds to `TranslatedOnce` that every label of a function
  has `TAG_TRANSLATED`; new functions take labels without the bit (`NewLabels`). A flush
  forgets functions, not bits, so it cannot hurt.
- `KnownTranslated`, `MissesOnce`, `FunctionsBounded` need `~ClientFlushes`, and the finding
  `flush_stale_tags` shows that the first does. `KnownInv` relates the dirty flag to the labels not
  yet translated; `ScanInv` says that the functions before `cur` do not have the PC, and
  `EntryInv` that an address with the entry's bit was an entry and a search tags it; `FewInv` counts functions against
  the client's calls and the blocks, and needs a finite code area.

`TranslationProofs`, for every guest program and whatever earlier functions have, under
`ForwardAssumption`:

- `TypeCorrect`, `BlocksWellFormed` (`WellFormed`), `OrderKept` (`GuestOrder`), `ReturnsThere`
  (`ReturnsWhereGuestIs`), `LeavesWhenUnknown` (`LeavesOnlyWhenUnknown`) and `StepsOnlyOnce`
  (`StepsOnce`): `Spec => []...` for each, and the last an action property.
- None of the properties is inductive: that the program counter is right when a function
  returns depends on every instruction since it was entered. `Invariant` says of the
  middle of a function that what is left of the block, from the position of execution on,
  is `Ready` for the guest: it starts an instruction of the line at the guest's own program
  counter with nothing owed (`OnLine`), or has a condition tested (`Tested`), or is in a delay slot (`InSlot`), or
  branches, dispatches, returns or leaves with the right program counter (`Branching`,
  `Switching`, `Returning`, `Leaving`), or is one of the two unlinked ends of a block (`AtEnd`,
  `Unlinked`); what runs past one is lost there and nowhere else. One lemma for each action
  (`RunKeeps` to `LostKeeps`) shows that the step of the host leads from one such form to
  another while the guest makes the step that belongs to it.
- The blocks come from recursive functions over the code. `Recursion` proves from
  `ForwardAssumption`, by choosing a last instruction of a set, that such a function exists;
  `Unfolding` is the equation that it satisfies, and `LineShape` what every line looks
  like: blocks with one terminator, named after their addresses, linked to blocks of
  the function. `Rest`, `To` and `Then` are the common form of the three translators, so that the
  lemmas on execution are stated once for all of them.
- `Invariant` speaks about all functions and positions, with unbounded quantifiers, and so
  TLC cannot evaluate it; the properties themselves it checks in `translation`.

`EntryCacheProofs`: `Remembered` and `OnlyEntries` under `SignClear`, that an address of the code
comes back from four bytes and an `int` as it was and is not `NoPc`: for the code's widths,
that code lies below 2^31. `FileIsStored` says the file holds what was stored; `Reading`,
that a program has started a search at every entry before its position in the file.

`FrontendLemmas` has no state. The provers know the powers of given numbers only, and nothing
of bits, so it starts from what a power of two is: 2^n counts the subsets of 1..n (`PowerCounts`), by
which it doubles (`PowersOfTwo`), and sums of exponents are products (`PowerSum`). Induction over
numbers is by a least counterexample (`Least`, `LeastMissed`). A number below 2^w is the sum of
its bits (`OfBitsSum`, `SameBits`), which gives AND, OR, XOR and the complement bit by bit
(`LogicBits`, `ComBits`), sign extension (`ExtendedBits`, `LogicExtended`) and shifts (`ShiftedLeft`,
`ShiftedRight`, `ShiftedSigned`), each for every width. `FlagsKept` is its theorem: flags with bits of their own
survive `arch_flags_encode()` and `arch_flags_decode()`.

`FrontendProofs`: `ControlKeepsRegisters` is the refinement of `Registers`, for every number,
width and layout of registers, with a PC of its own (`PcIndex = -1`); `GuestWritesArrive`,
`FileAllOrNothing` and `TypeCorrect` have no hypotheses. `SpillKeeps` is `FlagsKept` for the
register that holds the flags. Three further theorems are about the composition, with one
invariant for each part, under `MemoryAssumption`, `FloatingAssumption` and `PlacesAssumption`:

- `MemoryOrdered` (`MemoryInGuestOrder`), for any amount of memory and bytes of any width; TLC,
  whose integers are too small for words of 32 bits, checks two bits. The invariant is the
  type of memory alone. The work is arithmetic: `JoinedParts` says what a power of the base
  leaves of a number of four bytes, so that swapping a word reverses its bytes
  (`DigitOfJoined`, `WordStored`) and merging replaces one or two of them (`MergedByte`).
- `FloatsStay` (`FloatsKept`), for any number of registers, any exponents of doubles, guests of 64,
  80 and 128 bits and all hosts: what generated code loads is what the client or, where no
  assertion ends the process, generated code put there last. From two words a double
  comes back if its exponent is zero or at least 768 (`CompressesBack`). The
  invariant adds what is between: each cell or pair of cells is empty or what the double last
  written was split into, also for the neighbours of a register that is written. The arithmetic
  of the exponents is by the values of their upper bits; the model has it as
  sums of bits. `CastsWide` is `CastsToWidest`, for every type a host has.
- `PlacesShared` (`RegistersInPlace`), from the module below.

`RegisterLayoutProofs`, for any number of registers:

- `MatchingSuffices`: `RegistersShared`, `GuestReadsClient`, `PcKept` and `SpillsInside` hold for every
  architecture whose C structure begins with the members of `register_layout`, of the same
  sizes, and has the PC behind them (`Matches`). `LayoutsShared` is the same for the 6502, M68K,
  M88K and Fapra, whose structures are shown to be such (`AllFit`). ARM, MIPS and x86 are not,
  as the section on the code as it is says, and no run or theorem claims it of them.
- Offsets are sums of sizes over a table. `EndsAddUp` and the lemmas after it prove what they
  are for tables of any length by a least counterexample: `Least` gives a smallest element
  of a set of numbers, so that no induction theorem with an operator parameter is needed.
  `SpansApart` says that two members share no byte, `SameSpans` that equal tables give equal places.
- `LayoutInvariant` relates the client's bytes, the copies of generated code and what was last
  written to each register by either side, between calls and during one.

`DebuggerProofs`: `FlagsBack`, `LeakRemains`, `OneInstruction` and `NoDoubleErase` for every guest, byte
order and sequence of commands. What carries them is `Clean`: until `run88` detaches, no
function outlives a step, so a step always translates the function it runs
(`OwnFunction`). `Single` says of a step that it ran its own instruction alone, block steps
announced or not.

`GuestsProofs` is about the composition `MCGuests`, one invariant for each architecture, under the
assumptions of that module: any code, registers and memory of the right types.

- `ExactArithmetic` (`ArithmeticOf6502`), `CallsComeBack` (`ReturnsOf6502`) and `TypesOf6502`, for bytes of
  any width from two bits. The first is a step property: a sum and its carry are the exact sum, a shift
  and its carry the exact shift, for every way to address the operand. The invariant of the
  second (`Inv6502`) adds to the types that the two bytes of every call still on the stack are its
  return address less one.
- `InterpretersEqual` (`InterpretersAgree`): MIPS, with words of any width that doubles from a byte to a double
  word, in both modes, and any program of decodable instructions. The invariant `MipsInv` is
  that registers keep their type and that the last step agreed; nothing about earlier steps is needed, as
  a step compares the translated instruction with the interpreter from the same registers. The work
  is by instruction: the typed operations of LLVM are shown to be the interpreter's arithmetic on numbers
  with a sign (`StraightAgrees`), and a branch decides by the registers before its
  delay slot, which then runs on what the branch left (`BranchAgrees`). The known differences (`Mips!Disputed`)
  are exempt, as in the run.
- `GuestsKeepComments` (`GuestsAsCommented`), three architectures:
  - ARM (`ArmInv`), for words of any width that the immediates fit: the sixteen words of the table in the
    comment are read bit by bit and compared with `translate_cond()` for every value of the flags; after CMP the
    conditions are the relations they are named for, where C is signed as the code has it.
  - Fapra (`FapraInv`), for words and immediates of any even width: a call goes to the register that the
    two instructions before it loaded. This takes three steps, so the invariant says what
    the register holds after one load and after two (`AfterOne`, `AfterTwo`).
  - M88000 (`M88kInv`), for words of four bytes of any width, one instruction with its slot from any state.
    Bit fields are compared bit by bit (`FieldsExact`), `cmp` by the ten relations of its result (`ComparesExactly`),
    sums and differences with the carry out as one exact number (`CarryExact`), double words and
    exchanges by the bytes in memory (`FourRead`, `WrittenRead`), the sixteen codes of `bcnd` one by one, and return
    addresses with what `arch_m88k_fix_return_pc()` adds. A shift too far has no result in LLVM
    (`Poison`): the register is any value then, and no comment is claimed of the field
    (`FieldDefined`).

Only model-checked:

- liveness (`SearchEnds`, `Progress`), which is out of the prover's reach;
- upcl (`DefinedAsDeclared`, `OneStorage`), whose definitions are folds and RECURSIVE operators over
  declarations, so that a proof is an induction over data;
- `TranslatedAsTagged` and `DisassembledAsTranslated`, which compare tables with tables, opcode by opcode: TLC
  goes through all of them, and there is little that a theorem would generalise.

## Findings

- `flush_stale_tags`: `cpu_flush()` (`interface.cpp:451-460`) leaves `TAG_TRANSLATED` set.
- `flush_duplicate_symbol`: after `cpu_flush()` a function is named `0` again.
- `entry_cache_high_code`: entries from 2^31 on come back sign-extended
  (`tag.cpp:69`).

## Where the code is modelled as it is

The models follow the code also where it differs from its comments, from the manuals of
a CPU or from what seems meant. The properties name these cases as exceptions. A reader of
the models who wonders at a line will find it here.

- Library: `translate_singlestep_bb.cpp:54` never links the last block, nor `:50` one whose conditional
  instruction falls through in the middle of a block. A program reads the entry cache until
  EOF (`tag.cpp:66`), which it reaches only when the others stop appending. `RAM32` swaps big endian guest code
  (`frontend.h:250`) that MIPS swaps itself (`mips_arch.cpp:89`).
- Floating point: every store of generated code to a register of two words fails the assertion of
  `frontend.cpp:128`, because it passes 64 bits where `float_size` is 80; so does a store with other bits
  than the register's, although the value has been extended ("we'll extend", `fp.cpp:175-179`). Indices from half the number of registers on fail
  `frontend.cpp:75` and `:125`. `emit_decode_fp_reg_helper()` writes two pointers for each
  register (`function.cpp:139`, `:146`) into arrays of one each (`interface.cpp:187-190`). Exponents of
  doubles below 768 come back changed (`fp.cpp:139-142`). A hardwired x0 is read as it is
  where the host has the format. The order of the two words depends on `__LITTLE_ENDIAN__`
  (`fp_types.h:20-37`), which not every compiler defines on little endian hosts.
- Layouts: HI and LO of MIPS over the PC, and the 64 bit layout used for mips32; the
  segment registers of x86 in another order (`x86_arch.cpp:24`) and its floating point
  registers of 10 and of 16 bytes (`x86_types.h:92`); ARM's r15 beside the PC
  (`arm_arch.cpp:65`, `arm_types.h:25`).
- Debugger: `B` toggles "BB step" (`idbg.cpp:31`) and announces "BasicBlock step is now ENABLED" (`:1101`), but
  `cpu_translate_function()` tests SINGLESTEP first (`interface.cpp:344`), so a step stays one
  instruction. `>` leaves its pointer NULL and quits; an unknown operand of `p` reports success;
  a trap in a step returns without `idbg_done()`.
- 6502: illegal opcodes and RTI are tagged to continue but return without a spill
  (`6502_tag.cpp:47`, `6502_translate.cpp:100`); the sum of `($nn),Y` is not masked (`:90`); V is
  never written.
- MIPS: J and REGIMM fall through into JAL (`mips_translate.cpp:122`), coprocessor branches
  into likely ones; SLTI compares unsigned (`:433`); LUI (`:438`) and 32 bit logic (`:377`); stores and
  some 64 bit operations do not fit LLVM's types (`:281`). A shift amount is displayed as a
  register (`mips_disasm.cpp:613`); LL, SC, LLD, SCD are not displayed. So SLTI, J and REGIMM are displayed as what
  they do not do.
- M88K: the carry in of addu.ci and subu.ci is -1; immediate ADD and SUB test the carry
  bits of their immediate; `jsr r1` jumps to its own link; `bcnd` with codes 16 and 31 has no
  condition and `bcnd.n` no delay slot when it never branches; tb0, tb1, tcnd and tbnd always
  trap; register forms of field instructions ignore the width; xmem always scales by
  four; a pair is displayed as one register.
- ARM: SUB falls through into ADD (`arm_translate.cpp:206`) and is displayed as SUB; C after CMP is signed (`:175`); moves to
  r15 other than `mov pc, lr` do not jump (`:239`); STM stores decrementing in reverse (`:275`). The
  disassembler shows targets relative to zero (`arm_disasm.cpp:5257`), drops a run of registers
  that ends with r15 (`:5593`) and swaps cpsr and spsr (`:5628`).
- x86: a decoding failure leaves `tag`, `new_pc` and `next_pc` unset (`tag.cpp:138`); JECXZ is tagged
  CONTINUE; SIB with base 5 never shows ebp, and its operands lose displacements and
  segments in the translator; ENTER's frame size keeps eight bits; the shift count of
  D0-D3 is not displayed; segment registers 6 and 7 are read past their names.
- Fapra: SARI is tagged CONTINUE but ends the process; the target of CALL comes from the
  two words before it even if control enters behind them (`fapra_translate.cpp:99-113`).
- M68K: an operand's extension is read before the immediate, MOVEM's at its mask, TRAPcc's
  number behind its length; immediate operations of the fourth size end the process
  (`m68k_disasm.cpp:73-84`); bra and bsr are tagged as conditional, JMP as CONTINUE.
- upcl: an explicit field displaces a register declared before it
  (`register_dep_tracker.cpp:162`); an undeclared or qualified bidirectional binding dereferences
  NULL (`:671`, `:692`), and so do two redefinitions (`sema_analyzer.cpp:658`, `:686`); a copy of a later field
  fails an assertion (`register_file_builder.cpp:395`); registers that are aliases, whole sums of
  others or values read from registers get no definition, and neither does a register with a field
  that is copied (`<- r`), although "this bitfield has physical storage" (`sema_analyzer.cpp:443-450`). A register
  that two fields stand for gets two storages, and so do the parts of a register without storage
  that stands for a field of another (`register_dep_tracker.cpp:576-610`): with `a`, `b`, `d` made of
  both and `ed` with a field for `d`, `a` and `b` are defined at the top and again inside `ed`.

## Not modelled

- LLVM's optimisation and code generation, timers, logging, statistics, SHA-1, loaders and
  system call bridges: no state or decision of libcpu's own.
- Which context and module the function table and the JIT own after a flush
  (`interface.cpp:329`), and that the block map is keyed by pointers the JIT may free
  (`basicblock.cpp:55`): undefined behaviour inside LLVM's memory. `cpu_free()` for the same reason.
- Guest code that changes after it was tagged (`tag.cpp:130`): the library does not look again.
- upcl's expressions, statements and printing of C++: a compiler with no order to get
  wrong beyond its syntax trees.
- The disassemblers of 6502 and Fapra (names only), ARM's Thumb table (never displayed),
  what M88K floating point computes, ARM's r15 as an operand, the bits of CPSR that are no flags.

## Plan

1. `cpu_tag()` while single stepping leaves `cpu->tag` NULL (`tag.cpp:197`): the one hazard without a
   property. It takes `Engine` with debug flags that change during a run, which also joins
   `Debugger` to it.
2. The blocks of `Translation` as a refinement of what `Engine` says of a function: the
   proved properties of `Translation` are what `Engine` assumes of one.
3. The frontends' tags as the programs of `Tagging`: real instructions instead of chosen ones.
4. M88K floating point and its disassembled pairs; ARM with r15.
5. Type correctness and `DefinedAsDeclared` for upcl, with its recursion written as functions.
