------------------------------- MODULE EntryCache -------------------------------
(***************************************************************************)
(* The entry cache of libcpu/tag.cpp (libcpu.h:286-294): a search that is  *)
(* not limited appends the address it starts at to a file in /tmp named    *)
(* after the digest of the guest's code, and a program that starts to tag  *)
(* the same code begins with the addresses it finds there.                 *)
(*                                                                         *)
(* Several programs may run the same guest, one after the other or at the  *)
(* same time, and any of them may end at any point: the file is what they  *)
(* share.  An address is written as four bytes and read back as four bytes *)
(* shifted into an int, whatever the width of an addr_t; here the widths   *)
(* are IntBits and AddrBits.                                               *)
(***************************************************************************)
EXTENDS Naturals, Sequences

CONSTANTS
    Procs,      \* the programs
    AddrBits,   \* the width of an addr_t
    IntBits,    \* the width of an int, and of the four bytes of an entry
    Code,       \* [code_start, code_end)
    MaxEntries  \* bound: the entries written to the file

Addr == 0 .. 2^AddrBits - 1

ASSUME CacheAssumption ==
    /\ AddrBits \in Nat /\ IntBits \in 1..AddrBits
    /\ Code \subseteq Addr
    /\ MaxEntries \in Nat

NoPc == 2^AddrBits - 1    \* NEW_PC_NONE, all ones

VARIABLES
    file,     \* the entries in the file
    exists,   \* whether there is a file
    phase,    \* where each program is
    pos,      \* how many entries it has read
    arg,      \* the address cpu_tag() was called with
    known,    \* the addresses it has started a search at
    stored,   \* history: the entries any program wrote
    old       \* history: those written before this one began to read

vars == <<file, exists, phase, pos, arg, known, stored, old>>

Phases == {"down", "fresh", "read", "open", "write", "search", "idle"}

TypeOK ==
    /\ file \in Seq(0 .. 2^IntBits - 1) /\ Len(file) <= MaxEntries
    /\ exists \in BOOLEAN
    /\ phase \in [Procs -> Phases]
    /\ pos \in [Procs -> 0..MaxEntries]
    /\ arg \in [Procs -> Addr]
    /\ known \in [Procs -> SUBSET Addr]
    /\ stored \subseteq Addr
    /\ old \in [Procs -> SUBSET Addr]

\* Mutant: only the first byte is written.
Encode_LowByte(a) == a % 2^(IntBits - 2)

(***************************************************************************)
(* fputc((pc >> (i*8)) & 0xFF) for i in 0..3 keeps the low bits;           *)
(* entry |= fgetc(f) << (i*8) shifts an int, whose sign the addr_t gets.   *)
(***************************************************************************)
Encode(a) == a % 2^IntBits

Decode(e) == IF e < 2^(IntBits - 1) THEN e ELSE 2^AddrBits - 2^IntBits + e

At(p, from, to) == phase[p] = from /\ phase' = [phase EXCEPT ![p] = to]

\* A program starts, with no tags.
Start(p) ==
    /\ At(p, "down", "fresh")
    /\ UNCHANGED <<file, exists, pos, arg, known, stored, old>>

\* Its first cpu_tag(): the cache is opened for reading, when there is one.
FirstTag(p) ==
    /\ At(p, "fresh", IF exists THEN "read" ELSE "open")
    /\ \E pc \in Code : arg' = [arg EXCEPT ![p] = pc]
    /\ old' = [old EXCEPT ![p] = stored]
    /\ UNCHANGED <<file, exists, pos, known, stored>>

\* One turn of while(!feof(f)): nothing is written while file_entries is NULL.  The
\* loop goes on for as long as others append what it has not read.
Read(p) ==
    /\ phase[p] = "read" /\ pos[p] < Len(file)
    /\ pos' = [pos EXCEPT ![p] = @ + 1]
    /\ known' = [known EXCEPT ![p] = @ \cup {Decode(file[pos[p] + 1])}]
    /\ UNCHANGED <<file, exists, phase, arg, stored, old>>

\* The last turn reads nothing but EOF, an entry of all ones.
ReadEnd(p) ==
    /\ At(p, "read", "open")
    /\ pos[p] = Len(file)
    /\ known' = [known EXCEPT ![p] = @ \cup {NoPc}]
    /\ UNCHANGED <<file, exists, pos, arg, stored, old>>

\* Mutant: the file is opened for writing from its start.
Open_Truncates(p) ==
    /\ At(p, "open", "write")
    /\ exists' = TRUE
    /\ file' = <<>>
    /\ UNCHANGED <<pos, arg, known, stored, old>>

\* fopen(cache_fn, "a").
Open(p) ==
    /\ At(p, "open", "write")
    /\ exists' = TRUE
    /\ UNCHANGED <<file, pos, arg, known, stored, old>>

\* The rest of tag_start(): the address is flushed to the file, then searched from.
Write(p) ==
    /\ At(p, "write", "search")
    /\ Len(file) < MaxEntries
    /\ file' = Append(file, Encode(arg[p]))
    /\ stored' = stored \cup {arg[p]}
    /\ UNCHANGED <<exists, pos, arg, known, old>>

Search(p) ==
    /\ At(p, "search", "idle")
    /\ known' = [known EXCEPT ![p] = @ \cup {arg[p]}]
    /\ UNCHANGED <<file, exists, pos, arg, stored, old>>

\* Another cpu_tag(), of the client or of cpu_run().
Tag(p) ==
    /\ At(p, "idle", "write")
    /\ \E pc \in Code : arg' = [arg EXCEPT ![p] = pc]
    /\ UNCHANGED <<file, exists, pos, known, stored, old>>

\* The program ends or is killed; it has no handler that would do more.
Stop(p) ==
    /\ phase[p] # "down"
    /\ phase' = [phase EXCEPT ![p] = "down"]
    /\ pos' = [pos EXCEPT ![p] = 0]
    /\ arg' = [arg EXCEPT ![p] = NoPc]
    /\ known' = [known EXCEPT ![p] = {}]
    /\ old' = [old EXCEPT ![p] = {}]
    /\ UNCHANGED <<file, exists, stored>>

Runs(p) == Read(p) \/ ReadEnd(p) \/ Open(p) \/ Write(p) \/ Search(p)

Init ==
    /\ file = <<>>
    /\ exists = FALSE
    /\ phase = [p \in Procs |-> "down"]
    /\ pos = [p \in Procs |-> 0]
    /\ arg = [p \in Procs |-> NoPc]
    /\ known = [p \in Procs |-> {}]
    /\ stored = {}
    /\ old = [p \in Procs |-> {}]

Next == \E p \in Procs : Start(p) \/ FirstTag(p) \/ Runs(p) \/ Tag(p) \/ Stop(p)

Spec == Init /\ [][Next]_vars

--------------------------------------------------------------------------------
\* A program that has read the cache has started a search at every entry an earlier
\* one stored, and whatever ended that program has not lost it (libcpu.h:290-294:
\* "we create a file in /tmp that holds all entries to the code ... and we start
\* tagging at these addresses on load if the cache exists").
EntriesRemembered ==
    \A p \in Procs :
        phase[p] \in {"open", "write", "search", "idle"} => old[p] \subseteq known[p]

\* Nothing becomes code that nobody asked for: the cache leads to no search inside
\* the code area but at addresses some program was told to enter (tag.cpp:66-72).
NothingInvented ==
    \A p \in Procs : known[p] \cap Code \subseteq stored
================================================================================
