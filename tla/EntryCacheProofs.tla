---------------------------- MODULE EntryCacheProofs ----------------------------
(***************************************************************************)
(* The entry cache loses nothing and adds nothing, for any number of       *)
(* programs that share it and end at any point, as long as an address of   *)
(* the code comes back from the file as it was written: with entries of    *)
(* four bytes read into an int, as long as the code lies below 2^31.       *)
(***************************************************************************)
EXTENDS EntryCache, TLAPS

\* fputc() of the low bytes and fgetc() into an int give the address back, and
\* the end of the file is not taken for an address.
SignClear == \A a \in Code : Decode(Encode(a)) = a /\ a # NoPc

\* The file holds what was stored and only that.
FileIsStored ==
    /\ file \in Seq({Encode(a) : a \in Code})
    /\ stored \subseteq Code
    /\ \A k \in 1..Len(file) : \E a \in stored : file[k] = Encode(a)
    /\ \A a \in stored : \E k \in 1..Len(file) : file[k] = Encode(a)
    /\ ~exists => file = <<>>

Typed ==
    /\ phase \in [Procs -> Phases] /\ pos \in [Procs -> Nat]
    /\ DOMAIN arg = Procs /\ DOMAIN known = Procs /\ DOMAIN old = Procs

Requests ==
    \A p \in Procs :
        /\ phase[p] \in {"read", "open", "write", "search"} => arg[p] \in Code
        /\ phase[p] = "search" => arg[p] \in stored
        /\ phase[p] \in {"write", "search", "idle"} => exists

\* A program that reads has started a search at every entry before its position.
Reading ==
    \A p \in Procs :
        /\ old[p] \subseteq stored
        /\ pos[p] <= Len(file)
        /\ phase[p] \in {"down", "fresh"} => pos[p] = 0
        /\ phase[p] = "read" => \A k \in 1..pos[p] : Decode(file[k]) \in known[p]

Inv == Typed /\ FileIsStored /\ Requests /\ Reading /\ EntriesRemembered /\ NothingInvented

--------------------------------------------------------------------------------
\* There is no file yet, and no program has started.
LEMMA Initially == Init => Inv
BY DEF Init, Inv, Typed, Phases, FileIsStored, Requests, Reading, EntriesRemembered,
       NothingInvented

\* What is read is an address some program stored.
LEMMA EntryDecodes ==
    ASSUME SignClear, FileIsStored, NEW k \in 1..Len(file)
    PROVE  Decode(file[k]) \in stored
BY DEF SignClear, FileIsStored

\* Appending an entry leaves those before it where they are.
LEMMA Appended ==
    ASSUME NEW S, NEW s \in Seq(S), NEW e \in S
    PROVE  /\ Append(s, e) \in Seq(S) /\ Len(Append(s, e)) = Len(s) + 1
           /\ \A k \in 1..Len(s) : Append(s, e)[k] = s[k]
           /\ Append(s, e)[Len(s) + 1] = e
OBVIOUS

\* One turn of while(!feof(f)) starts a search at one entry more.
LEMMA ReadKeeps ==
    ASSUME SignClear, Inv, NEW p \in Procs, Read(p) PROVE Inv'
<1> USE DEF Inv
<1>1. /\ phase[p] = "read" /\ pos[p] < Len(file)
      /\ pos' = [pos EXCEPT ![p] = @ + 1]
      /\ known' = [known EXCEPT ![p] = @ \cup {Decode(file[pos[p] + 1])}]
      /\ UNCHANGED <<file, exists, phase, arg, stored, old>>
  BY DEF Read
<1>2. Len(file) \in Nat /\ pos[p] \in Nat
  BY DEF FileIsStored, Typed
<1>3. Decode(file[pos[p] + 1]) \in stored
  BY <1>1, <1>2, EntryDecodes
<1>4. Typed' /\ FileIsStored' /\ Requests'
  BY <1>1, <1>2 DEF Typed, FileIsStored, Requests
<1>5. Reading'
  <2> SUFFICES ASSUME NEW q \in Procs
               PROVE  /\ old'[q] \subseteq stored'
                      /\ pos'[q] <= Len(file')
                      /\ phase'[q] \in {"down", "fresh"} => pos'[q] = 0
                      /\ phase'[q] = "read" =>
                            \A k \in 1..pos'[q] : Decode(file'[k]) \in known'[q]
    BY DEF Reading
  <2>1. CASE q = p
    <3>1. pos'[p] = pos[p] + 1 /\ known'[p] = known[p] \cup {Decode(file[pos[p] + 1])}
      BY <1>1 DEF Typed
    <3>2. ASSUME NEW k \in 1..pos'[p] PROVE Decode(file[k]) \in known'[p]
      <4>1. CASE k = pos[p] + 1
        BY <3>1, <4>1
      <4>2. CASE k \in 1..pos[p]
        BY <1>1, <3>1, <4>2 DEF Reading
      <4> QED BY <1>2, <3>1, <4>1, <4>2
    <3> QED BY <1>1, <1>2, <2>1, <3>1, <3>2 DEF Reading
  <2>2. CASE q # p
    BY <1>1, <2>2 DEF Reading, Typed
  <2> QED BY <2>1, <2>2
<1>6. EntriesRemembered'
  BY <1>1 DEF EntriesRemembered, Typed
<1>7. NothingInvented'
  BY <1>1, <1>3 DEF NothingInvented, Typed
<1> QED BY <1>4, <1>5, <1>6, <1>7

\* At the end of the file every entry has been read, those written meanwhile too.
LEMMA ReadEndKeeps ==
    ASSUME SignClear, Inv, NEW p \in Procs, ReadEnd(p) PROVE Inv'
<1> USE DEF Inv
<1>1. /\ phase[p] = "read" /\ phase' = [phase EXCEPT ![p] = "open"]
      /\ pos[p] = Len(file)
      /\ known' = [known EXCEPT ![p] = @ \cup {NoPc}]
      /\ UNCHANGED <<file, exists, pos, arg, stored, old>>
  BY DEF ReadEnd, At
<1>2. old[p] \subseteq known'[p]
  <2> SUFFICES ASSUME NEW a \in old[p] PROVE a \in known'[p]
    OBVIOUS
  <2>1. PICK k \in 1..Len(file) : file[k] = Encode(a)
    BY DEF Reading, FileIsStored
  <2>2. Decode(file[k]) \in known[p] /\ Decode(file[k]) = a
    BY <1>1, <2>1 DEF Reading, FileIsStored, SignClear
  <2> QED BY <1>1, <2>2 DEF Typed
<1>3. Typed' /\ FileIsStored' /\ Requests' /\ Reading'
  BY <1>1 DEF Typed, Phases, FileIsStored, Requests, Reading
<1>4. EntriesRemembered'
  BY <1>1, <1>2 DEF EntriesRemembered, Typed
<1>5. NothingInvented'
  BY <1>1 DEF NothingInvented, Typed, SignClear
<1> QED BY <1>3, <1>4, <1>5

\* An entry is appended and flushed before it is searched from (fopen "a", fflush()).
LEMMA WriteKeeps ==
    ASSUME SignClear, Inv, NEW p \in Procs, Write(p) PROVE Inv'
<1> USE DEF Inv
<1>1. /\ phase[p] = "write" /\ phase' = [phase EXCEPT ![p] = "search"]
      /\ file' = Append(file, Encode(arg[p]))
      /\ stored' = stored \cup {arg[p]}
      /\ UNCHANGED <<exists, pos, arg, known, old>>
  BY DEF Write, At
<1>2. arg[p] \in Code /\ Encode(arg[p]) \in {Encode(a) : a \in Code}
  BY <1>1 DEF Requests
<1>3. /\ file' \in Seq({Encode(a) : a \in Code}) /\ Len(file') = Len(file) + 1
      /\ \A k \in 1..Len(file) : file'[k] = file[k]
      /\ file'[Len(file) + 1] = Encode(arg[p])
      /\ Len(file) \in Nat
  BY <1>1, <1>2, Appended DEF FileIsStored
<1>4. Typed' /\ Requests' /\ EntriesRemembered' /\ NothingInvented'
  BY <1>1, <1>2 DEF Typed, Phases, Requests, EntriesRemembered, NothingInvented
<1>5. Reading'
  <2>1. \A q \in Procs : pos[q] \in Nat /\ pos[q] <= Len(file)
    BY DEF Reading, Typed
  <2>2. \A q \in Procs : \A k \in 1..pos[q] : file'[k] = file[k]
    BY <1>3, <2>1
  <2> QED BY <1>1, <1>3, <2>1, <2>2 DEF Reading, Typed
<1>6. FileIsStored'
  <2>1. exists
    BY <1>1 DEF Requests
  <2> QED BY <1>1, <1>2, <1>3, <2>1 DEF FileIsStored
<1> QED BY <1>4, <1>5, <1>6

\* Without a file nothing has been stored.
LEMMA FirstTagKeeps ==
    ASSUME Inv, NEW p \in Procs, FirstTag(p) PROVE Inv'
<1> USE DEF Inv
<1>1. PICK pc \in Code :
          /\ phase[p] = "fresh"
          /\ phase' = [phase EXCEPT ![p] = IF exists THEN "read" ELSE "open"]
          /\ arg' = [arg EXCEPT ![p] = pc]
          /\ old' = [old EXCEPT ![p] = stored]
          /\ UNCHANGED <<file, exists, pos, known, stored>>
  BY DEF FirstTag, At
<1>2. ~exists => stored = {}
  BY DEF FileIsStored
<1>3. pos[p] = 0
  BY <1>1 DEF Reading
<1>4. Typed' /\ FileIsStored' /\ NothingInvented'
  BY <1>1 DEF Typed, Phases, FileIsStored, NothingInvented
<1>5. Requests'
  BY <1>1 DEF Requests, Typed
<1>6. Reading'
  BY <1>1, <1>3 DEF Reading, Typed
<1>7. EntriesRemembered'
  BY <1>1, <1>2 DEF EntriesRemembered, Typed
<1> QED BY <1>4, <1>5, <1>6, <1>7

\* A program that ends takes nothing out of the file.
LEMMA StopKeeps ==
    ASSUME Inv, NEW p \in Procs, Stop(p) PROVE Inv'
<1> USE DEF Inv
<1>1. Typed' /\ FileIsStored'
  BY DEF Stop, Typed, Phases, FileIsStored
<1>2. Len(file) \in Nat
  BY DEF FileIsStored
<1>3. Requests' /\ Reading'
  BY <1>2 DEF Stop, Typed, Requests, Reading
<1>4. EntriesRemembered' /\ NothingInvented'
  BY DEF Stop, Typed, EntriesRemembered, NothingInvented
<1> QED BY <1>1, <1>3, <1>4

\* The other steps leave the file alone.
LEMMA OthersKeep ==
    ASSUME Inv, NEW p \in Procs, Start(p) \/ Open(p) \/ Search(p) \/ Tag(p)
    PROVE  Inv'
<1> USE DEF Inv, At
<1>1. CASE Start(p)
  BY <1>1 DEF Start, Typed, Phases, FileIsStored, Requests, Reading, EntriesRemembered,
              NothingInvented
<1>2. CASE Open(p)
  BY <1>2 DEF Open, Typed, Phases, FileIsStored, Requests, Reading, EntriesRemembered,
              NothingInvented
<1>3. CASE Search(p)
  BY <1>3 DEF Search, Typed, Phases, FileIsStored, Requests, Reading, EntriesRemembered,
              NothingInvented
<1>4. CASE Tag(p)
  BY <1>4 DEF Tag, Typed, Phases, FileIsStored, Requests, Reading, EntriesRemembered,
              NothingInvented
<1> QED BY <1>1, <1>2, <1>3, <1>4

\* All of it holds at every moment.
LEMMA Invariance == ASSUME SignClear PROVE Spec => []Inv
<1>1. Inv /\ [Next]_vars => Inv'
  <2> SUFFICES ASSUME Inv, [Next]_vars PROVE Inv'
    OBVIOUS
  <2>1. CASE UNCHANGED vars
    BY <2>1 DEF vars, Inv, Typed, FileIsStored, Requests, Reading, EntriesRemembered,
                NothingInvented
  <2>2. CASE Next
    BY <2>2, ReadKeeps, ReadEndKeeps, WriteKeeps, FirstTagKeeps, StopKeeps, OthersKeep
    DEF Next, Runs
  <2> QED BY <2>1, <2>2
<1> QED BY <1>1, Initially, PTL DEF Spec

--------------------------------------------------------------------------------
\* A program that has read the cache has started a search at every entry stored
\* before it began, whichever programs were appending meanwhile or were killed
\* (tag_start()).
THEOREM Remembered == ASSUME SignClear PROVE Spec => []EntriesRemembered
<1>1. Inv => EntriesRemembered
  BY DEF Inv
<1> QED BY <1>1, Invariance, PTL

\* The cache leads to no search in the code but at addresses a program was told
\* to enter (tag_start()).
THEOREM OnlyEntries == ASSUME SignClear PROVE Spec => []NothingInvented
<1>1. Inv => NothingInvented
  BY DEF Inv
<1> QED BY <1>1, Invariance, PTL
================================================================================
