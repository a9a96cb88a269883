----------------------------- MODULE UpclRegisters -----------------------------
(***************************************************************************)
(* upcl/sema/register_file_builder.cpp: out of the dependencies that       *)
(* UpclTracker found, the definitions of registers and of the registers    *)
(* inside them that instructions may use.                                  *)
(*                                                                         *)
(* A definition has a name, the bits [start, start + size) of what it is   *)
(* part of, what it is ("plain", "value", the name of a pseudo register,   *)
(* or "copied" on writes of another register) and its fields.              *)
(***************************************************************************)
EXTENDS UpclTracker

CONSTANTS
    MaxDeclarations,    \* bound: how many declarations a description has at most
    Longer,             \* sets of declarations, each of which may make a longer description
    Natural             \* names in the order of strnatcmp()

VARIABLES
    declared,   \* the declarations read so far
    tracker,    \* register_dep_tracker
    phase,      \* of process_register_file()
    built       \* m_rdefs, the names of m_named_rdefs, and how it went

vars == <<declared, tracker, phase, built>>

ASSUME UpclAssumption ==
    /\ MaxDeclarations \in Nat \ {0} /\ Natural \in Seq(Range(Natural))
    /\ \A D \in Longer : D \subseteq Declarations /\ IsFiniteSet(D)

Unbuilt == [defs |-> <<>>, named |-> {}, status |-> "fine"]

Def(r, kind) == [name |-> r.name, start |-> r.start, size |-> r.size, kind |-> kind, subs |-> <<>>]

Names(defs) == {d.name : d \in Range(defs)}

ConditionFlags == {<<"%", x>> : x \in {"C", "N", "P", "V", "Z"}}
SpecialRegisters == {<<"%", x>> : x \in {"PC", "NPC", "PSR"}}

WithDef(b, d) ==
    IF d.name \in Names(b.defs) THEN Crash(b) ELSE [b EXCEPT !.defs = Append(@, d)]

(* The field of a register; b.defs are the fields of `top` built so far.   *)
Simple(t, b, top, i) ==
    LET r == t.vregs[i]
        to == t.vregs[r.binding].name
        copied == WithDef(b, Def(r, "copied"))
    IN CASE r.value -> WithDef(b, Def(r, "value"))
         [] ~r.value /\ r.binding # None ->
                IF IsMeta(to)
                THEN IF to \in ConditionFlags /\ r.size = 1 THEN WithDef(b, Def(r, to[2])) ELSE Fail(b)
                ELSE IF ~Fine(copied) \/ to = top THEN copied
                ELSE IF to = r.name THEN Fail(b)
                ELSE IF to \in Names(b.defs) \cup b.named THEN copied ELSE Crash(b)
         [] ~r.value /\ r.binding = None /\ r.evaluate -> Fail(b)
         [] OTHER -> WithDef(b, Def(r, "plain"))

RECURSIVE create_sub(_, _, _, _, _)

(* The fields of register i, in the last definition of b.                  *)
WithSubs(t, b, i, depth) ==
    LET n == Len(b.defs)
        inner == FoldLeft(LAMBDA x, j : IF Fine(x) THEN create_sub(t, x, t.vregs[i].name, j, depth) ELSE x,
                          [b EXCEPT !.defs = <<>>], t.vregs[i].subs)
    IN [inner EXCEPT !.defs = [b.defs EXCEPT ![n].subs = inner.defs]]

Register(b, i, t) ==
    IF Fine(b) /\ ~t.vregs[i].explicit THEN [b EXCEPT !.named = @ \cup {Last(b.defs).name}] ELSE b

\* Mutant: the field keeps the place that the register has on its own.
create_aliased_sub_Unmoved(t, b, top, i, depth) ==
    IF depth = 0 \/ t.vregs[i].binding = None THEN Crash(b)
    ELSE IF t.vregs[t.vregs[i].binding].size # t.vregs[i].size THEN Fail(b)
    ELSE create_sub(t, b, top, t.vregs[i].binding, depth - 1)

create_aliased_sub(t, b, top, i, depth) ==
    LET r == t.vregs[i]
        x == create_sub(t, b, top, r.binding, depth - 1)
    IN IF depth = 0 \/ r.binding = None THEN Crash(b)
       ELSE IF ~t.vregs[r.binding].resolved THEN Crash(b)
       ELSE IF t.vregs[r.binding].size # r.size \/ r.binding = i THEN Fail(b)
       ELSE IF ~Fine(x) THEN x
       ELSE [x EXCEPT !.defs[Len(x.defs)] = [@ EXCEPT !.start = r.start, !.size = r.size]]

create_sub(t, b, top, i, depth) ==
    LET r == t.vregs[i]
        x == IF r.bidi /\ ~r.value THEN create_aliased_sub(t, b, top, i, depth) ELSE Simple(t, b, top, i)
    IN IF ~r.resolved THEN Crash(b)
       ELSE Register(IF Fine(x) /\ ~(r.bidi /\ ~r.value) THEN WithSubs(t, x, i, depth) ELSE x, i, t)

create_top(t, b, i) ==
    LET r == t.vregs[i]
        to == t.vregs[r.binding].name
        kind == IF r.value THEN "value" ELSE IF r.binding = None THEN "plain" ELSE to[2]
        outer == [b EXCEPT !.defs = <<Def(r, kind)>>]
        x == WithSubs(t, outer, i, Len(t.vregs))
    IN IF ~r.value /\ r.binding # None /\ ~IsMeta(to) THEN Crash(b)
       ELSE IF ~r.value /\ r.binding # None /\ to \notin SpecialRegisters THEN Fail(b)
       ELSE IF ~r.value /\ r.binding = None /\ r.evaluate THEN Fail(b)
       ELSE IF ~Fine(x) THEN x
       ELSE [x EXCEPT !.defs = b.defs \o @, !.named = @ \cup {r.name}]

(* Registers that depend on no other, in natural order; the others are     *)
(* defined where a field of these is bound to them.                        *)
get_indep_regs(t) == {i \in DOMAIN t.vregs : is_independent(t, i)}

analyze(t) ==
    FoldLeft(LAMBDA b, n :
                FoldLeft(LAMBDA x, i : IF Fine(x) THEN create_top(t, x, i) ELSE x,
                         b, SetToSeq({i \in get_indep_regs(t) : t.vregs[i].name = n})),
             Unbuilt, Natural)

Init ==
    /\ declared = <<>>
    /\ tracker = Nothing
    /\ phase = "reading"
    /\ built = Unbuilt

\* Bound: a description has MaxDeclarations, or one for each member of a set of Longer.
Bounded(s) == Len(s) <= MaxDeclarations \/ \E D \in Longer : Range(s) \subseteq D /\ Len(s) <= Cardinality(D)

Declare(d) ==
    /\ phase = "reading" /\ Fine(tracker) /\ Bounded(Append(declared, d))
    /\ declared' = Append(declared, d)
    /\ tracker' = process_register_dep(tracker, d)
    /\ UNCHANGED <<phase, built>>

Resolve ==
    /\ phase = "reading" /\ Fine(tracker)
    /\ tracker' = resolve(tracker)
    /\ phase' = "resolved"
    /\ UNCHANGED <<declared, built>>

Analyze ==
    /\ phase = "resolved" /\ Fine(tracker)
    /\ built' = analyze(tracker)
    /\ phase' = "built"
    /\ UNCHANGED <<declared, tracker>>

Next == (\E d \in Declarations : Declare(d)) \/ Resolve \/ Analyze

Spec == Init /\ [][Next]_vars

--------------------------------------------------------------------------------
(* What a description means, whatever the order of its declarations.       *)

Read == Range(declared)
RegisterNames(D) == UNION {Range(d.names) : d \in D}
DeclarationOf(D, n) == CHOOSE d \in D : n \in Range(d.names)
FieldsOf(D) == UNION {Range(d.fields) : d \in D}
InnerNames(d) == {f.name : f \in Range(d.fields)} \ {Unnamed}

\* Fields that stand for a register of their own.
Parts(d) == {f \in Range(d.fields) : f.kind = "bidi"}
PartsSize(D, d) == FoldLeft(LAMBDA n, f : n + DeclarationOf(D, f.to).size, 0,
                            SelectSeq(d.fields, LAMBDA f : f.kind = "bidi"))

\* A register all of whose bits belong to others has no storage; it gets no
\* definition, nor does one that is another name of a register, or one whose
\* value is read from registers.
Whole(D, d) == Parts(d) # {} /\ PartsSize(D, d) >= d.size
Elsewhere(d) ==
    \/ \E k \in 1..Len(d.alias) : ~IsMeta(d.alias[k])
    \/ Len(d.alias) = 0 /\ d.uses # <<>>
PartOf(D, n) == {d \in D : \E f \in Parts(d) : f.to = n}

\* What the registers of d are inside of, up to a register that has bits of its own.
Inside(D, d) ==
    LET step(E) == E \cup UNION {PartOf(D, n) : n \in RegisterNames({e \in E : Whole(D, e) \/ e = d})}
        up[k \in 0..Cardinality(D)] == IF k = 0 THEN {d} ELSE step(up[k - 1])
    IN {e \in up[Cardinality(D)] : e # d /\ ~Whole(D, e)}

TopRegisters(D) ==
    {n \in RegisterNames(D) :
        LET d == DeclarationOf(D, n) IN ~Whole(D, d) /\ ~Elsewhere(d) /\ Inside(D, d) = {}}

(* Where the builder does otherwise.                                       *)
\* A field that is a copy of a register has storage (sema_analyzer.cpp:443), but
\* the register it is a field of depends on the one that is copied, and nothing
\* defines it where it is not part of another.
Undefined(D) ==
    {n \in TopRegisters(D) :
        LET d == DeclarationOf(D, n)
        IN \E f \in Range(d.fields) : f.kind = "to" /\ ~IsMeta(f.to) /\ f.to \notin InnerNames(d)}

\* The parts of a register without storage of its own are defined on their own,
\* and where this register is a part of another once more inside of it.
Repeated(D) ==
    {n \in RegisterNames(D) :
        LET d == DeclarationOf(D, n)
        IN /\ ~Whole(D, d) /\ ~Elsewhere(d)
           /\ PartOf(D, n) # {} /\ Inside(D, d) # {} /\ \A e \in PartOf(D, n) : Whole(D, e)}

Defined(D) == (TopRegisters(D) \ Undefined(D)) \cup Repeated(D)

RECURSIVE Meant(_, _, _)
Meant(D, n, start) ==
    LET d == DeclarationOf(D, n)
        place == CHOOSE k \in 1..Len(d.names) : d.names[k] = n
        field(k) ==
            LET f == d.fields[k]
                here == Offset(d.fields, k)
            IN IF f.kind = "bidi" THEN [Meant(D, f.to, here) EXCEPT !.size = f.size]
               ELSE [name |-> FieldName(n, f, here), start |-> here, size |-> f.size,
                     kind |-> CASE f.kind = "value" -> "value"
                                [] f.kind = "to" /\ IsMeta(f.to) -> f.to[2]
                                [] f.kind = "to" /\ ~IsMeta(f.to) -> "copied"
                                [] OTHER -> "plain",
                     subs |-> <<>>]
    IN [name |-> n, start |-> start, size |-> d.size,
        kind |-> CASE d.value -> "value"
                   [] ~d.value /\ d.alias = <<>> -> "plain"
                   [] OTHER -> IF IsMeta(d.alias[place]) THEN d.alias[place][2] ELSE "copied",
        subs |-> [k \in 1..Len(d.fields) |-> field(k)]]

RECURSIVE AllNames(_)
AllNames(defs) == UNION {{d.name} \cup AllNames(d.subs) : d \in Range(defs)}

RECURSIVE Count(_, _)
Count(defs, n) == FoldLeft(LAMBDA c, d : c + (IF d.name = n THEN 1 ELSE 0) + Count(d.subs, n), 0, defs)

(* What else a description must not do.                                    *)
Referenced(d) == {f.to : f \in {g \in Range(d.fields) : g.kind \in {"to", "bidi", "copy", "bidi copy"}}}
                     \cup Range(d.alias) \cup Range(d.uses)
KnownNames(d) == Range(d.names) \cup (IF d.explicit THEN {} ELSE InnerNames(d))

Redefined(s) ==
    \/ \E i, j \in 1..Len(s) : i # j /\ KnownNames(s[i]) \cap KnownNames(s[j]) # {}
    \/ \E d \in Range(s) : \E i, j \in 1..Len(d.fields) :
           i # j /\ d.fields[i].name = d.fields[j].name /\ d.fields[i].name # Unnamed
\* An explicit field takes the place of a register of its name that was
\* declared, or only referred to, before.
Displaced(s) ==
    \E i, j \in 1..Len(s) :
        /\ s[j].explicit /\ i < j
        /\ InnerNames(s[j]) \cap (KnownNames(s[i]) \cup Referenced(s[i])) # {}
BadFlag(d) ==
    \/ \E f \in Range(d.fields) : f.kind = "to" /\ IsMeta(f.to) /\ ~(f.to \in ConditionFlags /\ f.size = 1)
    \/ \E n \in Range(d.alias) : IsMeta(n) /\ n \notin SpecialRegisters
Evaluated(d) == d.evaluate
TwoWayCopy(d) == \E f \in Range(d.fields) : f.kind = "bidi copy"
\* A copy of the register itself, or of a field that only follows.
CopiedEarly(d) ==
    \/ \E f \in Range(d.fields) : f.kind = "to" /\ f.to \in Range(d.names)
    \/ \E i, j \in 1..Len(d.fields) : /\ d.fields[i].kind = "to" /\ i <= j
                                      /\ d.fields[i].to = d.fields[j].name
Undeclared(D, d) == \E f \in Parts(d) : f.to \notin RegisterNames(D)
Resized(D, d) ==
    /\ \A f \in Parts(d) : f.to \in RegisterNames(D)
    /\ ~Whole(D, d) /\ \E f \in Parts(d) : DeclarationOf(D, f.to).size # f.size

\* A copy inside a register that is defined before the register it copies.
Earlier(D, n) ==
    LET at(m) == CHOOSE k \in 1..Len(Natural) : Natural[k] = m
    IN UNION {AllNames(<<Meant(D, m, 0)>>) : m \in {m \in Defined(D) : at(m) < at(n)}}
Copied(d) == {f.to : f \in {g \in Range(d.fields) : g.kind = "to" /\ g.to \notin InnerNames(d)}}
                 \cup Range(d.alias)
CopiedLate(D, d) ==
    \E r \in Copied(d), n \in Defined(D) :
        /\ ~IsMeta(r) /\ r \notin Earlier(D, n)
        /\ Range(d.names) \cap AllNames(<<Meant(D, n, 0)>>) # {}
\* Only conditions can be part of another register.
MetaInside(D, d) ==
    /\ \E k \in 1..Len(d.alias) : IsMeta(d.alias[k])
    /\ \E n \in Defined(D) : Range(d.names) \cap AllNames(Meant(D, n, 0).subs) # {}

Doubled(D, d) ==
    ~Whole(D, d) /\ \E i, j \in 1..Len(d.fields) :
        i # j /\ d.fields[i].kind = "bidi" /\ d.fields[j].kind = "bidi" /\ d.fields[i].to = d.fields[j].to

SoundSoFar(s) ==
    /\ ~Redefined(s) /\ ~Displaced(s)
    /\ \A d \in Range(s) : ~BadFlag(d) /\ ~Evaluated(d) /\ ~TwoWayCopy(d) /\ ~CopiedEarly(d)

Sound(s) ==
    /\ SoundSoFar(s)
    /\ \A d \in Range(s) : ~Undeclared(Range(s), d) /\ ~Resized(Range(s), d)
    /\ \A d \in Range(s) : ~Doubled(Range(s), d) /\ ~CopiedLate(Range(s), d) /\ ~MetaInside(Range(s), d)

Problem == ~Fine(tracker) \/ ~Fine(built)

\* Fields that stand for one register, or for a field of another: each is
\* given bits of its own.
Shared(s) ==
    \E i, j \in 1..Len(s) : \E f \in Parts(s[i]) :
        \/ \E g \in Parts(s[j]) : f.to = g.to /\ (i = j => f # g)
        \/ f.to \in InnerNames(s[j])
ExplicitNames == UNION {InnerNames(d) : d \in {e \in Read : e.explicit}}

\* Reading, resolving and building go through for every sound description,
\* and whatever the order of its declarations, the definitions are the ones
\* it means, with the fields at their bits: register_dep_tracker must have
\* found what is part of what also for registers it had only heard of, and
\* register_file_builder must define a register in every place it has, and
\* nowhere else.  Not as meant are Undefined and Repeated registers: no
\* others, and these always.
DefinedAsDeclared ==
    /\ phase = "reading" /\ SoundSoFar(declared) => Fine(tracker)
    /\ phase # "reading" /\ Sound(declared) =>
          /\ ~Problem
          /\ phase = "built" => Range(built.defs) = {Meant(Read, n, 0) : n \in Defined(Read)}

\* What was accepted, sound or not, has no register twice: two definitions
\* are two copies of its bits, and a write of one is not seen in the other.
\* The builder has registers twice that two fields stand for, and those that
\* are Repeated (register_dep_tracker.cpp:576, create_aliased_sub()).
OneStorage ==
    phase = "built" /\ Fine(built) /\ ~Shared(declared) =>
        \A n \in AllNames(built.defs) \ ExplicitNames :
            Count(built.defs, n) = 1 \/ n \in UNION {AllNames(<<Meant(Read, m, 0)>>) : m \in Repeated(Read)}
================================================================================
