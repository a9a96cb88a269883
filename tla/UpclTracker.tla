------------------------------ MODULE UpclTracker ------------------------------
(***************************************************************************)
(* upcl/sema/register_dep_tracker.cpp and the analysis of register         *)
(* declarations in upcl/c/sema_analyzer.cpp: upcl reads the register file  *)
(* of an architecture, notes which register is part of which and which     *)
(* depends on which, and resolves these dependencies when all declarations *)
(* are read.  Declarations may refer to registers that follow.             *)
(*                                                                         *)
(* A name is a tuple: <<"bx">>, <<"g", 1>> of a repeated declaration,      *)
(* <<"$", n, offset>> of an unnamed field, <<"%", "PC">> of a pseudo       *)
(* register, <<"sp", "?", "?">> of repeated registers as a whole.  A type  *)
(* is its size; deps_by is always the inverse of deps_on and only shown.   *)
(*                                                                         *)
(* A declaration has the names it defines, their size, what a register     *)
(* alias or a hardwired value refers to (alias: one name for each; uses:   *)
(* the literals of expressions), and its fields from bit 0 upwards.        *)
(***************************************************************************)
EXTENDS Integers, Sequences, FiniteSets, Functions, SequencesExt

CONSTANT Declarations

Unnamed == <<>>

\* How the fields are bound: no binding, a value ("<- (e)" or a bare "0"),
\* "-> %x" or "<- r", "<-> r", "<- r.f" and "<-> r.f".
FieldKinds == {"plain", "value", "to", "bidi", "copy", "bidi copy"}

ASSUME DeclarationsAssumption ==
    \A d \in Declarations :
        /\ d.names # <<>> /\ d.alias # <<>> => Len(d.alias) = Len(d.names)
        /\ \A k \in 1..Len(d.fields) : d.fields[k].kind \in FieldKinds

IsMeta(name) == Len(name) = 2 /\ name[1] = "%"
IsRepeated(name) == Len(name) = 3 /\ name[1] # "$"
IsPseudo(name) == Len(name) = 3 \/ IsMeta(name)

None == 0       \* a null pointer; registers are numbered from 1

Fail(t) == [t EXCEPT !.status = "failed"]
Crash(t) == [t EXCEPT !.status = "crashed"]
Fine(t) == t.status = "fine"

Stub(name) ==
    [name |-> name, size |-> 0, resolved |-> FALSE, super |-> None,
     value |-> FALSE, evaluate |-> FALSE, binding |-> None, start |-> 0,
     explicit |-> FALSE, bidi |-> FALSE, alias |-> FALSE, full |-> FALSE,
     subs |-> <<>>, deps_on |-> {}]

Nothing == [vregs |-> <<>>, regs |-> <<>>, status |-> "fine"]

IndexOf(t, name) == IF name \in DOMAIN t.regs THEN t.regs[name] ELSE Len(t.vregs) + 1

ref(t, name) ==
    IF name \in DOMAIN t.regs THEN t
    ELSE [t EXCEPT !.vregs = Append(@, Stub(name)),
                   !.regs = [n \in DOMAIN @ \cup {name} |->
                                IF n = name THEN Len(t.vregs) + 1 ELSE @[n]]]

(* The register m, the one it is part of, and so on. *)
Supers(t, m) ==
    LET up[n \in 0..Len(t.vregs)] ==
            IF n = 0 THEN <<m>>
            ELSE LET s == up[n - 1]
                     above == t.vregs[s[Len(s)]].super
                 IN IF above = None \/ Len(s) < n THEN s ELSE Append(s, above)
    IN up[Len(t.vregs)]

Endless(t, m) == Len(Supers(t, m)) > Len(t.vregs)

(* dep depends on master and on what master is part of, up to the first of *)
(* these that depends on dep itself.                                       *)
make_deps_by(t, master, dep) ==
    LET up == Supers(t, master)
        stops == {k \in 1..Len(up) : up[k] = dep \/ dep \in t.vregs[up[k]].deps_on}
        last == IF stops = {} THEN Len(up) + 1
                ELSE CHOOSE k \in stops : \A j \in stops : k <= j
    IN IF stops = {} /\ Endless(t, master) THEN Crash(t)
       ELSE IF stops # {} /\ up[last] = dep THEN Crash(t)
       ELSE [t EXCEPT !.vregs[dep].deps_on = @ \cup {up[k] : k \in 1..(last - 1)}]

remove_deps_on(t, master, dep) ==
    IF Endless(t, master) THEN Crash(t)
    ELSE [t EXCEPT !.vregs = [i \in DOMAIN @ |->
              IF i \in Range(Supers(t, master)) THEN [@[i] EXCEPT !.deps_on = @ \ {dep}]
              ELSE @[i]]]

MakeDepsByName(t, name, dep) ==
    IF Fine(t) THEN make_deps_by(ref(t, name), IndexOf(t, name), dep) ELSE t

(* The registers of an expression. *)
Using(t, uses, dep) == FoldLeft(LAMBDA u, n : MakeDepsByName(u, n, dep), t, uses)

(* What is explicit or has no name of its own leaves the map at once.      *)
add(t, name, size, flags) ==
    LET u == ref(t, name)
        i == IndexOf(t, name)
    IN IF u.vregs[i].resolved THEN Fail(u)
       ELSE [u EXCEPT
                !.regs = IF flags = {} THEN @ ELSE Restrict(@, DOMAIN @ \ {name}),
                !.vregs[i] = [@ EXCEPT !.resolved = TRUE, !.size = size,
                                       !.explicit = "explicit" \in flags]]

AddUnder(t, super, name, size, flags) ==
    LET u == add(t, name, size, flags)
        i == IndexOf(t, name)
    IN IF Fine(u) THEN make_deps_by([u EXCEPT !.vregs[i].super = super], super, i) ELSE u

Bind(t, bri, ri, f) ==
    LET b == IndexOf(t, f.to)
        u == [ref(t, f.to) EXCEPT !.vregs[ri].bidi = f.kind = "bidi",
                                  !.vregs[ri].binding = b]
        v == IF f.kind = "bidi" THEN make_deps_by(u, ri, b) ELSE make_deps_by(u, b, ri)
    IN IF b = ri THEN Crash(t)
       ELSE IF Fine(v) THEN make_deps_by(v, b, bri) ELSE v

BindCopy(t, bri, ri, f) ==
    LET b == IndexOf(t, f.to)
        u == [ref(t, f.to) EXCEPT !.vregs[ri].bidi = f.kind = "bidi copy"]
        v == make_deps_by(u, b, ri)
        shared == /\ f.kind = "bidi copy" /\ v.vregs[b].super = None
                  /\ v.vregs[b].size \in {0, v.vregs[ri].size}
    IN IF Fine(v) /\ shared
       THEN make_deps_by([v EXCEPT !.vregs[b].super = v.vregs[ri].super], v.vregs[ri].super, b)
       ELSE v

Offset(fields, k) == FoldLeft(LAMBDA n, f : n + f.size, 0, SubSeq(fields, 1, k - 1))

FieldName(base, f, offset) == IF f.name = Unnamed THEN <<"$", base, offset>> ELSE f.name

process_bound_value_dep(t, bri, f, offset, explicit) ==
    LET name == FieldName(t.vregs[bri].name, f, offset)
        ri == IndexOf(t, name)
        flags == IF f.kind = "value" /\ f.name = Unnamed THEN {"reserved"}
                 ELSE IF explicit THEN {"explicit"} ELSE {}
        u == AddUnder(t, bri, name, f.size, flags)
        v == [u EXCEPT !.vregs[bri].subs = Append(@, ri), !.vregs[ri].start = offset]
    IN IF ~Fine(u) THEN u
       ELSE CASE f.kind = "plain" -> v
              [] f.kind = "value" -> [v EXCEPT !.vregs[ri].value = TRUE]
              [] f.kind \in {"to", "bidi"} -> Bind(v, bri, ri, f)
              [] f.kind \in {"copy", "bidi copy"} -> BindCopy(v, bri, ri, f)

process_register_splitter_dep(t, ri, d) ==
    FoldLeft(LAMBDA u, k : IF Fine(u)
                           THEN process_bound_value_dep(u, ri, d.fields[k], Offset(d.fields, k), d.explicit)
                           ELSE u,
             [t EXCEPT !.vregs[ri].evaluate = d.evaluate],
             [k \in 1..Len(d.fields) |-> k])

Hardwire(t, d, n) ==
    LET ri == IndexOf(t, d.names[n])
        u == add(t, d.names[n], d.size, {})
    IN IF ~Fine(u) THEN Crash(u)        \* ri->group without a register
       ELSE Using([u EXCEPT !.vregs[ri].value = TRUE], d.uses, ri)

AliasRegister(t, d, n) ==
    LET b == IndexOf(t, d.alias[n])
        r == ref(t, d.alias[n])
        ri == IndexOf(r, d.names[n])
        u == AddUnder(r, b, d.names[n], d.size, {})
    IN IF ~Fine(u) THEN Crash(u)        \* ri->binding without a register
       ELSE Using([u EXCEPT !.vregs[ri].binding = b,
                            !.vregs[ri].alias = ~IsMeta(d.alias[n])], d.uses, ri)

Define(t, d, n) ==
    CASE d.value -> Hardwire(t, d, n)
      [] ~d.value /\ d.alias # <<>> -> AliasRegister(t, d, n)
      [] OTHER -> add(t, d.names[n], d.size, {})

process_register_dep(t, d) ==
    FoldLeft(LAMBDA u, n :
                LET v == IF Fine(u) THEN Define(u, d, n) ELSE u
                IN IF Fine(v) THEN process_register_splitter_dep(v, IndexOf(v, d.names[n]), d) ELSE v,
             t, [n \in 1..Len(d.names) |-> n])

--------------------------------------------------------------------------------

Registers(t) == [i \in DOMAIN t.vregs |-> i]

(* A field bound to another field of its register refers to a name that is *)
(* no register (explicit fields are not known by their names).             *)
ResolveSub(t, i) ==
    LET r == t.vregs[i]
        inner == {j \in r.deps_on : ~IsMeta(t.vregs[j].name) /\
                      \E k \in Range(r.subs) : t.vregs[k].name = t.vregs[j].name}
    IN IF ~Fine(t) \/ IsMeta(r.name) \/ inner = {} THEN t
       ELSE FoldLeft(LAMBDA u, j : IF Fine(u) THEN remove_deps_on(u, i, j) ELSE u,
                     t, SetToSeq(inner))

resolve_subs(t) == FoldLeft(ResolveSub, t, Registers(t))

(* The register depends on what its field is bound to, not the reverse.    *)
Reverse_deps(t, binding, j) ==
    LET u == remove_deps_on(t, binding, j)
    IN IF Fine(u) THEN make_deps_by(u, binding, j) ELSE u

Bound(t, i) == SelectSeq(t.vregs[i].subs, LAMBDA j : t.vregs[j].bidi /\ t.vregs[j].binding # None)

FixIndirect(t, i) ==
    LET r == t.vregs[i]
        binds == r.bidi \/ r.alias
        bound == Bound(t, i)
        size == FoldLeft(LAMBDA n, j : n + t.vregs[t.vregs[j].binding].size, 0, bound)
        fields == FoldLeft(LAMBDA u, j : IF Fine(u) THEN Reverse_deps(u, t.vregs[j].binding, j) ELSE u, t, bound)
        whole == FoldLeft(LAMBDA u, j : IF Fine(u) THEN Reverse_deps(u, t.vregs[j].binding, i) ELSE u,
                          [fields EXCEPT !.vregs[i].full = TRUE], bound)
    IN IF ~Fine(t) \/ IsMeta(r.name) \/ ~r.resolved THEN t
       ELSE IF binds /\ r.binding = None THEN Crash(t)
       ELSE IF binds /\ t.vregs[r.binding].size \in {0, r.size} THEN [t EXCEPT !.vregs[i].full = TRUE]
       ELSE IF \E j \in Range(bound) : ~t.vregs[t.vregs[j].binding].resolved THEN Crash(t)
       ELSE IF Fine(fields) /\ size >= r.size THEN whole ELSE fields

fix_indir_deps(t) == FoldLeft(FixIndirect, t, Registers(t))

resolve(t) == LET u == resolve_subs(t) IN IF Fine(u) THEN fix_indir_deps(u) ELSE u

\* Mutant: what a register is part of by a field of another is not looked at.
is_independent_Parent(t, i) ==
    LET r == t.vregs[i]
    IN /\ r.resolved /\ ~IsPseudo(r.name)
       /\ r.super = None \/ IsMeta(t.vregs[r.super].name)
       /\ ~(r.full \/ r.alias \/ r.bidi)

is_independent(t, i) ==
    LET r == t.vregs[i]
    IN /\ r.resolved /\ ~IsPseudo(r.name)
       /\ \/ r.super # None /\ IsMeta(t.vregs[r.super].name)
          \/ /\ \A j \in r.deps_on : IsMeta(t.vregs[j].name)
             /\ r.deps_on # {} \/ ~(r.full \/ r.alias \/ r.bidi)

================================================================================
