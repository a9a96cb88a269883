------------------------- MODULE RegisterLayoutProofs -------------------------
(***************************************************************************)
(* Generated code and a client share the registers of every architecture   *)
(* whose C structure begins with the members of its register_layout.       *)
(***************************************************************************)
EXTENDS RegisterLayout, WellFoundedInduction, SequenceTheorems, TLAPS

--------------------------------------------------------------------------------
(***************************************************************************)
(* What is needed of the places of the registers: each is a member, the    *)
(* members do not overlap, and none lies over the program counter.         *)
(***************************************************************************)
Pc == N("pc")
BytesOf(p, reg) == {reg[1]} \X p.at[reg]

MembersApart(p) ==
    /\ Pc \in p.clients /\ p.pc = p.bytes[Pc]
    /\ \A n \in p.clients : p.bytes[n] \subseteq p.all
    /\ \A n, m \in p.clients : n # m => p.bytes[n] \cap p.bytes[m] = {}

RegistersAreMembers(p) ==
    /\ \A reg \in p.registers :
          /\ p.name[reg] \in p.clients \ {Pc}
          /\ p.bytes[p.name[reg]] = BytesOf(p, reg)
          /\ p.at[reg] \subseteq 0..(p.size[reg[1]] - 1)
          /\ reg = <<reg[1], reg[2]>>
    /\ \A r, s \in p.registers : p.name[r] = p.name[s] => r = s

SpillsEach(p) ==
    /\ \A reg \in p.registers : \A b \in BytesOf(p, reg) :
          b \in DOMAIN p.spilled /\ p.spilled[b] = reg
    /\ \A b \in DOMAIN p.spilled : \E reg \in p.registers : b \in BytesOf(p, reg)

Fits(p) == MembersApart(p) /\ RegistersAreMembers(p) /\ SpillsEach(p)

\* A client's members that are no registers of generated code.
Bystanders == {n \in arch.clients \ {Pc} : \A reg \in arch.registers : arch.name[reg] # n}

InMemory(names) == \A n \in names : \A b \in arch.bytes[n] : mem[b] = last[n]

Copied ==
    /\ DOMAIN local = arch.registers
    /\ \A reg \in arch.registers :
          /\ DOMAIN local[reg] = arch.at[reg]
          /\ \A b \in arch.at[reg] : local[reg][b] = last[arch.name[reg]]

LayoutInvariant ==
    /\ Fits(arch) /\ DOMAIN mem = arch.all /\ DOMAIN last = arch.clients
    /\ InMemory({Pc})
    /\ IF Outside THEN InMemory(arch.clients \ {Pc}) ELSE Copied /\ InMemory(Bystanders)

FitAll == \A a \in Architectures : Fits(Placement[a])

LEMMA LayoutStart == FitAll /\ Init => LayoutInvariant
<1> SUFFICES ASSUME FitAll, Init PROVE LayoutInvariant
  OBVIOUS
<1>1. Fits(arch)
  BY DEF FitAll, Init
<1>2. \A n \in arch.clients : arch.bytes[n] \subseteq arch.all
  BY <1>1 DEF Fits, MembersApart
<1>3. InMemory(arch.clients) /\ Pc \in arch.clients
  BY <1>1, <1>2 DEF Init, InMemory, Fits, MembersApart
<1> QED BY <1>1, <1>3 DEF Init, LayoutInvariant, InMemory, Outside

LEMMA PutKeeps == LayoutInvariant /\ ClientPut => LayoutInvariant'
<1> SUFFICES ASSUME LayoutInvariant, ClientPut PROVE LayoutInvariant'
  OBVIOUS
<1>1. /\ MembersApart(arch) /\ arch' = arch /\ local' = local /\ Outside /\ DOMAIN mem = arch.all
      /\ last' = [n \in arch.clients |-> <<"client", n>>]
  BY DEF LayoutInvariant, Fits, ClientPut
<1>2. ASSUME NEW n \in arch.clients, NEW b \in arch.bytes[n] PROVE mem'[b] = last'[n]
  <2>1. b \in DOMAIN mem
    BY <1>1 DEF MembersApart
  <2>2. \A m \in arch.clients : b \in arch.bytes[m] => m = n
    BY <1>1 DEF MembersApart
  <2>3. (CHOOSE m \in arch.clients : b \in arch.bytes[m]) = n
    BY <2>2
  <2>4. mem'[b] = <<"client", n>>
    BY <2>1, <2>3 DEF ClientPut
  <2> QED BY <1>1, <2>4
<1>3. DOMAIN mem' = arch'.all /\ DOMAIN last' = arch'.clients
  BY <1>1 DEF ClientPut
<1> QED BY <1>1, <1>2, <1>3 DEF LayoutInvariant, InMemory, Outside, MembersApart

LEMMA EnterKeeps == LayoutInvariant /\ Enter => LayoutInvariant'
<1> SUFFICES ASSUME LayoutInvariant, Enter PROVE LayoutInvariant'
  OBVIOUS
<1>1. /\ Fits(arch) /\ Outside /\ InMemory(arch.clients \ {Pc}) /\ InMemory({Pc})
      /\ arch' = arch /\ mem' = mem /\ last' = last
      /\ local' = [reg \in arch.registers |-> [b \in arch.at[reg] |-> mem[<<reg[1], b>>]]]
  BY DEF LayoutInvariant, Enter
<1>2. Copied'
  <2>1. ASSUME NEW reg \in arch.registers, NEW b \in arch.at[reg]
        PROVE  mem[<<reg[1], b>>] = last[arch.name[reg]]
    <3>1. <<reg[1], b>> \in arch.bytes[arch.name[reg]] /\ arch.name[reg] \in arch.clients \ {Pc}
      BY <1>1 DEF Fits, RegistersAreMembers, BytesOf
    <3> QED BY <1>1, <3>1 DEF InMemory
  <2> QED BY <1>1, <2>1 DEF Copied
<1>3. InMemory(Bystanders)'
  BY <1>1 DEF InMemory, Bystanders
<1>4. InMemory(arch.clients \ {Pc})' /\ InMemory({Pc})'
  BY <1>1 DEF InMemory
<1> QED BY <1>1, <1>2, <1>3, <1>4 DEF LayoutInvariant

LEMMA GuestPutKeeps ==
  ASSUME LayoutInvariant, NEW reg \in arch.registers, GuestPut(reg)
  PROVE  LayoutInvariant'
<1> DEFINE token == <<"guest", arch.name[reg]>>
<1>1. /\ Fits(arch) /\ ~Outside /\ Copied /\ InMemory(Bystanders) /\ InMemory({Pc})
      /\ arch' = arch /\ mem' = mem
      /\ local' = [local EXCEPT ![reg] = [b \in DOMAIN local[reg] |-> token]]
      /\ last' = [n \in arch.clients |-> IF n = arch.name[reg] THEN token ELSE last[n]]
  BY DEF LayoutInvariant, GuestPut
<1> HIDE DEF token
<1>2. /\ arch.name[reg] \in arch.clients \ {Pc} /\ Pc \in arch.clients
      /\ \A r \in arch.registers : arch.name[r] \in arch.clients
      /\ \A r \in arch.registers : arch.name[r] = arch.name[reg] => r = reg
  BY <1>1 DEF Fits, RegistersAreMembers, MembersApart
<1>3. Copied'
  <2>1. DOMAIN local' = arch.registers
    BY <1>1 DEF Copied
  <2>2. ASSUME NEW r \in arch.registers
        PROVE  /\ DOMAIN local'[r] = arch.at[r]
               /\ \A b \in arch.at[r] : local'[r][b] = last'[arch.name[r]]
    <3>1. CASE r = reg
      BY <1>1, <1>2, <3>1 DEF Copied
    <3>2. CASE r # reg
      BY <1>1, <1>2, <3>2 DEF Copied
    <3> QED BY <3>1, <3>2
  <2> QED BY <1>1, <2>1, <2>2 DEF Copied
<1>4. InMemory(Bystanders)' /\ InMemory({Pc})'
  BY <1>1, <1>2 DEF InMemory, Bystanders
<1>5. ~Outside'
  <2>1. reg \in DOMAIN local'
    BY <1>1 DEF Copied
  <2>2. DOMAIN <<>> = {}
    OBVIOUS
  <2> QED BY <2>1, <2>2 DEF Outside
<1> QED BY <1>1, <1>3, <1>4, <1>5 DEF LayoutInvariant

LEMMA StorePcKeeps == LayoutInvariant /\ StorePc => LayoutInvariant'
<1> SUFFICES ASSUME LayoutInvariant, StorePc PROVE LayoutInvariant'
  OBVIOUS
<1> DEFINE token == <<"guest", Pc>>
<1>1. /\ Fits(arch) /\ ~Outside /\ Copied /\ InMemory(Bystanders)
      /\ DOMAIN mem = arch.all /\ DOMAIN last = arch.clients
      /\ arch' = arch /\ local' = local
      /\ mem' = [b \in DOMAIN mem |-> IF b \in arch.pc THEN token ELSE mem[b]]
      /\ last' = [last EXCEPT ![Pc] = token]
  BY DEF LayoutInvariant, StorePc, Pc
<1> HIDE DEF token
<1>2. /\ Pc \in arch.clients /\ arch.pc = arch.bytes[Pc] /\ arch.bytes[Pc] \subseteq arch.all
      /\ \A n \in arch.clients \ {Pc} : arch.bytes[n] \cap arch.pc = {} /\ arch.bytes[n] \subseteq arch.all
      /\ \A reg \in arch.registers : arch.name[reg] \in arch.clients \ {Pc}
  BY <1>1 DEF Fits, MembersApart, RegistersAreMembers
<1>3. \A n \in arch.clients \ {Pc} : last'[n] = last[n]
  BY <1>1
<1>4. Copied'
  BY <1>1, <1>2, <1>3 DEF Copied
<1>5. InMemory({Pc})'
  BY <1>1, <1>2 DEF InMemory
<1>6. InMemory(Bystanders)'
  <2>1. ASSUME NEW n \in Bystanders, NEW b \in arch.bytes[n] PROVE mem'[b] = last'[n]
    <3>1. n \in arch.clients \ {Pc} /\ mem[b] = last[n]
      BY <1>1 DEF Bystanders, InMemory
    <3> QED BY <1>1, <1>2, <1>3, <3>1
  <2> QED BY <1>1, <2>1 DEF InMemory, Bystanders
<1>7. DOMAIN mem' = arch'.all /\ DOMAIN last' = arch'.clients /\ ~Outside'
  BY <1>1 DEF Outside
<1> QED BY <1>1, <1>4, <1>5, <1>6, <1>7 DEF LayoutInvariant

LEMMA ReturnKeeps == LayoutInvariant /\ Return => LayoutInvariant'
<1> SUFFICES ASSUME LayoutInvariant, Return PROVE LayoutInvariant'
  OBVIOUS
<1>1. /\ Fits(arch) /\ Copied /\ InMemory(Bystanders) /\ InMemory({Pc})
      /\ DOMAIN mem = arch.all /\ DOMAIN last = arch.clients
      /\ arch' = arch /\ local' = <<>> /\ last' = last
      /\ mem' = [b \in DOMAIN mem |->
                   IF b \in DOMAIN arch.spilled THEN local[arch.spilled[b]][b[2]] ELSE mem[b]]
  BY DEF LayoutInvariant, Return
<1>2. ASSUME NEW n \in arch.clients, NEW b \in arch.bytes[n], \A reg \in arch.registers : arch.name[reg] # n
      PROVE  mem'[b] = mem[b]
  <2>1. b \notin DOMAIN arch.spilled
    <3>1. SUFFICES ASSUME b \in DOMAIN arch.spilled PROVE FALSE
      OBVIOUS
    <3>2. PICK reg \in arch.registers : b \in BytesOf(arch, reg)
      BY <1>1, <3>1 DEF Fits, SpillsEach
    <3>3. arch.name[reg] \in arch.clients /\ b \in arch.bytes[arch.name[reg]] /\ arch.name[reg] # n
      BY <1>1, <1>2, <3>2 DEF Fits, RegistersAreMembers
    <3> QED BY <1>1, <3>3 DEF Fits, MembersApart
  <2>2. b \in DOMAIN mem
    BY <1>1 DEF Fits, MembersApart
  <2> QED BY <1>1, <2>1, <2>2
<1>3. ASSUME NEW reg \in arch.registers, NEW b \in arch.bytes[arch.name[reg]]
      PROVE  mem'[b] = last[arch.name[reg]]
  <2>1. arch.name[reg] \in arch.clients /\ b \in BytesOf(arch, reg)
    BY <1>1 DEF Fits, RegistersAreMembers
  <2>2. b[2] \in arch.at[reg]
    BY <2>1 DEF BytesOf
  <2>3. b \in DOMAIN mem /\ b \in DOMAIN arch.spilled /\ arch.spilled[b] = reg
    BY <1>1, <2>1 DEF Fits, MembersApart, SpillsEach
  <2>4. mem'[b] = local[reg][b[2]]
    BY <1>1, <2>3
  <2> QED BY <1>1, <2>2, <2>4 DEF Copied
<1>4. InMemory({Pc})'
  <2>1. Pc \in arch.clients /\ \A reg \in arch.registers : arch.name[reg] # Pc
    BY <1>1 DEF Fits, MembersApart, RegistersAreMembers
  <2> QED BY <1>1, <1>2, <2>1 DEF InMemory
<1>5. InMemory(arch.clients \ {Pc})'
  <2>1. ASSUME NEW n \in arch.clients \ {Pc}, NEW b \in arch.bytes[n] PROVE mem'[b] = last[n]
    <3>1. CASE n \in Bystanders
      BY <1>1, <1>2, <3>1 DEF InMemory, Bystanders
    <3>2. CASE n \notin Bystanders
      BY <1>3, <3>2 DEF Bystanders
    <3> QED BY <3>1, <3>2
  <2> QED BY <1>1, <2>1 DEF InMemory
<1>6. DOMAIN mem' = arch'.all /\ Outside'
  BY <1>1 DEF Outside
<1> QED BY <1>1, <1>4, <1>5, <1>6 DEF LayoutInvariant

LEMMA LayoutStep == LayoutInvariant /\ [Next]_vars => LayoutInvariant'
<1> SUFFICES ASSUME LayoutInvariant, [Next]_vars PROVE LayoutInvariant'
  OBVIOUS
<1>1. CASE ClientPut
  BY <1>1, PutKeeps
<1>2. CASE Enter
  BY <1>2, EnterKeeps
<1>3. CASE StorePc
  BY <1>3, StorePcKeeps
<1>4. CASE Return
  BY <1>4, ReturnKeeps
<1>5. CASE \E reg \in arch.registers : GuestPut(reg)
  BY <1>5, GuestPutKeeps
<1>6. CASE UNCHANGED vars
  BY <1>6 DEF LayoutInvariant, InMemory, Copied, Bystanders, Outside, vars
<1> QED BY <1>1, <1>2, <1>3, <1>4, <1>5, <1>6 DEF Next

InPlace == RegistersShared /\ GuestReadsClient /\ PcKept /\ SpillsInside

LEMMA LayoutHolds == LayoutInvariant => InPlace
<1> SUFFICES ASSUME LayoutInvariant PROVE InPlace
  OBVIOUS
<1>1. RegistersShared
  BY DEF LayoutInvariant, RegistersShared, InMemory, Pc
<1>2. PcKept
  BY DEF LayoutInvariant, PcKept, InMemory, Pc
<1>3. CASE Outside
  <2>1. DOMAIN local = {}
    BY <1>3 DEF Outside
  <2> QED BY <1>1, <1>2, <2>1 DEF InPlace, GuestReadsClient, SpillsInside
<1>4. CASE ~Outside
  <2>1. Copied /\ RegistersAreMembers(arch)
    BY <1>4 DEF LayoutInvariant, Fits
  <2>2. GuestReadsClient
    BY <2>1 DEF Copied, GuestReadsClient
  <2>3. SpillsInside
    BY <2>1 DEF Copied, RegistersAreMembers, SpillsInside
  <2> QED BY <1>1, <1>2, <2>2, <2>3 DEF InPlace
<1> QED BY <1>3, <1>4

--------------------------------------------------------------------------------
(***************************************************************************)
(* Packed structures: where members end, from one to the next.             *)
(***************************************************************************)
LEMMA Least ==
  ASSUME NEW T \in SUBSET Nat, T # {}
  PROVE  \E x \in T : \A y \in T : x <= y
<1>1. PICK x \in T : \A y \in T : ~(<<y, x>> \in OpToRel(<, Nat))
  BY NatLessThanWellFounded, WFMin
<1>2. \A y \in T : ~(y < x)
  BY <1>1 DEF OpToRel
<1> QED BY <1>2

IsSequence(f) == \E S : f \in Seq(S)

IsStruct(f) ==
    /\ IsSequence(f)
    /\ Len(f) \in Nat /\ DOMAIN f = 1..Len(f) /\ \A k \in 1..Len(f) : f[k].bytes \in Nat

AddsUp(g, f, m) ==
    /\ g \in [0..m -> Nat] /\ g[0] = 0
    /\ \A k \in 1..m : g[k] = g[k - 1] + f[k].bytes

LEMMA SumsExist ==
  ASSUME NEW f, IsStruct(f), NEW n \in 0..Len(f)
  PROVE  \E g : AddsUp(g, f, n)
<1> DEFINE T == {m \in 0..Len(f) : ~\E g : AddsUp(g, f, m)}
<1>1. SUFFICES ASSUME T # {} PROVE FALSE
  OBVIOUS
<1>2. PICK m \in T : \A y \in T : m <= y
  <2>1. T \in SUBSET Nat
    BY DEF IsStruct
  <2> HIDE DEF T
  <2> QED BY <1>1, <2>1, Least
<1>3. m # 0
  <2>1. AddsUp([k \in 0..0 |-> 0], f, 0)
    BY DEF AddsUp
  <2> QED BY <1>2, <2>1
<1>4. m - 1 \in 0..Len(f) /\ m - 1 \notin T
  BY <1>2, <1>3 DEF IsStruct
<1>5. PICK g : AddsUp(g, f, m - 1)
  BY <1>4
<1> DEFINE h == [k \in 0..m |-> IF k = m THEN g[m - 1] + f[m].bytes ELSE g[k]]
<1>6. AddsUp(h, f, m)
  <2>1. m \in 1..Len(f) /\ f[m].bytes \in Nat /\ \A k \in 0..(m - 1) : g[k] \in Nat
    <3>1. m \in 1..Len(f)
      BY <1>2, <1>3 DEF IsStruct
    <3> HIDE DEF T
    <3> QED BY <1>5, <3>1 DEF IsStruct, AddsUp
  <2>2. h \in [0..m -> Nat] /\ h[0] = 0
    BY <1>5, <2>1 DEF AddsUp
  <2>3. ASSUME NEW k \in 1..m PROVE h[k] = h[k - 1] + f[k].bytes
    <3>1. CASE k = m
      BY <2>1, <3>1
    <3>2. CASE k # m
      BY <1>5, <2>1, <3>2 DEF AddsUp
    <3> QED BY <3>1, <3>2
  <2> QED BY <2>2, <2>3 DEF AddsUp
<1> QED BY <1>2, <1>6

LEMMA EndsAddUp ==
  ASSUME NEW f, IsStruct(f)
  PROVE  AddsUp(Ends(f), f, Len(f))
<1> DEFINE Sum(g) == [k \in 0..Len(f) |-> IF k = 0 THEN 0 ELSE g[k - 1] + f[k].bytes]
<1>1. PICK g : AddsUp(g, f, Len(f))
  BY SumsExist DEF IsStruct
<1>2. g = Sum(g)
  BY <1>1 DEF AddsUp, IsStruct
<1>3. Ends(f) = CHOOSE e : e = Sum(e)
  BY DEF Ends
<1>4. Ends(f) = Sum(Ends(f))
  BY <1>2, <1>3
<1> DEFINE e == Ends(f)
<1>5. DOMAIN e = 0..Len(f) /\ e[0] = 0 /\ \A k \in 1..Len(f) : e[k] = e[k - 1] + f[k].bytes
  BY <1>4 DEF IsStruct
<1> HIDE DEF Sum
<1>6. \A k \in 0..Len(f) : e[k] = g[k]
  <2> DEFINE T == {k \in 0..Len(f) : e[k] # g[k]}
  <2>1. SUFFICES ASSUME T # {} PROVE FALSE
    OBVIOUS
  <2>2. PICK k \in T : \A y \in T : k <= y
    <3>1. T \in SUBSET Nat
      BY DEF IsStruct
    <3> HIDE DEF T
    <3> QED BY <2>1, <3>1, Least
  <2>3. k \in 1..Len(f)
    BY <1>1, <1>5, <2>2 DEF AddsUp, IsStruct
  <2>4. e[k - 1] = g[k - 1]
    BY <2>2, <2>3 DEF IsStruct
  <2> QED BY <1>1, <1>5, <2>2, <2>3, <2>4 DEF AddsUp
<1>7. e \in [0..Len(f) -> Nat]
  <2>1. \A k \in 0..Len(f) : e[k] \in Nat
    BY <1>1, <1>6 DEF AddsUp
  <2>2. e = [k \in 0..Len(f) |-> e[k]]
    BY <1>4 DEF Sum
  <2> HIDE DEF e
  <2> QED BY <2>1, <2>2
<1> QED BY <1>5, <1>7 DEF AddsUp

LEMMA EndsGrow ==
  ASSUME NEW f, NEW g, NEW n \in Nat, AddsUp(g, f, n), \A k \in 1..n : f[k].bytes \in Nat
  PROVE  \A i, j \in 0..n : i <= j => g[i] <= g[j]
<1> SUFFICES ASSUME NEW i \in 0..n
             PROVE  \A j \in 0..n : i <= j => g[i] <= g[j]
  OBVIOUS
<1> DEFINE T == {j \in 0..n : i <= j /\ ~(g[i] <= g[j])}
<1>1. SUFFICES ASSUME T # {} PROVE FALSE
  OBVIOUS
<1>2. PICK j \in T : \A y \in T : j <= y
  <2>1. T \in SUBSET Nat
    OBVIOUS
  <2> HIDE DEF T
  <2> QED BY <1>1, <2>1, Least
<1>3. g[i] \in Nat /\ g[j] \in Nat /\ j # i
  BY <1>2 DEF AddsUp
<1>4. j \in 1..n /\ j - 1 \in 0..n /\ j - 1 \notin T /\ i <= j - 1
  BY <1>2, <1>3
<1>5. g[j - 1] \in Nat /\ g[i] <= g[j - 1] /\ g[j] = g[j - 1] + f[j].bytes /\ f[j].bytes \in Nat
  BY <1>4 DEF AddsUp
<1> QED BY <1>2, <1>3, <1>5

LEMMA EndsAgree ==
  ASSUME NEW f, NEW g, NEW n \in Nat, AddsUp(g, f, n),
         NEW e, NEW h, NEW m \in Nat, AddsUp(h, e, m), n <= m,
         \A k \in 1..n : e[k] = f[k]
  PROVE  \A k \in 0..n : h[k] = g[k]
<1> DEFINE T == {k \in 0..n : h[k] # g[k]}
<1>1. SUFFICES ASSUME T # {} PROVE FALSE
  OBVIOUS
<1>2. PICK k \in T : \A y \in T : k <= y
  <2>1. T \in SUBSET Nat
    OBVIOUS
  <2> HIDE DEF T
  <2> QED BY <1>1, <2>1, Least
<1>3. k \in 1..n /\ k \in 1..m
  BY <1>2 DEF AddsUp
<1>4. h[k - 1] = g[k - 1]
  BY <1>2, <1>3
<1> QED BY <1>2, <1>3, <1>4 DEF AddsUp

LEMMA SpansApart ==
  ASSUME NEW f, IsStruct(f)
  PROVE  /\ Size(f) \in Nat
         /\ \A k \in 1..Len(f) : Span(f, k) \subseteq 0..(Size(f) - 1)
         /\ \A j, k \in 1..Len(f) : j # k => Span(f, j) \cap Span(f, k) = {}
<1> DEFINE e == Ends(f)
<1>1. AddsUp(e, f, Len(f)) /\ Len(f) \in Nat
  BY EndsAddUp DEF IsStruct
<1>2. \A i, j \in 0..Len(f) : i <= j => e[i] <= e[j]
  BY <1>1, EndsGrow DEF IsStruct
<1>3. ASSUME NEW k \in 1..Len(f)
      PROVE  /\ Span(f, k) = e[k - 1]..(e[k] - 1)
             /\ e[k - 1] \in Nat /\ e[k] \in Nat /\ e[k] <= Size(f)
  <2>1. k - 1 \in 0..Len(f) /\ k \in 0..Len(f) /\ Len(f) \in 0..Len(f) /\ k <= Len(f)
    BY <1>1
  <2>2. /\ e[k - 1] \in Nat /\ e[k] \in Nat /\ e[k] = e[k - 1] + f[k].bytes
        /\ f[k].bytes \in Nat
    BY <1>1, <2>1 DEF AddsUp, IsStruct
  <2>3. Size(f) = e[Len(f)] /\ e[k] <= e[Len(f)]
    BY <1>2, <2>1 DEF Size
  <2>4. Span(f, k) = e[k - 1]..(e[k - 1] + f[k].bytes - 1)
    BY DEF Span, Offset
  <2> HIDE DEF e
  <2>5. Span(f, k) = e[k - 1]..(e[k] - 1)
    BY <2>2, <2>4
  <2> QED BY <2>2, <2>3, <2>5
<1>4. Size(f) \in Nat
  BY <1>1 DEF Size, AddsUp
<1>5. ASSUME NEW j \in 1..Len(f), NEW k \in 1..Len(f), j < k
      PROVE  Span(f, j) \cap Span(f, k) = {}
  <2>1. e[j] <= e[k - 1]
    BY <1>1, <1>2, <1>5
  <2> HIDE DEF e
  <2>2. /\ Span(f, j) = e[j - 1]..(e[j] - 1) /\ Span(f, k) = e[k - 1]..(e[k] - 1)
        /\ e[j - 1] \in Nat /\ e[j] \in Nat /\ e[k - 1] \in Nat /\ e[k] \in Nat
    BY <1>3
  <2> QED BY <2>1, <2>2
<1>6. \A k \in 1..Len(f) : Span(f, k) \subseteq 0..(Size(f) - 1)
  BY <1>3, <1>4
<1>7. ASSUME NEW j \in 1..Len(f), NEW k \in 1..Len(f), j # k
      PROVE  Span(f, j) \cap Span(f, k) = {}
  <2>1. j < k \/ k < j
    BY <1>1, <1>7
  <2> QED BY <1>5, <2>1
<1> QED BY <1>4, <1>6, <1>7

\* A structure of a client, and the members of it that generated code has.
Begins(f, e) ==
    IsStruct(f) /\ IsStruct(e) /\ Len(f) <= Len(e) /\ \A k \in 1..Len(f) : e[k] = f[k]

LEMMA SameSpans ==
  ASSUME NEW f, NEW e, Begins(f, e)
  PROVE  \A k \in 1..Len(f) : Span(e, k) = Span(f, k)
<1>1. AddsUp(Ends(f), f, Len(f)) /\ AddsUp(Ends(e), e, Len(e)) /\ Len(f) \in Nat /\ Len(e) \in Nat
  BY EndsAddUp DEF Begins, IsStruct
<1>2. \A k \in 0..Len(f) : Ends(e)[k] = Ends(f)[k]
  BY <1>1, EndsAgree DEF Begins
<1>3. ASSUME NEW k \in 1..Len(f) PROVE Offset(e, k) = Offset(f, k) /\ e[k] = f[k]
  BY <1>1, <1>2 DEF Offset, Begins
<1> QED BY <1>3 DEF Span

--------------------------------------------------------------------------------
(***************************************************************************)
(* The descriptions: the C structure begins with the members of            *)
(* register_layout, and the program counter comes later.                   *)
(***************************************************************************)
Matches(d) ==
    /\ Begins(d.layout, d.grf)
    /\ d.fpr \in Nat /\ d.frf = X(d.fpr, FprBytes)
    /\ \A j, k \in DOMAIN d.grf : d.grf[j].name = d.grf[k].name => j = k
    /\ \A k \in DOMAIN d.grf : \A n \in 0..(d.fpr - 1) : d.grf[k].name # <<"X", n>>
    /\ d.pc = Pc
    /\ \E k \in DOMAIN d.grf \ DOMAIN d.layout : d.grf[k].name = Pc /\ d.grf[k].bytes = d.address

\* Both files.
Files == {"grf", "frf"}
NameOf(files, m) == files[m[1]][m[2]].name

FilesMatch(layout, member) ==
    /\ \A c \in Files : Begins(layout[c], member[c])
    /\ \A m, n \in In(member) : NameOf(member, m) = NameOf(member, n) => m = n

\* An array of registers is a structure.
LEMMA Arrays ==
  ASSUME NEW n \in Nat, NEW f, f = [k \in 1..n |-> f[k]], \A k \in 1..n : f[k].bytes \in Nat
  PROVE  IsStruct(f) /\ Len(f) = n
<1>1. f \in [1..n -> {f[k] : k \in 1..n}]
  OBVIOUS
<1>2. f \in Seq({f[k] : k \in 1..n})
  BY <1>1, SMTT(60)
<1>3. DOMAIN f = 1..n /\ Len(f) = n
  BY <1>1, <1>2
<1> QED BY <1>2, <1>3 DEF IsStruct, IsSequence

LEMMA XIsStruct ==
  ASSUME NEW n \in Nat
  PROVE  /\ IsStruct(X(n, FprBytes)) /\ Len(X(n, FprBytes)) = n
         /\ \A k \in 1..n : X(n, FprBytes)[k].name = <<"X", k - 1>>
<1>1. X(n, FprBytes) = [k \in 1..n |-> [name |-> <<"X", k - 1>>, bytes |-> FprBytes]]
  BY DEF X, Fields
<1>2. FprBytes = 16
  BY DEF FprBytes
<1> DEFINE f == X(n, FprBytes)
<1>3. f = [k \in 1..n |-> f[k]] /\ \A k \in 1..n : f[k].bytes \in Nat /\ f[k].name = <<"X", k - 1>>
  BY <1>1, <1>2
<1> HIDE DEF f
<1>4. IsStruct(f) /\ Len(f) = n
  BY <1>3, Arrays
<1> QED BY <1>3, <1>4 DEF f

LEMMA FilesOf ==
  ASSUME NEW d, Matches(d)
  PROVE  FilesMatch(Layouts(d), Members(d))
<1> DEFINE layout == Layouts(d)
           member == Members(d)
<1>1. /\ layout["grf"] = d.layout /\ layout["frf"] = X(d.fpr, FprBytes)
      /\ member["grf"] = d.grf /\ member["frf"] = d.frf
  BY DEF Layouts, Members
<1> HIDE DEF layout, member
<1>2. /\ IsStruct(d.frf) /\ Len(d.frf) = d.fpr /\ DOMAIN d.frf = 1..d.fpr /\ d.fpr \in Nat
      /\ \A k \in 1..d.fpr : d.frf[k].name = <<"X", k - 1>>
  BY XIsStruct DEF Matches, IsStruct
<1>3. \A c \in Files : Begins(layout[c], member[c])
  BY <1>1, <1>2 DEF Files, Matches, Begins
<1>4. ASSUME NEW m \in In(member), NEW n \in In(member), NameOf(member, m) = NameOf(member, n)
      PROVE  m = n
  <2>1. /\ m = <<m[1], m[2]>> /\ m[1] \in Files /\ m[2] \in DOMAIN member[m[1]]
        /\ n = <<n[1], n[2]>> /\ n[1] \in Files /\ n[2] \in DOMAIN member[n[1]]
    BY DEF In, Files
  <2>2. CASE m[1] = "grf" /\ n[1] = "grf"
    BY <1>1, <1>4, <2>1, <2>2 DEF NameOf, Matches
  <2>3. CASE m[1] = "frf" /\ n[1] = "frf"
    <3>1. m[2] \in 1..d.fpr /\ n[2] \in 1..d.fpr /\ <<"X", m[2] - 1>> = <<"X", n[2] - 1>>
      BY <1>1, <1>2, <1>4, <2>1, <2>3 DEF NameOf
    <3>2. m[2] - 1 = n[2] - 1
      BY <3>1
    <3> QED BY <2>1, <2>3, <3>1, <3>2
  <2>4. CASE m[1] = "grf" /\ n[1] = "frf"
    <3>1. n[2] - 1 \in 0..(d.fpr - 1) /\ d.grf[m[2]].name = <<"X", n[2] - 1>> /\ m[2] \in DOMAIN d.grf
      BY <1>1, <1>2, <1>4, <2>1, <2>4 DEF NameOf
    <3> QED BY <3>1 DEF Matches
  <2>5. CASE m[1] = "frf" /\ n[1] = "grf"
    <3>1. m[2] - 1 \in 0..(d.fpr - 1) /\ d.grf[n[2]].name = <<"X", m[2] - 1>> /\ n[2] \in DOMAIN d.grf
      BY <1>1, <1>2, <1>4, <2>1, <2>5 DEF NameOf
    <3> QED BY <3>1 DEF Matches
  <2> QED BY <2>1, <2>2, <2>3, <2>4, <2>5 DEF Files
<1> QED BY <1>3, <1>4 DEF FilesMatch, layout, member

LEMMA PlacedFits ==
  ASSUME NEW d, Matches(d)
  PROVE  Fits(Placed(d))
<1> DEFINE layout == Layouts(d)
           member == Members(d)
           p == Placed(d)
           which(n) == CHOOSE m \in In(member) : member[m[1]][m[2]].name = n
<1>1. /\ \A c \in Files : Begins(layout[c], member[c])
      /\ \A m, n \in In(member) : NameOf(member, m) = NameOf(member, n) => m = n
  BY FilesOf DEF FilesMatch
<1>2. /\ p.registers = In(layout)
      /\ p.name = [reg \in In(layout) |-> NameOf(layout, reg)]
      /\ p.at = [reg \in In(layout) |-> Span(layout[reg[1]], reg[2])]
      /\ p.spilled = Spilled(p.at)
      /\ p.clients = {NameOf(member, m) : m \in In(member)}
      /\ p.bytes = [n \in p.clients |-> {which(n)[1]} \X Span(member[which(n)[1]], which(n)[2])]
      /\ p.pc = PcStored(d)
      /\ p.size = [c \in Files |-> Size(member[c])]
      /\ p.all = UNION {{c} \X (0..(Larger(Size(member[c]), Size(layout[c])) - 1)) : c \in Files}
  BY DEF Placed, NameOf, Files, Location
<1> HIDE DEF layout, member, p
<1>3. ASSUME NEW m \in In(member)
      PROVE  /\ m = <<m[1], m[2]>> /\ m[1] \in Files /\ m[2] \in 1..Len(member[m[1]])
             /\ NameOf(member, m) \in p.clients /\ which(NameOf(member, m)) = m
             /\ p.bytes[NameOf(member, m)] = {m[1]} \X Span(member[m[1]], m[2])
  <2>1. m = <<m[1], m[2]>> /\ m[1] \in Files /\ m[2] \in DOMAIN member[m[1]]
    BY DEF In, Files
  <2>2. m[2] \in 1..Len(member[m[1]])
    BY <1>1, <2>1 DEF Begins, IsStruct
  <2>3. which(NameOf(member, m)) = m
    BY <1>1 DEF NameOf
  <2>4. NameOf(member, m) \in p.clients
    <3>1. p.clients = {NameOf(member, n) : n \in In(member)}
      BY <1>2
    <3> QED BY <3>1
  <2> HIDE DEF which
  <2>5. p.bytes[NameOf(member, m)] = {m[1]} \X Span(member[m[1]], m[2])
    BY <1>2, <2>3, <2>4
  <2> QED BY <2>1, <2>2, <2>3, <2>4, <2>5
<1> HIDE DEF which
<1>4. ASSUME NEW reg \in In(layout)
      PROVE  /\ reg \in In(member) /\ reg[2] \in DOMAIN layout[reg[1]]
             /\ p.name[reg] = NameOf(member, reg)
             /\ p.at[reg] = Span(member[reg[1]], reg[2])
  <2>1. reg = <<reg[1], reg[2]>> /\ reg[1] \in Files /\ reg[2] \in DOMAIN layout[reg[1]]
    BY DEF In, Files
  <2>2. Begins(layout[reg[1]], member[reg[1]])
    BY <1>1, <2>1
  <2>3. /\ reg[2] \in 1..Len(layout[reg[1]]) /\ reg[2] \in DOMAIN member[reg[1]]
        /\ member[reg[1]][reg[2]] = layout[reg[1]][reg[2]]
    BY <2>1, <2>2 DEF Begins, IsStruct
  <2>4. reg \in In(member)
    BY <2>1, <2>3 DEF In, Files
  <2>5. Span(member[reg[1]], reg[2]) = Span(layout[reg[1]], reg[2])
    BY <2>2, <2>3, SameSpans
  <2> QED BY <1>2, <2>1, <2>3, <2>4, <2>5 DEF NameOf
<1>5. ASSUME NEW c \in Files
      PROVE  /\ Size(member[c]) \in Nat
             /\ \A k \in 1..Len(member[c]) : Span(member[c], k) \subseteq 0..(Size(member[c]) - 1)
             /\ \A j, k \in 1..Len(member[c]) : j # k => Span(member[c], j) \cap Span(member[c], k) = {}
  <2>1. IsStruct(member[c])
    BY <1>1 DEF Begins
  <2> QED BY <2>1, SpansApart
<1>6. ASSUME NEW m \in In(member), NEW n \in In(member), m # n
      PROVE  p.bytes[NameOf(member, m)] \cap p.bytes[NameOf(member, n)] = {}
  <2>1. CASE m[1] # n[1]
    BY <1>3, <2>1
  <2>2. CASE m[1] = n[1]
    <3>1. m[2] # n[2] /\ m[1] \in Files /\ m[2] \in 1..Len(member[m[1]]) /\ n[2] \in 1..Len(member[m[1]])
      BY <1>3, <1>6, <2>2
    <3>2. Span(member[m[1]], m[2]) \cap Span(member[m[1]], n[2]) = {}
      BY <1>5, <3>1
    <3>3. /\ p.bytes[NameOf(member, m)] = {m[1]} \X Span(member[m[1]], m[2])
          /\ p.bytes[NameOf(member, n)] = {m[1]} \X Span(member[m[1]], n[2])
      BY <1>3, <2>2
    <3> QED BY <3>2, <3>3
  <2> QED BY <2>1, <2>2
<1>7. \A n \in p.clients : \E m \in In(member) : n = NameOf(member, m)
  BY <1>2
<1>8. MembersApart(p)
  <2>1. PICK k \in DOMAIN d.grf \ DOMAIN d.layout : d.grf[k].name = Pc /\ d.grf[k].bytes = d.address
    BY DEF Matches
  <2>2. member["grf"] = d.grf /\ layout["grf"] = d.layout /\ member.grf = d.grf
    BY DEF member, layout, Members, Layouts
  <2> DEFINE m == <<"grf", k>>
  <2>3. m \in In(member) /\ NameOf(member, m) = Pc
    BY <2>1, <2>2 DEF In, NameOf
  <2>4. p.pc = p.bytes[Pc]
    <3>1. (CHOOSE x \in In(member) : member[x[1]][x[2]].name = d.pc) = m
      <4>1. d.pc = Pc
        BY DEF Matches
      <4> QED BY <1>1, <2>3, <4>1 DEF NameOf
    <3>2. PcStored(d) = LET x == CHOOSE x \in In(member) : member[x[1]][x[2]].name = d.pc
                            begin == Offset(member[x[1]], x[2])
                        IN {x[1]} \X (begin..(begin + d.address - 1))
      BY DEF PcStored, member
    <3>3. PcStored(d) = {"grf"} \X (Offset(d.grf, k)..(Offset(d.grf, k) + d.address - 1))
      BY <2>2, <3>1, <3>2
    <3>4. p.bytes[Pc] = {"grf"} \X Span(d.grf, k)
      BY <1>3, <2>2, <2>3
    <3> QED BY <1>2, <2>1, <3>3, <3>4 DEF Span
  <2>5. Pc \in p.clients
    BY <1>3, <2>3
  <2>6. ASSUME NEW n \in p.clients PROVE p.bytes[n] \subseteq p.all
    <3>1. PICK x \in In(member) : n = NameOf(member, x)
      BY <1>7
    <3>2. x[1] \in Files /\ p.bytes[n] = {x[1]} \X Span(member[x[1]], x[2]) /\ x[2] \in 1..Len(member[x[1]])
      BY <1>3, <3>1
    <3>3. Size(member[x[1]]) \in Nat /\ Span(member[x[1]], x[2]) \subseteq 0..(Size(member[x[1]]) - 1)
      BY <1>5, <3>2
    <3>4. Size(layout[x[1]]) \in Nat
      BY <1>1, <3>2, SpansApart DEF Begins
    <3>5. Span(member[x[1]], x[2]) \subseteq 0..(Larger(Size(member[x[1]]), Size(layout[x[1]])) - 1)
      BY <3>3, <3>4 DEF Larger
    <3> DEFINE reach(c) == {c} \X (0..(Larger(Size(member[c]), Size(layout[c])) - 1))
    <3>6. p.all = UNION {reach(c) : c \in Files}
      BY <1>2
    <3>7. p.bytes[n] \subseteq reach(x[1])
      BY <3>2, <3>5
    <3> HIDE DEF reach
    <3> QED BY <3>2, <3>6, <3>7
  <2>7. ASSUME NEW n \in p.clients, NEW o \in p.clients, n # o
        PROVE  p.bytes[n] \cap p.bytes[o] = {}
    BY <1>6, <1>7, <2>7
  <2> QED BY <2>4, <2>5, <2>6, <2>7 DEF MembersApart
<1>9. RegistersAreMembers(p)
  <2>1. ASSUME NEW reg \in p.registers
        PROVE  /\ p.name[reg] \in p.clients \ {Pc}
               /\ p.bytes[p.name[reg]] = BytesOf(p, reg)
               /\ p.at[reg] \subseteq 0..(p.size[reg[1]] - 1)
               /\ reg = <<reg[1], reg[2]>>
    <3>1. reg \in In(layout)
      BY <1>2
    <3>2. /\ reg \in In(member) /\ p.name[reg] = NameOf(member, reg)
          /\ p.at[reg] = Span(member[reg[1]], reg[2]) /\ reg[2] \in DOMAIN layout[reg[1]]
      BY <1>4, <3>1
    <3>3. /\ reg = <<reg[1], reg[2]>> /\ reg[1] \in Files /\ reg[2] \in 1..Len(member[reg[1]])
          /\ p.name[reg] \in p.clients /\ p.bytes[p.name[reg]] = {reg[1]} \X p.at[reg]
      BY <1>3, <3>2
    <3>4. p.name[reg] # Pc
      <4>1. PICK k \in DOMAIN d.grf \ DOMAIN d.layout : d.grf[k].name = Pc
        BY DEF Matches
      <4>2. member["grf"] = d.grf /\ layout["grf"] = d.layout
        BY DEF member, layout, Members, Layouts
      <4>3. <<"grf", k>> \in In(member) /\ NameOf(member, <<"grf", k>>) = Pc
        BY <4>1, <4>2 DEF In, NameOf
      <4>4. SUFFICES ASSUME NameOf(member, reg) = Pc PROVE FALSE
        BY <3>2
      <4>5. reg = <<"grf", k>>
        BY <1>1, <3>2, <4>3, <4>4
      <4> QED BY <3>2, <4>1, <4>2, <4>5
    <3>5. p.size[reg[1]] = Size(member[reg[1]])
      BY <1>2, <3>3
    <3>6. p.at[reg] \subseteq 0..(p.size[reg[1]] - 1)
      BY <1>5, <3>2, <3>3, <3>5
    <3> QED BY <3>3, <3>4, <3>6 DEF BytesOf
  <2>2. ASSUME NEW r \in p.registers, NEW s \in p.registers, p.name[r] = p.name[s]
        PROVE  r = s
    <3>1. r \in In(layout) /\ s \in In(layout)
      BY <1>2
    <3> QED BY <1>1, <1>4, <2>2, <3>1
  <2> QED BY <2>1, <2>2 DEF RegistersAreMembers
<1>10. SpillsEach(p)
  <2> DEFINE over(b) == {reg \in p.registers : reg[1] = b[1] /\ b[2] \in p.at[reg]}
             covered == UNION {BytesOf(p, reg) : reg \in p.registers}
  <2>1. p.spilled = [b \in covered |-> CHOOSE reg \in over(b) : \A other \in over(b) : other[2] <= reg[2]]
    <3>1. DOMAIN p.at = p.registers
      BY <1>2
    <3>2. p.spilled = Spilled(p.at)
      BY <1>2
    <3> QED BY <3>1, <3>2 DEF Spilled, BytesOf
  <2>2. ASSUME NEW reg \in p.registers, NEW b \in BytesOf(p, reg)
        PROVE  over(b) = {reg} /\ reg[2] \in Nat /\ b \in covered
    <3>1. ASSUME NEW other \in over(b) PROVE other = reg
      <4>1. other \in p.registers /\ b \in BytesOf(p, other)
        BY <2>2, <3>1 DEF BytesOf
      <4>2. /\ p.name[reg] \in p.clients /\ b \in p.bytes[p.name[reg]]
            /\ p.name[other] \in p.clients /\ b \in p.bytes[p.name[other]]
        BY <1>9, <4>1 DEF RegistersAreMembers
      <4>3. p.name[other] = p.name[reg]
        BY <1>8, <4>2 DEF MembersApart
      <4> QED BY <1>9, <4>1, <4>3 DEF RegistersAreMembers
    <3>2. reg \in over(b) /\ b \in covered
      BY DEF BytesOf
    <3>3. reg \in In(layout)
      BY <1>2
    <3>4. reg[1] \in Files /\ reg[2] \in 1..Len(member[reg[1]])
      BY <1>3, <1>4, <3>3
    <3>5. Len(member[reg[1]]) \in Nat
      BY <1>1, <3>4 DEF Begins, IsStruct
    <3>6. reg[2] \in Nat
      BY <3>4, <3>5
    <3> HIDE DEF over, covered
    <3> QED BY <3>1, <3>2, <3>6
  <2>3. \A b \in covered : \E reg \in p.registers : b \in BytesOf(p, reg)
    OBVIOUS
  <2> HIDE DEF over, covered
  <2>4. ASSUME NEW reg \in p.registers, NEW b \in BytesOf(p, reg)
        PROVE  b \in DOMAIN p.spilled /\ p.spilled[b] = reg
    <3>1. over(b) = {reg} /\ reg[2] \in Nat /\ b \in covered
      BY <2>2
    <3>2. (CHOOSE r \in over(b) : \A other \in over(b) : other[2] <= r[2]) = reg
      BY <3>1
    <3> QED BY <2>1, <3>1, <3>2
  <2>5. DOMAIN p.spilled = covered
    BY <2>1
  <2> QED BY <2>3, <2>4, <2>5 DEF SpillsEach
<1> QED BY <1>8, <1>9, <1>10 DEF Fits, p

--------------------------------------------------------------------------------
(***************************************************************************)
(* The four architectures whose structures match, with any number of       *)
(* registers where they have 32.                                           *)
(***************************************************************************)
Joins(h, f, g) ==
    /\ IsStruct(h) /\ Len(h) = Len(f) + Len(g)
    /\ \A k \in 1..Len(f) : h[k] = f[k]
    /\ \A k \in 1..Len(g) : h[Len(f) + k] = g[k]

LEMMA Joined ==
  ASSUME NEW f, NEW g, IsStruct(f), IsStruct(g)
  PROVE  Joins(f \o g, f, g)
<1>1. PICK S : f \in Seq(S)
  BY DEF IsStruct, IsSequence
<1>2. PICK T : g \in Seq(T)
  BY DEF IsStruct, IsSequence
<1>3. f \in Seq(S \cup T) /\ g \in Seq(S \cup T)
  BY <1>1, <1>2
<1>4. /\ f \o g \in Seq(S \cup T) /\ Len(f \o g) = Len(f) + Len(g)
      /\ \A k \in 1..(Len(f) + Len(g)) : (f \o g)[k] = IF k <= Len(f) THEN f[k] ELSE g[k - Len(f)]
  BY <1>3, ConcatProperties
<1>5. DOMAIN (f \o g) = 1..(Len(f) + Len(g))
  BY <1>4
<1> DEFINE h == f \o g
<1>6. IsStruct(h)
  BY <1>4, <1>5 DEF IsStruct, IsSequence
<1>7. \A k \in 1..Len(f) : h[k] = f[k]
  BY <1>4 DEF IsStruct
<1>8. \A k \in 1..Len(g) : h[Len(f) + k] = g[k]
  BY <1>4 DEF IsStruct
<1> QED BY <1>4, <1>6, <1>7, <1>8 DEF Joins

LEMMA OneIsStruct ==
  ASSUME NEW name, NEW bytes \in Nat
  PROVE  /\ IsStruct(One(name, bytes)) /\ Len(One(name, bytes)) = 1
         /\ One(name, bytes)[1] = [name |-> N(name), bytes |-> bytes]
<1>1. One(name, bytes) = <<[name |-> N(name), bytes |-> bytes]>>
  BY DEF One
<1>2. One(name, bytes) \in Seq({[name |-> N(name), bytes |-> bytes]})
  BY <1>1
<1>3. Len(One(name, bytes)) = 1 /\ One(name, bytes)[1] = [name |-> N(name), bytes |-> bytes]
  BY <1>1
<1>4. DOMAIN One(name, bytes) = 1..1 /\ \A k \in 1..1 : k = 1
  BY <1>1
<1> QED BY <1>2, <1>3, <1>4 DEF IsStruct, IsSequence

LEMMA RIsStruct ==
  ASSUME NEW n \in Nat, NEW bytes \in Nat
  PROVE  /\ IsStruct(R(n, bytes)) /\ Len(R(n, bytes)) = n
         /\ \A k \in 1..n : R(n, bytes)[k] = [name |-> <<"R", k - 1>>, bytes |-> bytes]
<1>1. R(n, bytes) = [k \in 1..n |-> [name |-> <<"R", k - 1>>, bytes |-> bytes]]
  BY DEF R, Fields, Numbered
<1> DEFINE f == R(n, bytes)
<1>2. /\ f = [k \in 1..n |-> f[k]]
      /\ \A k \in 1..n : f[k].bytes \in Nat /\ f[k] = [name |-> <<"R", k - 1>>, bytes |-> bytes]
  BY <1>1
<1> HIDE DEF f
<1>3. IsStruct(f) /\ Len(f) = n
  BY <1>2, Arrays
<1> QED BY <1>2, <1>3 DEF f

\* The structure g begins with f, and its members have different names from a set.
Grown(f, g, names) ==
    /\ Begins(f, g)
    /\ \A j, k \in 1..Len(g) : g[j].name = g[k].name => j = k
    /\ \A k \in 1..Len(g) : g[k].name \in names

Grows(f, h, g, names, name, bytes) ==
    /\ Grown(f, h, names \cup {N(name)}) /\ Len(h) = Len(g) + 1
    /\ h[Len(g) + 1] = [name |-> N(name), bytes |-> bytes]

LEMMA Growing ==
  ASSUME NEW f, NEW g, NEW names, Grown(f, g, names),
         NEW name, N(name) \notin names, NEW bytes \in Nat
  PROVE  Grows(f, g \o One(name, bytes), g, names, name, bytes)
<1> DEFINE one == One(name, bytes)
           h == g \o one
<1>1. IsStruct(g) /\ IsStruct(one) /\ Len(one) = 1 /\ one[1] = [name |-> N(name), bytes |-> bytes]
  BY OneIsStruct DEF Grown, Begins
<1> HIDE DEF one
<1>2. Joins(h, g, one)
  BY <1>1, Joined
<1> HIDE DEF h
<1>3. IsStruct(h) /\ Len(h) = Len(g) + 1 /\ \A k \in 1..Len(g) : h[k] = g[k]
  BY <1>1, <1>2 DEF Joins
<1>4. h[Len(g) + 1] = one[1]
  BY <1>1, <1>2 DEF Joins
<1>5. Begins(f, h)
  BY <1>3 DEF Grown, Begins, IsStruct
<1>6. \A k \in 1..Len(h) : k \in 1..Len(g) \/ k = Len(g) + 1
  BY <1>1, <1>3 DEF IsStruct
<1>7. h[Len(g) + 1].name = N(name)
  BY <1>1, <1>4
<1>8. \A k \in 1..Len(g) : h[k].name \in names /\ h[k].name # N(name)
  BY <1>3 DEF Grown
<1>9. \A j, k \in 1..Len(h) : h[j].name = h[k].name => j = k
  BY <1>3, <1>6, <1>7, <1>8 DEF Grown
<1> QED BY <1>1, <1>3, <1>4, <1>5, <1>6, <1>7, <1>8, <1>9 DEF Grows, Grown, h, one

LEMMA GrownFrom ==
  ASSUME NEW f, NEW g, NEW names, Grown(f, g, names)
  PROVE  Grown(g, g, names)
BY DEF Grown, Begins, IsStruct

RNames == {"R"} \X Nat

LEMMA RGrown ==
  ASSUME NEW n \in Nat, NEW bytes \in Nat
  PROVE  Grown(R(n, bytes), R(n, bytes), RNames) /\ Len(R(n, bytes)) = n
<1> DEFINE f == R(n, bytes)
<1>1. /\ IsStruct(f) /\ Len(f) = n
      /\ \A k \in 1..n : f[k] = [name |-> <<"R", k - 1>>, bytes |-> bytes]
  BY RIsStruct
<1> HIDE DEF f
<1>2. \A k \in 1..n : f[k].name = <<"R", k - 1>>
  BY <1>1
<1>3. \A j, k \in 1..n : f[j].name = f[k].name => j = k
  BY <1>2
<1>4. \A k \in 1..n : f[k].name \in RNames
  <2>1. \A m \in Nat : <<"R", m>> \in RNames
    BY DEF RNames
  <2>2. \A k \in 1..n : <<"R", k - 1>> \in RNames
    BY <2>1
  <2> QED BY <1>2, <2>2
<1> QED BY <1>1, <1>3, <1>4 DEF Grown, Begins, IsStruct, f

\* What is left to say of a description.
LEMMA Described ==
  ASSUME NEW d, NEW names, NEW g,
         Grown(d.layout, g, names), N("pc") \notin names, d.address \in Nat,
         d.grf = g \o One("pc", d.address), d.pc = N("pc"),
         d.fpr \in Nat, d.frf = X(d.fpr, FprBytes),
         \A n \in 0..(d.fpr - 1) : <<"X", n>> \notin names
  PROVE  Matches(d)
<1>1. /\ Grown(d.layout, d.grf, names \cup {N("pc")}) /\ Len(d.grf) = Len(g) + 1
      /\ d.grf[Len(g) + 1] = [name |-> N("pc"), bytes |-> d.address]
  <2>1. Grows(d.layout, d.grf, g, names, "pc", d.address)
    BY Growing
  <2> QED BY <2>1 DEF Grows
<1>2. /\ Len(g) \in Nat /\ Len(d.layout) \in Nat /\ Len(d.layout) <= Len(g)
      /\ DOMAIN d.grf = 1..(Len(g) + 1) /\ DOMAIN d.layout = 1..Len(d.layout)
  BY <1>1 DEF Grown, Begins, IsStruct
<1>3. Len(g) + 1 \in DOMAIN d.grf \ DOMAIN d.layout
  BY <1>2
<1>4. \A k \in DOMAIN d.grf : \A n \in 0..(d.fpr - 1) : d.grf[k].name # <<"X", n>>
  <2>1. \A n : <<"X", n>> # N("pc")
    BY DEF N
  <2>2. \A k \in DOMAIN d.grf : d.grf[k].name \in names \cup {N("pc")}
    BY <1>1, <1>2 DEF Grown
  <2> QED BY <2>1, <2>2
<1>5. \A j, k \in DOMAIN d.grf : d.grf[j].name = d.grf[k].name => j = k
  BY <1>1, <1>2 DEF Grown
<1>6. \E k \in DOMAIN d.grf \ DOMAIN d.layout : d.grf[k].name = Pc /\ d.grf[k].bytes = d.address
  <2> DEFINE k == Len(g) + 1
  <2>1. d.grf[k].name = Pc /\ d.grf[k].bytes = d.address
    BY <1>1 DEF Pc
  <2> HIDE DEF k
  <2> QED BY <1>3, <2>1 DEF k
<1>7. Begins(d.layout, d.grf)
  BY <1>1 DEF Grown
<1> QED BY <1>4, <1>5, <1>6, <1>7 DEF Matches, Pc

\* A set of registers and some other members, by name.
Others(names) == RNames \cup {N(n) : n \in names}

LEMMA OtherNames ==
  ASSUME NEW names, NEW n, n # "R", n \notin names
  PROVE  N(n) \notin Others(names) /\ Others(names) \cup {N(n)} = Others(names \cup {n})
BY DEF Others, RNames, N

LEMMA GrowOthers ==
  ASSUME NEW f, NEW g, NEW names, Grown(f, g, Others(names)),
         NEW n, n # "R", n \notin names, NEW bytes \in Nat
  PROVE  Grown(f, g \o One(n, bytes), Others(names \cup {n}))
<1>1. N(n) \notin Others(names) /\ Others(names) \cup {N(n)} = Others(names \cup {n})
  BY OtherNames
<1>2. Grows(f, g \o One(n, bytes), g, Others(names), n, bytes)
  BY <1>1, Growing
<1> QED BY <1>1, <1>2 DEF Grows

LEMMA OnlyRs ==
  ASSUME NEW n \in Nat, NEW bytes \in Nat
  PROVE  Grown(R(n, bytes), R(n, bytes), Others({}))
<1>1. Others({}) = RNames
  BY DEF Others
<1> QED BY <1>1, RGrown

LEMMA NoX ==
  ASSUME NEW names, "X" \notin names
  PROVE  \A n : <<"X", n>> \notin Others(names)
BY DEF Others, RNames, N

LEMMA XEmpty == X(0, FprBytes) = <<>>
<1>1. X(0, FprBytes) = [k \in 1..0 |-> [name |-> <<"X", k - 1>>, bytes |-> FprBytes]]
  BY DEF X, Fields
<1> QED BY <1>1

LEMMA Matches_fapra == Many \in Nat => Matches(arch_fapra)
<1> SUFFICES ASSUME Many \in Nat PROVE Matches(arch_fapra)
  OBVIOUS
<1> DEFINE d == arch_fapra
<1>1. /\ d.layout = R(Many, 4) /\ d.grf = R(Many, 4) \o One("pc", d.address)
      /\ d.pc = N("pc") /\ d.address \in Nat /\ d.fpr = 0 /\ d.frf = <<>>
  BY DEF arch_fapra
<1> HIDE DEF d
<1>2. Grown(d.layout, R(Many, 4), Others({}))
  BY <1>1, OnlyRs
<1>3. N("pc") \notin Others({})
  BY OtherNames
<1>4. d.fpr \in Nat /\ d.frf = X(d.fpr, FprBytes) /\ 0..(d.fpr - 1) = {}
  BY <1>1, XEmpty
<1>5. Matches(d)
  BY <1>1, <1>2, <1>3, <1>4, Described
<1> QED BY <1>5 DEF d

LEMMA Matches_m68k == Matches(arch_m68k)
<1> DEFINE d == arch_m68k
           g == R(16, 4) \o One("PSR", 4)
<1>1. /\ d.layout = R(16, 4) /\ d.grf = g \o One("pc", d.address)
      /\ d.pc = N("pc") /\ d.address \in Nat /\ d.fpr = 0 /\ d.frf = <<>>
  BY DEF arch_m68k
<1>2. Grown(d.layout, R(16, 4), Others({}))
  BY <1>1, OnlyRs
<1> HIDE DEF d
<1>3. Grown(d.layout, g, Others({} \cup {"PSR"}))
  BY <1>2, GrowOthers
<1> HIDE DEF g
<1>4. N("pc") \notin Others({} \cup {"PSR"})
  BY OtherNames
<1>5. d.fpr \in Nat /\ d.frf = X(d.fpr, FprBytes) /\ 0..(d.fpr - 1) = {}
  BY <1>1, XEmpty
<1>6. Matches(d)
  BY <1>1, <1>3, <1>4, <1>5, Described
<1> QED BY <1>6 DEF d

LEMMA Matches_m88k == Many \in Nat => Matches(arch_m88k)
<1> SUFFICES ASSUME Many \in Nat PROVE Matches(arch_m88k)
  OBVIOUS
<1> DEFINE d == arch_m88k
           g == R(Many, 4) \o One("PSR", 4)
           h == g \o One("TRAPNO", 4)
<1>1. /\ d.layout = h /\ d.grf = h \o One("pc", d.address)
      /\ d.pc = N("pc") /\ d.address \in Nat /\ d.fpr = Many /\ d.frf = X(Many, 16)
  BY DEF arch_m88k
<1> HIDE DEF d
<1>2. Grown(R(Many, 4), R(Many, 4), Others({}))
  BY OnlyRs
<1>3. Grown(R(Many, 4), g, Others({} \cup {"PSR"}))
  BY <1>2, GrowOthers
<1> HIDE DEF g
<1>4. Grown(R(Many, 4), h, Others({} \cup {"PSR"} \cup {"TRAPNO"}))
  <2>1. "TRAPNO" \notin {} \cup {"PSR"} /\ "TRAPNO" # "R"
    OBVIOUS
  <2> QED BY <1>3, <2>1, GrowOthers
<1> HIDE DEF h
<1>5. Grown(d.layout, h, Others({} \cup {"PSR"} \cup {"TRAPNO"}))
  BY <1>1, <1>4, GrownFrom
<1>6. N("pc") \notin Others({} \cup {"PSR"} \cup {"TRAPNO"})
  BY OtherNames
<1>7. \A n : <<"X", n>> \notin Others({} \cup {"PSR"} \cup {"TRAPNO"})
  BY NoX
<1>8. d.fpr \in Nat /\ d.frf = X(d.fpr, FprBytes)
  BY <1>1 DEF FprBytes
<1>9. Matches(d)
  BY <1>1, <1>5, <1>6, <1>7, <1>8, Described
<1> QED BY <1>9 DEF d

LEMMA Matches_6502 == Matches(arch_6502)
<1> DEFINE d == arch_6502
           gpr == Fields(Names(<<"A", "X", "Y", "S">>), 1)
           h == gpr \o One("P", 1)
           names == {N("A"), N("X"), N("Y"), N("S")}
<1>1. /\ d.layout = h /\ d.grf = h \o One("pc", d.address)
      /\ d.pc = N("pc") /\ d.address \in Nat /\ d.fpr = 0 /\ d.frf = <<>>
  BY DEF arch_6502
<1> HIDE DEF d
<1>2. gpr = [k \in 1..4 |-> [name |-> N(<<"A", "X", "Y", "S">>[k]), bytes |-> 1]]
  BY DEF Fields, Names
<1> HIDE DEF gpr
<1>3. /\ gpr[1].name = N("A") /\ gpr[2].name = N("X") /\ gpr[3].name = N("Y") /\ gpr[4].name = N("S")
      /\ gpr = [k \in 1..4 |-> gpr[k]] /\ \A k \in 1..4 : gpr[k].bytes \in Nat
  BY <1>2
<1>4. Grown(gpr, gpr, names)
  <2>1. IsStruct(gpr) /\ Len(gpr) = 4
    BY <1>3, Arrays
  <2>2. \A k \in 1..4 : k = 1 \/ k = 2 \/ k = 3 \/ k = 4
    OBVIOUS
  <2>3. \A k \in 1..4 : gpr[k].name \in names
    BY <1>3, <2>2
  <2>4. \A j, k \in 1..4 : gpr[j].name = gpr[k].name => j = k
    BY <1>3, <2>2 DEF N
  <2> QED BY <2>1, <2>3, <2>4 DEF Grown, Begins, IsStruct
<1>5. N("P") \notin names
  BY DEF N
<1>6. Grows(gpr, h, gpr, names, "P", 1)
  <2> HIDE DEF names
  <2> QED BY <1>4, <1>5, Growing
<1> HIDE DEF h
<1>7. Grown(d.layout, h, names \cup {N("P")})
  BY <1>1, <1>6, GrownFrom DEF Grows
<1>8. N("pc") \notin names \cup {N("P")}
  BY DEF N
<1>9. d.fpr \in Nat /\ d.frf = X(d.fpr, FprBytes) /\ 0..(d.fpr - 1) = {}
  BY <1>1, XEmpty
<1>10. Matches(d)
  <2> HIDE DEF names
  <2> QED BY <1>1, <1>7, <1>8, <1>9, Described
<1> QED BY <1>10 DEF d

Matching == {"6502", "m68k", "m88k", "fapra"}

LayoutAssumed == Architectures \subseteq Matching /\ Many \in Nat

LEMMA AllFit == LayoutAssumed => FitAll
<1> SUFFICES ASSUME LayoutAssumed, NEW a \in Architectures PROVE Fits(Placement[a])
  BY DEF FitAll
<1>1. a \in Matching /\ Many \in Nat
  BY DEF LayoutAssumed
<1>2. Matches(Description(a))
  <2>1. CASE a = "6502"
    BY <2>1, Matches_6502 DEF Description
  <2>2. CASE a = "m68k"
    BY <2>2, Matches_m68k DEF Description
  <2>3. CASE a = "m88k"
    BY <1>1, <2>3, Matches_m88k DEF Description
  <2>4. CASE a = "fapra"
    BY <1>1, <2>4, Matches_fapra DEF Description
  <2> QED BY <1>1, <2>1, <2>2, <2>3, <2>4 DEF Matching
<1>3. Fits(Placed(Description(a)))
  BY <1>2, PlacedFits
<1> QED BY <1>3 DEF Placement

\* Generated code and clients find every register and the program counter of these
\* architectures in the same bytes, through calls, writes and spills in any order, and with
\* as many registers as one likes (get_struct_reg(), spill_reg_state(), emit_store_pc()).
THEOREM LayoutsShared == LayoutAssumed /\ Spec => []InPlace
<1> SUFFICES ASSUME LayoutAssumed PROVE Spec => []InPlace
  OBVIOUS
<1>1. Init => LayoutInvariant
  BY AllFit, LayoutStart
<1>2. LayoutInvariant /\ [Next]_vars => LayoutInvariant'
  BY LayoutStep
<1>3. LayoutInvariant => InPlace
  BY LayoutHolds
<1> QED BY <1>1, <1>2, <1>3, PTL DEF Spec

\* The same for every description of an architecture whose C structure begins with the
\* members of register_layout and has the program counter behind them.
THEOREM MatchingSuffices ==
  (\A a \in Architectures : Matches(Description(a))) /\ Spec => []InPlace
<1> SUFFICES ASSUME \A a \in Architectures : Matches(Description(a)) PROVE Spec => []InPlace
  OBVIOUS
<1>1. FitAll
  BY PlacedFits DEF FitAll, Placement
<1>2. Init => LayoutInvariant
  BY <1>1, LayoutStart
<1>3. LayoutInvariant /\ [Next]_vars => LayoutInvariant'
  BY LayoutStep
<1>4. LayoutInvariant => InPlace
  BY LayoutHolds
<1> QED BY <1>2, <1>3, <1>4, PTL DEF Spec
================================================================================
