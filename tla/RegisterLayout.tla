----------------------------- MODULE RegisterLayout -----------------------------
(***************************************************************************)
(* One register file, two descriptions.  The code that libcpu generates    *)
(* finds a register in a packed LLVM structure made of register_layout     *)
(* (get_struct_reg(), get_struct_fp_reg() in libcpu/function.cpp); clients *)
(* and the init(), get_pc() and get_reg() of an architecture use the C     *)
(* structure in its ..._types.h.  Memory is modelled byte by byte, the     *)
(* bytes as tokens <<writer, name>>.  RegisterFile has what happens to     *)
(* values.                                                                 *)
(***************************************************************************)
EXTENDS Integers, Sequences

CONSTANTS
    Architectures,      \* those that are looked at
    Many,               \* registers of an architecture that has 32
    HostFP80,           \* CPU_FLAG_FP80
    MaxCalls,           \* bound: calls of translated functions
    MaxPuts             \* bound: registers the guest writes

Fields(names, bytes) == [k \in DOMAIN names |-> [name |-> names[k], bytes |-> bytes]]
N(name) == <<name, 0>>
Numbered(n) == [k \in 1..n |-> <<"R", k - 1>>]
R(n, bytes) == Fields(Numbered(n), bytes)
X(n, bytes) == Fields([k \in 1..n |-> <<"X", k - 1>>], bytes)
One(name, bytes) == <<[name |-> N(name), bytes |-> bytes]>>
Names(names) == [k \in DOMAIN names |-> N(names[k])]

\* layout: GPRs and extra registers of register_layout; grf, frf: the members
\* of the C structures in order; pc: the member that rf.pc points to; address:
\* bytes of address_size; fpr: the number of floating point registers.
arch_6502 ==
    LET gpr == Fields(Names(<<"A", "X", "Y", "S">>), 1) IN
    [layout |-> gpr \o One("P", 1), fpr |-> 0,
     grf |-> gpr \o One("P", 1) \o One("pc", 2), frf |-> <<>>, pc |-> N("pc"), address |-> 2]

arch_m68k ==
    [layout |-> R(16, 4), fpr |-> 0,
     grf |-> R(16, 4) \o One("PSR", 4) \o One("pc", 4), frf |-> <<>>, pc |-> N("pc"), address |-> 4]

arch_m88k ==
    [layout |-> R(Many, 4) \o One("PSR", 4) \o One("TRAPNO", 4), fpr |-> Many,
     grf |-> R(Many, 4) \o One("PSR", 4) \o One("TRAPNO", 4) \o One("pc", 4),
     frf |-> X(Many, 16), pc |-> N("pc"), address |-> 4]

arch_fapra ==
    [layout |-> R(Many, 4), fpr |-> 0,
     grf |-> R(Many, 4) \o One("pc", 4), frf |-> <<>>, pc |-> N("pc"), address |-> 4]

\* "this includes pc": rf.pc is the address of r[15].
arch_arm ==
    [layout |-> R(16, 4) \o One("CPSR", 4), fpr |-> 0,
     grf |-> R(16, 4) \o One("CPSR", 4) \o One("pc", 4), frf |-> <<>>,
     pc |-> <<"R", 15>>, address |-> 4]

\* The layout has 64 bits in both modes and two extra registers.
mips_layout == R(Many, 8) \o One("HI", 8) \o One("LO", 8)

arch_mips64 ==
    [layout |-> mips_layout, fpr |-> 0,
     grf |-> R(Many, 8) \o One("pc", 8), frf |-> <<>>, pc |-> N("pc"), address |-> 8]

arch_mips32 ==
    [layout |-> mips_layout, fpr |-> 0,
     grf |-> R(Many, 4) \o One("pc", 4), frf |-> <<>>, pc |-> N("pc"), address |-> 4]

arch_x86 ==
    LET control == Fields([k \in 1..5 |-> <<"CR", k - 1>>], 4) \o
                   Fields([k \in 1..8 |-> <<"DR", k - 1>>], 4)
    IN [layout |-> R(8, 4) \o One("EFLAGS", 4) \o
                   Fields(Names(<<"ES", "CS", "SS", "DS", "FS", "GS">>), 2) \o control,
        grf |-> R(8, 4) \o One("EFLAGS", 4) \o
                Fields(Names(<<"CS", "DS", "SS", "ES", "FS", "GS">>), 2) \o control \o One("pc", 4),
        fpr |-> 8, frf |-> X(8, 10), pc |-> N("pc"), address |-> 4]

Description(a) ==
    CASE a = "6502" -> arch_6502 [] a = "m68k" -> arch_m68k [] a = "m88k" -> arch_m88k
      [] a = "fapra" -> arch_fapra [] a = "arm" -> arch_arm [] a = "mips64" -> arch_mips64
      [] a = "mips32" -> arch_mips32 [] a = "x86" -> arch_x86

--------------------------------------------------------------------------------
\* Where members end; structures are packed or need no padding.
Ends(fields) ==
    LET end[k \in 0..Len(fields)] == IF k = 0 THEN 0 ELSE end[k - 1] + fields[k].bytes
    IN end

Size(fields) == Ends(fields)[Len(fields)]

\* Where a member begins, and its bytes.
Offset(fields, k) == Ends(fields)[k - 1]
Span(fields, k) == Offset(fields, k)..(Offset(fields, k) + fields[k].bytes - 1)

\* Mutant: extra registers are counted from the beginning of the structure.
Location_NoOffset(fields, k) == Span(fields, IF fields[k].name[1] # "R" /\ k > Many THEN k - Many ELSE k)

\* get_struct_member_pointer() of register k of a file
Location(fields, k) == Span(fields, k)

\* With FP80 a register takes the 16 bytes of an x86_fp80, without two words.
FprBytes == IF HostFP80 THEN 16 ELSE 2 * 8

\* The files of generated code, and of clients.
Layouts(d) == [grf |-> d.layout, frf |-> X(d.fpr, FprBytes)]
Members(d) == [grf |-> d.grf, frf |-> d.frf]
In(files) == UNION {{c} \X DOMAIN files[c] : c \in {"grf", "frf"}}

\* emit_store_pc(): address_size bits at rf.pc.
PcStored(d) ==
    LET m == CHOOSE m \in In(Members(d)) : Members(d)[m[1]][m[2]].name = d.pc
        begin == Offset(Members(d)[m[1]], m[2])
    IN {m[1]} \X (begin..(begin + d.address - 1))

\* Later registers are spilled over earlier ones.
Spilled(at) ==
    LET over(b) == {reg \in DOMAIN at : reg[1] = b[1] /\ b[2] \in at[reg]}
    IN [b \in UNION {{reg[1]} \X at[reg] : reg \in DOMAIN at} |->
            CHOOSE reg \in over(b) : \A other \in over(b) : other[2] <= reg[2]]

Larger(n, m) == IF n > m THEN n ELSE m

Placed(d) ==
    LET layout == Layouts(d)
        member == Members(d)
        clients == {member[m[1]][m[2]].name : m \in In(member)}
        at == [reg \in In(layout) |-> Location(layout[reg[1]], reg[2])]
        which(n) == CHOOSE m \in In(member) : member[m[1]][m[2]].name = n
    IN [registers |-> In(layout),
        name |-> [reg \in In(layout) |-> layout[reg[1]][reg[2]].name],
        at |-> at, spilled |-> Spilled(at),
        clients |-> clients,
        bytes |-> [n \in clients |-> {which(n)[1]} \X Span(member[which(n)[1]], which(n)[2])],
        pc |-> PcStored(d),
        size |-> [c \in {"grf", "frf"} |-> Size(member[c])],
        all |-> UNION {{c} \X (0..(Larger(Size(member[c]), Size(layout[c])) - 1)) : c \in {"grf", "frf"}}]

Placement == [a \in Architectures |-> Placed(Description(a))]

VARIABLES
    arch,       \* the architecture: the places of its registers and members
    mem,        \* the bytes of the two files, and those behind them
    local,      \* the copies of a running function; empty outside of one
    last,       \* history: what was last written to a register or the PC, by name
    puts, calls

vars == <<arch, mem, local, last, puts, calls>>

Init ==
    /\ arch \in {Placement[a] : a \in Architectures}
    /\ mem = [b \in arch.all |-> <<"malloc", N("none")>>]
    /\ local = <<>> /\ puts = 0 /\ calls = 0
    /\ last = [n \in arch.clients |-> <<"malloc", N("none")>>]

--------------------------------------------------------------------------------
Outside == local = <<>>

\* A client, or init(), sets the members of its structures.
ClientPut ==
    /\ Outside /\ calls < MaxCalls
    /\ last' = [n \in arch.clients |-> <<"client", n>>]
    /\ mem' = [b \in DOMAIN mem |->
                 IF \E n \in arch.clients : b \in arch.bytes[n]
                 THEN <<"client", CHOOSE n \in arch.clients : b \in arch.bytes[n]>> ELSE mem[b]]
    /\ UNCHANGED <<arch, local, puts, calls>>

\* Entry block: emit_decode_reg_helper(), emit_decode_fp_reg_helper()
Enter ==
    /\ Outside /\ calls < MaxCalls
    /\ local' = [reg \in arch.registers |-> [b \in arch.at[reg] |-> mem[<<reg[1], b>>]]]
    /\ calls' = calls + 1
    /\ UNCHANGED <<arch, mem, last, puts>>

\* arch_put_reg(), arch_put_fp_reg()
GuestPut(reg) ==
    LET token == <<"guest", arch.name[reg]>> IN
    /\ ~Outside /\ puts < MaxPuts
    /\ local' = [local EXCEPT ![reg] = [b \in DOMAIN local[reg] |-> token]]
    /\ last' = [n \in arch.clients |-> IF n = arch.name[reg] THEN token ELSE last[n]]
    /\ puts' = puts + 1
    /\ UNCHANGED <<arch, mem, calls>>

StorePc ==
    LET token == <<"guest", N("pc")>> IN
    /\ ~Outside
    /\ mem' = [b \in DOMAIN mem |-> IF b \in arch.pc THEN token ELSE mem[b]]
    /\ last' = [last EXCEPT ![N("pc")] = token]
    /\ UNCHANGED <<arch, local, puts, calls>>

\* spill_reg_state()
Return ==
    /\ ~Outside
    /\ mem' = [b \in DOMAIN mem |->
                 IF b \in DOMAIN arch.spilled THEN local[arch.spilled[b]][b[2]] ELSE mem[b]]
    /\ local' = <<>>
    /\ UNCHANGED <<arch, last, puts, calls>>

Next ==
    \/ ClientPut \/ Enter \/ StorePc \/ Return
    \/ \E reg \in arch.registers : GuestPut(reg)

Spec == Init /\ [][Next]_vars

--------------------------------------------------------------------------------
TypeOK ==
    /\ DOMAIN mem = arch.all /\ \A b \in DOMAIN mem : mem[b][1] \in {"malloc", "client", "guest"}
    /\ Outside \/ DOMAIN local = arch.registers
    /\ puts \in 0..MaxPuts /\ calls \in 0..MaxCalls

(***************************************************************************)
(* What the guest wrote to a register the client reads there, and what the *)
(* client wrote the guest does: for every register that has a member, all  *)
(* of the member's bytes (get_reg(), get_psr() and direct access).         *)
(***************************************************************************)
RegistersShared ==
    Outside => \A n \in arch.clients \ {N("pc")} : \A b \in arch.bytes[n] : mem[b] = last[n]

\* A running function finds in a register what the client put into its member.
GuestReadsClient ==
    \A reg \in DOMAIN local :
        arch.name[reg] \in arch.clients =>
            \A b \in DOMAIN local[reg] :
                <<reg[1], b>> \in arch.bytes[arch.name[reg]] => local[reg][b] = last[arch.name[reg]]

(***************************************************************************)
(* A translated function stores the program counter at once and spills the *)
(* registers when it returns: no register lies over the program counter    *)
(* that get_pc() reads (emit_store_pc(), spill_reg_state()).               *)
(***************************************************************************)
PcKept == \A b \in arch.bytes[N("pc")] : mem[b] = last[N("pc")]

(***************************************************************************)
(* The registers of generated code lie in the memory that init() allocated *)
(* for the structures.                                                     *)
(***************************************************************************)
SpillsInside ==
    \A reg \in DOMAIN local : DOMAIN local[reg] \subseteq 0..(arch.size[reg[1]] - 1)
================================================================================
