------------------------------- MODULE Registers -------------------------------
(***************************************************************************)
(* What a guest and its client see of the registers of a CPU: one set of   *)
(* registers, flags and a PC that keep what was last put there, whichever  *)
(* of the two put it and however often control passes between them.        *)
(***************************************************************************)
CONSTANTS Regs, Flags, Values, Addresses, Zero, Bits

VARIABLES
    val, flags, PC,
    guest       \* the guest runs; otherwise its client does

vars == <<val, flags, PC, guest>>

Init ==
    /\ val \in [Regs -> Values]
    /\ flags \in [Flags -> Bits]
    /\ PC \in Addresses
    /\ guest = FALSE

Put(i, v) == val' = [val EXCEPT ![i] = v] /\ UNCHANGED <<flags, PC, guest>>

\* What an instruction that writes register i does: register zero stays.
Assign(i, v) == IF i = Zero THEN UNCHANGED vars ELSE Put(i, v)

PutFlag(f, b) ==
    guest /\ flags' = [flags EXCEPT ![f] = b] /\ UNCHANGED <<val, PC, guest>>

PutFlags ==
    ~guest /\ flags' \in [Flags -> Bits] /\ UNCHANGED <<val, PC, guest>>

Jump(a) == guest /\ PC' = a /\ UNCHANGED <<val, flags, guest>>

Switch == guest' = ~guest /\ UNCHANGED <<val, flags, PC>>

Next ==
    \/ \E i \in Regs \ {Zero}, v \in Values : Put(i, v)
    \/ \E f \in Flags, b \in Bits : PutFlag(f, b)
    \/ PutFlags
    \/ \E a \in Addresses : Jump(a)
    \/ Switch

Spec == Init /\ [][Next]_vars
================================================================================
