------------------------------ MODULE GuestMachine ------------------------------
(***************************************************************************)
(* What libcpu promises its client, whatever is translated, cached or      *)
(* looked up behind it: cpu_run() executes the guest one instruction after *)
(* the other and returns with the program counter of the next one, for a   *)
(* reason that is true of the guest.                                       *)
(*                                                                         *)
(*   JIT_RETURN_TRAP          the last instruction was a trap              *)
(*   JIT_RETURN_SINGLESTEP    single stepping, and one instruction ran     *)
(*   JIT_RETURN_FUNCNOTFOUND  the guest left the code area                 *)
(***************************************************************************)
EXTENDS GuestProgram

VARIABLES
    conf,     \* the guest program and the client's settings
    pc,       \* the guest's program counter
    phase,    \* "client", or in cpu_run(): "running", "stepped", "trapped"
    eff,      \* the instructions whose effects the last guest step applied
    result    \* what the last cpu_run() returned; NOERR while one is running

gvars == <<conf, pc, phase, eff, result>>

Init ==
    /\ conf \in Configs
    /\ pc \in Addr
    /\ phase = "client"
    /\ eff = <<>>
    /\ result = "NOERR"

SetPC ==
    /\ phase = "client"
    /\ pc' \in Addr
    /\ UNCHANGED <<conf, phase, eff, result>>

Run ==
    /\ phase = "client"
    /\ phase' = "running"
    /\ result' = "NOERR"
    /\ UNCHANGED <<conf, pc, eff>>

Executable == IF conf.singlestep THEN Mem ELSE Code

Step ==
    /\ phase = "running"
    /\ pc \in Executable
    /\ LET i == conf.prog[pc]
       IN /\ \E o \in Outcomes(i, pc) : pc' = o.pc /\ eff' = o.eff
          /\ phase' = IF Has(i, "TRAP") THEN "trapped"
                      ELSE IF conf.singlestep THEN "stepped" ELSE "running"
    /\ UNCHANGED <<conf, result>>

Return ==
    /\ \/ phase = "trapped" /\ result' = "TRAP"
       \/ phase = "stepped" /\ result' = "SINGLESTEP"
       \/ phase = "running" /\ pc \notin Code /\ result' = "FUNCNOTFOUND"
    /\ phase' = "client"
    /\ eff' = <<>>
    /\ UNCHANGED <<conf, pc>>

Next == SetPC \/ Run \/ Step \/ Return

Spec == Init /\ [][Next]_gvars
================================================================================
