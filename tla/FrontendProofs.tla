----------------------------- MODULE FrontendProofs -----------------------------
(***************************************************************************)
(* Passing control between a client and translated code loses no register, *)
(* for every number, width and layout of registers and flags, as long as   *)
(* every exit goes through the block "ret".  What is proved of the other   *)
(* parts holds in the composition, too.                                    *)
(***************************************************************************)
EXTENDS MCFrontend, FrontendLemmas, TLAPS

\* The layout of the flags gives each a bit of its own in the PSR, so that they survive
\* it (arch_flags_encode(), arch_flags_decode()).
LEMMA PsrDecoded ==
  ASSUME HasPsr, NEW psr \in Word(Width)
  PROVE  Decode(psr) \in [DOMAIN Layout -> {0, 1}]
<1>1. Width \in Nat /\ InWidth(Width, Layout) /\ 0..1 = {0, 1}
  BY RegistersAssumption, LayoutAssumption DEF InWidth
<1>2. psr \in Nat
  BY DEF Word
<1> QED BY <1>1, <1>2, FlagsDecoded DEF Decode

LEMMA PsrKept ==
  ASSUME HasPsr, NEW flags \in [DOMAIN Layout -> {0, 1}]
  PROVE  Encode(flags) \in Word(Width) /\ Decode(Encode(flags)) = flags
<1>1. Width \in Nat /\ InWidth(Width, Layout) /\ 0..1 = {0, 1}
  BY RegistersAssumption, LayoutAssumption DEF InWidth
<1> QED BY <1>1, FlagsKept DEF Decode, Encode

\* The registers, flags and exit codes are always of their types
\* (emit_decode_reg(), spill_reg_state()).
THEOREM TypeCorrect == Spec => []TypeOK
<1> USE RegistersAssumption
<1>1. Init => TypeOK
  BY DEF Init, TypeOK, ExitCodes
<1>2. ASSUME TypeOK, [Next]_vars PROVE TypeOK'
  <2> USE <1>2 DEF TypeOK
  <2>1. ASSUME NEW i \in Regs, NEW v \in ClientValues, ClientPut(i, v) PROVE TypeOK'
    BY <2>1 DEF ClientPut
  <2>2. ASSUME NEW singlestep \in BOOLEAN, Enter(singlestep) PROVE TypeOK'
    <3>1. flag' \in [DOMAIN Layout -> {0, 1}]
      <4>1. CASE HasPsr
        <5>1. PSR \in Regs
          BY <4>1 DEF PSR, Regs
        <5>2. reg[PSR] \in Word(Width)
          BY <5>1
        <5> QED BY <2>2, <4>1, <5>2, PsrDecoded DEF Enter
      <4>2. CASE ~HasPsr
        BY <2>2, <4>2 DEF Enter
      <4> QED BY <4>1, <4>2
    <3> QED BY <2>2, <3>1 DEF Enter, ExitCodes
  <2>3. ASSUME NEW i \in Regs, NEW v \in Word(Width), Put(i, v) PROVE TypeOK'
    BY <2>3 DEF Put
  <2>4. ASSUME NEW i \in Regs, NEW j \in Regs, Move(i, j) PROVE TypeOK'
    <3>1. Get(j) \in Word(Width)
      BY DEF Get
    <3> QED BY <2>3, <2>4, <3>1 DEF Move
  <2>5. ASSUME NEW f \in DOMAIN Layout, NEW b \in {0, 1}, PutFlag(f, b) PROVE TypeOK'
    BY <2>5 DEF PutFlag
  <2>6. ASSUME NEW a \in Addresses, StorePC(a) PROVE TypeOK'
    <3>1. CASE PcIndex = -1
      BY <2>6, <3>1 DEF StorePC
    <3>2. CASE PcIndex # -1
      BY <2>6, <3>2 DEF StorePC
    <3> QED BY <3>1, <3>2
  <2>7. Spilled \in [Regs -> Word(Width)]
    <3>1. CASE HasPsr
      <4>1. Encode(flag) \in Word(Width)
        BY <3>1, PsrKept
      <4> QED BY <3>1, <4>1 DEF Spilled
    <3>2. CASE ~HasPsr
      BY <3>2 DEF Spilled
    <3> QED BY <3>1, <3>2
  <2>8. CASE Ret
    BY <2>7, <2>8 DEF Ret
  <2>9. CASE Trap
    BY <2>7, <2>9 DEF Trap, ExitCodes
  <2>10. CASE DirectReturn
    BY <2>10 DEF DirectReturn, ExitCodes
  <2>11. CASE UNCHANGED vars
    BY <2>11 DEF vars
  <2> QED BY <2>1, <2>2, <2>3, <2>4, <2>5, <2>6, <2>8, <2>9, <2>10, <2>11 DEF Next
<1> QED BY <1>1, <1>2, PTL DEF Spec

\* While the function runs the client's file is as it was on entry, and on the
\* way out all registers come at once (spill_reg_state()).
THEOREM FileAllOrNothing == Spec => AllOrNothing
<1>1. [Next]_vars => [PcIndex = -1 /\ running => reg' \in {reg, Spilled}]_vars
  <2> SUFFICES ASSUME Next, PcIndex = -1, running
               PROVE  reg' \in {reg, Spilled}
    OBVIOUS
  <2> QED BY DEF Next, ClientPut, Enter, Put, Move, PutFlag, StorePC, Ret, Trap, DirectReturn
<1> QED BY <1>1, PTL DEF Spec, AllOrNothing

--------------------------------------------------------------------------------
\* What a spill leaves in the file decodes to the flags it was made from.
LEMMA SpillKeeps ==
    ASSUME TypeOK
    PROVE  /\ \A i \in Regs : ~(HasPsr /\ i = PSR) => Spilled[i] = local[i]
           /\ HasPsr => Decode(Spilled[PSR]) = flag
<1> USE RegistersAssumption
<1>1. CASE HasPsr
  <2>1. PSR \in Regs
    BY <1>1 DEF PSR, Regs
  <2>2. Decode(Encode(flag)) = flag
    BY <1>1, PsrKept DEF TypeOK
  <2>3. Spilled = [local EXCEPT ![PSR] = Encode(flag)] /\ local \in [Regs -> Word(Width)]
    BY <1>1 DEF Spilled, TypeOK
  <2> QED BY <1>1, <2>1, <2>2, <2>3
<1>2. CASE ~HasPsr
  BY <1>2 DEF Spilled
<1> QED BY <1>1, <1>2

\* The abstract registers, flags and PC have the types of the abstract ones.
LEMMA AbstractTypes ==
    ASSUME TypeOK
    PROVE  /\ Val \in [Regs -> Word(Width)]
           /\ Flags \in [DOMAIN Layout -> {0, 1}]
           /\ PC \in (IF PcIndex = -1 THEN Addresses ELSE Word(Width))
<1> USE RegistersAssumption
<1>1. Val \in [Regs -> Word(Width)]
  BY DEF Val, TypeOK
<1>2. Flags \in [DOMAIN Layout -> {0, 1}]
  <2>1. CASE ~HasPsr \/ running
    BY <2>1 DEF Flags, TypeOK
  <2>2. CASE HasPsr /\ ~running
    <3>1. PSR \in Regs
      BY <2>2 DEF PSR, Regs
    <3>2. reg[PSR] \in Word(Width)
      BY <3>1 DEF TypeOK
    <3> QED BY <2>2, <3>2, PsrDecoded DEF Flags
  <2> QED BY <2>1, <2>2
<1>3. PC \in (IF PcIndex = -1 THEN Addresses ELSE Word(Width))
  BY DEF PC, TypeOK
<1> QED BY <1>1, <1>2, <1>3

\* Copying the registers in and spilling them keeps every register, flag and PC
\* between a guest and its client, unless an instruction returns by itself or
\* the PC is one of the registers (function.cpp).
THEOREM ControlKeepsRegisters ==
    PcIndex = -1 => (Spec => RegistersKept)
<1> SUFFICES ASSUME PcIndex = -1
             PROVE  Spec => RegistersKept
  OBVIOUS
<1> USE RegistersAssumption
<1>1. Init => R!Init
  <2> SUFFICES ASSUME Init PROVE R!Init
    OBVIOUS
  <2>1. TypeOK
    BY DEF Init, TypeOK, ExitCodes
  <2> QED BY <2>1, AbstractTypes DEF R!Init, Init
<1>2. ASSUME TypeOK, TypeOK', [Next]_vars
      PROVE  [R!Next \/ DirectReturn]_(R!vars)
  <2> USE <1>2
  <2> DEFINE Special(i) == (HardwireGpr0 /\ i = 0) \/ (HasPsr /\ i = PSR) \/ i = PcIndex
  <2>0. /\ Val = [i \in Regs |-> IF Special(i) THEN 0 ELSE IF running THEN local[i] ELSE reg[i]]
        /\ Val' = [i \in Regs |-> IF Special(i) THEN 0 ELSE IF running' THEN local'[i] ELSE reg'[i]]
    BY DEF Val
  <2> PC = pc /\ PC' = pc'
    BY DEF PC
  <2> HIDE DEF Special
  <2>1. ASSUME NEW i \in Regs, NEW v \in ClientValues, ClientPut(i, v)
        PROVE  [R!Next]_(R!vars)
    <3>1. UNCHANGED <<pc, running>> /\ ~running /\ reg' = [reg EXCEPT ![i] = v] /\ flag' = flag
      BY <2>1 DEF ClientPut
    <3>2. CASE HasPsr /\ i = PSR
      <4>1. Val' = Val
        BY <2>0, <3>1, <3>2 DEF TypeOK, Special
      <4>2. Flags' \in [DOMAIN Layout -> {0, 1}]
        <5>1. PSR \in Regs
          BY <3>2
        <5>2. v \in Word(Width) /\ Flags' = Decode(v)
          BY <3>1, <3>2, <5>1 DEF Flags, TypeOK
        <5> QED BY <3>2, <5>2, PsrDecoded
      <4>3. R!PutFlags
        BY <3>1, <4>1, <4>2 DEF R!PutFlags
      <4> QED BY <4>3 DEF R!Next
    <3>3. CASE ~(HasPsr /\ i = PSR)
      <4>1. Flags' = Flags
        BY <3>1, <3>3 DEF Flags, TypeOK
      <4>2. CASE Special(i)
        <5>1. Val' = Val
          BY <2>0, <3>1, <4>2 DEF TypeOK
        <5> QED BY <3>1, <4>1, <5>1 DEF R!vars
      <4>3. CASE ~Special(i)
        <5>1. Val' = [Val EXCEPT ![i] = v]
          BY <2>0, <3>1, <4>3 DEF TypeOK
        <5>2. i \in Regs \ {IF HardwireGpr0 THEN 0 ELSE -1} /\ v \in Word(Width)
          BY <4>3 DEF Special, Regs
        <5> QED BY <3>1, <4>1, <5>1, <5>2 DEF R!Next, R!Put
      <4> QED BY <4>2, <4>3
    <3> QED BY <3>2, <3>3
  <2>2. ASSUME NEW singlestep \in BOOLEAN, Enter(singlestep) PROVE [R!Next]_(R!vars)
    <3>1. Val' = Val
      BY <2>0, <2>2 DEF Enter
    <3>2. Flags' = Flags
      BY <2>2 DEF Enter, Flags
    <3>3. R!Switch
      BY <2>2, <3>1, <3>2 DEF R!Switch, Enter
    <3> QED BY <3>3 DEF R!Next
  <2>3. ASSUME NEW i \in Regs, NEW v \in Word(Width), Put(i, v) PROVE [R!Next]_(R!vars)
    <3>1. running /\ UNCHANGED <<pc, running, flag>> /\ ~(HasPsr /\ i = PSR)
      BY <2>3 DEF Put
    <3>2. Flags' = Flags
      BY <3>1 DEF Flags
    <3>3. CASE ~Writable(i)
      <4>1. local' = local
        BY <2>3, <3>3 DEF Put
      <4> QED BY <2>0, <3>1, <3>2, <4>1 DEF R!vars
    <3>4. CASE Writable(i)
      <4>1. local' = [local EXCEPT ![i] = v]
        BY <2>3, <3>4 DEF Put
      <4>2. ~Special(i)
        BY <3>1, <3>4 DEF Special, Writable, Regs
      <4>3. Val' = [Val EXCEPT ![i] = v]
        BY <2>0, <3>1, <4>1, <4>2 DEF TypeOK
      <4>4. i \in Regs \ {IF HardwireGpr0 THEN 0 ELSE -1}
        BY <4>2 DEF Special, Regs
      <4> QED BY <3>1, <3>2, <4>3, <4>4 DEF R!Next, R!Put
    <3> QED BY <3>3, <3>4
  <2>4. ASSUME NEW i \in Regs, NEW j \in Regs, Move(i, j) PROVE [R!Next]_(R!vars)
    <3>1. Get(j) \in Word(Width)
      BY DEF Get, TypeOK
    <3> QED BY <2>3, <2>4, <3>1 DEF Move
  <2>5. ASSUME NEW f \in DOMAIN Layout, NEW b \in {0, 1}, PutFlag(f, b)
        PROVE  [R!Next]_(R!vars)
    <3>1. Val' = Val
      BY <2>0, <2>5 DEF PutFlag
    <3>2. R!PutFlag(f, b)
      BY <2>5, <3>1 DEF PutFlag, Flags, R!PutFlag
    <3> QED BY <3>2 DEF R!Next
  <2>6. ASSUME NEW a \in Addresses, StorePC(a) PROVE [R!Next]_(R!vars)
    <3>1. Val' = Val /\ Flags' = Flags
      BY <2>0, <2>6 DEF StorePC, Flags
    <3>2. R!Jump(a)
      BY <2>6, <3>1 DEF StorePC, R!Jump
    <3> QED BY <3>2 DEF R!Next
  <2>7. ASSUME running, ~running', reg' = Spilled, UNCHANGED <<pc, flag>>
        PROVE  R!Next
    <3>1. \A i \in Regs : ~Special(i) => reg'[i] = local[i]
      BY <2>7, SpillKeeps DEF Special
    <3>2. Val' = Val
      BY <2>0, <2>7, <3>1
    <3>3. Flags' = Flags
      BY <2>7, SpillKeeps DEF Flags
    <3>4. R!Switch
      BY <2>7, <3>2, <3>3 DEF R!Switch, TypeOK
    <3> QED BY <3>4 DEF R!Next
  <2>8. CASE Ret
    BY <2>7, <2>8 DEF Ret
  <2>9. CASE Trap
    BY <2>7, <2>9 DEF Trap
  <2>10. CASE DirectReturn
    BY <2>10
  <2>11. CASE UNCHANGED vars
    BY <2>0, <2>11 DEF vars, R!vars, Flags
  <2>12. GuestValues \subseteq Word(Width)
    OBVIOUS
  <2> QED BY <2>1, <2>2, <2>3, <2>4, <2>5, <2>6, <2>8, <2>9, <2>10, <2>11, <2>12 DEF Next
<1> QED BY <1>1, <1>2, TypeCorrect, PTL DEF Spec, RegistersKept
--------------------------------------------------------------------------------
\* Putting v into register i puts it into the abstract register i.
LEMMA PutArrives ==
    ASSUME TypeOK, PcIndex = -1,
           NEW i \in Regs, NEW v \in Word(Width), Put(i, v)
    PROVE  R!Assign(i, v)
<1> USE RegistersAssumption
<1> DEFINE Special(k) == (HardwireGpr0 /\ k = 0) \/ (HasPsr /\ k = PSR) \/ k = PcIndex
<1>0. /\ Val = [k \in Regs |-> IF Special(k) THEN 0 ELSE IF running THEN local[k] ELSE reg[k]]
      /\ Val' = [k \in Regs |-> IF Special(k) THEN 0 ELSE IF running' THEN local'[k] ELSE reg'[k]]
  BY DEF Val
<1>1. running /\ UNCHANGED <<pc, running, flag>> /\ ~(HasPsr /\ i = PSR)
  BY DEF Put
<1>2. Flags' = Flags /\ PC' = PC
  BY <1>1 DEF Flags, PC
<1>3. CASE ~Writable(i)
  <2>1. local' = local /\ HardwireGpr0 /\ i = 0
    BY <1>3 DEF Put, Writable
  <2>2. Val' = Val
    BY <1>0, <1>1, <2>1
  <2> QED BY <1>1, <1>2, <2>1, <2>2 DEF R!Assign, R!vars
<1>4. CASE Writable(i)
  <2>1. local' = [local EXCEPT ![i] = v]
    BY <1>4 DEF Put
  <2>2. ~Special(i) /\ i # (IF HardwireGpr0 THEN 0 ELSE -1)
    BY <1>1, <1>4 DEF Writable, Regs
  <2> HIDE DEF Special
  <2>3. Val' = [Val EXCEPT ![i] = v]
    BY <1>0, <1>1, <2>1, <2>2 DEF TypeOK
  <2> QED BY <1>1, <1>2, <2>2, <2>3 DEF R!Assign, R!Put
<1> QED BY <1>3, <1>4

\* Every write of the guest arrives, and a hardwired register zero stays zero.
THEOREM GuestWritesArrive == Spec => WritesArrive
<1> USE RegistersAssumption
<1> DEFINE Arrive ==
        /\ \A i \in Regs, v \in GuestValues : Put(i, v) => R!Assign(i, v)
        /\ \A i, j \in Regs : Move(i, j) => R!Assign(i, Val[j])
        /\ \A f \in DOMAIN Layout, b \in {0, 1} : PutFlag(f, b) => R!PutFlag(f, b)
        /\ \A a \in Addresses : StorePC(a) => R!Jump(a)
<1>1. ASSUME TypeOK, PcIndex = -1 PROVE Arrive
  <2> USE <1>1
  <2>1. ASSUME NEW i \in Regs, NEW v \in GuestValues, Put(i, v) PROVE R!Assign(i, v)
    BY <2>1, PutArrives
  <2>2. ASSUME NEW i \in Regs, NEW j \in Regs, Move(i, j) PROVE R!Assign(i, Val[j])
    <3>1. Put(i, Get(j)) /\ ~(HasPsr /\ j = PSR)
      BY <2>2 DEF Move
    <3>2. running /\ j # PcIndex
      BY <3>1 DEF Put, Regs
    <3>3. Val[j] = Get(j) /\ Get(j) \in Word(Width)
      BY <3>1, <3>2 DEF Val, Get, TypeOK
    <3> QED BY <3>1, <3>3, PutArrives
  <2>3. ASSUME NEW f \in DOMAIN Layout, NEW b \in {0, 1}, PutFlag(f, b)
        PROVE  R!PutFlag(f, b)
    BY <2>3 DEF PutFlag, R!PutFlag, Val, Flags, PC
  <2>4. ASSUME NEW a \in Addresses, StorePC(a) PROVE R!Jump(a)
    BY <2>4 DEF StorePC, R!Jump, Val, Flags, PC
  <2> QED BY <2>1, <2>2, <2>3, <2>4
<1>2. TypeOK => [PcIndex = -1 => Arrive]_vars
  BY <1>1
<1> QED BY <1>2, TypeCorrect, PTL DEF Spec, WritesArrive

--------------------------------------------------------------------------------
(***************************************************************************)
(* Guest memory: words as sums of their four bytes.                        *)
(***************************************************************************)
Base == 2^ByteSize

Powers ==
    /\ Base \in Nat \ {0}
    /\ 2^(0 * ByteSize) = 1 /\ 2^(1 * ByteSize) = Base
    /\ 2^(2 * ByteSize) = Base * Base /\ 2^(3 * ByteSize) = Base * Base * Base
    /\ 2^(4 * ByteSize) = Base * Base * Base * Base

LEMMA PowersOfBase == Powers
<1> DEFINE n == ByteSize
<1>1. n \in Nat /\ Base \in Nat \ {0}
  BY MemoryAssumption, PowerPositive DEF Base
<1>2. 2^(n + n) = Base * Base
  BY <1>1, PowerSum DEF Base
<1>3. 2^((n + n) + n) = Base * Base * Base
  <2>1. n + n \in Nat
    BY <1>1
  <2> QED BY <1>1, <1>2, <2>1, PowerSum DEF Base
<1>4. 2^((n + n + n) + n) = Base * Base * Base * Base
  <2>1. n + n + n \in Nat
    BY <1>1
  <2> QED BY <1>1, <1>3, <2>1, PowerSum DEF Base
<1>5. 0 * n = 0 /\ 1 * n = n /\ 2 * n = n + n /\ 3 * n = (n + n) + n /\ 4 * n = (n + n + n) + n
  BY <1>1
<1>6. 2^(0 * n) = 1 /\ 2^(1 * n) = Base
  <2>1. 2^0 = 1
    OBVIOUS
  <2> HIDE DEF n
  <2>2. 2^(0 * n) = 2^0 /\ 2^(1 * n) = 2^n
    BY <1>5
  <2> QED BY <2>1, <2>2 DEF Base, n
<1> QED BY <1>1, <1>2, <1>3, <1>4, <1>5, <1>6 DEF Powers

LEMMA Below ==
  ASSUME NEW m \in Nat \ {0}, NEW n \in Nat \ {0}, NEW low \in 0..(m - 1), NEW high \in 0..(n - 1)
  PROVE low + m * high \in 0..(m * n - 1)
OBVIOUS

\* Four bytes, and how a power of the base divides their number.
FourBytes == [0..3 -> 0..(Base - 1)]
Divided(v, k, high, low) == v \div 2^(k * ByteSize) = high /\ v % 2^(k * ByteSize) = low

Parts(b) ==
    LET v == Memory!Joined(b)
    IN /\ v \in Nat
       /\ Divided(v, 0, v, 0)
       /\ Divided(v, 1, b[1] + Base * (b[2] + Base * b[3]), b[0])
       /\ Divided(v, 2, b[2] + Base * b[3], b[0] + Base * b[1])
       /\ Divided(v, 3, b[3], b[0] + Base * b[1] + Base * Base * b[2])
       /\ Divided(v, 4, 0, v)

LEMMA JoinedParts == ASSUME NEW b \in FourBytes PROVE Parts(b)
<1> USE PowersOfBase DEF Powers
<1> DEFINE v == Memory!Joined(b)
           one == b[0] + Base * b[1]
           two == b[2] + Base * b[3]
           low == one + (Base * Base) * b[2]
           high == b[1] + Base * two
<1>1. b[0] \in 0..(Base - 1) /\ b[1] \in 0..(Base - 1) /\ b[2] \in 0..(Base - 1)
        /\ b[3] \in 0..(Base - 1)
  BY DEF FourBytes
<1>2. one \in 0..(Base * Base - 1) /\ two \in 0..(Base * Base - 1)
  BY <1>1, Below
<1>3. Base * Base \in Nat \ {0} /\ Base * Base * Base \in Nat \ {0}
  OBVIOUS
<1>4. low \in 0..(Base * Base * Base - 1)
  BY <1>1, <1>2, <1>3, Below
<1>5. v = b[0] + b[1] * Base + b[2] * (Base * Base) + b[3] * (Base * Base * Base)
  BY DEF Memory!Joined, Base
<1> HIDE DEF v
<1>6. v = low + (Base * Base * Base) * b[3]
  BY <1>1, <1>5
<1>7. v \in 0..(Base * Base * Base * Base - 1)
  BY <1>1, <1>3, <1>4, <1>6, Below
<1>8. v = one + (Base * Base) * two
  BY <1>1, <1>5
<1>9. v = b[0] + Base * high
  BY <1>1, <1>5
<1>10. high \in Nat
  BY <1>1
<1> HIDE DEF one, two, low, high
<1>11. Divided(v, 0, v, 0)
  BY <1>7 DEF Divided
<1>12. Divided(v, 1, high, b[0])
  BY <1>1, <1>9, <1>10, Division DEF Divided
<1>13. Divided(v, 2, two, one)
  <2> DEFINE n == Base * Base
  <2>1. n \in Nat \ {0} /\ one \in 0..(n - 1) /\ two \in Nat /\ v = one + n * two
          /\ 2^(2 * ByteSize) = n
    BY <1>2, <1>3, <1>8
  <2> HIDE DEF n
  <2> QED BY <2>1, Division DEF Divided
<1>14. Divided(v, 3, b[3], low)
  <2> DEFINE n == Base * Base * Base
  <2>1. n \in Nat \ {0} /\ low \in 0..(n - 1) /\ b[3] \in Nat /\ v = low + n * b[3]
          /\ 2^(3 * ByteSize) = n
    BY <1>1, <1>3, <1>4, <1>6
  <2> HIDE DEF n
  <2> QED BY <2>1, Division DEF Divided
<1>15. Divided(v, 4, 0, v)
  BY <1>7 DEF Divided
<1> QED BY <1>7, <1>11, <1>12, <1>13, <1>14, <1>15 DEF Parts, v, one, two, low, high

LEMMA DigitOfJoined ==
  ASSUME NEW b \in FourBytes, NEW k \in 0..3, NEW little \in BOOLEAN
  PROVE Memory!Digit(Memory!Joined(b), k, 4, little) = b[Memory!Nth(k, 4, little)]
<1> USE PowersOfBase DEF Powers
<1> DEFINE v == Memory!Joined(b)
<1>1. b[0] \in 0..(Base - 1) /\ b[1] \in 0..(Base - 1) /\ b[2] \in 0..(Base - 1)
        /\ b[3] \in 0..(Base - 1)
  BY DEF FourBytes
<1>2. Parts(b)
  BY JoinedParts
<1>3. (v \div 2^(0 * ByteSize)) % Base = b[0]
  <2>1. v % Base = b[0] /\ v \in Nat /\ v \div 2^(0 * ByteSize) = v
    BY <1>2 DEF Parts, Divided
  <2> QED BY <2>1
<1>4. (v \div 2^(1 * ByteSize)) % Base = b[1]
  <2> DEFINE high == b[2] + Base * b[3]
  <2>1. high \in Nat
    BY <1>1
  <2>2. v \div 2^(1 * ByteSize) = b[1] + Base * high
    BY <1>2 DEF Parts, Divided
  <2> HIDE DEF high, v
  <2>3. (b[1] + Base * high) % Base = b[1]
    BY <1>1, <2>1, Division
  <2> QED BY <2>2, <2>3
<1>5. (v \div 2^(2 * ByteSize)) % Base = b[2]
  <2>1. v \div 2^(2 * ByteSize) = b[2] + Base * b[3]
    BY <1>2 DEF Parts, Divided
  <2>2. (b[2] + Base * b[3]) % Base = b[2]
    <3>1. b[3] \in Nat
      BY <1>1
    <3> QED BY <1>1, <3>1, Division
  <2> HIDE DEF v
  <2> QED BY <2>1, <2>2
<1>6. (v \div 2^(3 * ByteSize)) % Base = b[3]
  <2>1. v \div 2^(3 * ByteSize) = b[3]
    BY <1>2 DEF Parts, Divided
  <2>2. b[3] % Base = b[3]
    BY <1>1
  <2> HIDE DEF v
  <2> QED BY <2>1, <2>2
<1> HIDE DEF v
<1>7. ASSUME NEW j \in 0..3 PROVE (v \div 2^(j * ByteSize)) % Base = b[j]
  BY <1>3, <1>4, <1>5, <1>6
<1>8. Memory!Nth(k, 4, little) \in 0..3
  BY DEF Memory!Nth
<1> QED BY <1>7, <1>8 DEF v, Memory!Digit, Memory!LSHR, Base

LEMMA DigitIsByte ==
  ASSUME NEW v \in Nat, NEW n \in 1..4, NEW k \in 0..(n - 1), NEW little \in BOOLEAN
  PROVE Memory!Digit(v, k, n, little) \in 0..(Base - 1)
<1> USE PowersOfBase DEF Powers
<1>1. Memory!Nth(k, n, little) \in 0..3
  BY DEF Memory!Nth
<1>2. ASSUME NEW j \in 0..3 PROVE 2^(j * ByteSize) \in Nat \ {0}
  <2>1. Base * Base \in Nat \ {0} /\ Base * Base * Base \in Nat \ {0}
    OBVIOUS
  <2> QED BY <2>1
<1>3. ASSUME NEW m \in Nat \ {0} PROVE (v \div m) \in Nat
  OBVIOUS
<1>4. ASSUME NEW m \in Nat PROVE m % Base \in 0..(Base - 1)
  OBVIOUS
<1> QED BY <1>1, <1>2, <1>3, <1>4 DEF Memory!Digit, Memory!LSHR, Base

\* The four bytes of the word at w, as a computer of one byte order numbers them.
WordAt(w, little) == [k \in 0..3 |-> RAM[w + Memory!Nth(k, 4, little)]]

LEMMA WordBytes ==
  ASSUME Memory!TypeOK, NEW w \in Memory!Aligned(4), NEW little \in BOOLEAN
  PROVE /\ WordAt(w, little) \in FourBytes
        /\ Memory!Number(RAM, w, 4, little) = Memory!Joined(WordAt(w, little))
<1>1. ASSUME NEW k \in 0..3 PROVE Memory!Nth(k, 4, little) \in 0..3
  BY DEF Memory!Nth
<1>2. ASSUME NEW j \in 0..3 PROVE RAM[w + j] \in 0..(Base - 1)
  <2>1. w + j \in Memory!Bytes
    BY MemoryAssumption DEF Memory!Aligned, Memory!Bytes
  <2> QED BY <2>1 DEF Memory!TypeOK, Memory!Word, Base
<1>3. WordAt(w, little) \in FourBytes
  BY <1>1, <1>2 DEF WordAt, FourBytes
<1>4. [k \in 0..3 |-> IF k < 4 THEN RAM[w + Memory!Nth(k, 4, little)] ELSE 0]
        = WordAt(w, little)
  BY DEF WordAt
<1> QED BY <1>3, <1>4 DEF Memory!Number

LEMMA WordLoaded ==
  ASSUME Memory!TypeOK, NEW w \in Memory!Aligned(4)
  PROVE Memory!arch_load32_aligned(w) = Memory!Joined(WordAt(w, guestLittle))
<1>1. guestLittle \in BOOLEAN /\ hostLittle \in BOOLEAN
  BY DEF Memory!TypeOK
<1>2. CASE hostLittle = guestLittle
  BY <1>1, <1>2, WordBytes DEF Memory!arch_load32_aligned, Memory!SWAPMEM
<1>3. CASE hostLittle # guestLittle
  <2> DEFINE stored == WordAt(w, hostLittle)
  <2>1. stored \in FourBytes
    BY <1>1, WordBytes
  <2>2. ASSUME NEW k \in 0..3
        PROVE Memory!Digit(Memory!Joined(stored), k, 4, FALSE) = WordAt(w, guestLittle)[k]
    <3>1. Memory!Digit(Memory!Joined(stored), k, 4, FALSE) = stored[Memory!Nth(k, 4, FALSE)]
      BY <2>1, DigitOfJoined
    <3>2. Memory!Nth(k, 4, FALSE) = 3 - k /\ 3 - k \in 0..3
      BY DEF Memory!Nth
    <3>3. stored[3 - k] = RAM[w + Memory!Nth(3 - k, 4, hostLittle)]
      BY <3>2 DEF WordAt
    <3>4. Memory!Nth(3 - k, 4, hostLittle) = Memory!Nth(k, 4, guestLittle)
      BY <1>1, <1>3 DEF Memory!Nth
    <3> QED BY <3>1, <3>2, <3>3, <3>4 DEF WordAt
  <2> HIDE DEF stored
  <2>3. [k \in 0..3 |-> Memory!Digit(Memory!Joined(stored), k, 4, FALSE)]
          = WordAt(w, guestLittle)
    BY <2>2 DEF WordAt
  <2>4. Memory!arch_load32_aligned(w) = Memory!SWAP32(Memory!Joined(stored))
    BY <1>1, <1>3, WordBytes DEF Memory!arch_load32_aligned, Memory!SWAPMEM, stored
  <2> QED BY <2>3, <2>4 DEF Memory!SWAP32
<1> QED BY <1>2, <1>3


LEMMA InWord ==
  ASSUME NEW a \in Memory!Bytes
  PROVE /\ Memory!Word32(a) \in Memory!Aligned(4) /\ a % 4 \in 0..3
        /\ a = Memory!Word32(a) + (a % 4)
BY MemoryAssumption DEF Memory!Bytes, Memory!Aligned, Memory!Word32

LEMMA Shift8IsDigit ==
  ASSUME NEW a \in Memory!Bytes, guestLittle \in BOOLEAN
  PROVE /\ Memory!Shift8(a) = Memory!Nth(a % 4, 4, guestLittle) * ByteSize
        /\ Memory!Nth(a % 4, 4, guestLittle) \in 0..3
        /\ Memory!Nth(Memory!Nth(a % 4, 4, guestLittle), 4, guestLittle) = a % 4
<1>1. a % 4 \in 0..3
  BY InWord
<1> QED BY <1>1 DEF Memory!Shift8, Memory!Nth

LEMMA ByteLoaded ==
  ASSUME Memory!TypeOK, NEW a \in Memory!Bytes
  PROVE Memory!arch_load8(a) = RAM[a]
<1> DEFINE w == Memory!Word32(a)
           v == Memory!Joined(WordAt(w, guestLittle))
           j == Memory!Nth(a % 4, 4, guestLittle)
<1>0. guestLittle \in BOOLEAN
  BY DEF Memory!TypeOK
<1>1. w \in Memory!Aligned(4) /\ a % 4 \in 0..3 /\ a = w + (a % 4)
  BY InWord
<1>2. Memory!Shift8(a) = j * ByteSize /\ j \in 0..3 /\ Memory!Nth(j, 4, guestLittle) = a % 4
  BY <1>0, Shift8IsDigit
<1>3. Memory!arch_load8(a) = Memory!Digit(v, a % 4, 4, guestLittle)
  BY <1>1, <1>2, WordLoaded DEF Memory!arch_load8, Memory!Digit, Memory!TRUNC
<1>4. Memory!Digit(v, a % 4, 4, guestLittle) = WordAt(w, guestLittle)[j]
  BY <1>0, <1>1, WordBytes, DigitOfJoined
<1>5. WordAt(w, guestLittle)[j] = RAM[w + (a % 4)]
  BY <1>2 DEF WordAt
<1> QED BY <1>1, <1>3, <1>4, <1>5

\* The half word that starts at an even address, and its place.
Half(a) == (a \div 2) % 2

LEMMA HalfOfJoined ==
  ASSUME NEW b \in FourBytes, NEW h \in 0..1
  PROVE (Memory!Joined(b) \div 2^(h * 2 * ByteSize)) % 2^(2 * ByteSize)
          = b[2 * h] + Base * b[2 * h + 1]
<1> DEFINE v == Memory!Joined(b)
<1>1. b[0] \in 0..(Base - 1) /\ b[1] \in 0..(Base - 1) /\ b[2] \in 0..(Base - 1)
        /\ b[3] \in 0..(Base - 1)
  BY DEF FourBytes
<1>2. v \in Nat /\ v \div 2^(0 * ByteSize) = v /\ v % 2^(2 * ByteSize) = b[0] + Base * b[1]
        /\ v \div 2^(2 * ByteSize) = b[2] + Base * b[3]
  BY JoinedParts DEF Parts, Divided
<1>3. (b[2] + Base * b[3]) % 2^(2 * ByteSize) = b[2] + Base * b[3]
  <2> DEFINE x == b[2] + Base * b[3]
             n == Base * Base
  <2>1. x \in 0..(n - 1) /\ n \in Nat \ {0} /\ 2^(2 * ByteSize) = n
    BY <1>1, PowersOfBase, Below DEF Powers
  <2> HIDE DEF x, n
  <2>2. x % 2^(2 * ByteSize) = x
    BY <2>1
  <2> QED BY <2>2 DEF x
<1>4. CASE h = 0
  <2>1. h * 2 * ByteSize = 0 * ByteSize /\ 2 * h = 0
    BY <1>4, MemoryAssumption
  <2> QED BY <1>2, <2>1
<1>5. CASE h = 1
  <2>1. h * 2 * ByteSize = 2 * ByteSize /\ 2 * h = 2
    BY <1>5, MemoryAssumption
  <2> QED BY <1>2, <1>3, <2>1
<1> QED BY <1>4, <1>5

LEMMA HalfPlace ==
  ASSUME NEW a \in Memory!Aligned(2), guestLittle \in BOOLEAN
  PROVE \E h \in 0..1 :
          /\ Memory!Shift16(a) = h * 2 * ByteSize
          /\ \A k \in 0..1 : Memory!Word32(a) + Memory!Nth(2 * h + k, 4, guestLittle)
                               = a + Memory!Nth(k, 2, guestLittle)
<1> DEFINE h == IF guestLittle THEN Half(a) ELSE 1 - Half(a)
<1>1. a \in Nat /\ a % 2 = 0
  BY MemoryAssumption DEF Memory!Aligned, Memory!Bytes
<1>2. Half(a) \in 0..1 /\ a % 4 = 2 * Half(a)
  BY <1>1 DEF Half
<1>3. h \in 0..1 /\ Memory!Shift16(a) = h * 2 * ByteSize
  BY <1>2 DEF Memory!Shift16, Half
<1>4. ASSUME NEW k \in 0..1
      PROVE Memory!Word32(a) + Memory!Nth(2 * h + k, 4, guestLittle)
              = a + Memory!Nth(k, 2, guestLittle)
  <2>1. CASE guestLittle
    BY <1>1, <1>2, <2>1 DEF Memory!Word32, Memory!Nth
  <2>2. CASE ~guestLittle
    <3>1. h = 1 - Half(a)
      BY <2>2
    <3> HIDE DEF h
    <3>2. Memory!Nth(2 * h + k, 4, guestLittle) = 4 - 1 - (2 * h + k)
            /\ Memory!Nth(k, 2, guestLittle) = 2 - 1 - k
      BY <2>2 DEF Memory!Nth
    <3>3. Memory!Word32(a) = a - 2 * Half(a)
      BY <1>2 DEF Memory!Word32
    <3> QED BY <1>1, <1>2, <3>1, <3>2, <3>3
  <2> QED BY <2>1, <2>2
<1> QED BY <1>3, <1>4

LEMMA HalfLoaded ==
  ASSUME Memory!TypeOK, NEW a \in Memory!Aligned(2)
  PROVE Memory!arch_load16_aligned(a) = Memory!Number(RAM, a, 2, guestLittle)
<1> DEFINE w == Memory!Word32(a)
           b == WordAt(w, guestLittle)
<1>0. guestLittle \in BOOLEAN
  BY DEF Memory!TypeOK
<1>1. a \in Memory!Bytes
  BY DEF Memory!Aligned
<1>2. w \in Memory!Aligned(4)
  BY <1>1, InWord
<1>3. b \in FourBytes
  BY <1>0, <1>2, WordBytes
<1>4. PICK h \in 0..1 :
          /\ Memory!Shift16(a) = h * 2 * ByteSize
          /\ \A k \in 0..1 : w + Memory!Nth(2 * h + k, 4, guestLittle)
                               = a + Memory!Nth(k, 2, guestLittle)
  BY <1>0, HalfPlace
<1>5. Memory!arch_load16_aligned(a) = b[2 * h] + Base * b[2 * h + 1]
  BY <1>2, <1>3, <1>4, WordLoaded, HalfOfJoined
     DEF Memory!arch_load16_aligned, Memory!TRUNC, Memory!LSHR
<1>6. 2 * h \in 0..3 /\ 2 * h + 1 \in 0..3 /\ 2 * h + 0 = 2 * h
  OBVIOUS
<1>7. b[2 * h] = RAM[a + Memory!Nth(0, 2, guestLittle)]
        /\ b[2 * h + 1] = RAM[a + Memory!Nth(1, 2, guestLittle)]
  BY <1>4, <1>6 DEF WordAt
<1>8. b[2 * h] \in 0..(Base - 1) /\ b[2 * h + 1] \in 0..(Base - 1)
  BY <1>3, <1>6 DEF FourBytes
<1> HIDE DEF b
<1>9. Memory!Number(RAM, a, 2, guestLittle)
        = b[2 * h] + b[2 * h + 1] * Base + 0 * (Base * Base) + 0 * (Base * Base * Base)
  BY <1>7, PowersOfBase DEF Memory!Number, Memory!Joined, Powers, Base
<1>10. b[2 * h] + b[2 * h + 1] * Base + 0 * (Base * Base) + 0 * (Base * Base * Base)
         = b[2 * h] + Base * b[2 * h + 1]
  BY <1>8, PowersOfBase DEF Powers
<1> QED BY <1>5, <1>9, <1>10

LEMMA LoadsRight == Memory!TypeOK => Memory!LoadsInGuestOrder
<1>1. Memory!TypeOK => guestLittle \in BOOLEAN
  BY DEF Memory!TypeOK
<1> QED BY <1>1, ByteLoaded, HalfLoaded, WordLoaded, WordBytes DEF Memory!LoadsInGuestOrder

LEMMA WordStored ==
  ASSUME Memory!TypeOK, NEW v \in Nat, NEW w \in Memory!Aligned(4)
  PROVE Memory!Store32(v, w) = Memory!Put(w, 4, v, guestLittle)
<1>1. guestLittle \in BOOLEAN /\ hostLittle \in BOOLEAN
  BY DEF Memory!TypeOK
<1>2. CASE hostLittle = guestLittle
  BY <1>2 DEF Memory!Store32, Memory!SWAPMEM
<1>3. CASE hostLittle # guestLittle
  <2> DEFINE d == [k \in 0..3 |-> Memory!Digit(v, k, 4, FALSE)]
  <2>1. d \in FourBytes
    <3>1. 4 \in 1..4 /\ 0..(4 - 1) = 0..3
      OBVIOUS
    <3>2. ASSUME NEW k \in 0..3 PROVE Memory!Digit(v, k, 4, FALSE) \in 0..(Base - 1)
      BY <3>1, DigitIsByte
    <3> QED BY <3>2 DEF FourBytes
  <2>2. ASSUME NEW k \in 0..3
        PROVE Memory!Digit(Memory!Joined(d), k, 4, hostLittle)
                = Memory!Digit(v, k, 4, guestLittle)
    <3>1. Memory!Digit(Memory!Joined(d), k, 4, hostLittle) = d[Memory!Nth(k, 4, hostLittle)]
      BY <1>1, <2>1, DigitOfJoined
    <3>2. Memory!Nth(k, 4, hostLittle) \in 0..3
            /\ Memory!Nth(Memory!Nth(k, 4, hostLittle), 4, FALSE) = Memory!Nth(k, 4, guestLittle)
      BY <1>1, <1>3 DEF Memory!Nth
    <3> QED BY <3>1, <3>2 DEF Memory!Digit
  <2>3. Memory!Store32(v, w) = Memory!Put(w, 4, Memory!Joined(d), hostLittle)
    BY <1>1, <1>3 DEF Memory!Store32, Memory!SWAPMEM, Memory!SWAP32
  <2> HIDE DEF d
  <2>4. ASSUME NEW x \in Memory!Bytes, x \in w..(w + 4 - 1)
        PROVE Memory!Digit(Memory!Joined(d), x - w, 4, hostLittle)
                = Memory!Digit(v, x - w, 4, guestLittle)
    <3>1. x - w \in 0..3
      BY <2>4, MemoryAssumption DEF Memory!Aligned, Memory!Bytes
    <3> QED BY <2>2, <3>1
  <2>5. Memory!Put(w, 4, Memory!Joined(d), hostLittle) = Memory!Put(w, 4, v, guestLittle)
    BY <2>4 DEF Memory!Put
  <2> QED BY <2>3, <2>5
<1> QED BY <1>2, <1>3

LEMMA BytesStored ==
  ASSUME Memory!TypeOK, NEW b \in FourBytes, NEW w \in Memory!Aligned(4)
  PROVE Memory!Store32(Memory!Joined(b), w)
          = [x \in Memory!Bytes |->
              IF x \in w..(w + 3) THEN b[Memory!Nth(x - w, 4, guestLittle)] ELSE RAM[x]]
<1>1. guestLittle \in BOOLEAN
  BY DEF Memory!TypeOK
<1>2. Memory!Joined(b) \in Nat
  BY JoinedParts DEF Parts
<1>3. Memory!Store32(Memory!Joined(b), w) = Memory!Put(w, 4, Memory!Joined(b), guestLittle)
  BY <1>2, WordStored
<1>4. w \in Nat /\ w + 4 - 1 = w + 3
  BY MemoryAssumption DEF Memory!Aligned, Memory!Bytes
<1>5. ASSUME NEW x \in Memory!Bytes, x \in w..(w + 3)
      PROVE Memory!Digit(Memory!Joined(b), x - w, 4, guestLittle)
              = b[Memory!Nth(x - w, 4, guestLittle)]
  <2>1. x - w \in 0..3
    BY <1>4, <1>5
  <2> QED BY <1>1, <2>1, DigitOfJoined
<1> QED BY <1>3, <1>4, <1>5 DEF Memory!Put

LEMMA MergedByte ==
  ASSUME NEW b \in FourBytes, NEW j \in 0..3, NEW v \in Nat
  PROVE /\ [b EXCEPT ![j] = v % Base] \in FourBytes
        /\ Memory!Merge(Memory!Joined(b), v, j * ByteSize, ByteSize)
             = Memory!Joined([b EXCEPT ![j] = v % Base])
<1> DEFINE m == v % Base
           c == [b EXCEPT ![j] = m]
           J == Memory!Joined(b)
<1>1. m \in 0..(Base - 1)
  BY PowersOfBase DEF Powers
<1>2. b[0] \in 0..(Base - 1) /\ b[1] \in 0..(Base - 1) /\ b[2] \in 0..(Base - 1)
        /\ b[3] \in 0..(Base - 1)
  BY DEF FourBytes
<1>3. c \in FourBytes
  BY <1>1 DEF FourBytes
<1>4. j * ByteSize + ByteSize = (j + 1) * ByteSize
  BY MemoryAssumption
<1>5. Memory!Merge(J, v, j * ByteSize, ByteSize)
        = (J \div 2^((j + 1) * ByteSize)) * 2^((j + 1) * ByteSize)
            + m * 2^(j * ByteSize) + (J % 2^(j * ByteSize))
  BY <1>4 DEF Memory!Merge, Memory!LSHR, Base
<1>6. Memory!Joined(c) = c[0] + c[1] * Base + c[2] * (Base * Base) + c[3] * (Base * Base * Base)
  BY PowersOfBase DEF Memory!Joined, Powers, Base
<1>7. Parts(b)
  BY JoinedParts
<1>8. J = b[0] + b[1] * Base + b[2] * (Base * Base) + b[3] * (Base * Base * Base)
  BY PowersOfBase DEF Memory!Joined, Powers, Base
<1> HIDE DEF m, J
<1>9. CASE j = 0
  <2>1. Memory!Joined(c) = m + b[1] * Base + b[2] * (Base * Base) + b[3] * (Base * Base * Base)
    BY <1>6, <1>9 DEF FourBytes
  <2>2. J \div 2^(1 * ByteSize) = b[1] + Base * (b[2] + Base * b[3]) /\ J % 2^(0 * ByteSize) = 0
    BY <1>7 DEF Parts, Divided, J
  <2>3. Memory!Merge(J, v, j * ByteSize, ByteSize)
          = (b[1] + Base * (b[2] + Base * b[3])) * Base + m * 1 + 0
    BY <1>5, <1>9, <2>2, PowersOfBase DEF Powers
  <2> QED BY <1>1, <1>2, <1>3, <2>1, <2>3, PowersOfBase DEF Powers, m, J
<1>10. CASE j = 1
  <2>1. Memory!Joined(c) = b[0] + m * Base + b[2] * (Base * Base) + b[3] * (Base * Base * Base)
    BY <1>6, <1>10 DEF FourBytes
  <2>2. J \div 2^(2 * ByteSize) = b[2] + Base * b[3] /\ J % 2^(1 * ByteSize) = b[0]
    BY <1>7 DEF Parts, Divided, J
  <2>3. Memory!Merge(J, v, j * ByteSize, ByteSize)
          = (b[2] + Base * b[3]) * (Base * Base) + m * Base + b[0]
    BY <1>5, <1>10, <2>2, PowersOfBase DEF Powers
  <2> QED BY <1>1, <1>2, <1>3, <2>1, <2>3, PowersOfBase DEF Powers, m, J
<1>11. CASE j = 2
  <2>1. Memory!Joined(c) = b[0] + b[1] * Base + m * (Base * Base) + b[3] * (Base * Base * Base)
    BY <1>6, <1>11 DEF FourBytes
  <2>2. J \div 2^(3 * ByteSize) = b[3] /\ J % 2^(2 * ByteSize) = b[0] + Base * b[1]
    BY <1>7 DEF Parts, Divided, J
  <2>3. Memory!Merge(J, v, j * ByteSize, ByteSize)
          = b[3] * (Base * Base * Base) + m * (Base * Base) + (b[0] + Base * b[1])
    BY <1>5, <1>11, <2>2, PowersOfBase DEF Powers
  <2> QED BY <1>1, <1>2, <1>3, <2>1, <2>3, PowersOfBase DEF Powers, m, J
<1>12. CASE j = 3
  <2>1. Memory!Joined(c) = b[0] + b[1] * Base + b[2] * (Base * Base) + m * (Base * Base * Base)
    BY <1>6, <1>12 DEF FourBytes
  <2>2. J \div 2^(4 * ByteSize) = 0
          /\ J % 2^(3 * ByteSize) = b[0] + Base * b[1] + Base * Base * b[2]
    BY <1>7 DEF Parts, Divided, J
  <2>3. Memory!Merge(J, v, j * ByteSize, ByteSize)
          = 0 * (Base * Base * Base * Base) + m * (Base * Base * Base)
              + (b[0] + Base * b[1] + Base * Base * b[2])
    BY <1>5, <1>12, <2>2, PowersOfBase DEF Powers
  <2> QED BY <1>1, <1>2, <1>3, <2>1, <2>3, PowersOfBase DEF Powers, m, J
<1> QED BY <1>9, <1>10, <1>11, <1>12

LEMMA ByteStored ==
  ASSUME Memory!TypeOK, NEW v \in Nat, NEW a \in Memory!Bytes
  PROVE Memory!arch_store8(v, a) = Memory!Put(a, 1, v, guestLittle)
<1> DEFINE w == Memory!Word32(a)
           b == WordAt(w, guestLittle)
           j == Memory!Nth(a % 4, 4, guestLittle)
           c == [b EXCEPT ![j] = v % Base]
<1>0. guestLittle \in BOOLEAN
  BY DEF Memory!TypeOK
<1>1. w \in Memory!Aligned(4) /\ a % 4 \in 0..3 /\ a = w + (a % 4)
  BY InWord
<1>2. Memory!Shift8(a) = j * ByteSize /\ j \in 0..3 /\ Memory!Nth(j, 4, guestLittle) = a % 4
  BY <1>0, Shift8IsDigit
<1>3. b \in FourBytes
  BY <1>0, <1>1, WordBytes
<1>4. c \in FourBytes /\ Memory!arch_store8(v, a) = Memory!Store32(Memory!Joined(c), w)
  BY <1>1, <1>2, <1>3, WordLoaded, MergedByte DEF Memory!arch_store8
<1> HIDE DEF c
<1>5. Memory!arch_store8(v, a)
        = [x \in Memory!Bytes |->
            IF x \in w..(w + 3) THEN c[Memory!Nth(x - w, 4, guestLittle)] ELSE RAM[x]]
  BY <1>1, <1>4, BytesStored
<1>6. w \in Nat /\ a \in Nat
  BY <1>1, MemoryAssumption DEF Memory!Aligned, Memory!Bytes
<1>7. Memory!Digit(v, 0, 1, guestLittle) = v % Base
  <2>1. Memory!Nth(0, 1, guestLittle) = 0
    BY DEF Memory!Nth
  <2>2. v \div 2^(0 * ByteSize) = v
    BY PowersOfBase DEF Powers
  <2> QED BY <2>1, <2>2 DEF Memory!Digit, Memory!LSHR, Base
<1>8. ASSUME NEW x \in Memory!Bytes
      PROVE (IF x \in w..(w + 3) THEN c[Memory!Nth(x - w, 4, guestLittle)] ELSE RAM[x])
              = (IF x \in a..(a + 1 - 1) THEN Memory!Digit(v, x - a, 1, guestLittle) ELSE RAM[x])
  <2>1. CASE x = a
    <3>1. x - w = a % 4 /\ x \in w..(w + 3) /\ x \in a..(a + 1 - 1) /\ x - a = 0
      BY <1>1, <1>6, <2>1
    <3>2. c[j] = v % Base
      BY <1>2, <1>3 DEF c, FourBytes
    <3> QED BY <1>7, <3>1, <3>2
  <2>2. CASE x # a /\ x \in w..(w + 3)
    <3>1. x - w \in 0..3 /\ x \notin a..(a + 1 - 1)
      BY <1>6, <2>2
    <3>2. Memory!Nth(x - w, 4, guestLittle) \in 0..3
            /\ Memory!Nth(x - w, 4, guestLittle) # j
            /\ Memory!Nth(Memory!Nth(x - w, 4, guestLittle), 4, guestLittle) = x - w
      BY <1>0, <1>1, <1>6, <2>2, <3>1 DEF Memory!Nth
    <3>3. c[Memory!Nth(x - w, 4, guestLittle)] = RAM[w + (x - w)]
      BY <1>3, <3>2 DEF c, FourBytes, WordAt
    <3>4. w + (x - w) = x
      BY <1>6, MemoryAssumption DEF Memory!Bytes
    <3> QED BY <2>2, <3>1, <3>3, <3>4
  <2>3. CASE x \notin w..(w + 3)
    <3>1. x # a /\ x \notin a..(a + 1 - 1)
      BY <1>1, <1>6, <2>3
    <3> QED BY <2>3, <3>1
  <2> QED BY <2>1, <2>2, <2>3
<1> QED BY <1>5, <1>8 DEF Memory!Put

LEMMA TwoDigits ==
  ASSUME NEW v \in Nat
  PROVE /\ (v \div Base) \in Nat
        /\ v % (Base * Base) = (v % Base) + Base * ((v \div Base) % Base)
<1> DEFINE q == v \div Base
           r == v % Base
           s == q \div Base
           t == q % Base
           n == Base * Base
<1>0. Base \in Nat \ {0}
  BY PowersOfBase DEF Powers
<1>1. q \in Nat /\ r \in 0..(Base - 1) /\ v = r + Base * q
  BY <1>0
<1>2. s \in Nat /\ t \in 0..(Base - 1) /\ q = t + Base * s
  BY <1>0, <1>1
<1> HIDE DEF q, r, s, t
<1>3. r + Base * t \in 0..(n - 1) /\ n \in Nat \ {0}
  BY <1>0, <1>1, <1>2, Below
<1>4. v = (r + Base * t) + n * s
  BY <1>0, <1>1, <1>2
<1> HIDE DEF n
<1>5. r + Base * t \in Nat
  BY <1>0, <1>1, <1>2
<1>6. v % n = r + Base * t
  BY <1>2, <1>3, <1>4, Division
<1> QED BY <1>1, <1>6 DEF n, q, r, t

LEMMA MergedHalf ==
  ASSUME NEW b \in FourBytes, NEW h \in 0..1, NEW v \in Nat
  PROVE LET c == [b EXCEPT ![2 * h] = v % Base, ![2 * h + 1] = (v \div Base) % Base]
        IN /\ c \in FourBytes
           /\ Memory!Merge(Memory!Joined(b), v, h * 2 * ByteSize, 2 * ByteSize)
                = Memory!Joined(c)
<1> DEFINE r == v % Base
           t == (v \div Base) % Base
           c == [b EXCEPT ![2 * h] = r, ![2 * h + 1] = t]
           J == Memory!Joined(b)
<1>0. Base \in Nat \ {0}
  BY PowersOfBase DEF Powers
<1>1. r \in 0..(Base - 1) /\ t \in 0..(Base - 1) /\ v % (Base * Base) = r + Base * t
  <2>1. ASSUME NEW n \in Nat PROVE n % Base \in 0..(Base - 1)
    BY <1>0
  <2>2. (v \div Base) \in Nat
    BY TwoDigits
  <2>3. r \in 0..(Base - 1) /\ t \in 0..(Base - 1)
    BY <2>1, <2>2
  <2>4. v % (Base * Base) = r + Base * t
    BY TwoDigits
  <2> QED BY <2>3, <2>4
<1>2. b[0] \in 0..(Base - 1) /\ b[1] \in 0..(Base - 1) /\ b[2] \in 0..(Base - 1)
        /\ b[3] \in 0..(Base - 1)
  BY DEF FourBytes
<1> HIDE DEF r, t
<1>3. c \in FourBytes
  BY <1>1 DEF FourBytes
<1>4. Memory!Joined(c) = c[0] + c[1] * Base + c[2] * (Base * Base) + c[3] * (Base * Base * Base)
  BY PowersOfBase DEF Memory!Joined, Powers, Base
<1>5. Parts(b)
  BY JoinedParts
<1> HIDE DEF J
<1>6. CASE h = 0
  <2>1. 2 * h = 0 /\ h * 2 * ByteSize = 0 * ByteSize /\ 0 * ByteSize + 2 * ByteSize = 2 * ByteSize
    BY <1>6, MemoryAssumption
  <2>2. Memory!Joined(c) = r + t * Base + b[2] * (Base * Base) + b[3] * (Base * Base * Base)
    BY <1>4, <2>1 DEF FourBytes
  <2>3. J \div 2^(2 * ByteSize) = b[2] + Base * b[3] /\ J % 2^(0 * ByteSize) = 0
    BY <1>5 DEF Parts, Divided, J
  <2>4. Memory!Merge(J, v, h * 2 * ByteSize, 2 * ByteSize)
          = (b[2] + Base * b[3]) * (Base * Base) + (r + Base * t) * 1 + 0
    BY <1>1, <2>1, <2>3, PowersOfBase DEF Powers, Memory!Merge, Memory!LSHR
  <2>5. (b[2] + Base * b[3]) * (Base * Base) + (r + Base * t) * 1 + 0
          = r + t * Base + b[2] * (Base * Base) + b[3] * (Base * Base * Base)
    BY <1>0, <1>1, <1>2
  <2> QED BY <1>3, <2>2, <2>4, <2>5 DEF r, t, J
<1>7. CASE h = 1
  <2>1. 2 * h = 2 /\ h * 2 * ByteSize = 2 * ByteSize /\ 2 * ByteSize + 2 * ByteSize = 4 * ByteSize
    BY <1>7, MemoryAssumption
  <2>2. Memory!Joined(c) = b[0] + b[1] * Base + r * (Base * Base) + t * (Base * Base * Base)
    BY <1>4, <2>1 DEF FourBytes
  <2>3. J \div 2^(4 * ByteSize) = 0 /\ J % 2^(2 * ByteSize) = b[0] + Base * b[1]
    BY <1>5 DEF Parts, Divided, J
  <2>4. Memory!Merge(J, v, h * 2 * ByteSize, 2 * ByteSize)
          = 0 * (Base * Base * Base * Base) + (r + Base * t) * (Base * Base) + (b[0] + Base * b[1])
    BY <1>1, <2>1, <2>3, PowersOfBase DEF Powers, Memory!Merge, Memory!LSHR
  <2>5. 0 * (Base * Base * Base * Base) + (r + Base * t) * (Base * Base) + (b[0] + Base * b[1])
          = b[0] + b[1] * Base + r * (Base * Base) + t * (Base * Base * Base)
    BY <1>0, <1>1, <1>2
  <2> QED BY <1>3, <2>2, <2>4, <2>5 DEF r, t, J
<1> QED BY <1>6, <1>7

LEMMA HalfStored ==
  ASSUME Memory!TypeOK, NEW v \in Nat, NEW a \in Memory!Aligned(2)
  PROVE Memory!arch_store16(v, a) = Memory!Put(a, 2, v, guestLittle)
<1> DEFINE w == Memory!Word32(a)
           b == WordAt(w, guestLittle)
           place(x) == Memory!Nth(x - w, 4, guestLittle)
<1>0. guestLittle \in BOOLEAN
  BY DEF Memory!TypeOK
<1>1. a \in Memory!Bytes
  BY DEF Memory!Aligned
<1>2. w \in Memory!Aligned(4)
  BY <1>1, InWord
<1>3. b \in FourBytes
  BY <1>0, <1>2, WordBytes
<1>4. PICK h \in 0..1 :
          /\ Memory!Shift16(a) = h * 2 * ByteSize
          /\ \A k \in 0..1 : w + Memory!Nth(2 * h + k, 4, guestLittle)
                               = a + Memory!Nth(k, 2, guestLittle)
  BY <1>0, HalfPlace
<1> DEFINE c == [b EXCEPT ![2 * h] = v % Base, ![2 * h + 1] = (v \div Base) % Base]
<1>5. c \in FourBytes /\ Memory!arch_store16(v, a) = Memory!Store32(Memory!Joined(c), w)
  BY <1>2, <1>3, <1>4, WordLoaded, MergedHalf DEF Memory!arch_store16
<1> HIDE DEF c
<1>6. Memory!arch_store16(v, a)
        = [x \in Memory!Bytes |-> IF x \in w..(w + 3) THEN c[place(x)] ELSE RAM[x]]
  BY <1>2, <1>5, BytesStored
<1>7. w \in Nat /\ a \in Nat
  BY <1>1, <1>2, MemoryAssumption DEF Memory!Aligned, Memory!Bytes
<1>8. ASSUME NEW k \in 0..1
      PROVE Memory!Digit(v, k, 2, guestLittle) = c[2 * h + Memory!Nth(k, 2, guestLittle)]
  <2> DEFINE m == Memory!Nth(k, 2, guestLittle)
  <2>1. m \in 0..1
    BY <1>0 DEF Memory!Nth
  <2>2. v \div 2^(0 * ByteSize) = v /\ 2^(1 * ByteSize) = Base
    BY PowersOfBase DEF Powers
  <2>3. c[2 * h] = v % Base /\ c[2 * h + 1] = (v \div Base) % Base
    BY <1>3 DEF c, FourBytes
  <2>4. Memory!Digit(v, k, 2, guestLittle) = (v \div 2^(m * ByteSize)) % Base
    BY DEF Memory!Digit, Memory!LSHR, Base
  <2> HIDE DEF m
  <2>5. CASE m = 0
    <3>1. 2 * h + m = 2 * h
      BY <2>5
    <3>2. (v \div 2^(m * ByteSize)) % Base = v % Base
      BY <2>2, <2>5
    <3> QED BY <2>3, <2>4, <3>1, <3>2 DEF m
  <2>6. CASE m = 1
    <3>1. (v \div 2^(m * ByteSize)) % Base = (v \div Base) % Base
      BY <2>2, <2>6
    <3> QED BY <2>3, <2>4, <2>6, <3>1 DEF m
  <2> QED BY <2>1, <2>5, <2>6
<1>9. ASSUME NEW x \in Memory!Bytes
      PROVE (IF x \in w..(w + 3) THEN c[place(x)] ELSE RAM[x])
              = (IF x \in a..(a + 2 - 1) THEN Memory!Digit(v, x - a, 2, guestLittle) ELSE RAM[x])
  <2>0. x \in Nat
    BY MemoryAssumption DEF Memory!Bytes
  <2>1. CASE x \in a..(a + 2 - 1)
    <3> DEFINE m == Memory!Nth(x - a, 2, guestLittle)
    <3>1. x - a \in 0..1
      BY <1>7, <2>0, <2>1
    <3>2. m \in 0..1 /\ Memory!Nth(m, 2, guestLittle) = x - a
      BY <1>0, <3>1 DEF Memory!Nth
    <3> HIDE DEF m
    <3>3. w + Memory!Nth(2 * h + m, 4, guestLittle) = a + (x - a)
      BY <1>4, <3>2
    <3>4. a + (x - a) = x /\ 2 * h + m \in 0..3
      BY <1>7, <2>0, <3>2
    <3>5. Memory!Nth(2 * h + m, 4, guestLittle) \in 0..3
            /\ Memory!Nth(Memory!Nth(2 * h + m, 4, guestLittle), 4, guestLittle) = 2 * h + m
      BY <1>0, <3>4 DEF Memory!Nth
    <3>6. x - w = Memory!Nth(2 * h + m, 4, guestLittle) /\ x \in w..(w + 3)
      BY <1>7, <2>0, <3>3, <3>4, <3>5
    <3>7. place(x) = 2 * h + m
      BY <3>5, <3>6
    <3>8. Memory!Digit(v, x - a, 2, guestLittle) = c[2 * h + m]
      BY <1>8, <3>1 DEF m
    <3> QED BY <2>1, <3>6, <3>7, <3>8
  <2>2. CASE x \notin a..(a + 2 - 1) /\ x \in w..(w + 3)
    <3>1. x - w \in 0..3
      BY <1>7, <2>0, <2>2
    <3>2. place(x) \in 0..3 /\ Memory!Nth(place(x), 4, guestLittle) = x - w
      BY <1>0, <3>1 DEF Memory!Nth
    <3> HIDE DEF place
    <3>3. ASSUME NEW k \in 0..1 PROVE place(x) # 2 * h + k
      <4>1. SUFFICES ASSUME place(x) = 2 * h + k PROVE FALSE
        OBVIOUS
      <4>2. w + (x - w) = a + Memory!Nth(k, 2, guestLittle)
        BY <1>4, <3>2, <4>1
      <4>3. Memory!Nth(k, 2, guestLittle) \in 0..1
        BY <1>0 DEF Memory!Nth
      <4> QED BY <1>7, <2>0, <2>2, <4>2, <4>3
    <3>4. place(x) # 2 * h /\ place(x) # 2 * h + 1
      <4>1. place(x) # 2 * h + 0 /\ 2 * h + 0 = 2 * h
        BY <3>3
      <4> QED BY <3>3, <4>1
    <3>5. c[place(x)] = RAM[w + (x - w)]
      BY <1>3, <3>2, <3>4 DEF c, FourBytes, WordAt
    <3>6. w + (x - w) = x
      BY <1>7, <2>0
    <3> QED BY <2>2, <3>5, <3>6
  <2>3. CASE x \notin w..(w + 3)
    <3>1. ASSUME x \in a..(a + 2 - 1) PROVE FALSE
      BY <1>1, <1>7, <2>0, <2>3, <3>1, MemoryAssumption
         DEF Memory!Aligned, Memory!Bytes, Memory!Word32
    <3> QED BY <2>3, <3>1
  <2> QED BY <2>1, <2>2, <2>3
<1> HIDE DEF place
<1> QED BY <1>6, <1>9 DEF Memory!Put, place

LEMMA StoresRight == Memory!TypeOK => Memory!StoresInGuestStep
<1> SUFFICES ASSUME Memory!TypeOK PROVE Memory!StoresInGuestStep
  OBVIOUS
<1>1. Values8 \subseteq Nat /\ Values16 \subseteq Nat /\ Values32 \subseteq Nat
  BY MemoryAssumption DEF Word
<1> QED BY <1>1, ByteStored, HalfStored, WordStored
        DEF Memory!StoresInGuestStep, Memory!STORE8, Memory!STORE16, Memory!STORE32, Memory!Stored

LEMMA PutTyped ==
  ASSUME Memory!TypeOK, NEW n \in 1..4, NEW a \in Memory!Bytes, NEW v \in Nat
  PROVE Memory!Put(a, n, v, guestLittle) \in [Memory!Bytes -> Memory!Word(ByteSize)]
<1>1. ASSUME NEW x \in Memory!Bytes, x \in a..(a + n - 1)
      PROVE Memory!Digit(v, x - a, n, guestLittle) \in 0..(Base - 1)
  <2>1. x - a \in 0..(n - 1)
    BY <1>1, MemoryAssumption DEF Memory!Bytes
  <2> QED BY <2>1, DigitIsByte DEF Memory!TypeOK
<1> QED BY <1>1 DEF Memory!Put, Memory!TypeOK, Memory!Word, Base

LEMMA MemoryStart == Memory!Init => Memory!TypeOK
<1>1. 0 \in Memory!Word(ByteSize)
  BY PowersOfBase DEF Powers, Base, Memory!Word
<1> QED BY <1>1, MemoryAssumption DEF Memory!Init, Memory!TypeOK

LEMMA MemoryKept == Memory!TypeOK /\ [Memory!Next]_(Memory!vars) => Memory!TypeOK'
<1> SUFFICES ASSUME Memory!TypeOK, [Memory!Next]_(Memory!vars) PROVE Memory!TypeOK'
  OBVIOUS
<1>1. Values8 \subseteq Nat /\ Values16 \subseteq Nat /\ Values32 \subseteq Nat
  BY MemoryAssumption DEF Word
<1>2. Memory!StoresInGuestStep
  BY StoresRight
<1>3. ASSUME NEW n \in 1..4, NEW a \in Memory!Bytes, NEW v \in Nat, NEW ram,
             Memory!Stored(ram), RAM' = Memory!Put(a, n, v, guestLittle)
      PROVE Memory!TypeOK'
  BY <1>3, PutTyped, MemoryAssumption DEF Memory!TypeOK, Memory!Stored
<1>4. ASSUME NEW a \in Memory!Bytes, NEW v \in Values8, Memory!STORE8(v, a)
      PROVE Memory!TypeOK'
  BY <1>1, <1>2, <1>3, <1>4 DEF Memory!StoresInGuestStep, Memory!STORE8
<1>5. ASSUME NEW a \in Memory!Aligned(2), NEW v \in Values16, Memory!STORE16(v, a)
      PROVE Memory!TypeOK'
  BY <1>1, <1>2, <1>3, <1>5 DEF Memory!StoresInGuestStep, Memory!STORE16, Memory!Aligned
<1>6. ASSUME NEW a \in Memory!Aligned(4), NEW v \in Values32, Memory!STORE32(v, a)
      PROVE Memory!TypeOK'
  BY <1>1, <1>2, <1>3, <1>6 DEF Memory!StoresInGuestStep, Memory!STORE32, Memory!Aligned
<1>7. CASE UNCHANGED Memory!vars
  BY <1>7 DEF Memory!vars, Memory!TypeOK
<1> QED BY <1>4, <1>5, <1>6, <1>7 DEF Memory!Next

--------------------------------------------------------------------------------
(***************************************************************************)
(* Floating point registers: what is put in one is loaded again, for any   *)
(* number of registers and every kind of host.                             *)
(***************************************************************************)
LEMMA ExponentParts ==
  ASSUME NEW e \in 0..2047
  PROVE  \E q \in 0..7, r \in 0..255 : e = 256 * q + r
<1>1. e \div 256 \in 0..7 /\ e % 256 \in 0..255 /\ e = 256 * (e \div 256) + (e % 256)
  OBVIOUS
<1> QED BY <1>1

\* An exponent of 80 bits by its bits from 8 on.
LEMMA CompressParts ==
  ASSUME NEW r \in 0..255
  PROVE  /\ FP!Compress(256 * 63 + r) = 768 + r
         /\ \A q \in 0..3 : FP!Compress(256 * (64 + q) + r) = 1024 + 256 * q + r
         /\ FP!Compress(256 * 127 + r) = 1792 + r
<1>1. FP!Compress(256 * 63 + r) = 768 + r
  BY DEF FP!Compress, FP!Bit, FP!OR
<1>2. ASSUME NEW q \in 0..3
      PROVE  FP!Compress(256 * (64 + q) + r) = 1024 + 256 * q + r
  <2>1. CASE q = 0
    BY <2>1 DEF FP!Compress, FP!Bit, FP!OR
  <2>2. CASE q = 1
    BY <2>2 DEF FP!Compress, FP!Bit, FP!OR
  <2>3. CASE q = 2
    BY <2>3 DEF FP!Compress, FP!Bit, FP!OR
  <2>4. CASE q = 3
    BY <2>4 DEF FP!Compress, FP!Bit, FP!OR
  <2> QED BY <2>1, <2>2, <2>3, <2>4
<1>3. FP!Compress(256 * 127 + r) = 1792 + r
  BY DEF FP!Compress, FP!Bit, FP!OR
<1> QED BY <1>1, <1>2, <1>3

\* The exponent of a number in 80 bits has its double's exponent back, from 768 on.
LEMMA CompressesBack ==
  ASSUME NEW e \in FP!Exponent64
  PROVE  /\ FP!Rebias(e) \in FP!Exponent80
         /\ FP!Compressed(e) => FP!Compress(FP!Rebias(e)) = e
<1>1. FP!Rebias(e) \in FP!Exponent80
  BY DEF FP!Rebias, FP!Exponent64, FP!Exponent80
<1>2. ASSUME e >= 768 PROVE FP!Compress(FP!Rebias(e)) = e
  <2>1. PICK q \in 0..7, r \in 0..255 : e = 256 * q + r
    BY ExponentParts DEF FP!Exponent64
  <2>2. CASE e = 2047
    <3>1. FP!Rebias(e) = 256 * 127 + 255
      BY <2>2 DEF FP!Rebias
    <3>2. FP!Compress(256 * 127 + 255) = 1792 + 255
      BY CompressParts
    <3> QED BY <2>2, <3>1, <3>2
  <2>3. CASE e # 2047 /\ q = 3
    <3>1. FP!Rebias(e) = 256 * 63 + r
      BY <2>1, <2>3 DEF FP!Rebias
    <3>2. FP!Compress(256 * 63 + r) = 768 + r
      BY CompressParts
    <3> QED BY <2>1, <2>3, <3>1, <3>2
  <2>4. CASE e # 2047 /\ q \in 4..7
    <3>1. FP!Rebias(e) = 256 * (64 + (q - 4)) + r /\ q - 4 \in 0..3
      BY <2>1, <2>4 DEF FP!Rebias
    <3>2. FP!Compress(256 * (64 + (q - 4)) + r) = 1024 + 256 * (q - 4) + r
      BY <3>1, CompressParts
    <3> QED BY <2>1, <2>4, <3>1, <3>2
  <2>5. q \in 3..7
    BY <1>2, <2>1
  <2> QED BY <2>2, <2>3, <2>4, <2>5
<1>3. e # 0
  BY DEF FP!Exponent64
<1> QED BY <1>1, <1>2, <1>3 DEF FP!Compressed

\* The cells of the two words of a register.
HiCell(i) == i * 2 + IF hostLittle THEN 1 ELSE 0
LoCell(i) == i * 2 + IF hostLittle THEN 0 ELSE 1

\* A register is as it was cleared, or has the number last put there.
HoldsWords(i) ==
    \/ fpr[HiCell(i)] = FP!Empty /\ written[i] = FP!Zero
    \/ /\ written[i] \in FP!Number
       /\ fpr[HiCell(i)] = FP!Hi(written[i], FP!Rebias(written[i].exponent))
       /\ fpr[LoCell(i)] = FP!Lo(written[i])

HoldsFloat(i) ==
    \/ fpr[i] = FP!Empty /\ written[i] = FP!Zero
    \/ fpr[i] = FP!Whole(written[i])

FpTyped ==
    /\ fpr = [c \in FP!Cells |-> fpr[c]]
    /\ written \in [FP!Registers -> FP!Number \cup {FP!Zero}]
    /\ host \in SUBSET {80, 128} /\ hostLittle \in BOOLEAN

FpInvariant ==
    /\ FpTyped
    /\ \A i \in FP!Registers : IF FP!Synthesized THEN HoldsWords(i) ELSE HoldsFloat(i)

LEMMA CellsOf ==
  ASSUME NEW i \in FP!Registers, NEW j \in FP!Registers
  PROVE  /\ HiCell(i) \in FP!Cells /\ LoCell(i) \in FP!Cells /\ i \in FP!Cells
         /\ HiCell(i) # LoCell(j)
         /\ i # j => HiCell(i) # HiCell(j) /\ LoCell(i) # LoCell(j)
<1>1. Fprs \in Nat /\ i \in 0..(Fprs - 1) /\ j \in 0..(Fprs - 1)
  BY FloatingAssumption DEF FP!Registers
<1>2. CASE hostLittle
  BY <1>1, <1>2 DEF HiCell, LoCell, FP!Cells
<1>3. CASE ~hostLittle
  BY <1>1, <1>3 DEF HiCell, LoCell, FP!Cells
<1> QED BY <1>2, <1>3

LEMMA FpStart == FP!Init => FpInvariant
<1> SUFFICES ASSUME FP!Init PROVE FpInvariant
  OBVIOUS
<1>1. FpTyped
  BY DEF FP!Init, FpTyped
<1>2. ASSUME NEW i \in FP!Registers
      PROVE  written[i] = FP!Zero /\ fpr[HiCell(i)] = FP!Empty /\ fpr[i] = FP!Empty
  BY <1>2, CellsOf DEF FP!Init
<1> QED BY <1>1, <1>2 DEF FpInvariant, HoldsWords, HoldsFloat

LEMMA FpPut ==
  ASSUME FpInvariant, NEW i \in FP!Registers, NEW v \in FP!Number, FP!Put(i, v),
         UNCHANGED FP!machine
  PROVE  FpInvariant'
<1>0. /\ UNCHANGED <<host, hostLittle>> /\ FP!Synthesized' = FP!Synthesized
      /\ written' = [written EXCEPT ![i] = v]
  BY DEF FP!machine, FP!Synthesized, FP!Put
<1>1. written' \in [FP!Registers -> FP!Number \cup {FP!Zero}] /\ written'[i] = v
  BY <1>0 DEF FpInvariant, FpTyped
<1>2. \A j \in FP!Registers \ {i} : written'[j] = written[j]
  BY <1>0 DEF FpInvariant, FpTyped
<1>3. CASE FP!Synthesized
  <2> DEFINE hi == FP!Hi(v, FP!Rebias(v.exponent))
             lo == FP!Lo(v)
  <2>1. fpr' = [fpr EXCEPT ![HiCell(i)] = hi, ![LoCell(i)] = lo]
    BY <1>3 DEF FP!Put, HiCell, LoCell
  <2> HIDE DEF hi, lo
  <2>2. /\ fpr' = [c \in FP!Cells |-> fpr'[c]]
        /\ fpr'[HiCell(i)] = hi /\ fpr'[LoCell(i)] = lo
        /\ \A c \in FP!Cells \ {HiCell(i), LoCell(i)} : fpr'[c] = fpr[c]
    <3>1. HiCell(i) \in FP!Cells /\ LoCell(i) \in FP!Cells /\ HiCell(i) # LoCell(i)
      BY CellsOf
    <3>2. fpr = [c \in FP!Cells |-> fpr[c]]
      BY DEF FpInvariant, FpTyped
    <3>3. DOMAIN fpr = FP!Cells
      BY <3>2
    <3>4. fpr' = [c \in FP!Cells |-> IF c = LoCell(i) THEN lo ELSE IF c = HiCell(i) THEN hi ELSE fpr[c]]
      BY <2>1, <3>1, <3>3
    <3> QED BY <3>1, <3>4
  <2>3. HiCell(i)' = HiCell(i) /\ LoCell(i)' = LoCell(i)
    BY <1>0 DEF HiCell, LoCell
  <2>4. HoldsWords(i)'
    BY <1>1, <2>2, <2>3 DEF HoldsWords, hi, lo
  <2>5. ASSUME NEW j \in FP!Registers \ {i} PROVE HoldsWords(j)'
    <3>1. HiCell(j)' = HiCell(j) /\ LoCell(j)' = LoCell(j)
      BY <1>0 DEF HiCell, LoCell
    <3>2. HiCell(j) \in FP!Cells \ {HiCell(i), LoCell(i)} /\ LoCell(j) \in FP!Cells \ {HiCell(i), LoCell(i)}
      BY CellsOf
    <3>3. fpr'[HiCell(j)] = fpr[HiCell(j)] /\ fpr'[LoCell(j)] = fpr[LoCell(j)]
      BY <2>2, <3>2
    <3>4. HoldsWords(j)
      BY <1>3 DEF FpInvariant
    <3> QED BY <1>2, <3>1, <3>3, <3>4 DEF HoldsWords
  <2> QED BY <1>0, <1>1, <1>3, <2>2, <2>4, <2>5 DEF FpInvariant, FpTyped
<1>4. CASE ~FP!Synthesized
  <2>1. fpr' = [fpr EXCEPT ![i] = FP!Whole(v)]
    BY <1>4 DEF FP!Put
  <2>2. /\ fpr' = [c \in FP!Cells |-> fpr'[c]]
        /\ fpr'[i] = FP!Whole(v)
        /\ \A j \in FP!Registers \ {i} : fpr'[j] = fpr[j]
    BY <2>1, CellsOf DEF FpInvariant, FpTyped
  <2>3. HoldsFloat(i)'
    BY <1>1, <2>2 DEF HoldsFloat
  <2>4. ASSUME NEW j \in FP!Registers \ {i} PROVE HoldsFloat(j)'
    <3>1. HoldsFloat(j)
      BY <1>4 DEF FpInvariant
    <3> QED BY <1>2, <2>2, <3>1 DEF HoldsFloat
  <2> QED BY <1>0, <1>1, <1>4, <2>2, <2>3, <2>4 DEF FpInvariant, FpTyped
<1> QED BY <1>3, <1>4

LEMMA FpStep == FpInvariant /\ [FP!Next]_(FP!vars) => FpInvariant'
<1>1. ASSUME FpInvariant, UNCHANGED <<fpr, written, FP!machine>> PROVE FpInvariant'
  BY <1>1 DEF FpInvariant, FpTyped, HoldsWords, HoldsFloat, HiCell, LoCell, FP!machine,
              FP!Synthesized
<1>2. ASSUME FpInvariant, FP!Next PROVE FpInvariant'
  <2>1. UNCHANGED FP!machine
    BY <1>2 DEF FP!Next
  <2>2. PICK i \in FP!Registers :
          FP!ClientPut(i) \/ \E bits \in {0, 32, 64, 80, 128}, t \in FP!ValueTypes : FP!Store(i, bits, t)
    BY <1>2 DEF FP!Next
  <2>3. UNCHANGED <<fpr, written>> \/ \E v \in FP!Number : FP!Put(i, v)
    BY <2>2 DEF FP!ClientPut, FP!Store
  <2> QED BY <1>1, <1>2, <2>1, <2>3, FpPut
<1>3. ASSUME FpInvariant, UNCHANGED FP!vars PROVE FpInvariant'
  BY <1>1, <1>3 DEF FP!vars
<1> QED BY <1>2, <1>3

LEMMA FpHolds == FpInvariant => FP!KeptValues
<1> SUFFICES ASSUME FpInvariant, NEW i \in FP!Registers, FP!Loadable(i),
                    FP!Synthesized => FP!Compressed(written[i].exponent)
             PROVE  FP!Load(i) = IF FP!Synthesized /\ hardwireFpr0 /\ i = 0 THEN FP!Zero ELSE written[i]
  BY DEF FP!KeptValues
<1>1. CASE ~FP!Synthesized
  <2>1. HoldsFloat(i)
    BY <1>1 DEF FpInvariant
  <2>2. FP!Load(i) = IF fpr[i] = FP!Empty THEN FP!Zero ELSE fpr[i].value
    BY <1>1 DEF FP!Load
  <2>3. FP!Whole(written[i]) # FP!Empty /\ FP!Whole(written[i]).value = written[i]
    BY DEF FP!Whole, FP!Empty
  <2> QED BY <1>1, <2>1, <2>2, <2>3 DEF HoldsFloat
<1>2. CASE FP!Synthesized /\ hardwireFpr0 /\ i = 0
  BY <1>2 DEF FP!Load, FP!Synthesize, FP!Index
<1>3. CASE FP!Synthesized /\ ~(hardwireFpr0 /\ i = 0)
  <2>1. HoldsWords(i)
    BY <1>3 DEF FpInvariant
  <2>2. ~(FP!Index(i) = 0 /\ hardwireFpr0)
    BY <1>3 DEF FP!Index, FP!Registers
  <2>3. FP!Load(i) = IF fpr[HiCell(i)] = FP!Empty THEN FP!Zero
                     ELSE [sign |-> fpr[HiCell(i)].sign,
                           exponent |-> FP!Compress(fpr[HiCell(i)].exponent),
                           mantissa |-> fpr[LoCell(i)].mantissa]
    BY <1>3, <2>2 DEF FP!Load, FP!Synthesize, HiCell, LoCell, FP!Index
  <2>4. CASE fpr[HiCell(i)] = FP!Empty /\ written[i] = FP!Zero
    BY <1>3, <2>3, <2>4
  <2>5. CASE /\ written[i] \in FP!Number
             /\ fpr[HiCell(i)] = FP!Hi(written[i], FP!Rebias(written[i].exponent))
             /\ fpr[LoCell(i)] = FP!Lo(written[i])
    <3>1. /\ fpr[HiCell(i)] # FP!Empty /\ fpr[HiCell(i)].sign = written[i].sign
          /\ fpr[HiCell(i)].exponent = FP!Rebias(written[i].exponent)
          /\ fpr[LoCell(i)].mantissa = written[i].mantissa
      BY <2>5 DEF FP!Hi, FP!Lo, FP!Empty
    <3>2. written[i].exponent \in FP!Exponent64
      BY <2>5, FloatingAssumption DEF FP!Number
    <3>3. FP!Compress(FP!Rebias(written[i].exponent)) = written[i].exponent
      BY <1>3, <3>2, CompressesBack
    <3>4. FP!Load(i) = [sign |-> written[i].sign, exponent |-> written[i].exponent,
                        mantissa |-> written[i].mantissa]
      BY <2>3, <3>1, <3>3
    <3> QED BY <1>3, <2>5, <3>4 DEF FP!Number
  <2> QED BY <2>1, <2>4, <2>5 DEF HoldsWords
<1> QED BY <1>1, <1>2, <1>3

\* The types that are cast: integers, and the floats of a host.
Castable(t, k) ==
    \/ k \in {1, 8, 16, 32, 64} /\ t = FP!IntType(k)
    \/ k \in {32, 64} \cup host /\ t = FP!FloatType(k)

LEMMA CastsWiden ==
  ASSUME host \in SUBSET {80, 128}, NEW k, NEW t, Castable(t, k)
  PROVE  /\ FP!arch_cast_fp32(t) = FP!FloatType(32)
         /\ FP!arch_cast_fp64(t) = FP!FloatType(64)
         /\ FP!arch_cast_fp80(t) = FP!FloatType(FP!Widest(80))
         /\ FP!arch_cast_fp128(t) = FP!FloatType(FP!Widest(128))
<1> USE DEF FP!IntType, FP!FloatType, FP!Bad, FP!BITCAST, FP!ZEXT, FP!TRUNC, FP!FPEXT, FP!FPTRUNC,
      FP!Small, FP!FromInt, FP!Resize
<1>1. CASE k \in {1, 8, 16, 32, 64} /\ t = FP!IntType(k)
  <2>1. t.kind = "int" /\ t.bits = k
    BY <1>1
  <2>2. FP!arch_cast_fp32(t) = FP!FloatType(32)
    BY <1>1, <2>1 DEF FP!arch_cast_fp32
  <2>3. FP!arch_cast_fp64(t) = FP!FloatType(64)
    BY <1>1, <2>1 DEF FP!arch_cast_fp64
  <2>4. FP!arch_cast_fp80(t) = FP!FloatType(FP!Widest(80))
    BY <1>1, <2>1, <2>3 DEF FP!arch_cast_fp80, FP!Widest
  <2>5. FP!arch_cast_fp128(t) = FP!FloatType(FP!Widest(128))
    BY <1>1, <2>1, <2>4 DEF FP!arch_cast_fp128, FP!Widest
  <2> QED BY <2>2, <2>3, <2>4, <2>5
<1>2. CASE k \in {32, 64} \cup host /\ t = FP!FloatType(k)
  <2>1. t.kind = "float" /\ t.bits = k /\ k \in {32, 64, 80, 128}
    BY <1>2
  <2>2. FP!arch_cast_fp32(t) = FP!FloatType(32)
    BY <1>2, <2>1 DEF FP!arch_cast_fp32
  <2>3. FP!arch_cast_fp64(t) = FP!FloatType(64)
    BY <1>2, <2>1 DEF FP!arch_cast_fp64
  <2>4. FP!arch_cast_fp80(t) = FP!FloatType(FP!Widest(80))
    BY <1>2, <2>1, <2>3 DEF FP!arch_cast_fp80, FP!Widest
  <2>5. FP!arch_cast_fp128(t) = FP!FloatType(FP!Widest(128))
    BY <1>2, <2>1, <2>4 DEF FP!arch_cast_fp128, FP!Widest
  <2> QED BY <2>2, <2>3, <2>4, <2>5
<1> QED BY <1>1, <1>2 DEF Castable

\* Every cast of an integer or of a float that the host has gives the widest format there
\* is for its size (arch_cast_fp32() .. arch_cast_fp128()).
THEOREM CastsWide == FpInvariant => FP!CastsToWidest
<1> SUFFICES ASSUME FpInvariant, NEW n \in {32, 64, 80, 128}, NEW t \in FP!ValueTypes
             PROVE  FP!fp_cast(n, t) = FP!FloatType(FP!Widest(n))
  BY DEF FP!CastsToWidest
<1>0. host \in SUBSET {80, 128}
  BY DEF FpInvariant, FpTyped
<1>1. PICK k : Castable(t, k)
  BY DEF Castable, FP!ValueTypes
<1>2. /\ FP!arch_cast_fp32(t) = FP!FloatType(32)
      /\ FP!arch_cast_fp64(t) = FP!FloatType(64)
      /\ FP!arch_cast_fp80(t) = FP!FloatType(FP!Widest(80))
      /\ FP!arch_cast_fp128(t) = FP!FloatType(FP!Widest(128))
  BY <1>0, <1>1, CastsWiden
<1>3. FP!Widest(32) = 32 /\ FP!Widest(64) = 64
  BY DEF FP!Widest
<1> QED BY <1>2, <1>3 DEF FP!fp_cast

--------------------------------------------------------------------------------
(***************************************************************************)
(* Memory, floating point registers and the places of registers, as parts  *)
(* of one specification.                                                   *)
(***************************************************************************)
PartsInvariant ==
    /\ part = "memory" => Memory!TypeOK
    /\ part = "floating" => FpInvariant
    /\ part = "places" => Places!LayoutInvariant

LEMMA PartsStart == MCInit => PartsInvariant
<1> SUFFICES ASSUME MCInit PROVE PartsInvariant
  OBVIOUS
<1>1. ASSUME part = "floating" PROVE FpInvariant
  BY <1>1, FpStart DEF MCInit
<1>2. ASSUME part = "places" PROVE Places!LayoutInvariant
  BY <1>2, PlacesAssumption, Places!AllFit, Places!LayoutStart DEF MCInit
<1>3. ASSUME part = "memory" PROVE Memory!TypeOK
  BY <1>3, MemoryStart DEF MCInit
<1> QED BY <1>1, <1>2, <1>3 DEF PartsInvariant

LEMMA PartsStep == PartsInvariant /\ [MCNext]_allvars => PartsInvariant'
<1> SUFFICES ASSUME PartsInvariant, [MCNext]_allvars PROVE PartsInvariant'
  OBVIOUS
<1>1. part' = part
  BY DEF MCNext, allvars
<1>2. ASSUME part = "floating" PROVE FpInvariant'
  <2>1. FP!Next \/ UNCHANGED FP!vars
    BY <1>2 DEF MCNext, RegisterStep, MemoryStep, FloatingStep, PlacesStep,
                allvars, memory, floating, FP!vars, FP!machine
  <2> QED BY <1>2, <2>1, FpStep DEF PartsInvariant
<1>3. ASSUME part = "places" PROVE Places!LayoutInvariant'
  <2>1. Places!Next \/ UNCHANGED Places!vars
    BY <1>3 DEF MCNext, RegisterStep, MemoryStep, FloatingStep, PlacesStep,
                allvars, places, Places!vars
  <2> QED BY <1>3, <2>1, Places!LayoutStep DEF PartsInvariant
<1>4. ASSUME part = "memory" PROVE Memory!TypeOK'
  <2>1. Memory!Next \/ UNCHANGED Memory!vars
    BY <1>4 DEF MCNext, RegisterStep, MemoryStep, FloatingStep, PlacesStep,
                allvars, memory, Memory!vars
  <2> QED BY <1>4, <2>1, MemoryKept DEF PartsInvariant
<1> QED BY <1>1, <1>2, <1>3, <1>4 DEF PartsInvariant

LEMMA PartsAlways == MCSpec => []PartsInvariant
BY PartsStart, PartsStep, PTL DEF MCSpec

\* Stores of bytes, half words and words leave their bytes in the guest's order and no
\* others, and loads read them so: on both kinds of hosts, for bytes of any width
\* and any amount of memory (arch_store8() .. arch_load32_aligned()).
THEOREM MemoryOrdered == MCSpec => MemoryInGuestOrder
<1>1. PartsInvariant => (part = "memory" => Memory!LoadsInGuestOrder)
  BY LoadsRight DEF PartsInvariant
<1>2. PartsInvariant => [part = "memory" => Memory!StoresInGuestStep]_memory
  BY StoresRight DEF PartsInvariant
<1> QED BY <1>1, <1>2, PartsAlways, PTL DEF MemoryInGuestOrder

\* What generated code loads from a floating point register is what was last put there, and
\* casts are as wide as the host allows: for any number of registers, guests of 64,
\* 80 and 128 bits and every kind of host (fp.cpp, arch_put_fp_reg()).
THEOREM FloatsStay == MCSpec => []FloatsKept
<1>1. PartsInvariant => FloatsKept
  <2>1. part = "floating" /\ PartsInvariant => FP!KeptValues /\ FP!CastsToWidest
    BY FpHolds, CastsWide DEF PartsInvariant
  <2> QED BY <2>1 DEF FloatsKept
<1> QED BY <1>1, PartsAlways, PTL

\* Generated code and clients find every register and the program counter in the same
\* bytes, whatever the number of registers (function.cpp, ..._types.h).
THEOREM PlacesShared == MCSpec => []RegistersInPlace
<1>1. PartsInvariant => RegistersInPlace
  <2>1. part = "places" /\ PartsInvariant => Places!InPlace
    BY Places!LayoutHolds DEF PartsInvariant
  <2> QED BY <2>1 DEF RegistersInPlace, Places!InPlace
<1> QED BY <1>1, PartsAlways, PTL
================================================================================
