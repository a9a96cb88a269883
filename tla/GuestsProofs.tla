------------------------------ MODULE GuestsProofs ------------------------------
(***************************************************************************)
(* The 6502, for bytes of any width from two bits: its registers stay      *)
(* bytes, its sums and shifts are exact and its calls come back.  MIPS,    *)
(* for words of any width: the translated instructions do in either mode   *)
(* what the repository's interpreter does.  ARM, Fapra and the M88000, for *)
(* words of any width: the generated code does what the comments say.      *)
(***************************************************************************)
EXTENDS MCGuests, FrontendLemmas, TLAPS

(***************************************************************************)
(* Bytes and addresses.                                                    *)
(***************************************************************************)
Half == 2^(W - 1)

Widths ==
    /\ B \in Nat /\ B >= 4 /\ 2^W = B
    /\ 2^(2 * W) = B * B /\ B * B \in Nat /\ B * B >= 4 * B
    /\ Half \in Nat /\ B = 2 * Half

LEMMA WidthsHold == Widths
<1> DEFINE h == 2^(W - 1)
           q == 2^(W - 2)
<1>1. W - 1 \in Nat /\ W - 2 \in Nat /\ W = (W - 1) + 1 /\ W - 1 = (W - 2) + 1 /\ W \in Nat
      /\ 2 * W = W + W
  BY Mos6502Assumption
<1>2. q \in Nat \ {0} /\ 2^((W - 2) + 1) = 2 * q
  BY <1>1, PowersOfTwo DEF Doubles
<1>3. h \in Nat \ {0} /\ 2^((W - 1) + 1) = 2 * h
  BY <1>1, PowersOfTwo DEF Doubles
<1>4. 2^W = 2 * h /\ h = 2 * q /\ 2^(2 * W) = 2^W * 2^W
  BY <1>1, <1>2, <1>3, PowerSum
<1> HIDE DEF h, q
<1>5. 2^W \in Nat /\ 2^W >= 4 /\ h \in Nat
  BY <1>2, <1>3, <1>4
<1>6. \A b \in Nat : b >= 4 => b * b \in Nat /\ b * b >= 4 * b
  OBVIOUS
<1> QED BY <1>4, <1>5, <1>6 DEF Widths, B, Half, h

LEMMA Numbers == Byte = 0..(B - 1) /\ Address = 0..(B * B - 1)
BY WidthsHold DEF Widths, Byte, Address, Word, B

\* Sums and differences stay bytes and addresses.
LEMMA Wraps ==
  ASSUME NEW n \in Int
  PROVE  n % B \in Byte /\ n % 2^(2 * W) \in Address
<1>1. ASSUME NEW m \in Nat, m > 0 PROVE n % m \in 0..(m - 1)
  BY <1>1
<1> QED BY <1>1, WidthsHold, Numbers DEF Widths

LEMMA TosTyped ==
  ASSUME NEW s \in Byte
  PROVE  /\ Tos(s) \in Address
         /\ ADD(W, s, 1) \in Byte /\ ADD(W, s, 2) \in Byte
         /\ SUB(W, s, 1) \in Byte /\ SUB(W, s, 2) \in Byte
<1>1. s \in Int
  BY Numbers
<1>2. Tos(s) \in Address
  BY WidthsHold, Numbers DEF Widths, Tos
<1> QED BY <1>1, <1>2, Wraps DEF ADD, SUB, B

LEMMA Below == ASSUME NEW n \in Nat \ {0}, NEW x \in 0..(n - 1) PROVE x % n = x
OBVIOUS

\* Past the end a counter starts again.
LEMMA Past ==
  ASSUME NEW n \in Nat \ {0}, NEW x \in n..(2 * n - 1)
  PROVE  x % n = x - n
<1>1. x = (x - n) + n * 1 /\ x - n \in 0..(n - 1) /\ 1 \in Nat
  OBVIOUS
<1> QED BY <1>1, Division

LEMMA Times ==
  ASSUME NEW m \in Nat, NEW n \in Nat, n >= m
  PROVE  m * n >= m * m
<1>1. m * (n - m) >= 0 /\ m * n = m * m + m * (n - m)
  OBVIOUS
<1> QED BY <1>1

LEMMA Joins ==
  ASSUME NEW lo \in Byte, NEW hi \in Byte
  PROVE  lo + B * hi \in Address
<1> DEFINE b == B
<1>1. b \in Nat /\ lo \in 0..(b - 1) /\ hi \in 0..(b - 1) /\ Address = 0..(b * b - 1)
  BY WidthsHold, Numbers DEF Widths
<1> HIDE DEF b
<1>2. b * hi <= b * (b - 1)
  BY <1>1
<1>3. lo + b * hi \in 0..(b * b - 1)
  BY <1>1, <1>2
<1> QED BY <1>1, <1>3 DEF b

--------------------------------------------------------------------------------
(***************************************************************************)
(* Opcodes and addressing modes.                                           *)
(***************************************************************************)
Modes == InMemory \cup {"ACC", "BRA", "IMM", "IND", "IMPL"}

\* An instruction has an opcode of its table.
LEMMA OpcodeOf ==
  ASSUME NEW op \in 0..255, Instr[op] # "XXX"
  PROVE  Instr[op] \in Instrs /\ op \in Opcode(Instr[op])
<1>1. CASE \E i \in Instrs : op \in Opcode(i)
  <2>1. Instr[op] = CHOOSE i \in Instrs : op \in Opcode(i)
    BY <1>1 DEF Instr
  <2> QED BY <1>1, <2>1
<1>2. CASE ~ \E i \in Instrs : op \in Opcode(i)
  BY <1>2 DEF Instr
<1> QED BY <1>1, <1>2

LEMMA ModeTyped ==
  ASSUME NEW op
  PROVE  AddMode(op) \in Modes /\ get_length(AddMode(op)) \in 1..3
<1>1. AddMode(op) \in Modes
  BY DEF AddMode, Modes, InMemory
<1>2. ASSUME NEW am \in Modes PROVE get_length(am) \in 1..3
  BY <1>2 DEF get_length, Modes, InMemory
<1> QED BY <1>1, <1>2

LEMMA CallMode ==
  ASSUME NEW op \in 0..255, Instr[op] = "JSR"
  PROVE  AddMode(op) = "ABS"
<1>1. op \in Opcode("JSR")
  BY OpcodeOf
<1>2. Opcode("JSR") = {32}
  BY DEF Opcode
<1>3. op = 32
  BY <1>1, <1>2
<1> QED BY <1>3 DEF AddMode, Absolute, AbsoluteX, AbsoluteY, Accumulator, Relative, Immediate,
                    IndirectX, IndirectY, ZeroPage, ZeroPageX, ZeroPageY

LEMMA ShiftMode ==
  ASSUME NEW op \in 0..255, Instr[op] \in Shifts
  PROVE  AddMode(op) \in {"ACC"} \cup InMemory
<1>1. op \in Opcode(Instr[op])
  BY OpcodeOf DEF Shifts
<1>2. /\ Opcode("ASL") = {6, 10, 14, 22, 30} /\ Opcode("LSR") = {70, 74, 78, 86, 94}
      /\ Opcode("ROL") = {38, 42, 46, 54, 62} /\ Opcode("ROR") = {102, 106, 110, 118, 126}
  BY DEF Opcode
<1>3. op \in {6, 10, 14, 22, 30} \cup {70, 74, 78, 86, 94} \cup {38, 42, 46, 54, 62}
             \cup {102, 106, 110, 118, 126}
  BY <1>1, <1>2 DEF Shifts
<1> USE DEF AddMode, Absolute, AbsoluteX, AbsoluteY, Accumulator, Relative, Immediate, IndirectX,
            IndirectY, ZeroPage, ZeroPageX, ZeroPageY, InMemory
<1>4. CASE op \in {6, 38, 70, 102}
  BY <1>4
<1>5. CASE op \in {10, 42, 74, 106}
  BY <1>5
<1>6. CASE op \in {14, 46, 78, 110}
  BY <1>6
<1>7. CASE op \in {22, 54, 86, 118}
  BY <1>7
<1>8. CASE op \in {30, 62, 94, 126}
  BY <1>8
<1> QED BY <1>3, <1>4, <1>5, <1>6, <1>7, <1>8

--------------------------------------------------------------------------------
(***************************************************************************)
(* Sums and shifts carry what they do not return.                          *)
(***************************************************************************)
AddsExactly(sum, a, v, c) ==
    /\ sum.value \in Byte /\ sum.carry \in 0..1
    /\ sum.value + B * sum.carry = a + v + c

LEMMA AdcExact ==
  ASSUME NEW a \in Byte, NEW v \in Byte, NEW c \in 0..1
  PROVE  AddsExactly(arch_adc(W, a, v, c), a, v, c)
<1> DEFINE n == a + v + c
<1>1. n \in 0..(2 * B - 1) /\ B \in Nat /\ B >= 4 /\ 2^W = B /\ Byte = 0..(B - 1)
  BY WidthsHold, Numbers DEF Widths
<1>2. arch_adc(W, a, v, c) = [value |-> n % B, carry |-> (n \div B) % 2]
  BY <1>1 DEF arch_adc, TRUNC, LSHR
<1> HIDE DEF n
<1>3. CASE n < B
  <2>1. n % B = n /\ n \div B = 0
    BY <1>1, <1>3
  <2> QED BY <1>1, <1>2, <2>1 DEF AddsExactly, n
<1>4. CASE n >= B
  <2>1. n = (n - B) + B * 1 /\ n - B \in 0..(B - 1)
    BY <1>1, <1>4
  <2>2. n % B = n - B /\ n \div B = 1
    BY <1>1, <2>1, Division
  <2> QED BY <1>1, <1>2, <2>1, <2>2 DEF AddsExactly, n
<1> QED BY <1>1, <1>3, <1>4

ShiftsExactly(shifted, v, c, left, rotate) ==
    /\ shifted.value \in Byte /\ shifted.carry \in 0..1
    /\ left => shifted.value + B * shifted.carry = 2 * v + (IF rotate THEN c ELSE 0)
    /\ ~left => 2 * shifted.value + shifted.carry = v + (IF rotate THEN B * c ELSE 0)

LEMMA ShiftExact ==
  ASSUME NEW v \in Byte, NEW c \in 0..1, NEW left \in BOOLEAN, NEW rotate \in BOOLEAN
  PROVE  ShiftsExactly(arch_shiftrotate(W, v, c, left, rotate), v, c, left, rotate)
<1>1. /\ B \in Nat /\ B >= 4 /\ 2^W = B /\ 2^(W - 1) = Half /\ Half \in Nat /\ B = 2 * Half
      /\ Byte = 0..(B - 1) /\ v \in 0..(B - 1)
  BY WidthsHold, Numbers DEF Widths, Half
<1>2. 2^1 = 2
  OBVIOUS
<1>3. CASE left
  <2> DEFINE in == IF rotate THEN c ELSE 0
  <2>1. arch_shiftrotate(W, v, c, left, rotate) =
          [value |-> ((v * 2) % B) + in, carry |-> Bit(v >= Half)]
    BY <1>1, <1>2, <1>3 DEF arch_shiftrotate, SHL, Negative
  <2>2. in \in 0..1
    OBVIOUS
  <2>3. CASE v < Half
    <3>1. (v * 2) % B = v * 2 /\ v * 2 + in \in 0..(B - 1)
      BY <1>1, <2>2, <2>3
    <3>2. arch_shiftrotate(W, v, c, left, rotate) = [value |-> v * 2 + in, carry |-> 0]
      BY <1>1, <2>1, <2>3, <3>1 DEF Bit
    <3>3. v * 2 + in + B * 0 = 2 * v + in
      BY <1>1, <2>2
    <3> DEFINE s == arch_shiftrotate(W, v, c, left, rotate)
    <3>4. s.value \in Byte /\ s.carry \in 0..1 /\ s.value + B * s.carry = 2 * v + in
      BY <1>1, <3>1, <3>2, <3>3
    <3> HIDE DEF s
    <3> QED BY <1>3, <3>4 DEF ShiftsExactly, s
  <2>4. CASE v >= Half
    <3>1. (v * 2) % B = v * 2 - B
      <4> DEFINE u == v * 2 - B
      <4>1. v * 2 = u + B * 1 /\ u \in 0..(B - 1) /\ B \in Nat \ {0} /\ 1 \in Nat
        BY <1>1, <2>4
      <4> HIDE DEF u
      <4>2. (u + B * 1) % B = u
        BY <4>1, Division
      <4> QED BY <4>1, <4>2 DEF u
    <3>3. v * 2 - B + in \in 0..(B - 1)
      BY <1>1, <2>2, <2>4
    <3>4. arch_shiftrotate(W, v, c, left, rotate) = [value |-> v * 2 - B + in, carry |-> 1]
      BY <1>1, <2>1, <2>4, <3>1 DEF Bit
    <3>5. v * 2 - B + in + B * 1 = 2 * v + in
      BY <1>1, <2>2
    <3> DEFINE s == arch_shiftrotate(W, v, c, left, rotate)
    <3>6. s.value \in Byte /\ s.carry \in 0..1 /\ s.value + B * s.carry = 2 * v + in
      BY <1>1, <3>3, <3>4, <3>5
    <3> HIDE DEF s
    <3> QED BY <1>3, <3>6 DEF ShiftsExactly, s
  <2> QED BY <1>1, <2>3, <2>4
<1>4. CASE ~left
  <2> DEFINE in == IF rotate THEN c * Half ELSE 0
  <2>1. arch_shiftrotate(W, v, c, left, rotate) = [value |-> (v \div 2) + in, carry |-> v % 2]
    BY <1>1, <1>2, <1>4 DEF arch_shiftrotate, LSHR
  <2>2. in \in {0, Half} /\ 2 * in = IF rotate THEN B * c ELSE 0
    <3>1. CASE c = 0
      BY <1>1, <3>1
    <3>2. CASE c = 1
      BY <1>1, <3>2
    <3> QED BY <3>1, <3>2
  <2>3. v \div 2 \in 0..(Half - 1) /\ v % 2 \in 0..1 /\ v = 2 * (v \div 2) + (v % 2)
    BY <1>1
  <2> HIDE DEF in
  <2> QED BY <1>1, <1>4, <2>1, <2>2, <2>3 DEF ShiftsExactly
<1> QED BY <1>3, <1>4

--------------------------------------------------------------------------------
(***************************************************************************)
(* What the instructions leave are bytes, flags and addresses.             *)
(***************************************************************************)
Names == {"A", "X", "Y", "S"}
Fits == R \in [Names -> Byte] /\ F \in Flags /\ RAM \in [Address -> Byte]

LEMMA FlagSet ==
  ASSUME NEW f \in Flags, NEW x, NEW b \in 0..1
  PROVE  [f EXCEPT ![x] = b] \in Flags
BY DEF Flags

LEMMA NZSet ==
  ASSUME NEW f \in Flags, NEW v
  PROVE  NZ(f, v) \in Flags
<1>1. Bit(Negative(W, v)) \in 0..1 /\ Bit(v = 0) \in 0..1
  BY DEF Bit
<1> QED BY <1>1, FlagSet DEF NZ

LEMMA FlagsSet ==
  ASSUME NEW f \in Flags, NEW v, NEW c \in 0..1
  PROVE  NZ([f EXCEPT !.C = c], v) \in Flags
<1>1. [f EXCEPT !.C = c] \in Flags
  BY FlagSet
<1> QED BY <1>1, NZSet

LEMMA LetTyped ==
  ASSUME Fits, NEW x \in Names, NEW v \in Byte, Let(x, v)
  PROVE  Fits'
BY NZSet DEF Let, Fits

LEMMA ValueTyped ==
  ASSUME Fits, NEW op \in 0..255, NEW lo \in Byte, NEW hi \in Byte,
         ~Beyond(op, lo, hi), Instr[op] \notin {"JSR", "JMP"}
  PROVE  /\ AddMode(op) \in InMemory => EA(AddMode(op), lo, hi) \in Address
         /\ Value(AddMode(op), lo, hi) \in Byte
<1>1. AddMode(op) \in InMemory => EA(AddMode(op), lo, hi) \in Address
  BY DEF Beyond
<1>2. 0 \in Byte
  BY Numbers, WidthsHold DEF Widths
<1>3. CASE AddMode(op) \in InMemory
  <2>1. RAM[EA(AddMode(op), lo, hi)] \in Byte
    BY <1>1, <1>3 DEF Fits
  <2> QED BY <1>1, <1>3, <2>1 DEF Value, InMemory
<1>4. CASE AddMode(op) \notin InMemory
  BY <1>1, <1>2, <1>4 DEF Value, Fits, Names
<1> QED BY <1>3, <1>4

LEMMA StoreTyped ==
  ASSUME Fits, NEW am, NEW lo, NEW hi, NEW v \in Byte, StoreTo(am, lo, hi, v)
  PROVE  R' \in [Names -> Byte] /\ RAM' \in [Address -> Byte]
BY DEF Fits, StoreTo, Names

LEMMA PushTyped ==
  ASSUME Fits, NEW v \in Byte, Pushed(v)
  PROVE  R' \in [Names -> Byte] /\ RAM' \in [Address -> Byte]
<1>1. R.S \in Byte
  BY DEF Fits, Names
<1> QED BY <1>1, TosTyped DEF Fits, Names, Pushed

LEMMA StackTyped ==
  ASSUME Fits, NEW instr, Stack(instr)
  PROVE  Fits'
<1>1. W \in Nat /\ InWidth(W, Layout) /\ R.S \in Byte /\ R.A \in Byte
  BY Mos6502Assumption DEF InWidth, Fits, Names
<1>2. CASE Pushed(R.A) /\ UNCHANGED F
  BY <1>1, <1>2, PushTyped DEF Fits
<1>3. CASE Pushed(arch_flags_encode(W, Layout, F)) /\ UNCHANGED F
  <2>1. arch_flags_encode(W, Layout, F) \in Byte
    BY <1>1, FlagsKept DEF Fits, Flags, Byte
  <2> QED BY <1>3, <2>1, PushTyped DEF Fits
<1>4. ASSUME NEW s \in Byte, R' = [R EXCEPT !.S = s, !.A = RAM[Tos(s)]],
             F' = NZ(F, R'.A), UNCHANGED RAM
      PROVE  Fits'
  <2>1. RAM[Tos(s)] \in Byte
    BY <1>4, TosTyped DEF Fits
  <2>2. R' \in [Names -> Byte]
    BY <1>4, <2>1 DEF Fits, Names
  <2>3. F' \in Flags
    BY <1>4, NZSet DEF Fits
  <2> QED BY <1>4, <2>2, <2>3 DEF Fits
<1>5. ASSUME NEW s \in Byte, R' = [R EXCEPT !.S = s],
             F' = arch_flags_decode(Layout, RAM[Tos(R'.S)]), UNCHANGED RAM
      PROVE  Fits'
  <2>1. R' \in [Names -> Byte] /\ R'.S = s
    BY <1>5 DEF Fits, Names
  <2>2. RAM[Tos(s)] \in Nat
    BY <1>5, TosTyped, Numbers DEF Fits
  <2>3. F' \in Flags
    BY <1>1, <1>5, <2>1, <2>2, FlagsDecoded DEF Flags
  <2> QED BY <1>5, <2>1, <2>3 DEF Fits
<1>6. ADD(W, R.S, 1) \in Byte
  BY <1>1, TosTyped
<1> QED BY <1>2, <1>3, <1>4, <1>5, <1>6 DEF Stack

\* The numbers of an instruction, and what it sees of the flags.
Operands(v) ==
    /\ v \in Byte /\ R.A \in Byte /\ R.X \in Byte /\ R.Y \in Byte /\ R.S \in Byte
    /\ F.C \in 0..1

LEMMA OperandsTyped == ASSUME Fits, NEW v \in Byte PROVE Operands(v)
<1>1. "C" \in DOMAIN Layout
  BY Mos6502Assumption
<1> QED BY <1>1 DEF Operands, Fits, Names, Flags

LEMMA ShiftTyped ==
  ASSUME Fits, NEW instr, NEW am, NEW lo, NEW hi, Value(am, lo, hi) \in Byte,
         ShiftRotate(instr, am, lo, hi)
  PROVE  Fits'
<1> DEFINE left == instr \in {"ASL", "ROL"}
           rotate == instr \in {"ROL", "ROR"}
           v == Value(am, lo, hi)
           s == arch_shiftrotate(W, v, F.C, left, rotate)
<1>1. F.C \in 0..1
  BY OperandsTyped DEF Operands
<1>2. ShiftsExactly(s, v, F.C, left, rotate)
  <2>1. ASSUME NEW l \in BOOLEAN, NEW t \in BOOLEAN
        PROVE  ShiftsExactly(arch_shiftrotate(W, v, F.C, l, t), v, F.C, l, t)
    BY <1>1, ShiftExact
  <2>2. left \in BOOLEAN /\ rotate \in BOOLEAN
    OBVIOUS
  <2> HIDE DEF left, rotate, v
  <2> QED BY <2>1, <2>2, Zenon
<1>3. StoreTo(am, lo, hi, s.value) /\ F' = NZ([F EXCEPT !.C = s.carry], s.value)
  BY DEF ShiftRotate
<1> HIDE DEF s, v, left, rotate
<1>4. s.value \in Byte /\ s.carry \in 0..1
  BY <1>2 DEF ShiftsExactly
<1>5. F' \in Flags
  BY <1>3, <1>4, FlagsSet DEF Fits
<1> QED BY <1>3, <1>4, <1>5, StoreTyped DEF Fits

LEMMA LogicKeeps ==
  ASSUME Fits, NEW instr, NEW v \in Byte, Logic(instr, v)
  PROVE  Fits'
<1>1. R.A \in Nat /\ v \in Nat /\ W \in Nat
  BY OperandsTyped, Numbers, Mos6502Assumption DEF Operands
<1>2. AND(W, R.A, v) \in Byte /\ OR(W, R.A, v) \in Byte /\ XOR(W, R.A, v) \in Byte
  BY <1>1, LogicTyped DEF Byte
<1>3. CASE F' = NZ(F, v) /\ UNCHANGED <<R, RAM>>
  BY <1>3, NZSet DEF Fits
<1> QED BY <1>2, <1>3, LetTyped DEF Logic, Names

\* The sum of an arithmetic instruction.
Sum(instr, v) ==
    arch_adc(W, CASE instr = "CPX" -> R.X [] instr = "CPY" -> R.Y [] OTHER -> R.A,
             IF instr = "ADC" THEN v ELSE COM(W, v), CarryIn(instr))

LEMMA Sums ==
  ASSUME Fits, NEW instr, NEW v \in Byte, Arithmetic(instr, v)
  PROVE  LET a == CASE instr = "CPX" -> R.X [] instr = "CPY" -> R.Y [] OTHER -> R.A
             b == IF instr = "ADC" THEN v ELSE B - 1 - v
         IN /\ AddsExactly(Sum(instr, v), a, b, CarryIn(instr))
            /\ a \in Byte /\ CarryIn(instr) \in 0..1
<1> DEFINE a == CASE instr = "CPX" -> R.X [] instr = "CPY" -> R.Y [] OTHER -> R.A
           b == IF instr = "ADC" THEN v ELSE B - 1 - v
<1>1. a \in Byte /\ CarryIn(instr) \in 0..1
  BY OperandsTyped DEF Operands, CarryIn
<1>2. COM(W, v) = B - 1 - v
  BY WidthsHold DEF Widths, COM
<1>3. b \in Byte
  BY Numbers, WidthsHold DEF Widths
<1>4. Sum(instr, v) = arch_adc(W, a, b, CarryIn(instr))
  BY <1>2 DEF Sum
<1> HIDE DEF a, b
<1>5. AddsExactly(Sum(instr, v), a, b, CarryIn(instr))
  BY <1>1, <1>3, <1>4, AdcExact
<1> QED BY <1>1, <1>5 DEF a, b

LEMMA ArithmeticTyped ==
  ASSUME Fits, NEW instr, NEW v \in Byte, Arithmetic(instr, v)
  PROVE  Fits'
<1> DEFINE s == Sum(instr, v)
<1>1. s.value \in Byte /\ s.carry \in 0..1
  BY Sums DEF AddsExactly
<1>2. /\ F' = NZ([F EXCEPT !.C = s.carry], s.value)
      /\ R' = IF instr \in {"ADC", "SBC"} THEN [R EXCEPT !.A = s.value] ELSE R
      /\ UNCHANGED RAM
  BY DEF Arithmetic, Sum
<1> HIDE DEF s
<1>3. F' \in Flags
  BY <1>1, <1>2, FlagsSet DEF Fits
<1> QED BY <1>1, <1>2, <1>3 DEF Fits, Names

LEMMA IncrementTyped ==
  ASSUME Fits, NEW instr, NEW am, NEW lo, NEW hi, Value(am, lo, hi) \in Byte,
         Increment(instr, am, lo, hi)
  PROVE  Fits'
<1>1. /\ ADD(W, R.X, 1) \in Byte /\ ADD(W, R.Y, 1) \in Byte
      /\ SUB(W, R.X, 1) \in Byte /\ SUB(W, R.Y, 1) \in Byte
  BY OperandsTyped, TosTyped DEF Operands
<1>2. ASSUME NEW v \in Byte, StoreTo(am, lo, hi, v), F' = NZ(F, v) PROVE Fits'
  BY <1>2, NZSet, StoreTyped DEF Fits
<1>3. (Value(am, lo, hi) + (IF instr = "INC" THEN 1 ELSE -1)) % B \in Byte
  <2>1. Value(am, lo, hi) + (IF instr = "INC" THEN 1 ELSE -1) \in Int
    BY Numbers
  <2> QED BY <2>1, Wraps
<1>4. CASE /\ instr \in {"INC", "DEC"}
           /\ LET v == (Value(am, lo, hi) + (IF instr = "INC" THEN 1 ELSE -1)) % B
              IN StoreTo(am, lo, hi, v) /\ F' = NZ(F, v)
  BY <1>2, <1>3, <1>4
<1> QED BY <1>1, <1>4, LetTyped DEF Increment, Names

LEMMA StraightTyped ==
  ASSUME Fits, NEW op \in 0..255, NEW lo \in Byte, NEW hi \in Byte,
         ~Beyond(op, lo, hi), Straight(op, lo, hi)
  PROVE  Fits'
<1> DEFINE instr == Instr[op]
           am == AddMode(op)
<1>1. instr \notin {"JSR", "JMP"}
  BY DEF Straight, Tag
<1>2. Value(am, lo, hi) \in Byte
  BY <1>1, ValueTyped
<1>3. Operands(0)
  <2>1. 0 \in Byte
    BY Numbers, WidthsHold DEF Widths
  <2> QED BY <2>1, OperandsTyped
<1> HIDE DEF instr, am
<1>4. CASE SetFlag(instr)
  <2>1. Bit(instr \in {"SEC", "SED", "SEI"}) \in 0..1
    BY DEF Bit
  <2> QED BY <1>4, <2>1, FlagSet DEF SetFlag, LetFlag, Fits
<1>5. CASE Transfer(instr)
  BY <1>3, <1>5, LetTyped DEF Transfer, Operands, Names
<1>6. CASE LoadStore(instr, am, lo, hi)
  <2>1. ASSUME NEW v \in Byte, StoreTo(am, lo, hi, v), UNCHANGED F PROVE Fits'
    BY <2>1, StoreTyped DEF Fits
  <2> QED BY <1>2, <1>3, <1>6, <2>1, LetTyped DEF LoadStore, Operands, Names
<1>7. CASE Stack(instr)
  BY <1>7, StackTyped
<1>8. CASE ShiftRotate(instr, am, lo, hi)
  BY <1>2, <1>8, ShiftTyped
<1>9. CASE Logic(instr, Value(am, lo, hi))
  BY <1>2, <1>9, LogicKeeps
<1>10. CASE Arithmetic(instr, Value(am, lo, hi))
  BY <1>2, <1>10, ArithmeticTyped
<1>11. CASE Increment(instr, am, lo, hi)
  BY <1>2, <1>11, IncrementTyped
<1>12. CASE UNCHANGED <<R, F, RAM>>
  BY <1>12 DEF Fits
<1> QED BY <1>4, <1>5, <1>6, <1>7, <1>8, <1>9, <1>10, <1>11, <1>12 DEF Straight, instr, am

--------------------------------------------------------------------------------
(***************************************************************************)
(* One instruction: what it leaves is typed, and the stack bytes of calls  *)
(* that it does not write hold the return addresses.                       *)
(***************************************************************************)
\* The two bytes of a call on the stack are its return address less one.
Saved(ram, c) == B * ram[Tos(c.s)] + ram[Tos(SUB(W, c.s, 1))] = SUB(2 * W, c.ret, 1)

Inv6502 ==
    /\ TypeOK
    /\ \A c \in calls : c.s \in Byte /\ c.ret \in Address /\ Saved(RAM, c)

LEMMA TypeOKParts == TypeOK <=> Fits /\ PC \in Address /\ ctl \in {"run", "trap", "fault"}
BY DEF TypeOK, Fits, Names

LEMMA JumpTyped ==
  ASSUME Fits, PC \in Address, NEW op \in 0..255, NEW lo \in Byte, NEW hi \in Byte,
         ~Beyond(op, lo, hi), Jump(op, lo, hi)
  PROVE  PC' \in Address
<1>1. Operand16(lo, hi) \in Address
  BY Joins DEF Operand16
<1>2. CASE AddMode(op) = "IND"
  <2> DEFINE a == Operand16(lo, hi)
  <2>1. a + 1 \in Address
    BY <1>2 DEF Beyond
  <2>2. RAM[a] \in Byte /\ RAM[a + 1] \in Byte
    BY <1>1, <2>1 DEF Fits
  <2>3. LOAD_RAM16(a) \in Address
    BY <2>2, Joins DEF LOAD_RAM16
  <2> QED BY <1>2, <2>3 DEF Jump
<1>3. CASE AddMode(op) # "IND"
  <2>1. Instr[op] \notin Branches
    BY DEF Jump, Branches
  <2> QED BY <1>1, <1>3, <2>1 DEF Jump, new_pc
<1> QED BY <1>2, <1>3

LEMMA NextTyped ==
  ASSUME PC \in Address, NEW op, Next_pc(op)
  PROVE  PC' \in Address
<1>1. PC + get_length(AddMode(op)) \in Int
  BY ModeTyped, Numbers
<1> QED BY <1>1, Wraps DEF Next_pc, TRUNC

LEMMA BranchTyped ==
  ASSUME PC \in Address, NEW op, NEW lo \in Byte, NEW hi \in Byte, Branch(op, lo, hi)
  PROVE  PC' \in Address
<1>1. Signed(W, lo) \in Int
  BY Numbers, WidthsHold DEF Widths, Signed
<1>2. new_pc(op, PC, lo, hi) \in Int
  BY <1>1, Numbers DEF Branch, new_pc
<1>3. TRUNC(2 * W, new_pc(op, PC, lo, hi)) \in Address
  BY <1>2, Wraps DEF TRUNC
<1> QED BY <1>3, NextTyped DEF Branch

\* JSR leaves the two bytes of its return address on the stack.
LEMMA CallSaves ==
  ASSUME Fits, PC \in Address, NEW op \in 0..255, NEW lo \in Byte, NEW hi \in Byte,
         Call(op, lo, hi)
  PROVE  /\ Fits' /\ PC' \in Address
         /\ R.S \in Byte /\ TRUNC(2 * W, PC + 3) \in Address
         /\ Saved(RAM', [ret |-> TRUNC(2 * W, PC + 3), s |-> R.S])
<1> DEFINE v == TRUNC(2 * W, PC + 2)
           ret == TRUNC(2 * W, PC + 3)
           b == B
           top == Tos(R.S)
           below == Tos(SUB(W, R.S, 1))
<1>1. R.S \in Byte /\ SUB(W, R.S, 2) \in Byte /\ top \in Address /\ below \in Address
  BY TosTyped DEF Fits, Names
<1>2. /\ b \in Nat /\ b >= 4 /\ b * b \in Nat /\ 2^(2 * W) = b * b /\ 2^W = b
      /\ Byte = 0..(b - 1) /\ Address = 0..(b * b - 1)
  BY WidthsHold, Numbers DEF Widths
<1>3. top # below
  <2>1. R.S - 1 = -1 \/ R.S - 1 \in 0..(b - 1)
    BY <1>1, <1>2
  <2>2. (R.S - 1) % b # R.S
    <3>1. CASE R.S = 0
      <4>1. (-1) % b = b - 1
        BY <1>2
      <4> QED BY <1>2, <3>1, <4>1
    <3>2. CASE R.S # 0
      <4>1. R.S - 1 \in 0..(b - 1) /\ b \in Nat \ {0}
        BY <1>1, <1>2, <3>2
      <4> HIDE DEF b
      <4>2. (R.S - 1) % b = R.S - 1
        BY <4>1, Below
      <4> QED BY <1>1, <1>2, <4>2
    <3> QED BY <3>1, <3>2
  <2>3. SUB(W, R.S, 1) = (R.S - 1) % b
    BY <1>2 DEF SUB
  <2>4. SUB(W, R.S, 1) \in Byte
    BY <1>1, TosTyped
  <2> QED BY <1>1, <1>2, <2>2, <2>3, <2>4 DEF Tos
<1>4. v \in Address /\ ret \in Address
  <2>1. PC + 2 \in Int /\ PC + 3 \in Int
    BY Numbers
  <2> QED BY <2>1, Wraps DEF TRUNC
<1>5. v \div b \in Byte /\ v % b \in Byte /\ b * (v \div b) + (v % b) = v
  <2>1. v \in 0..(b * b - 1)
    BY <1>2, <1>4
  <2> HIDE DEF v, b
  <2>2. v \div b \in Nat /\ v % b \in 0..(b - 1) /\ v = b * (v \div b) + (v % b)
    BY <1>2, <2>1
  <2>3. v \div b < b
    <3>1. SUFFICES ASSUME v \div b >= b PROVE FALSE
      BY <1>2, <2>2
    <3>2. b * (v \div b) >= b * b
      BY <1>2, <2>2, <3>1, Times
    <3> QED BY <1>2, <2>1, <2>2, <3>2
  <2> QED BY <1>2, <2>2, <2>3
<1>6. RAM' = [RAM EXCEPT ![top] = v \div b, ![below] = v % b]
  BY DEF Call, Push16
<1>7. R' = [R EXCEPT !.S = SUB(W, R.S, 2)] /\ UNCHANGED F
  BY DEF Call, Push16
<1>8. PC' = Operand16(lo, hi)
  <2>1. Instr[op] \notin Branches /\ AddMode(op) = "ABS"
    BY CallMode DEF Call, Branches
  <2> QED BY <2>1 DEF Call, new_pc
<1>9. v = SUB(2 * W, ret, 1)
  <2> DEFINE n == b * b
             p == PC
  <2>1. n \in Nat /\ n >= 16 /\ p \in 0..(n - 1)
    BY <1>2
  <2>2. v = (p + 2) % n /\ ret = (p + 3) % n /\ SUB(2 * W, ret, 1) = (ret - 1) % n
    BY <1>2 DEF TRUNC, SUB
  <2> HIDE DEF n, p, v, ret
  <2>3. CASE p + 3 < n
    BY <2>1, <2>2, <2>3
  <2>4. CASE p + 3 = n
    <3>1. ret = 0 /\ v = n - 1 /\ (-1) % n = n - 1
      BY <2>1, <2>2, <2>4
    <3> QED BY <2>2, <3>1
  <2>5. CASE p + 3 > n
    <3>1. p + 3 \in n..(2 * n - 1) /\ p + 2 \in n..(2 * n - 1)
      BY <2>1, <2>5
    <3>2. ret = p + 3 - n /\ v = p + 2 - n
      BY <2>1, <2>2, <3>1, Past
    <3>3. (p + 2 - n) % n = p + 2 - n
      BY <2>1, <2>5
    <3> QED BY <2>1, <2>2, <3>2, <3>3
  <2> QED BY <2>1, <2>3, <2>4, <2>5
<1>10. RAM'[top] = v \div b /\ RAM'[below] = v % b
  BY <1>1, <1>3, <1>6 DEF Fits
<1>11. Fits'
  BY <1>1, <1>5, <1>6, <1>7 DEF Fits, Names
<1>12. PC' \in Address
  BY <1>8, Joins DEF Operand16
<1> HIDE DEF v
<1> QED BY <1>1, <1>4, <1>5, <1>9, <1>10, <1>11, <1>12 DEF Saved

\* RTS comes back to the call whose bytes it pulls.
LEMMA ReturnComesBack ==
  ASSUME Fits, NEW op, Return(op),
         NEW c, c.s \in Byte, c.ret \in Address, Saved(RAM, c), c.s = R'.S
  PROVE  PC' = c.ret
<1> DEFINE b == B
           s == R.S
<1>1. s \in Byte
  BY DEF Fits, Names
<1>2. /\ b \in Nat /\ b >= 4 /\ b * b \in Nat /\ b * b >= 16 /\ 2^(2 * W) = b * b /\ 2^W = b
      /\ Byte = 0..(b - 1) /\ Address = 0..(b * b - 1)
  BY WidthsHold, Numbers DEF Widths
<1>3. c.s = ADD(W, s, 2)
  BY DEF Return, Fits, Names
<1>4. ADD(W, s, 1) = SUB(W, c.s, 1)
  <2>1. /\ ADD(W, s, 1) = (s + 1) % b /\ c.s = (s + 2) % b /\ SUB(W, c.s, 1) = (c.s - 1) % b
        /\ s \in 0..(b - 1) /\ b \in Nat /\ b >= 4
    BY <1>1, <1>2, <1>3 DEF ADD, SUB
  <2> HIDE DEF b, s
  <2> DEFINE t == c.s
  <2> HIDE DEF t
  <2>2. t = (s + 2) % b /\ SUB(W, c.s, 1) = (t - 1) % b
    BY <2>1 DEF t
  <2>3. CASE s + 2 < b
    <3>1. t = s + 2 /\ (s + 1) % b = s + 1 /\ (t - 1) % b = s + 1
      BY <2>1, <2>2, <2>3, Below
    <3> QED BY <2>1, <2>2, <3>1
  <2>4. CASE s + 2 = b
    <3>1. t = 0 /\ (s + 1) % b = b - 1 /\ (-1) % b = b - 1
      BY <2>1, <2>2, <2>4, Below
    <3> QED BY <2>1, <2>2, <3>1
  <2>5. CASE s + 2 > b
    <3>1. s + 1 = b /\ t = 1 /\ (s + 1) % b = 0 /\ (t - 1) % b = 0
      BY <2>1, <2>2, <2>5, Past
    <3> QED BY <2>1, <2>2, <3>1
  <2> QED BY <2>1, <2>3, <2>4, <2>5
<1>5. Pull16 = SUB(2 * W, c.ret, 1)
  <2>1. Pull16 = RAM[Tos(SUB(W, c.s, 1))] + b * RAM[Tos(c.s)]
    BY <1>3, <1>4 DEF Pull16
  <2>2. RAM[Tos(SUB(W, c.s, 1))] \in Nat /\ RAM[Tos(c.s)] \in Nat
    <3>1. SUB(W, c.s, 1) \in Byte
      BY TosTyped
    <3>2. Tos(SUB(W, c.s, 1)) \in Address /\ Tos(c.s) \in Address
      BY <3>1, TosTyped
    <3> QED BY <3>2, Numbers DEF Fits
  <2> QED BY <1>2, <2>1, <2>2 DEF Saved
<1>6. PC' = (Pull16 + 1) % (b * b)
  BY <1>2 DEF Return, ADD
<1>7. (((c.ret - 1) % (b * b)) + 1) % (b * b) = c.ret
  <2> DEFINE n == b * b
             x == c.ret
  <2>1. n \in Nat /\ n >= 16 /\ x \in 0..(n - 1)
    BY <1>2
  <2> HIDE DEF n, x
  <2>2. CASE x = 0
    <3>1. (-1) % n = n - 1 /\ n % n = 0
      BY <2>1, Past
    <3> QED BY <2>1, <2>2, <3>1 DEF n, x
  <2>3. CASE x > 0
    <3>1. (x - 1) % n = x - 1 /\ x % n = x
      BY <2>1, <2>3, Below
    <3>2. (((x - 1) % n) + 1) % n = x
      BY <2>1, <3>1
    <3> QED BY <3>2 DEF n, x
  <2> QED BY <2>1, <2>2, <2>3
<1> QED BY <1>2, <1>5, <1>6, <1>7 DEF SUB

LEMMA Kinds ==
  ASSUME NEW op \in 0..255, NEW lo \in Byte, NEW hi \in Byte, Fits, PC \in Address,
         ~Beyond(op, lo, hi),
         \/ Trap(op)
         \/ (Straight(op, lo, hi) \/ Jump(op, lo, hi) \/ Branch(op, lo, hi)
               \/ Call(op, lo, hi) \/ Return(op)) /\ UNCHANGED ctl
  PROVE  Fits' /\ PC' \in Address
<1>1. CASE Trap(op)
  BY <1>1 DEF Trap, Fits
<1>2. CASE Straight(op, lo, hi)
  BY <1>2, StraightTyped, NextTyped DEF Straight
<1>3. CASE Jump(op, lo, hi)
  BY <1>3, JumpTyped DEF Jump, Fits
<1>4. CASE Branch(op, lo, hi)
  BY <1>4, BranchTyped DEF Branch, Fits
<1>5. CASE Call(op, lo, hi)
  BY <1>5, CallSaves
<1>6. CASE Return(op)
  <2>1. R.S \in Byte
    BY DEF Fits, Names
  <2>2. ADD(W, R.S, 1) \in Byte /\ ADD(W, R.S, 2) \in Byte
    BY <2>1, TosTyped
  <2>3. Pull16 \in Address
    <3>1. RAM[Tos(ADD(W, R.S, 1))] \in Byte /\ RAM[Tos(ADD(W, R.S, 2))] \in Byte
      BY <2>2, TosTyped DEF Fits
    <3> QED BY <3>1, Joins DEF Pull16
  <2>4. Pull16 + 1 \in Int
    BY <2>3, Numbers
  <2>5. PC' \in Address
    BY <1>6, <2>4, Wraps DEF Return, ADD
  <2> QED BY <1>6, <2>2, <2>5 DEF Return, Fits, Names
<1> QED BY <1>1, <1>2, <1>3, <1>4, <1>5, <1>6

\* The bytes of the calls that are kept are as they were, and a call adds its own.
LEMMA CallsKept ==
  ASSUME Inv6502, NEW op \in 0..255, NEW lo \in Byte, NEW hi \in Byte,
         Execute(op, lo, hi)
  PROVE  Inv6502'
<1>1. Fits /\ PC \in Address /\ ctl \in {"run", "trap", "fault"}
  BY TypeOKParts DEF Inv6502
<1>2. Fits' /\ PC' \in Address
  BY <1>1, Kinds DEF Execute
<1>3. ctl' \in {"run", "trap", "fault"}
  BY <1>1 DEF Execute, Trap
<1>4. TypeOK'
  BY <1>2, <1>3 DEF TypeOK, Fits, Names
<1>5. ASSUME NEW c \in calls' PROVE c.s \in Byte /\ c.ret \in Address /\ Saved(RAM, c)'
  <2>1. CASE c \in calls /\ \A a \in Slots(c) : RAM'[a] = RAM[a]
    <3>1. RAM'[Tos(c.s)] = RAM[Tos(c.s)]
            /\ RAM'[Tos(SUB(W, c.s, 1))] = RAM[Tos(SUB(W, c.s, 1))]
      BY <2>1 DEF Slots
    <3> QED BY <2>1, <3>1 DEF Inv6502, Saved
  <2>2. CASE Instr[op] = "JSR" /\ c = [ret |-> TRUNC(2 * W, PC + 3), s |-> R.S]
    <3>1. Call(op, lo, hi)
      BY <2>2 DEF Execute, Trap, Straight, Tag, Jump, Branch, Branches, Return
    <3> QED BY <1>1, <2>2, <3>1, CallSaves DEF Saved
  <2> QED BY <2>1, <2>2 DEF Execute, Calls
<1> QED BY <1>4, <1>5 DEF Inv6502

--------------------------------------------------------------------------------
(***************************************************************************)
(* What an instruction of arithmetic leaves is exact.                      *)
(***************************************************************************)
\* Only the actions of its own execute an instruction.
LEMMA Executes ==
  ASSUME NEW op \in 0..255, NEW lo, NEW hi, Execute(op, lo, hi), steps \in Nat
  PROVE  /\ did'.op = op /\ did'.am = AddMode(op) /\ did'.lo = lo /\ did'.hi = hi
         /\ did'.value = Value(AddMode(op), lo, hi)
         /\ Instr[op] = "RTS" => Return(op)
         /\ Instr[op] \in {"ADC", "SBC", "CMP", "CPX", "CPY"} =>
              Arithmetic(Instr[op], Value(AddMode(op), lo, hi))
         /\ Instr[op] \in Shifts => ShiftRotate(Instr[op], AddMode(op), lo, hi)
<1>1. /\ did'.op = op /\ did'.am = AddMode(op) /\ did'.lo = lo /\ did'.hi = hi
      /\ did'.value = Value(AddMode(op), lo, hi)
  BY DEF Execute
<1>2. ASSUME Instr[op] = "RTS" PROVE Return(op)
  BY <1>2 DEF Execute, Trap, Straight, Tag, Jump, Branch, Branches, Call
<1>3. ASSUME Instr[op] \in {"ADC", "SBC", "CMP", "CPX", "CPY"} \cup Shifts
      PROVE  Straight(op, lo, hi)
  BY <1>3 DEF Execute, Trap, Jump, Branch, Branches, Call, Return, Shifts
<1>4. ASSUME Instr[op] \in {"ADC", "SBC", "CMP", "CPX", "CPY"}
      PROVE  Arithmetic(Instr[op], Value(AddMode(op), lo, hi))
  <2>1. Straight(op, lo, hi)
    BY <1>3, <1>4
  <2> QED BY <1>4, <2>1 DEF Straight, SetFlag, SetFlags, Transfer, LoadStore, Stack, ShiftRotate,
                            Shifts, Logic, Increment
<1>5. ASSUME Instr[op] \in Shifts PROVE ShiftRotate(Instr[op], AddMode(op), lo, hi)
  <2>1. Straight(op, lo, hi)
    BY <1>3, <1>5
  <2> QED BY <1>5, <2>1 DEF Straight, SetFlag, SetFlags, Transfer, LoadStore, Stack, Shifts,
                            Logic, Arithmetic, Increment
<1> QED BY <1>1, <1>2, <1>4, <1>5

\* The flag of the sum or shift, and whether it is zero.
LEMMA FlagsLeft ==
  ASSUME Fits, NEW v, NEW c \in 0..1, F' = NZ([F EXCEPT !.C = c], v)
  PROVE  F'.C = c /\ F'.Z = Bit(v = 0)
<1>1. "C" \in DOMAIN Layout /\ "Z" \in DOMAIN Layout
  BY Mos6502Assumption
<1> QED BY <1>1 DEF Fits, Flags, NZ

LEMMA SumsExact ==
  ASSUME Fits, NEW instr \in {"ADC", "SBC", "CMP", "CPX", "CPY"}, NEW v \in Byte,
         Arithmetic(instr, v)
  PROVE  LET a == CASE instr = "CPX" -> R.X [] instr = "CPY" -> R.Y [] OTHER -> R.A
         IN /\ instr = "ADC" => R'.A + B * F'.C = R.A + v + F.C
            /\ instr = "SBC" => R'.A - B * (1 - F'.C) = R.A - v - (1 - F.C)
            /\ instr \in {"CMP", "CPX", "CPY"} =>
                 F'.C = Bit(a >= v) /\ F'.Z = Bit(a = v) /\ R' = R
<1> DEFINE a == CASE instr = "CPX" -> R.X [] instr = "CPY" -> R.Y [] OTHER -> R.A
           b == IF instr = "ADC" THEN v ELSE B - 1 - v
           s == Sum(instr, v)
           m == B
<1>1. AddsExactly(s, a, b, CarryIn(instr)) /\ a \in Byte /\ CarryIn(instr) \in 0..1
  BY Sums
<1>2. /\ F' = NZ([F EXCEPT !.C = s.carry], s.value)
      /\ R' = IF instr \in {"ADC", "SBC"} THEN [R EXCEPT !.A = s.value] ELSE R
  BY DEF Arithmetic, Sum
<1>3. m \in Nat /\ m >= 4 /\ v \in 0..(m - 1) /\ Byte = 0..(m - 1)
  BY WidthsHold, Numbers DEF Widths
<1> HIDE DEF s
<1>4. s.value \in Byte /\ s.carry \in 0..1 /\ s.value + m * s.carry = a + b + CarryIn(instr)
  BY <1>1 DEF AddsExactly
<1>5. F'.C = s.carry /\ F'.Z = Bit(s.value = 0)
  BY <1>2, <1>4, FlagsLeft
<1>6. CASE instr = "ADC"
  <2>1. a = R.A /\ b = v /\ CarryIn(instr) = F.C
    BY <1>6 DEF CarryIn
  <2>2. R'.A = s.value
    BY <1>2, <1>6 DEF Fits, Names
  <2> QED BY <1>4, <1>5, <1>6, <2>1, <2>2
<1>7. CASE instr = "SBC"
  <2>1. a = R.A /\ b = m - 1 - v /\ CarryIn(instr) = F.C
    BY <1>7 DEF CarryIn
  <2>2. R'.A = s.value
    BY <1>2, <1>7 DEF Fits, Names
  <2>3. R.A \in Int /\ F.C \in Int
    BY <1>3, OperandsTyped DEF Operands
  <2>4. R'.A - m * (1 - F'.C) = R.A - v - (1 - F.C)
    <3>1. m * (1 - F'.C) = m - m * F'.C
      <4>1. CASE F'.C = 0
        BY <1>3, <4>1
      <4>2. CASE F'.C = 1
        BY <1>3, <4>2
      <4> QED BY <1>4, <1>5, <4>1, <4>2
    <3>2. s.value + m * F'.C = R.A + (m - 1 - v) + F.C
      BY <1>4, <1>5, <2>1
    <3>3. m * F'.C \in Int /\ s.value \in Int
      BY <1>3, <1>4, <1>5
    <3> DEFINE x == m * F'.C
               y == m * (1 - F'.C)
    <3>4. y = m - x /\ s.value + x = R.A + (m - 1 - v) + F.C /\ x \in Int /\ v \in Int /\ m \in Int
      BY <1>3, <3>1, <3>2, <3>3
    <3> HIDE DEF m, x, y
    <3>5. R'.A - y = R.A - v - (1 - F.C)
      BY <2>2, <2>3, <3>3, <3>4
    <3> QED BY <3>5 DEF y
  <2> QED BY <1>7, <2>4
<1>8. CASE instr \in {"CMP", "CPX", "CPY"}
  <2>1. b = m - 1 - v /\ CarryIn(instr) = 1 /\ R' = R
    BY <1>2, <1>8 DEF CarryIn
  <2> HIDE DEF a
  <2>2. s.value + m * s.carry = a - v + m
    BY <1>1, <1>3, <1>4, <2>1
  <2>3. CASE s.carry = 0
    <3>1. s.value = a - v + m /\ a < v
      BY <1>1, <1>3, <1>4, <2>2, <2>3
    <3>2. s.value # 0 /\ ~(a >= v) /\ a # v
      BY <1>1, <1>3, <3>1
    <3> QED BY <1>5, <1>8, <2>1, <2>3, <3>2 DEF Bit, a
  <2>4. CASE s.carry = 1
    <3>1. s.value = a - v /\ a >= v
      BY <1>1, <1>3, <1>4, <2>2, <2>4
    <3>2. s.value = 0 <=> a = v
      BY <1>1, <1>3, <3>1
    <3> QED BY <1>5, <1>8, <2>1, <2>4, <3>1, <3>2 DEF Bit, a
  <2> QED BY <1>4, <2>3, <2>4
<1> QED BY <1>6, <1>7, <1>8

LEMMA ShiftsRight ==
  ASSUME Fits, NEW op \in 0..255, NEW lo \in Byte, NEW hi \in Byte,
         ~Beyond(op, lo, hi), Instr[op] \in Shifts,
         ShiftRotate(Instr[op], AddMode(op), lo, hi)
  PROVE  LET instr == Instr[op]
             am == AddMode(op)
             v == Value(am, lo, hi)
             shifted == IF am = "ACC" THEN R'.A ELSE RAM'[EA(am, lo, hi)]
         IN /\ instr \in {"ASL", "ROL"} =>
                 shifted + B * F'.C = 2 * v + (IF instr = "ROL" THEN F.C ELSE 0)
            /\ instr \in {"LSR", "ROR"} =>
                 2 * shifted + F'.C = v + (IF instr = "ROR" THEN B * F.C ELSE 0)
<1> DEFINE instr == Instr[op]
           am == AddMode(op)
           v == Value(am, lo, hi)
           shifted == IF am = "ACC" THEN R'.A ELSE RAM'[EA(am, lo, hi)]
           left == instr \in {"ASL", "ROL"}
           rotate == instr \in {"ROL", "ROR"}
           s == arch_shiftrotate(W, v, F.C, left, rotate)
<1>1. v \in Byte /\ (am \in InMemory => EA(am, lo, hi) \in Address)
  BY ValueTyped DEF Shifts
<1>2. F.C \in 0..1
  BY <1>1, OperandsTyped DEF Operands
<1>3. ShiftsExactly(s, v, F.C, left, rotate)
  <2>1. ASSUME NEW l \in BOOLEAN, NEW t \in BOOLEAN
        PROVE  ShiftsExactly(arch_shiftrotate(W, v, F.C, l, t), v, F.C, l, t)
    BY <1>1, <1>2, ShiftExact
  <2>2. left \in BOOLEAN /\ rotate \in BOOLEAN
    OBVIOUS
  <2> HIDE DEF left, rotate, v
  <2> QED BY <2>1, <2>2, Zenon
<1>4. StoreTo(am, lo, hi, s.value) /\ F' = NZ([F EXCEPT !.C = s.carry], s.value)
  BY DEF ShiftRotate
<1>5. am \in {"ACC"} \cup InMemory
  BY ShiftMode
<1>6. instr \in Shifts
  OBVIOUS
<1> HIDE DEF s, v, am, instr
<1>7. s.value \in Byte /\ s.carry \in 0..1
  BY <1>3 DEF ShiftsExactly
<1>8. F'.C = s.carry
  BY <1>4, <1>7, FlagsLeft
<1>9. shifted = s.value
  BY <1>1, <1>4, <1>5 DEF StoreTo, Fits, Names
<1>10. CASE instr \in {"ASL", "ROL"}
  <2>1. left /\ (rotate <=> instr = "ROL") /\ instr \notin {"LSR", "ROR"}
    BY <1>10
  <2> HIDE DEF left, rotate, shifted
  <2>2. shifted + B * F'.C = 2 * v + (IF instr = "ROL" THEN F.C ELSE 0)
    BY <1>3, <1>8, <1>9, <2>1 DEF ShiftsExactly
  <2> QED BY <2>1, <2>2 DEF v, am, instr, shifted
<1>11. CASE instr \in {"LSR", "ROR"}
  <2>1. ~left /\ (rotate <=> instr = "ROR") /\ instr \notin {"ASL", "ROL"}
    BY <1>11
  <2> HIDE DEF left, rotate, shifted
  <2>2. 2 * shifted + F'.C = v + (IF instr = "ROR" THEN B * F.C ELSE 0)
    BY <1>3, <1>8, <1>9, <2>1 DEF ShiftsExactly
  <2> QED BY <2>1, <2>2 DEF v, am, instr, shifted
<1> QED BY <1>6, <1>10, <1>11 DEF Shifts

LEMMA ExecutesExactly ==
  ASSUME Fits, NEW op \in 0..255, NEW lo \in Byte, NEW hi \in Byte,
         Execute(op, lo, hi), steps \in Nat
  PROVE  ArithmeticExact
<1> DEFINE instr == Instr[op]
           am == AddMode(op)
           v == Value(am, lo, hi)
<1>1. /\ did'.op = op /\ did'.am = am /\ did'.lo = lo /\ did'.hi = hi /\ did'.value = v
  BY Executes
<1>2. ~Beyond(op, lo, hi)
  BY DEF Execute
<1>3. ASSUME instr \in {"ADC", "SBC", "CMP", "CPX", "CPY"}
      PROVE  Arithmetic(instr, v) /\ v \in Byte
  BY <1>2, <1>3, Executes, ValueTyped
<1>4. ASSUME instr \in Shifts PROVE ShiftRotate(instr, am, lo, hi)
  BY <1>4, Executes
<1>5. CASE instr \in {"ADC", "SBC", "CMP", "CPX", "CPY"}
  <2> HIDE DEF instr, am, v
  <2> DEFINE a == CASE instr = "CPX" -> R.X [] instr = "CPY" -> R.Y [] OTHER -> R.A
  <2>1. /\ instr = "ADC" => R'.A + B * F'.C = R.A + v + F.C
        /\ instr = "SBC" => R'.A - B * (1 - F'.C) = R.A - v - (1 - F.C)
        /\ instr \in {"CMP", "CPX", "CPY"} =>
             F'.C = Bit(a >= v) /\ F'.Z = Bit(a = v) /\ R' = R
    BY <1>3, <1>5, SumsExact
  <2>2. Instr[did'.op] = instr /\ did'.value = v
    BY <1>1 DEF instr, v
  <2> HIDE DEF a
  <2> QED BY <1>5, <2>1, <2>2 DEF ArithmeticExact, a
<1>6. CASE instr \in Shifts
  <2> DEFINE shifted == IF am = "ACC" THEN R'.A ELSE RAM'[EA(am, lo, hi)]
  <2>1. /\ instr \in {"ASL", "ROL"} =>
             shifted + B * F'.C = 2 * v + (IF instr = "ROL" THEN F.C ELSE 0)
        /\ instr \in {"LSR", "ROR"} =>
             2 * shifted + F'.C = v + (IF instr = "ROR" THEN B * F.C ELSE 0)
    BY <1>2, <1>4, <1>6, ShiftsRight
  <2> HIDE DEF instr, am, v
  <2>2. /\ Instr[did'.op] = instr /\ did'.value = v /\ did'.am = am
        /\ did'.lo = lo /\ did'.hi = hi
    BY <1>1 DEF instr
  <2> QED BY <1>6, <2>1, <2>2 DEF ArithmeticExact, Shifts
<1>7. CASE instr \notin {"ADC", "SBC", "CMP", "CPX", "CPY"} \cup Shifts
  BY <1>1, <1>7 DEF ArithmeticExact, Shifts
<1> QED BY <1>5, <1>6, <1>7

--------------------------------------------------------------------------------
(***************************************************************************)
(* The 6502 by itself, and as one of the guests.                           *)
(***************************************************************************)
LEMMA OperandsAreBytes ==
  ASSUME NEW op, NEW lo \in IF get_length(AddMode(op)) > 1 THEN OperandBytes ELSE {0},
         NEW hi \in IF get_length(AddMode(op)) > 2 THEN OperandBytes ELSE {0}
  PROVE  lo \in Byte /\ hi \in Byte
<1>1. 0 \in Byte /\ OperandBytes \subseteq Byte
  BY WidthsHold, Numbers, Mos6502Assumption DEF Widths, Byte
<1> QED BY <1>1

Counted == Inv6502 /\ steps \in Nat

LEMMA StepKeeps == ASSUME Counted, NEW op \in 0..255, Step(op) PROVE Counted'
<1>1. PICK lo \in IF get_length(AddMode(op)) > 1 THEN OperandBytes ELSE {0},
           hi \in IF get_length(AddMode(op)) > 2 THEN OperandBytes ELSE {0} :
             Execute(op, lo, hi) \/ Fault(op, lo, hi)
  BY DEF Step
<1>2. lo \in Byte /\ hi \in Byte
  BY OperandsAreBytes
<1>3. CASE Execute(op, lo, hi)
  <2>1. Inv6502'
    BY <1>2, <1>3, CallsKept DEF Counted
  <2>2. steps' \in Nat
    BY <1>3 DEF Counted, Execute
  <2> QED BY <2>1, <2>2 DEF Counted
<1>4. CASE Fault(op, lo, hi)
  BY <1>4 DEF Fault, Counted, Inv6502, TypeOK, Saved
<1> QED BY <1>1, <1>3, <1>4

LEMMA StepExact ==
  ASSUME Counted, NEW op \in 0..255, Step(op)
  PROVE  ArithmeticExact /\ ReturnsAfterCall
<1>1. PICK lo \in IF get_length(AddMode(op)) > 1 THEN OperandBytes ELSE {0},
           hi \in IF get_length(AddMode(op)) > 2 THEN OperandBytes ELSE {0} :
             Execute(op, lo, hi) \/ Fault(op, lo, hi)
  BY DEF Step
<1>2. lo \in Byte /\ hi \in Byte /\ Fits /\ steps \in Nat
  BY OperandsAreBytes, TypeOKParts DEF Counted, Inv6502
<1>3. CASE Execute(op, lo, hi)
  <2>1. ArithmeticExact
    BY <1>2, <1>3, ExecutesExactly
  <2>2. ASSUME Instr[did'.op] = "RTS" PROVE \A c \in calls : c.s = R'.S => PC' = c.ret
    <3>1. Return(op)
      BY <1>2, <1>3, <2>2, Executes
    <3> QED BY <1>2, <3>1, ReturnComesBack DEF Counted, Inv6502
  <2> QED BY <2>1, <2>2 DEF ReturnsAfterCall
<1>4. CASE Fault(op, lo, hi)
  <2>1. ~Executed
    BY <1>2, <1>4 DEF Fault, Executed
  <2> QED BY <2>1 DEF ArithmeticExact, ReturnsAfterCall
<1> QED BY <1>1, <1>3, <1>4

LEMMA IdleKeeps == Counted /\ UNCHANGED vars => Counted'
BY DEF Counted, Inv6502, TypeOK, Saved, vars

LEMMA IdleExact == steps \in Nat /\ UNCHANGED vars => ArithmeticExact /\ ReturnsAfterCall
BY DEF vars, ArithmeticExact, ReturnsAfterCall, Executed

LEMMA Starts == ASSUME Init PROVE Counted
<1>1. 2 * B \in Address
  BY WidthsHold, Numbers DEF Widths
<1> QED BY <1>1, Mos6502Assumption DEF Init, Counted, Inv6502, TypeOK, Byte, Address

\* Registers stay bytes, flags bits and the program counter an address, whatever the
\* guest code is (6502_translate.cpp).
THEOREM TypesOf6502 == Spec => []TypeOK
<1>1. Init => Counted
  BY Starts
<1>2. Counted /\ [Next]_vars => Counted'
  <2>1. ASSUME Counted, Next PROVE Counted'
    BY <2>1, StepKeeps, Mos6502Assumption DEF Next
  <2> QED BY <2>1, IdleKeeps
<1>3. Counted => TypeOK
  BY DEF Counted, Inv6502
<1> QED BY <1>1, <1>2, <1>3, PTL DEF Spec

Of6502 == {"6502", "6502 stack"}
GuestInv == guest \in Of6502 => Counted

LEMMA GuestStarts == MCInit => GuestInv
<1> SUFFICES ASSUME MCInit, guest \in Of6502 PROVE Counted
  BY DEF GuestInv
<1>1. CASE guest = "6502"
  BY <1>1, Starts DEF MCInit
<1>2. CASE guest = "6502 stack"
  <2>1. 2 * B \in Address
    BY WidthsHold, Numbers DEF Widths
  <2>2. /\ R \in StackRegisters /\ F \in Flags /\ PC = 2 * B /\ RAM \in Memories
        /\ ctl = "run" /\ calls = {} /\ steps = 0
    BY <1>2 DEF MCInit
  <2>3. StackRegisters \subseteq [{"A", "X", "Y", "S"} -> Byte]
    <3>1. {0, B \div 2 + 1, B - 1, 2, 1} \subseteq Byte
      BY WidthsHold, Numbers DEF Widths
    <3> QED BY <3>1 DEF StackRegisters
  <2> QED BY <2>1, <2>2, <2>3, Mos6502Assumption DEF Counted, Inv6502, TypeOK, Byte, Address
<1> QED BY <1>1, <1>2 DEF Of6502

LEMMA GuestSteps ==
  ASSUME [MCNext]_allvars, guest \in Of6502
  PROVE  guest' = guest /\ ((\E op \in 0..255 : Step(op)) \/ UNCHANGED vars)
<1>1. CASE UNCHANGED allvars
  BY <1>1 DEF allvars
<1>2. CASE Next6502
  BY <1>2, Mos6502Assumption DEF Next6502, Next, MCNext, allvars
<1>3. CASE NextStack
  <2>1. StackOpcodes \subseteq 0..255
    BY DEF StackOpcodes
  <2>2. PICK op \in StackOpcodes : Step(op)
    BY <1>3 DEF NextStack
  <2> QED BY <2>1, <2>2 DEF MCNext, allvars
<1> QED BY <1>1, <1>2, <1>3
        DEF MCNext, Of6502, NextMips, Next88k, NextArm, NextFapra, NextX86

LEMMA GuestAlways == MCSpec => []GuestInv
<1>1. GuestInv /\ [MCNext]_allvars => GuestInv'
  <2> SUFFICES ASSUME GuestInv, [MCNext]_allvars, guest' \in Of6502 PROVE Counted'
    BY DEF GuestInv
  <2>1. guest \in Of6502
    BY DEF MCNext, allvars
  <2> QED BY <2>1, GuestSteps, StepKeeps, IdleKeeps DEF GuestInv
<1> QED BY <1>1, GuestStarts, PTL DEF MCSpec

\* Sums, differences, comparisons and shifts of the 6502 return with the carry the exact
\* result, and can be chained: for bytes of two bits or more, every opcode, operand and
\* content of the memory (arch_adc(), arch_shiftrotate()).
THEOREM ExactArithmetic == MCSpec => ArithmeticOf6502
<1>1. GuestInv /\ [MCNext]_allvars => [guest = "6502" => ArithmeticExact]_vars
  <2> SUFFICES ASSUME GuestInv, [MCNext]_allvars, guest = "6502" PROVE ArithmeticExact
    OBVIOUS
  <2> QED BY GuestSteps, StepExact, IdleExact DEF GuestInv, Of6502, Counted
<1> QED BY <1>1, GuestAlways, PTL DEF MCSpec, ArithmeticOf6502

\* RTS comes back behind the JSR whose bytes are on top of the stack, wherever in its page
\* the stack wraps (PUSH16(), PULL16()).
THEOREM CallsComeBack == MCSpec => ReturnsOf6502
<1>1. GuestInv /\ [MCNext]_allvars => [guest = "6502 stack" => ReturnsAfterCall]_vars
  <2> SUFFICES ASSUME GuestInv, [MCNext]_allvars, guest = "6502 stack" PROVE ReturnsAfterCall
    OBVIOUS
  <2> QED BY GuestSteps, StepExact, IdleExact DEF GuestInv, Of6502, Counted
<1> QED BY <1>1, GuestAlways, PTL DEF MCSpec, ReturnsOf6502

--------------------------------------------------------------------------------
(***************************************************************************)
(* MIPS: the instance has operators of its own for what FrontendLemmas is  *)
(* about.                                                                  *)
(***************************************************************************)
Short == MipsW32
Long == MipsW64

MipsWidths ==
    /\ Short \in Nat \ {0} /\ Long \in Nat \ {0} /\ Long > Short
    /\ MipsW8 \in Nat \ {0} /\ MipsW16 \in Nat \ {0} /\ MipsW8 < MipsW16 /\ MipsW16 < Short
    /\ Short = 2 * MipsW16 /\ MipsW16 = 2 * MipsW8 /\ Long = 2 * Short
    /\ 2^Short \in Nat \ {0} /\ 2^Long \in Nat \ {0}
    /\ Word(Short) \subseteq Word(Long)

LEMMA MipsWidthsHold == MipsWidths
<1>1. /\ MipsW8 \in Nat \ {0} /\ MipsW16 = 2 * MipsW8 /\ Short = 2 * MipsW16 /\ Long = 2 * Short
  BY MipsAssumption DEF MIPS!MipsAssumed, Short, Long
<1>2. Short \in Nat \ {0} /\ Long \in Nat \ {0} /\ Long > Short /\ Long >= Short
  BY <1>1
<1>3. 2^Short \in Nat \ {0} /\ 2^Long \in Nat \ {0}
  BY <1>2, PowerPositive
<1>4. PICK d \in Nat \ {0} : 2^Long = 2^Short * d
  BY <1>2, WordsDivide
<1>5. 2^Short * d >= 2^Short
  BY <1>3
<1>6. Word(Short) \subseteq Word(Long)
  BY <1>3, <1>4, <1>5 DEF Word
<1> QED BY <1>1, <1>2, <1>3, <1>6 DEF MipsWidths

LEMMA Bits64 ==
  ASSUME NEW a, NEW b, NEW n
  PROVE  /\ MIPS!AND(n, a, b) = AND(n, a, b) /\ MIPS!OR(n, a, b) = OR(n, a, b)
         /\ MIPS!XOR(n, a, b) = XOR(n, a, b) /\ MIPS!COM(n, a) = COM(n, a)
<1>1. MIPS!COM(n, a) = COM(n, a)
  BY DEF MIPS!COM, COM
<1>2. MIPS!AND(n, a, b) = AND(n, a, b)
  BY DEF MIPS!AND, AND, MIPS!OfBits, OfBits, MIPS!BitOf, BitOf, MIPS!LSHR, LSHR
<1>3. MIPS!OR(n, a, b) = OR(n, a, b)
  BY DEF MIPS!OR, OR, MIPS!OfBits, OfBits, MIPS!BitOf, BitOf, MIPS!LSHR, LSHR, MIPS!Bit, Bit
<1>4. MIPS!XOR(n, a, b) = XOR(n, a, b)
  BY DEF MIPS!XOR, XOR, MIPS!OfBits, OfBits, MIPS!BitOf, BitOf, MIPS!LSHR, LSHR, MIPS!Bit, Bit
<1> QED BY <1>1, <1>2, <1>3, <1>4

LEMMA SameExtended ==
  ASSUME NEW a, NEW n, NEW k
  PROVE  MIPS!SEXT(n, k, a) = SEXT(n, k, a) /\ MIPS!TRUNC(n, a) = a % 2^n
BY DEF MIPS!SEXT, SEXT, MIPS!TRUNC, MIPS!Signed, Signed, MIPS!Negative, Negative

--------------------------------------------------------------------------------
(***************************************************************************)
(* Values with types.                                                      *)
(***************************************************************************)
Exact(n, x) == [bits |-> n, val |-> x]

LEMMA ShiftsTyped ==
  ASSUME NEW n \in Nat \ {0}, NEW x \in Word(n), NEW y \in Int, NEW k \in Nat
  PROVE  /\ ADD(n, x, y) \in Word(n) /\ SUB(n, x, y) \in Word(n) /\ SHL(n, x, k) \in Word(n)
         /\ LSHR(x, k) \in Word(n) /\ ASHR(n, x, k) \in Word(n)
<1> DEFINE p == 2^n
           d == 2^k
<1>1. p \in Nat \ {0} /\ d \in Nat \ {0} /\ x \in 0..(p - 1) /\ Word(n) = 0..(p - 1)
  BY PowerPositive DEF Word
<1>2. \A v \in Int : v % p \in 0..(p - 1)
  <2> HIDE DEF p
  <2> QED BY <1>1
<1>3. x + y \in Int /\ x - y \in Int /\ x * d \in Int
  <2> HIDE DEF d
  <2> QED BY <1>1
<1>4. x \div d \in 0..x
  <2> HIDE DEF d, p
  <2> QED BY <1>1
<1>5. Signed(n, x) \div d \in Int
  <2>1. Signed(n, x) \in Int
    BY <1>1 DEF Signed
  <2> HIDE DEF d
  <2> QED BY <1>1, <2>1
<1>6. x \div d \in 0..(p - 1)
  BY <1>1, <1>4
<1> QED BY <1>1, <1>2, <1>3, <1>5, <1>6 DEF ADD, SUB, SHL, LSHR, ASHR

LEMMA ExactSums ==
  ASSUME NEW n \in Nat \ {0}, NEW x \in Word(n), NEW y \in Word(n)
  PROVE  /\ MIPS!tADD(Exact(n, x), Exact(n, y)) = Exact(n, (x + y) % 2^n)
         /\ MIPS!tSUB(Exact(n, x), Exact(n, y)) = Exact(n, (x - y) % 2^n)
         /\ MIPS!tAND(Exact(n, x), Exact(n, y)) = Exact(n, AND(n, x, y))
         /\ MIPS!tOR(Exact(n, x), Exact(n, y)) = Exact(n, OR(n, x, y))
         /\ MIPS!tXOR(Exact(n, x), Exact(n, y)) = Exact(n, XOR(n, x, y))
<1>1. x # -1 /\ y # -1
  BY Whole
<1>2. \A v : MIPS!Binary(Exact(n, x), Exact(n, y), v) = Exact(n, v)
  BY <1>1 DEF MIPS!Binary, MIPS!Poison, Exact
<1> QED BY <1>2, Bits64 DEF MIPS!tADD, MIPS!tSUB, MIPS!tAND, MIPS!tOR, MIPS!tXOR, MIPS!ADD,
          MIPS!SUB, Exact

LEMMA ExactShifts ==
  ASSUME NEW n \in Nat \ {0}, NEW x \in Word(n), NEW y \in Word(n)
  PROVE  /\ MIPS!tSHL(Exact(n, x), Exact(n, y)) = Exact(n, IF y >= n THEN -1 ELSE SHL(n, x, y))
         /\ MIPS!tLSHR(Exact(n, x), Exact(n, y)) = Exact(n, IF y >= n THEN -1 ELSE LSHR(x, y))
         /\ MIPS!tASHR(Exact(n, x), Exact(n, y)) = Exact(n, IF y >= n THEN -1 ELSE ASHR(n, x, y))
<1>1. x # -1 /\ y # -1
  BY Whole
<1>2. \A v : MIPS!Shifted(Exact(n, x), Exact(n, y), v) = Exact(n, IF y >= n THEN -1 ELSE v)
  BY <1>1 DEF MIPS!Shifted, MIPS!Binary, MIPS!Poison, Exact
<1>3. MIPS!SHL(n, x, y) = SHL(n, x, y)
  BY DEF MIPS!SHL, SHL
<1>4. MIPS!LSHR(x, y) = LSHR(x, y)
  BY DEF MIPS!LSHR, LSHR
<1>5. MIPS!ASHR(n, x, y) = ASHR(n, x, y)
  BY DEF MIPS!ASHR, ASHR, MIPS!Signed, Signed, MIPS!Negative, Negative
<1>6. Exact(n, x).bits = n /\ Exact(n, x).val = x /\ Exact(n, y).val = y
  BY DEF Exact
<1> QED BY <1>2, <1>3, <1>4, <1>5, <1>6 DEF MIPS!tSHL, MIPS!tLSHR, MIPS!tASHR

LEMMA ExactComparisons ==
  ASSUME NEW n \in Nat \ {0}, NEW x, NEW y
  PROVE  /\ MIPS!tSLT(Exact(n, x), Exact(n, y)) = Exact(1, Bit(ICMP_SLT(n, x, y)))
         /\ MIPS!tULT(Exact(n, x), Exact(n, y)) = Exact(1, Bit(x < y))
         /\ MIPS!tEQ(Exact(n, x), Exact(n, y)) = Exact(1, Bit(x = y))
<1>1. MIPS!ICMP_SLT(n, x, y) <=> ICMP_SLT(n, x, y)
  BY DEF MIPS!ICMP_SLT, ICMP_SLT, MIPS!Signed, Signed, MIPS!Negative, Negative
<1> QED BY <1>1 DEF MIPS!tSLT, MIPS!tULT, MIPS!tEQ, MIPS!Compare, MIPS!Bit, Bit, Exact

LEMMA ExactConstants ==
  ASSUME NEW n \in Nat \ {0}, NEW v \in Int
  PROVE  MIPS!CONSTs(n, v) = Exact(n, v % 2^n) /\ v % 2^n \in Word(n)
<1>1. 2^n \in Nat \ {0}
  BY PowerPositive
<1>2. \A m \in Nat \ {0} : v % m \in 0..(m - 1)
  OBVIOUS
<1> QED BY <1>1, <1>2 DEF MIPS!CONSTs, Exact, Word

\* The registers are as wide as a double word in either mode.
TypedRegisters == [MipsRegs -> Word(Long)]

LEMMA RegistersRead ==
  ASSUME NEW s \in TypedRegisters, NEW k \in MipsRegs
  PROVE  /\ s[k] \in Word(Long) /\ s[k] \in Nat
         /\ MIPS!R(s, k) = Exact(Long, s[k])
         /\ MIPS!R32(s, k) = Exact(Short, s[k] % 2^Short) /\ s[k] % 2^Short \in Word(Short)
<1>1. Long \in Nat \ {0} /\ Short \in Nat \ {0} /\ Short < Long
  BY MipsWidthsHold DEF MipsWidths
<1>2. s[k] \in Word(Long)
  BY DEF TypedRegisters
<1>3. s[k] \in Nat /\ s[k] % 2^Long = s[k]
  BY <1>1, <1>2, Whole
<1>4. MIPS!CONSTs(Long, s[k]) = Exact(Long, s[k])
  BY <1>1, <1>3, ExactConstants
<1>5. s[k] % 2^Short \in Word(Short)
  BY <1>1, <1>3, ExactConstants
<1>6. MIPS!R(s, k) = Exact(Long, s[k])
  BY <1>4 DEF MIPS!R, MIPS!Get, MIPS!Size, Long
<1>7. MIPS!R32(s, k) = MIPS!tTRUNC(Short, Exact(Long, s[k]))
  BY <1>1, <1>4 DEF MIPS!R32, MIPS!Get, MIPS!Size, Long, Short
<1>8. MIPS!tTRUNC(Short, Exact(Long, s[k])) = Exact(Short, s[k] % 2^Short)
  BY <1>1, <1>3, SameExtended DEF MIPS!tTRUNC, MIPS!Resize, MIPS!Poison, Exact
<1> QED BY <1>2, <1>3, <1>5, <1>6, <1>7, <1>8

\* LET32 extends the sign, LET the zeros of a comparison.
LEMMA Extensions ==
  ASSUME NEW n \in Nat \ {0}, n < Long, NEW x \in Word(n)
  PROVE  /\ MIPS!Extended(Long, n, TRUE, Exact(n, x)) = Exact(Long, SEXT(n, Long, x))
         /\ MIPS!Extended(Long, n, FALSE, Exact(n, x)) = Exact(Long, x)
         /\ SEXT(n, Long, x) \in Word(Long) /\ x \in Word(Long)
<1>1. Long \in Nat /\ Long >= n /\ x # -1
  BY Whole, MipsWidthsHold DEF MipsWidths
<1>2. SEXT(n, Long, x) \in Word(Long)
  BY <1>1, ExtendedTyped
<1>3. x \in Word(Long)
  <2>1. PICK d \in Nat \ {0} : 2^Long = 2^n * d
    BY <1>1, WordsDivide
  <2>2. 2^n \in Nat \ {0}
    BY PowerPositive
  <2>3. 2^n * d >= 2^n
    BY <2>2
  <2> QED BY <2>1, <2>2, <2>3 DEF Word
<1>4. MIPS!tSEXT(Long, Exact(n, x)) = Exact(Long, SEXT(n, Long, x))
  BY <1>1, SameExtended DEF MIPS!tSEXT, MIPS!Resize, MIPS!Poison, Exact
<1>5. MIPS!tZEXT(Long, Exact(n, x)) = Exact(Long, x)
  BY <1>1 DEF MIPS!tZEXT, MIPS!Resize, MIPS!Poison, Exact
<1>6. n # Long /\ n # 0
  OBVIOUS
<1> QED BY <1>2, <1>3, <1>4, <1>5, <1>6 DEF MIPS!Extended

--------------------------------------------------------------------------------
(***************************************************************************)
(* The constants of an instruction, and what an operation of 32 bits       *)
(* returns.                                                                *)
(***************************************************************************)
Mode == IF guest = "MIPS32" THEN MipsW32 ELSE MipsW64

LEMMA ModeConstant ==
  ASSUME NEW v \in Int
  PROVE  MIPS!CONST(v) = Exact(Mode, v % 2^Mode) /\ v % 2^Mode \in Word(Mode)
<1>1. Mode \in Nat \ {0} /\ MIPS!CONST(v) = MIPS!CONSTs(Mode, v)
  BY MipsWidthsHold DEF MipsWidths, Short, Long, Mode, MIPS!CONST
<1> QED BY <1>1, ExactConstants

\* In 64 bit mode numbers that fit are what they are.
LEMMA LongConstant ==
  ASSUME NEW v \in Word(Long), Mode = Long
  PROVE  MIPS!CONST(v) = Exact(Long, v)
<1>1. Long \in Nat /\ v \in Int /\ v % 2^Long = v
  BY MipsWidthsHold, Whole DEF MipsWidths
<1> QED BY <1>1, ModeConstant

LEMMA ShiftAmount ==
  ASSUME NEW k \in 0..(Long - 1)
  PROVE  k \in Word(Long) /\ (k < Short => k \in Word(Short))
<1>1. Long \in Nat /\ Short \in Nat /\ Long < 2^Long /\ Short < 2^Short
      /\ 2^Long \in Nat /\ 2^Short \in Nat
  BY MipsWidthsHold, Grows DEF MipsWidths
<1> QED BY <1>1 DEF Word

LEMMA ImmediateTyped ==
  ASSUME NEW i, MIPS!Decodable(i)
  PROVE  /\ i.rs \in MipsRegs /\ i.rt \in MipsRegs /\ i.rd \in MipsRegs
         /\ i.sa \in 0..(Short - 1) /\ i.imm \in Word(MipsW16) /\ i.imm \in Word(Long)
         /\ MIPS!Imm(i) = SEXT(MipsW16, Long, i.imm) /\ MIPS!Imm(i) \in Word(Long)
         /\ MIPS!Imm(i) \in Int
<1>1. /\ i.rs \in MipsRegs /\ i.rt \in MipsRegs /\ i.rd \in MipsRegs
      /\ i.sa \in 0..(Short - 1) /\ i.imm \in Word(MipsW16)
  BY DEF MIPS!Decodable, Short, MIPS!Word, Word
<1>2. MipsW16 \in Nat \ {0} /\ MipsW16 < Long /\ Long \in Nat
  BY MipsWidthsHold DEF MipsWidths
<1>3. i.imm \in Word(Long) /\ SEXT(MipsW16, Long, i.imm) \in Word(Long)
  BY <1>1, <1>2, Extensions
<1>4. MIPS!Imm(i) = SEXT(MipsW16, Long, i.imm)
  BY SameExtended DEF MIPS!Imm, Long
<1>5. MIPS!Imm(i) \in Int
  BY <1>2, <1>3, <1>4, Whole
<1> QED BY <1>1, <1>3, <1>4, <1>5

Signed32(x) == SEXT(Short, Long, x)

LEMMA Interpreters32 ==
  ASSUME NEW v \in Int
  PROVE  /\ MIPS!u32(v) = v % 2^Short /\ v % 2^Short \in Word(Short)
         /\ MIPS!s32(v) = Signed32(v % 2^Short)
<1>1. Short \in Nat \ {0}
  BY MipsWidthsHold DEF MipsWidths
<1>2. v % 2^Short \in Word(Short)
  BY <1>1, ExactConstants
<1> QED BY <1>2, SameExtended DEF MIPS!u32, MIPS!s32, Signed32, Short, Long, MIPS!TRUNC

\* What a 32 bit value is when it is read as one.
LEMMA ReadAgain ==
  ASSUME NEW x \in Word(Short)
  PROVE  MIPS!s32(x) = Signed32(x)
<1>1. x % 2^Short = x /\ x \in Int
  BY Whole, MipsWidthsHold DEF MipsWidths
<1> QED BY <1>1, Interpreters32

LEMMA Short32 ==
  ASSUME NEW i, MIPS!Decodable(i)
  PROVE  /\ MIPS!IMM32(i) = Exact(Short, MIPS!Imm(i) % 2^Short)
         /\ MIPS!Imm(i) % 2^Short \in Word(Short)
         /\ MIPS!SA32(i) = Exact(Short, i.sa) /\ i.sa \in Word(Short) /\ i.sa \in Nat /\ i.sa < Short
         /\ MIPS!Ones32 = Exact(Short, 2^Short - 1) /\ 2^Short - 1 \in Word(Short)
<1>1. Short \in Nat \ {0} /\ Short < Long /\ Long \in Nat /\ 2^Short \in Nat \ {0}
  BY MipsWidthsHold DEF MipsWidths
<1>2. /\ MIPS!Imm(i) \in Int /\ i.sa \in 0..(Short - 1)
  BY ImmediateTyped
<1>3. i.sa \in Word(Short)
  BY <1>1, <1>2, ShiftAmount
<1>4. i.sa \in Int /\ i.sa % 2^Short = i.sa
  BY <1>1, <1>3, Whole
<1>5. 2^Short - 1 \in Word(Short)
  BY <1>1 DEF Word
<1>6. (2^Short - 1) % 2^Short = 2^Short - 1 /\ 2^Short - 1 \in Int
  BY <1>1, <1>5, Whole
<1>7. /\ MIPS!CONSTs(Short, MIPS!Imm(i)) = Exact(Short, MIPS!Imm(i) % 2^Short)
      /\ MIPS!Imm(i) % 2^Short \in Word(Short)
  BY <1>1, <1>2, ExactConstants
<1>8. MIPS!CONSTs(Short, i.sa) = Exact(Short, i.sa)
  BY <1>1, <1>4, ExactConstants
<1>9. MIPS!CONSTs(Short, 2^Short - 1) = Exact(Short, 2^Short - 1)
  BY <1>1, <1>6, ExactConstants
<1> QED BY <1>1, <1>2, <1>3, <1>5, <1>7, <1>8, <1>9 DEF MIPS!IMM32, MIPS!SA32, MIPS!Ones32, Short

--------------------------------------------------------------------------------
(***************************************************************************)
(* 32 bit operations: the results as words, and what the interpreter makes *)
(* of them.                                                                *)
(***************************************************************************)
ShiftOps == {"SLL", "SRL", "SRA"}
ShiftByRegister == {"SLLV", "SRLV", "SRAV"}

Equal32(s, i) ==
    \E x \in Word(Short) :
        MIPS!Word32(s, i) = Exact(Short, x) /\ MIPS!Interpreted(s, i) = Signed32(x)

LEMMA Sums32 ==
  ASSUME NEW s \in TypedRegisters, NEW i, MIPS!Decodable(i),
         i.op \in {"ADD", "ADDU", "SUB", "SUBU", "ADDI", "ADDIU"}
  PROVE  Equal32(s, i)
<1> DEFINE rs == s[i.rs]
           rt == s[i.rt]
           p == 2^Short
           m == MIPS!Imm(i)
<1>1. p \in Nat \ {0} /\ Short \in Nat \ {0}
  BY MipsWidthsHold DEF MipsWidths
<1>2. i.rs \in MipsRegs /\ i.rt \in MipsRegs /\ m \in Int
  BY ImmediateTyped
<1>3. /\ rs \in Int /\ MIPS!R32(s, i.rs) = Exact(Short, rs % p) /\ rs % p \in Word(Short)
      /\ rt \in Int /\ MIPS!R32(s, i.rt) = Exact(Short, rt % p) /\ rt % p \in Word(Short)
  BY <1>2, RegistersRead
<1>4. MIPS!IMM32(i) = Exact(Short, m % p) /\ m % p \in Word(Short)
  BY Short32
<1>5. /\ rs + rt \in Int /\ rs - rt \in Int /\ rs + m \in Int
      /\ ((rs % p) + (rt % p)) % p = (rs + rt) % p
      /\ ((rs % p) - (rt % p)) % p = (rs - rt) % p
      /\ ((rs % p) + (m % p)) % p = (rs + m) % p
  <2> HIDE DEF p, rs, rt, m
  <2>1. rs + rt \in Int /\ rs - rt \in Int /\ rs + m \in Int
    BY <1>2, <1>3
  <2>2. /\ ((rs % p) + (rt % p)) % p = (rs + rt) % p
        /\ ((rs % p) - (rt % p)) % p = (rs - rt) % p
    BY <1>1, <1>3, ModSum, Zenon
  <2>3. ((rs % p) + (m % p)) % p = (rs + m) % p
    BY <1>1, <1>2, <1>3, ModSum, Zenon
  <2> QED BY <2>1, <2>2, <2>3
<1>6. CASE i.op \in {"ADD", "ADDU"}
  <2>1. MIPS!Word32(s, i) = MIPS!tADD(Exact(Short, rs % p), Exact(Short, rt % p))
    BY <1>3, <1>6 DEF MIPS!Word32
  <2>2. MIPS!tADD(Exact(Short, rs % p), Exact(Short, rt % p)) = Exact(Short, (rs + rt) % p)
    BY <1>1, <1>3, <1>5, ExactSums
  <2>3. MIPS!Interpreted(s, i) = MIPS!s32(rs + rt)
    BY <1>6 DEF MIPS!Interpreted
  <2> QED BY <1>5, <2>1, <2>2, <2>3, Interpreters32 DEF Equal32
<1>7. CASE i.op \in {"SUB", "SUBU"}
  <2>1. MIPS!Word32(s, i) = MIPS!tSUB(Exact(Short, rs % p), Exact(Short, rt % p))
    BY <1>3, <1>7 DEF MIPS!Word32
  <2>2. MIPS!tSUB(Exact(Short, rs % p), Exact(Short, rt % p)) = Exact(Short, (rs - rt) % p)
    BY <1>1, <1>3, <1>5, ExactSums
  <2>3. MIPS!Interpreted(s, i) = MIPS!s32(rs - rt)
    BY <1>7 DEF MIPS!Interpreted
  <2> QED BY <1>5, <2>1, <2>2, <2>3, Interpreters32 DEF Equal32
<1>8. CASE i.op \in {"ADDI", "ADDIU"}
  <2>1. MIPS!Word32(s, i) = MIPS!tADD(Exact(Short, rs % p), Exact(Short, m % p))
    BY <1>3, <1>4, <1>8 DEF MIPS!Word32
  <2>2. MIPS!tADD(Exact(Short, rs % p), Exact(Short, m % p)) = Exact(Short, (rs + m) % p)
    BY <1>1, <1>3, <1>4, <1>5, ExactSums
  <2>3. MIPS!Interpreted(s, i) = MIPS!s32(rs + m)
    BY <1>8 DEF MIPS!Interpreted, MIPS!Imm
  <2> QED BY <1>5, <2>1, <2>2, <2>3, Interpreters32 DEF Equal32
<1> QED BY <1>6, <1>7, <1>8

LEMMA Shifts32 ==
  ASSUME NEW s \in TypedRegisters, NEW i, MIPS!Decodable(i),
         i.op \in ShiftOps \cup ShiftByRegister, i.op \in ShiftByRegister => s[i.rs] < Short
  PROVE  Equal32(s, i)
<1> DEFINE v == s[i.rt] % 2^Short
           k == IF i.op \in ShiftOps THEN i.sa ELSE s[i.rs]
<1>1. Short \in Nat \ {0} /\ Short < Long /\ Long \in Nat
  BY MipsWidthsHold DEF MipsWidths
<1>2. i.rs \in MipsRegs /\ i.rt \in MipsRegs
  BY ImmediateTyped
<1>3. /\ s[i.rs] \in Nat /\ MIPS!R32(s, i.rs) = Exact(Short, s[i.rs] % 2^Short)
      /\ s[i.rt] \in Nat /\ MIPS!R32(s, i.rt) = Exact(Short, v) /\ v \in Word(Short)
  BY <1>2, RegistersRead
<1>4. k \in Word(Short) /\ k < Short /\ k \in Nat
  <2>1. CASE i.op \in ShiftOps
    BY <2>1, Short32
  <2>2. CASE i.op \notin ShiftOps
    <3>1. s[i.rs] \in 0..(Long - 1) /\ s[i.rs] < Short
      BY <1>1, <1>3, <2>2
    <3> QED BY <1>3, <2>2, <3>1, ShiftAmount
  <2> QED BY <2>1, <2>2
<1>5. (IF i.op \in ShiftOps THEN MIPS!SA32(i) ELSE MIPS!R32(s, i.rs)) = Exact(Short, k)
  <2>1. CASE i.op \in ShiftOps
    BY <2>1, Short32
  <2>2. CASE i.op \notin ShiftOps
    BY <1>1, <1>3, <1>4, <2>2, Whole
  <2> QED BY <2>1, <2>2
<1>6. MIPS!u32(s[i.rt]) = v
  BY <1>3, Interpreters32
<1>7. /\ SHL(Short, v, k) \in Word(Short) /\ LSHR(v, k) \in Word(Short)
      /\ ASHR(Short, v, k) \in Word(Short)
  <2> HIDE DEF v, k
  <2>1. 0 \in Int
    OBVIOUS
  <2> QED BY <1>1, <1>3, <1>4, <2>1, ShiftsTyped, Zenon
<1>8. ~(k >= Short)
  BY <1>1, <1>4
<1>9. /\ MIPS!tSHL(Exact(Short, v), Exact(Short, k)) = Exact(Short, SHL(Short, v, k))
      /\ MIPS!tLSHR(Exact(Short, v), Exact(Short, k)) = Exact(Short, LSHR(v, k))
      /\ MIPS!tASHR(Exact(Short, v), Exact(Short, k)) = Exact(Short, ASHR(Short, v, k))
  BY <1>1, <1>3, <1>4, <1>8, ExactShifts
<1>10. /\ MIPS!SHL(MipsW32, v, k) = SHL(Short, v, k) /\ MIPS!LSHR(v, k) = LSHR(v, k)
       /\ MIPS!ASHR(MipsW32, v, k) = ASHR(Short, v, k)
  BY DEF MIPS!SHL, SHL, MIPS!LSHR, LSHR, MIPS!ASHR, ASHR, MIPS!Signed, Signed, MIPS!Negative,
         Negative, Short
<1>11. CASE i.op \in {"SLL", "SLLV"}
  <2>1. MIPS!Word32(s, i) = Exact(Short, SHL(Short, v, k))
    BY <1>3, <1>5, <1>9, <1>11 DEF MIPS!Word32, ShiftOps
  <2>2. MIPS!Interpreted(s, i) = MIPS!s32(SHL(Short, v, k))
    BY <1>6, <1>10, <1>11 DEF MIPS!Interpreted, ShiftOps
  <2> QED BY <1>7, <2>1, <2>2, ReadAgain DEF Equal32
<1>12. CASE i.op \in {"SRL", "SRLV"}
  <2>1. MIPS!Word32(s, i) = Exact(Short, LSHR(v, k))
    BY <1>3, <1>5, <1>9, <1>12 DEF MIPS!Word32, ShiftOps
  <2>2. MIPS!Interpreted(s, i) = MIPS!s32(LSHR(v, k))
    BY <1>6, <1>10, <1>12 DEF MIPS!Interpreted, ShiftOps
  <2> QED BY <1>7, <2>1, <2>2, ReadAgain DEF Equal32
<1>13. CASE i.op \in {"SRA", "SRAV"}
  <2>1. MIPS!Word32(s, i) = Exact(Short, ASHR(Short, v, k))
    BY <1>3, <1>5, <1>9, <1>13 DEF MIPS!Word32, ShiftOps
  <2>2. MIPS!Interpreted(s, i) = MIPS!s32(ASHR(Short, v, k))
    BY <1>6, <1>10, <1>13 DEF MIPS!Interpreted, ShiftOps
  <2> QED BY <1>7, <2>1, <2>2, ReadAgain DEF Equal32
<1> QED BY <1>11, <1>12, <1>13 DEF ShiftOps, ShiftByRegister

LEMMA PoisonedShifts ==
  ASSUME NEW s \in TypedRegisters, NEW i, MIPS!Decodable(i), i.op \in ShiftByRegister
  PROVE  \E x \in Word(Short) \cup {-1} : MIPS!Word32(s, i) = Exact(Short, x)
<1> DEFINE v == s[i.rt] % 2^Short
           u == s[i.rs] % 2^Short
<1>1. Short \in Nat \ {0}
  BY MipsWidthsHold DEF MipsWidths
<1>2. i.rs \in MipsRegs /\ i.rt \in MipsRegs
  BY ImmediateTyped
<1>3. /\ MIPS!R32(s, i.rs) = Exact(Short, u) /\ u \in Word(Short) /\ u \in Nat
      /\ MIPS!R32(s, i.rt) = Exact(Short, v) /\ v \in Word(Short)
  BY <1>1, <1>2, RegistersRead, Whole
<1>4. /\ SHL(Short, v, u) \in Word(Short) /\ LSHR(v, u) \in Word(Short)
      /\ ASHR(Short, v, u) \in Word(Short)
  BY <1>1, <1>3, ShiftsTyped
<1> DEFINE ps == IF u >= Short THEN -1 ELSE SHL(Short, v, u)
           pl == IF u >= Short THEN -1 ELSE LSHR(v, u)
           pa == IF u >= Short THEN -1 ELSE ASHR(Short, v, u)
<1>5. /\ MIPS!tSHL(Exact(Short, v), Exact(Short, u)) = Exact(Short, ps)
      /\ MIPS!tLSHR(Exact(Short, v), Exact(Short, u)) = Exact(Short, pl)
      /\ MIPS!tASHR(Exact(Short, v), Exact(Short, u)) = Exact(Short, pa)
  BY <1>1, <1>3, ExactShifts
<1>6. {ps, pl, pa} \subseteq Word(Short) \cup {-1}
  BY <1>4
<1> HIDE DEF ps, pl, pa, u, v
<1>7. MIPS!Word32(s, i) \in {Exact(Short, ps), Exact(Short, pl), Exact(Short, pa)}
  BY <1>3, <1>5 DEF MIPS!Word32, ShiftByRegister
<1> QED BY <1>6, <1>7

LEMMA Logic32 ==
  ASSUME NEW s \in TypedRegisters, NEW i, MIPS!Decodable(i), i.op \in MIPS!Logic
  PROVE  /\ \E x \in Word(Short) : MIPS!Word32(s, i) = Exact(Short, x)
         /\ ~MIPS!Disputed(s, i) => Equal32(s, i)
<1> DEFINE u == s[i.rs] % 2^Short
           v == s[i.rt] % 2^Short
<1>1. Short \in Nat \ {0} /\ Long \in Nat /\ Long >= Short
  BY MipsWidthsHold DEF MipsWidths
<1>2. i.rs \in MipsRegs /\ i.rt \in MipsRegs
  BY ImmediateTyped
<1>3. /\ s[i.rs] \in Nat /\ MIPS!R32(s, i.rs) = Exact(Short, u) /\ u \in Word(Short) /\ u \in Nat
      /\ s[i.rt] \in Nat /\ MIPS!R32(s, i.rt) = Exact(Short, v) /\ v \in Word(Short) /\ v \in Nat
  BY <1>1, <1>2, RegistersRead, Whole
<1>4. AND(Short, u, v) \in Word(Short) /\ OR(Short, u, v) \in Word(Short)
      /\ XOR(Short, u, v) \in Word(Short) /\ COM(Short, OR(Short, u, v)) \in Word(Short)
  <2>1. AND(Short, u, v) \in Word(Short) /\ OR(Short, u, v) \in Word(Short)
        /\ XOR(Short, u, v) \in Word(Short)
    BY <1>1, <1>3, LogicTyped
  <2>2. 0 \in 0..(Short - 1)
    BY <1>1
  <2> QED BY <1>1, <2>1, <2>2, ComBits
<1>5. /\ MIPS!tAND(Exact(Short, u), Exact(Short, v)) = Exact(Short, AND(Short, u, v))
      /\ MIPS!tOR(Exact(Short, u), Exact(Short, v)) = Exact(Short, OR(Short, u, v))
      /\ MIPS!tXOR(Exact(Short, u), Exact(Short, v)) = Exact(Short, XOR(Short, u, v))
  BY <1>1, <1>3, ExactSums
<1>6. MIPS!tXOR(Exact(Short, OR(Short, u, v)), MIPS!Ones32) = Exact(Short, COM(Short, OR(Short, u, v)))
  <2> DEFINE o == OR(Short, u, v)
  <2>1. MIPS!Ones32 = Exact(Short, 2^Short - 1) /\ 2^Short - 1 \in Word(Short)
    BY Short32
  <2>2. o \in Word(Short)
    BY <1>4
  <2> HIDE DEF o
  <2>3. MIPS!tXOR(Exact(Short, o), Exact(Short, 2^Short - 1)) = Exact(Short, XOR(Short, o, 2^Short - 1))
    BY <1>1, <2>1, <2>2, ExactSums
  <2>4. XOR(Short, o, 2^Short - 1) = COM(Short, o)
    BY <1>1, <2>2, OnesFlip
  <2> QED BY <2>1, <2>3, <2>4 DEF o
<1> HIDE DEF u, v
<1>7. MIPS!Word32(s, i) =
        Exact(Short, CASE i.op = "AND" -> AND(Short, u, v) [] i.op = "OR" -> OR(Short, u, v)
                       [] i.op = "XOR" -> XOR(Short, u, v)
                       [] i.op = "NOR" -> COM(Short, OR(Short, u, v)))
  <2>1. CASE i.op = "AND"
    BY <1>3, <1>5, <2>1 DEF MIPS!Word32
  <2>2. CASE i.op = "OR"
    BY <1>3, <1>5, <2>2 DEF MIPS!Word32
  <2>3. CASE i.op = "XOR"
    BY <1>3, <1>5, <2>3 DEF MIPS!Word32
  <2>4. CASE i.op = "NOR"
    BY <1>3, <1>5, <1>6, <2>4 DEF MIPS!Word32
  <2> QED BY <2>1, <2>2, <2>3, <2>4 DEF MIPS!Logic
<1>8. \E x \in Word(Short) : MIPS!Word32(s, i) = Exact(Short, x)
  BY <1>4, <1>7 DEF MIPS!Logic
<1>9. ASSUME ~MIPS!Disputed(s, i) PROVE Equal32(s, i)
  <2> DEFINE x == s[i.rs]
             y == s[i.rt]
  <2>1. x = Signed32(u) /\ y = Signed32(v)
    <3>1. x = MIPS!s32(x) /\ y = MIPS!s32(y)
      BY <1>9 DEF MIPS!Disputed
    <3> QED BY <1>3, <3>1, Interpreters32 DEF u, v
  <2>2. /\ MIPS!AND(Long, x, y) = AND(Long, x, y) /\ MIPS!OR(Long, x, y) = OR(Long, x, y)
        /\ MIPS!XOR(Long, x, y) = XOR(Long, x, y)
        /\ MIPS!COM(Long, OR(Long, x, y)) = COM(Long, OR(Long, x, y))
    BY Bits64
  <2>3. /\ AND(Long, x, y) = Signed32(AND(Short, u, v)) /\ OR(Long, x, y) = Signed32(OR(Short, u, v))
        /\ XOR(Long, x, y) = Signed32(XOR(Short, u, v))
    BY <1>1, <1>3, <2>1, LogicExtended DEF Signed32
  <2>4. COM(Long, OR(Long, x, y)) = Signed32(COM(Short, OR(Short, u, v)))
    BY <1>1, <1>4, <2>3, ComExtended DEF Signed32
  <2>5. MIPS!Interpreted(s, i) =
          CASE i.op = "AND" -> MIPS!AND(Long, x, y) [] i.op = "OR" -> MIPS!OR(Long, x, y)
            [] i.op = "XOR" -> MIPS!XOR(Long, x, y)
            [] i.op = "NOR" -> MIPS!COM(Long, MIPS!OR(Long, x, y))
    <3>1. CASE i.op = "AND"
      BY <3>1 DEF MIPS!Interpreted, Long
    <3>2. CASE i.op = "OR"
      BY <3>2 DEF MIPS!Interpreted, Long
    <3>3. CASE i.op = "XOR"
      BY <3>3 DEF MIPS!Interpreted, Long
    <3>4. CASE i.op = "NOR"
      BY <3>4 DEF MIPS!Interpreted, Long
    <3> QED BY <3>1, <3>2, <3>3, <3>4 DEF MIPS!Logic
  <2> QED BY <1>4, <1>7, <2>2, <2>3, <2>4, <2>5 DEF Equal32, MIPS!Logic
<1> QED BY <1>8, <1>9

\* What LET32 stores of a 32 bit operation.
LEMMA Written32 ==
  ASSUME NEW s \in TypedRegisters, NEW i, MIPS!Decodable(i), i.op \in MIPS!Ops32, NEW a
  PROVE  /\ MIPS!Written(s, i, a).val \in Word(Long) \cup {-1}
         /\ ~MIPS!Disputed(s, i) /\ ~MIPS!Undefined(s, i) =>
              /\ MIPS!Written(s, i, a).val = MIPS!Interpreted(s, i)
              /\ MIPS!Interpreted(s, i) \in Word(Long)
<1> DEFINE w == MIPS!Word32(s, i)
<1>1. Short \in Nat \ {0} /\ Short < Long
  BY MipsWidthsHold DEF MipsWidths
<1>2. MIPS!Written(s, i, a) = MIPS!Extended(Long, Short, TRUE, w)
  BY DEF MIPS!Written, MIPS!LET32, MIPS!Size, Short, Long, MIPS!Ops32, MIPS!OpsWhole,
         MIPS!OpsCompare, MIPS!Loads, MIPS!Stores
<1>3. ASSUME Equal32(s, i)
      PROVE  /\ MIPS!Written(s, i, a).val = MIPS!Interpreted(s, i)
             /\ MIPS!Interpreted(s, i) \in Word(Long)
  <2>1. PICK x \in Word(Short) : w = Exact(Short, x) /\ MIPS!Interpreted(s, i) = Signed32(x)
    BY <1>3 DEF Equal32
  <2>2. MIPS!Extended(Long, Short, TRUE, Exact(Short, x)) = Exact(Long, Signed32(x))
        /\ Signed32(x) \in Word(Long)
    BY <1>1, Extensions DEF Signed32
  <2>3. MIPS!Written(s, i, a) = Exact(Long, Signed32(x))
    BY <1>2, <2>1, <2>2
  <2> QED BY <2>1, <2>2, <2>3 DEF Exact
<1>4. ASSUME w = Exact(Short, -1) PROVE MIPS!Written(s, i, a).val = -1
  BY <1>1, <1>2, <1>4 DEF MIPS!Extended, MIPS!tSEXT, MIPS!Resize, MIPS!Poison, Exact
<1>5. ASSUME NEW x \in Word(Short), w = Exact(Short, x)
      PROVE  MIPS!Written(s, i, a).val \in Word(Long)
  <2>1. MIPS!Extended(Long, Short, TRUE, Exact(Short, x)) = Exact(Long, Signed32(x))
        /\ Signed32(x) \in Word(Long)
    BY <1>1, Extensions DEF Signed32
  <2>2. MIPS!Written(s, i, a) = Exact(Long, Signed32(x))
    BY <1>2, <1>5, <2>1
  <2> QED BY <2>1, <2>2 DEF Exact
<1>6. CASE i.op \in {"ADD", "ADDU", "SUB", "SUBU", "ADDI", "ADDIU"}
  BY <1>3, <1>6, Sums32
<1>7. CASE i.op \in ShiftOps
  BY <1>3, <1>7, Shifts32 DEF ShiftOps, ShiftByRegister
<1>8. CASE i.op \in ShiftByRegister
  <2>1. ASSUME ~MIPS!Undefined(s, i) PROVE Equal32(s, i)
    <3>1. ~(s[i.rs] >= Short)
      BY <1>8, <2>1 DEF MIPS!Undefined, Short, ShiftByRegister
    <3>2. s[i.rs] \in Nat
      BY ImmediateTyped, RegistersRead
    <3> QED BY <1>1, <1>8, <3>1, <3>2, Shifts32
  <2>2. \E x \in Word(Short) \cup {-1} : w = Exact(Short, x)
    BY <1>8, PoisonedShifts
  <2> QED BY <1>3, <1>4, <1>5, <2>1, <2>2
<1>9. CASE i.op \in MIPS!Logic
  <2>1. \E x \in Word(Short) : w = Exact(Short, x)
    BY <1>9, Logic32
  <2> QED BY <1>3, <1>5, <1>9, <2>1, Logic32
<1> QED BY <1>6, <1>7, <1>8, <1>9 DEF MIPS!Ops32, MIPS!Logic, ShiftOps, ShiftByRegister

--------------------------------------------------------------------------------
(***************************************************************************)
(* Operations on the whole register.  With a constant of the word size     *)
(* they have types in 64 bit mode only.                                    *)
(***************************************************************************)
LEMMA MixedSizes ==
  ASSUME NEW x, NEW y, NEW m, NEW n, m # n
  PROVE  /\ MIPS!tADD(Exact(m, x), Exact(n, y)) = MIPS!Mistyped
         /\ MIPS!tSUB(Exact(m, x), Exact(n, y)) = MIPS!Mistyped
         /\ MIPS!tAND(Exact(m, x), Exact(n, y)) = MIPS!Mistyped
         /\ MIPS!tOR(Exact(m, x), Exact(n, y)) = MIPS!Mistyped
         /\ MIPS!tXOR(Exact(m, x), Exact(n, y)) = MIPS!Mistyped
         /\ MIPS!tSHL(Exact(m, x), Exact(n, y)) = MIPS!Mistyped
         /\ MIPS!tLSHR(Exact(m, x), Exact(n, y)) = MIPS!Mistyped
         /\ MIPS!tASHR(Exact(m, x), Exact(n, y)) = MIPS!Mistyped
         /\ MIPS!tSLT(Exact(m, x), Exact(n, y)) = MIPS!Mistyped
         /\ MIPS!tULT(Exact(m, x), Exact(n, y)) = MIPS!Mistyped
<1>1. \A v : MIPS!Binary(Exact(m, x), Exact(n, y), v) = MIPS!Mistyped
  BY DEF MIPS!Binary, Exact
<1>2. \A v : MIPS!Shifted(Exact(m, x), Exact(n, y), v) = MIPS!Mistyped
  BY <1>1 DEF MIPS!Shifted
<1>3. \A v : MIPS!Compare(Exact(m, x), Exact(n, y), v) = MIPS!Mistyped
  BY DEF MIPS!Compare, Exact
<1> QED BY <1>1, <1>2, <1>3 DEF MIPS!tADD, MIPS!tSUB, MIPS!tAND, MIPS!tOR, MIPS!tXOR, MIPS!tSHL,
          MIPS!tLSHR, MIPS!tASHR, MIPS!tSLT, MIPS!tULT

EqualWhole(s, i) ==
    \E x \in Word(Long) : MIPS!Whole(s, i) = Exact(Long, x) /\ MIPS!Interpreted(s, i) = x

LEMMA SumsWhole ==
  ASSUME NEW s \in TypedRegisters, NEW i, MIPS!Decodable(i),
         i.op \in {"DADD", "DADDU", "DSUB", "DSUBU"}
  PROVE  EqualWhole(s, i)
<1> DEFINE rs == s[i.rs]
           rt == s[i.rt]
<1>1. Long \in Nat \ {0}
  BY MipsWidthsHold DEF MipsWidths
<1>2. /\ rs \in Word(Long) /\ rs \in Int /\ MIPS!R(s, i.rs) = Exact(Long, rs)
      /\ rt \in Word(Long) /\ rt \in Int /\ MIPS!R(s, i.rt) = Exact(Long, rt)
  BY ImmediateTyped, RegistersRead
<1>3. ADD(Long, rs, rt) \in Word(Long) /\ SUB(Long, rs, rt) \in Word(Long)
  <2>1. 0 \in Nat
    OBVIOUS
  <2> QED BY <1>1, <1>2, <2>1, ShiftsTyped
<1>4. /\ MIPS!tADD(Exact(Long, rs), Exact(Long, rt)) = Exact(Long, ADD(Long, rs, rt))
      /\ MIPS!tSUB(Exact(Long, rs), Exact(Long, rt)) = Exact(Long, SUB(Long, rs, rt))
  BY <1>1, <1>2, ExactSums DEF ADD, SUB
<1>5. MIPS!ADD(Long, rs, rt) = ADD(Long, rs, rt) /\ MIPS!SUB(Long, rs, rt) = SUB(Long, rs, rt)
  BY DEF MIPS!ADD, ADD, MIPS!SUB, SUB
<1>6. CASE i.op \in {"DADD", "DADDU"}
  <2>1. MIPS!Whole(s, i) = Exact(Long, ADD(Long, rs, rt))
    BY <1>2, <1>4, <1>6 DEF MIPS!Whole
  <2>2. MIPS!Interpreted(s, i) = ADD(Long, rs, rt)
    BY <1>5, <1>6 DEF MIPS!Interpreted, Long
  <2> QED BY <1>3, <2>1, <2>2 DEF EqualWhole
<1>7. CASE i.op \in {"DSUB", "DSUBU"}
  <2>1. MIPS!Whole(s, i) = Exact(Long, SUB(Long, rs, rt))
    BY <1>2, <1>4, <1>7 DEF MIPS!Whole
  <2>2. MIPS!Interpreted(s, i) = SUB(Long, rs, rt)
    BY <1>5, <1>7 DEF MIPS!Interpreted, Long
  <2> QED BY <1>3, <2>1, <2>2 DEF EqualWhole
<1> QED BY <1>6, <1>7

WholeShifts == {"DSLL", "DSRL", "DSRA"}
WholeShifts32 == {"DSLL32", "DSRL32", "DSRA32"}

LEMMA ShiftsWhole ==
  ASSUME NEW s \in TypedRegisters, NEW i, MIPS!Decodable(i), Mode = Long,
         i.op \in WholeShifts \cup WholeShifts32
  PROVE  EqualWhole(s, i)
<1> DEFINE rt == s[i.rt]
           k == IF i.op \in WholeShifts THEN i.sa ELSE i.sa + Short
<1>1. Long \in Nat \ {0} /\ Short \in Nat \ {0} /\ Long = 2 * Short /\ Short < Long
  BY MipsWidthsHold DEF MipsWidths
<1>2. /\ rt \in Word(Long) /\ rt \in Int /\ MIPS!R(s, i.rt) = Exact(Long, rt)
      /\ i.sa \in 0..(Short - 1)
  BY ImmediateTyped, RegistersRead
<1>3. k \in 0..(Long - 1) /\ k \in Nat /\ k < Long /\ ~(k >= Long)
  BY <1>1, <1>2
<1>4. k \in Word(Long) /\ i.sa \in Word(Long) /\ i.sa + Short \in Word(Long) /\ Short \in Word(Long)
  <2>1. \A n \in 0..(Long - 1) : n \in Word(Long)
    BY ShiftAmount
  <2> QED BY <1>1, <1>2, <1>3, <2>1
<1>5. MIPS!SA(i) = Exact(Long, i.sa)
  BY <1>4, LongConstant DEF MIPS!SA
<1>6. MIPS!CONST(Short) = Exact(Long, Short)
  BY <1>4, LongConstant
<1>7. MIPS!tADD(Exact(Long, i.sa), Exact(Long, Short)) = Exact(Long, i.sa + Short)
  <2>1. (i.sa + Short) % 2^Long = i.sa + Short
    BY <1>1, <1>4, Whole
  <2>2. MIPS!tADD(Exact(Long, i.sa), Exact(Long, Short)) = Exact(Long, (i.sa + Short) % 2^Long)
    BY <1>1, <1>4, ExactSums, Zenon
  <2> QED BY <2>1, <2>2
<1>8. (IF i.op \in WholeShifts THEN MIPS!SA(i) ELSE MIPS!tADD(MIPS!SA(i), MIPS!CONST(MipsW32)))
        = Exact(Long, k)
  <2>1. CASE i.op \in WholeShifts
    BY <1>5, <2>1
  <2>2. CASE i.op \notin WholeShifts
    BY <1>5, <1>6, <1>7, <2>2 DEF Short
  <2> QED BY <2>1, <2>2
<1>9. /\ SHL(Long, rt, k) \in Word(Long) /\ LSHR(rt, k) \in Word(Long)
      /\ ASHR(Long, rt, k) \in Word(Long)
  <2> HIDE DEF rt, k
  <2>1. 0 \in Int
    OBVIOUS
  <2> QED BY <1>1, <1>2, <1>3, <2>1, ShiftsTyped, Zenon
<1>10. /\ MIPS!tSHL(Exact(Long, rt), Exact(Long, k)) = Exact(Long, SHL(Long, rt, k))
       /\ MIPS!tLSHR(Exact(Long, rt), Exact(Long, k)) = Exact(Long, LSHR(rt, k))
       /\ MIPS!tASHR(Exact(Long, rt), Exact(Long, k)) = Exact(Long, ASHR(Long, rt, k))
  <2> HIDE DEF rt, k
  <2> QED BY <1>1, <1>2, <1>3, <1>4, ExactShifts
<1>11. /\ MIPS!SHL(MipsW64, rt, k) = SHL(Long, rt, k) /\ MIPS!LSHR(rt, k) = LSHR(rt, k)
       /\ MIPS!ASHR(MipsW64, rt, k) = ASHR(Long, rt, k)
  BY DEF MIPS!SHL, SHL, MIPS!LSHR, LSHR, MIPS!ASHR, ASHR, MIPS!Signed, Signed, MIPS!Negative,
         Negative, Long
<1>12. CASE i.op \in {"DSLL", "DSLL32"}
  <2>1. MIPS!Whole(s, i) = Exact(Long, SHL(Long, rt, k))
    BY <1>2, <1>8, <1>10, <1>12 DEF MIPS!Whole, WholeShifts
  <2>2. MIPS!Interpreted(s, i) = SHL(Long, rt, k)
    BY <1>11, <1>12 DEF MIPS!Interpreted, WholeShifts, Short
  <2> QED BY <1>9, <2>1, <2>2 DEF EqualWhole
<1>13. CASE i.op \in {"DSRL", "DSRL32"}
  <2>1. MIPS!Whole(s, i) = Exact(Long, LSHR(rt, k))
    BY <1>2, <1>8, <1>10, <1>13 DEF MIPS!Whole, WholeShifts
  <2>2. MIPS!Interpreted(s, i) = LSHR(rt, k)
    BY <1>11, <1>13 DEF MIPS!Interpreted, WholeShifts, Short
  <2> QED BY <1>9, <2>1, <2>2 DEF EqualWhole
<1>14. CASE i.op \in {"DSRA", "DSRA32"}
  <2>1. MIPS!Whole(s, i) = Exact(Long, ASHR(Long, rt, k))
    BY <1>2, <1>8, <1>10, <1>14 DEF MIPS!Whole, WholeShifts
  <2>2. MIPS!Interpreted(s, i) = ASHR(Long, rt, k)
    BY <1>11, <1>14 DEF MIPS!Interpreted, WholeShifts, Short
  <2> QED BY <1>9, <2>1, <2>2 DEF EqualWhole
<1> QED BY <1>12, <1>13, <1>14 DEF WholeShifts, WholeShifts32

WithImmediate == {"ANDI", "ORI", "XORI", "DADDI", "DADDIU"}

LEMMA ImmediatesWhole ==
  ASSUME NEW s \in TypedRegisters, NEW i, MIPS!Decodable(i), Mode = Long, i.op \in WithImmediate
  PROVE  EqualWhole(s, i)
<1> DEFINE rs == s[i.rs]
           m == MIPS!Imm(i)
           n == i.imm
<1>1. Long \in Nat \ {0}
  BY MipsWidthsHold DEF MipsWidths
<1>2. /\ rs \in Word(Long) /\ rs \in Nat /\ MIPS!R(s, i.rs) = Exact(Long, rs)
      /\ m \in Word(Long) /\ m \in Int /\ n \in Word(Long)
  BY ImmediateTyped, RegistersRead
<1>3. MIPS!IMM(i) = Exact(Long, m) /\ MIPS!IMMU(i) = Exact(Long, n)
  BY <1>2, LongConstant DEF MIPS!IMM, MIPS!IMMU
<1>4. n \in Nat
  BY <1>1, <1>2, Whole
<1>5. /\ AND(Long, rs, n) \in Word(Long) /\ OR(Long, rs, n) \in Word(Long)
      /\ XOR(Long, rs, n) \in Word(Long)
  BY <1>1, <1>2, <1>4, LogicTyped
<1>6. ADD(Long, rs, m) \in Word(Long)
  <2>1. 0 \in Nat
    OBVIOUS
  <2> QED BY <1>1, <1>2, <2>1, ShiftsTyped
<1>7. /\ MIPS!tAND(Exact(Long, rs), Exact(Long, n)) = Exact(Long, AND(Long, rs, n))
      /\ MIPS!tOR(Exact(Long, rs), Exact(Long, n)) = Exact(Long, OR(Long, rs, n))
      /\ MIPS!tXOR(Exact(Long, rs), Exact(Long, n)) = Exact(Long, XOR(Long, rs, n))
      /\ MIPS!tADD(Exact(Long, rs), Exact(Long, m)) = Exact(Long, ADD(Long, rs, m))
  BY <1>1, <1>2, ExactSums DEF ADD
<1>8. /\ MIPS!AND(Long, rs, n) = AND(Long, rs, n) /\ MIPS!OR(Long, rs, n) = OR(Long, rs, n)
      /\ MIPS!XOR(Long, rs, n) = XOR(Long, rs, n)
  BY Bits64
<1>9. MIPS!ADD(Long, rs, m) = ADD(Long, rs, m)
  BY DEF MIPS!ADD, ADD
<1>10. CASE i.op = "ANDI"
  <2>1. MIPS!Whole(s, i) = Exact(Long, AND(Long, rs, n))
    BY <1>2, <1>3, <1>7, <1>10 DEF MIPS!Whole
  <2>2. MIPS!Interpreted(s, i) = AND(Long, rs, n)
    BY <1>8, <1>10 DEF MIPS!Interpreted, Long
  <2> QED BY <1>5, <2>1, <2>2 DEF EqualWhole
<1>11. CASE i.op = "ORI"
  <2>1. MIPS!Whole(s, i) = Exact(Long, OR(Long, rs, n))
    BY <1>2, <1>3, <1>7, <1>11 DEF MIPS!Whole
  <2>2. MIPS!Interpreted(s, i) = OR(Long, rs, n)
    BY <1>8, <1>11 DEF MIPS!Interpreted, Long
  <2> QED BY <1>5, <2>1, <2>2 DEF EqualWhole
<1>12. CASE i.op = "XORI"
  <2>1. MIPS!Whole(s, i) = Exact(Long, XOR(Long, rs, n))
    BY <1>2, <1>3, <1>7, <1>12 DEF MIPS!Whole
  <2>2. MIPS!Interpreted(s, i) = XOR(Long, rs, n)
    BY <1>8, <1>12 DEF MIPS!Interpreted, Long
  <2> QED BY <1>5, <2>1, <2>2 DEF EqualWhole
<1>13. CASE i.op \in {"DADDI", "DADDIU"}
  <2>1. MIPS!Whole(s, i) = Exact(Long, ADD(Long, rs, m))
    BY <1>2, <1>3, <1>7, <1>13 DEF MIPS!Whole
  <2>2. MIPS!Interpreted(s, i) = ADD(Long, rs, m)
    BY <1>9, <1>13 DEF MIPS!Interpreted, Long, MIPS!Imm
  <2> QED BY <1>6, <2>1, <2>2 DEF EqualWhole
<1> QED BY <1>10, <1>11, <1>12, <1>13 DEF WithImmediate

\* LUI shifts by half a word, which is no more than a double word has.
LEMMA UpperTyped ==
  ASSUME NEW s, NEW i, MIPS!Decodable(i), i.op = "LUI"
  PROVE  MIPS!Whole(s, i).val \in Word(Long) \cup {-1}
<1> DEFINE x == i.imm % 2^Mode
           y == MipsW16 % 2^Mode
<1>1. Mode \in Nat \ {0} /\ MipsW16 \in Nat
  BY MipsWidthsHold DEF MipsWidths, Mode, Short, Long
<1>2. i.imm \in Int /\ MipsW16 \in Int
  BY <1>1, ImmediateTyped, MipsWidthsHold, Whole DEF MipsWidths
<1>3. /\ MIPS!CONST(i.imm) = Exact(Mode, x) /\ x \in Word(Mode)
      /\ MIPS!CONST(MipsW16) = Exact(Mode, y) /\ y \in Word(Mode)
  BY <1>2, ModeConstant
<1>4. y \in Nat
  BY <1>1, <1>3, Whole
<1>5. SHL(Mode, x, y) \in Word(Mode)
  <2> HIDE DEF x, y
  <2>1. 0 \in Int
    OBVIOUS
  <2> QED BY <1>1, <1>3, <1>4, <2>1, ShiftsTyped, Zenon
<1>6. MIPS!tSHL(Exact(Mode, x), Exact(Mode, y)) = Exact(Mode, IF y >= Mode THEN -1 ELSE SHL(Mode, x, y))
  <2> HIDE DEF x, y
  <2> QED BY <1>1, <1>3, ExactShifts
<1>7. MIPS!Whole(s, i) = MIPS!tSHL(MIPS!CONST(i.imm), MIPS!CONST(MipsW16))
  BY DEF MIPS!Whole, MIPS!IMMU
<1> HIDE DEF x, y
<1>8. PICK z \in Word(Mode) \cup {-1} : MIPS!Whole(s, i) = Exact(Mode, z)
  BY <1>3, <1>5, <1>6, <1>7
<1>9. Word(Mode) \subseteq Word(Long)
  BY MipsWidthsHold DEF MipsWidths, Mode, Short, Long
<1> QED BY <1>8, <1>9 DEF Exact

\* In 32 bit mode the others have no type.
LEMMA RefusedWhole ==
  ASSUME NEW s \in TypedRegisters, NEW i, MIPS!Decodable(i), Mode # Long,
         i.op \in WholeShifts \cup WholeShifts32 \cup WithImmediate
  PROVE  MIPS!Whole(s, i) = MIPS!Mistyped
<1>1. Mode = Short /\ Short # Long /\ Short \in Nat \ {0} /\ Short \in Int
  BY MipsWidthsHold DEF MipsWidths, Mode, Short, Long
<1>2. /\ MIPS!R(s, i.rs) = Exact(Long, s[i.rs]) /\ MIPS!R(s, i.rt) = Exact(Long, s[i.rt])
      /\ i.imm \in Int /\ MIPS!Imm(i) \in Int /\ i.sa \in Int
  BY ImmediateTyped, RegistersRead, Whole, MipsWidthsHold DEF MipsWidths
<1>3. \A v \in Int : \E x \in Word(Short) : MIPS!CONST(v) = Exact(Short, x)
  BY <1>1, ModeConstant
<1>4. PICK a : MIPS!IMM(i) = Exact(Short, a)
  BY <1>2, <1>3 DEF MIPS!IMM
<1>5. PICK b : MIPS!IMMU(i) = Exact(Short, b)
  BY <1>2, <1>3 DEF MIPS!IMMU
<1>6. PICK c \in Word(Short) : MIPS!SA(i) = Exact(Short, c)
  BY <1>2, <1>3 DEF MIPS!SA
<1>7. PICK d \in Word(Short) : MIPS!CONST(MipsW32) = Exact(Short, d)
  BY <1>1, <1>3 DEF Short
<1>8. MIPS!tADD(Exact(Short, c), Exact(Short, d)) = Exact(Short, (c + d) % 2^Short)
  BY <1>1, <1>6, <1>7, ExactSums
<1> DEFINE x == s[i.rs]
           y == s[i.rt]
           e == (c + d) % 2^Short
<1> HIDE DEF x, y, e
<1>9. CASE i.op \in WithImmediate
  <2>1. MIPS!Whole(s, i) \in
          {MIPS!tAND(Exact(Long, x), Exact(Short, b)), MIPS!tOR(Exact(Long, x), Exact(Short, b)),
           MIPS!tXOR(Exact(Long, x), Exact(Short, b)), MIPS!tADD(Exact(Long, x), Exact(Short, a))}
    BY <1>2, <1>4, <1>5, <1>9 DEF MIPS!Whole, WithImmediate, x
  <2> QED BY <1>1, <2>1, MixedSizes
<1>10. CASE i.op \in WholeShifts
  <2>1. MIPS!Whole(s, i) \in
          {MIPS!tSHL(Exact(Long, y), Exact(Short, c)), MIPS!tLSHR(Exact(Long, y), Exact(Short, c)),
           MIPS!tASHR(Exact(Long, y), Exact(Short, c))}
    BY <1>2, <1>6, <1>10 DEF MIPS!Whole, WholeShifts, y
  <2> QED BY <1>1, <2>1, MixedSizes
<1>11. CASE i.op \in WholeShifts32
  <2>1. MIPS!tADD(MIPS!SA(i), MIPS!CONST(MipsW32)) = Exact(Short, e)
    BY <1>6, <1>7, <1>8 DEF e
  <2>2. MIPS!Whole(s, i) \in
          {MIPS!tSHL(Exact(Long, y), Exact(Short, e)), MIPS!tLSHR(Exact(Long, y), Exact(Short, e)),
           MIPS!tASHR(Exact(Long, y), Exact(Short, e))}
    BY <1>2, <1>11, <2>1 DEF MIPS!Whole, WholeShifts32, y
  <2> QED BY <1>1, <2>2, MixedSizes
<1> QED BY <1>9, <1>10, <1>11

LEMMA NoType == MIPS!Mistyped.bits = 0 /\ MIPS!Mistyped.val \in Word(Long)
<1>1. 2^Long \in Nat \ {0}
  BY MipsWidthsHold DEF MipsWidths
<1> QED BY <1>1 DEF MIPS!Mistyped, Word

LEMMA WrittenWhole ==
  ASSUME NEW s \in TypedRegisters, NEW i, MIPS!Decodable(i), i.op \in MIPS!OpsWhole, NEW a
  PROVE  /\ MIPS!Written(s, i, a).val \in Word(Long) \cup {-1}
         /\ i.op # "LUI" /\ MIPS!Written(s, i, a).bits = Long =>
              /\ MIPS!Written(s, i, a).val = MIPS!Interpreted(s, i)
              /\ MIPS!Interpreted(s, i) \in Word(Long)
<1>1. MIPS!Written(s, i, a) = MIPS!Whole(s, i)
  BY DEF MIPS!Written, MIPS!LET_, MIPS!Extended, MIPS!Ops32, MIPS!OpsWhole,
         MIPS!OpsCompare, MIPS!Loads, MIPS!Stores
<1>2. Long # 0
  BY MipsWidthsHold DEF MipsWidths
<1>3. ASSUME EqualWhole(s, i)
      PROVE  /\ MIPS!Written(s, i, a).val = MIPS!Interpreted(s, i)
             /\ MIPS!Interpreted(s, i) \in Word(Long)
  BY <1>1, <1>3 DEF EqualWhole, Exact
<1>4. CASE i.op = "LUI"
  BY <1>1, <1>4, UpperTyped
<1>5. CASE i.op \in {"DADD", "DADDU", "DSUB", "DSUBU"}
  BY <1>3, <1>5, SumsWhole
<1>6. CASE i.op \in WholeShifts \cup WholeShifts32 \cup WithImmediate
  <2>1. CASE Mode = Long
    BY <1>3, <1>6, <2>1, ShiftsWhole, ImmediatesWhole
  <2>2. CASE Mode # Long
    BY <1>1, <1>2, <1>6, <2>2, RefusedWhole, NoType
  <2> QED BY <2>1, <2>2
<1> QED BY <1>4, <1>5, <1>6 DEF MIPS!OpsWhole, WholeShifts, WholeShifts32, WithImmediate

--------------------------------------------------------------------------------
(***************************************************************************)
(* Comparisons, and the link of a call.                                    *)
(***************************************************************************)
LEMMA OneBit ==
  ASSUME NEW c \in BOOLEAN
  PROVE  /\ MIPS!LET_ZEXT(Exact(1, Bit(c))) = Exact(Long, Bit(c)) /\ Bit(c) \in Word(Long)
         /\ MIPS!Bit(c) = Bit(c)
<1>1. Long \in Nat /\ 1 < Long
  BY MipsWidthsHold DEF MipsWidths
<1>2. 2^1 = 2
  <2>1. 2^(0 + 1) = 2 * 2^0 /\ 2^0 = 1
    BY PowersOfTwo DEF Doubles
  <2> QED BY <2>1
<1>3. Bit(c) \in Word(1)
  BY <1>2 DEF Bit, Word
<1>4. /\ MIPS!Extended(Long, 1, FALSE, Exact(1, Bit(c))) = Exact(Long, Bit(c))
      /\ Bit(c) \in Word(Long)
  <2>1. 1 \in Nat \ {0}
    OBVIOUS
  <2> QED BY <1>1, <1>3, <2>1, Extensions, Zenon
<1>5. MIPS!Bit(c) = Bit(c)
  BY DEF MIPS!Bit, Bit
<1> QED BY <1>4, <1>5 DEF MIPS!LET_ZEXT, MIPS!Size, Long

LEMMA WrittenComparison ==
  ASSUME NEW s \in TypedRegisters, NEW i, MIPS!Decodable(i), i.op \in MIPS!OpsCompare, NEW a
  PROVE  /\ MIPS!Written(s, i, a).val \in Word(Long)
         /\ i.op # "SLTI" /\ MIPS!Written(s, i, a).bits = Long =>
              MIPS!Written(s, i, a).val = MIPS!Interpreted(s, i)
<1> DEFINE x == s[i.rs]
           y == s[i.rt]
           m == MIPS!Imm(i)
<1>1. MIPS!Written(s, i, a) = MIPS!LET_ZEXT(MIPS!Comparison(s, i))
  BY DEF MIPS!Written, MIPS!Ops32, MIPS!OpsWhole, MIPS!OpsCompare, MIPS!Loads, MIPS!Stores
<1>2. Long \in Nat \ {0} /\ 1 # Long /\ Long # 0
  BY MipsWidthsHold DEF MipsWidths
<1>3. /\ MIPS!R(s, i.rs) = Exact(Long, x) /\ x \in Nat
      /\ MIPS!R(s, i.rt) = Exact(Long, y) /\ y \in Nat
      /\ m \in Int /\ m \in Word(Long)
  BY ImmediateTyped, RegistersRead
<1>0. ASSUME NEW c \in BOOLEAN, MIPS!Comparison(s, i) = Exact(1, Bit(c)),
             i.op # "SLTI" => MIPS!Interpreted(s, i) = MIPS!Bit(c)
      PROVE  /\ MIPS!Written(s, i, a).val \in Word(Long)
             /\ i.op # "SLTI" => MIPS!Written(s, i, a).val = MIPS!Interpreted(s, i)
  <2> DEFINE b == Bit(c)
  <2>1. MIPS!Comparison(s, i) = Exact(1, b) /\ (i.op # "SLTI" => MIPS!Interpreted(s, i) = b)
    BY <1>0, OneBit, Zenon
  <2>2. MIPS!LET_ZEXT(Exact(1, b)) = Exact(Long, b) /\ b \in Word(Long)
    BY <1>0, OneBit, Zenon
  <2> HIDE DEF b
  <2>3. MIPS!Written(s, i, a) = Exact(Long, b)
    BY <1>1, <2>1, <2>2
  <2> QED BY <2>1, <2>2, <2>3 DEF Exact
<1>4. MIPS!ICMP_SLT(Long, x, y) = ICMP_SLT(Long, x, y) /\ ICMP_SLT(Long, x, y) \in BOOLEAN
  BY DEF MIPS!ICMP_SLT, ICMP_SLT, MIPS!Signed, Signed, MIPS!Negative, Negative
<1>5. CASE i.op = "SLT"
  <2>1. MIPS!Comparison(s, i) = Exact(1, Bit(ICMP_SLT(Long, x, y)))
    BY <1>2, <1>3, <1>5, ExactComparisons DEF MIPS!Comparison
  <2>2. MIPS!Interpreted(s, i) = MIPS!Bit(ICMP_SLT(Long, x, y))
    BY <1>4, <1>5 DEF MIPS!Interpreted, Long
  <2> QED BY <1>0, <1>4, <2>1, <2>2, Zenon
<1>6. CASE i.op = "SLTU"
  <2>1. MIPS!Comparison(s, i) = Exact(1, Bit(x < y))
    BY <1>2, <1>3, <1>6, ExactComparisons DEF MIPS!Comparison
  <2>2. MIPS!Interpreted(s, i) = MIPS!Bit(x < y)
    BY <1>6 DEF MIPS!Interpreted
  <2>3. (x < y) \in BOOLEAN
    BY <1>3
  <2> QED BY <1>0, <2>1, <2>2, <2>3, Zenon
<1>7. CASE i.op \in {"SLTI", "SLTIU"}
  <2>1. MIPS!Comparison(s, i) = MIPS!tULT(Exact(Long, x), MIPS!IMM(i))
    BY <1>3, <1>7 DEF MIPS!Comparison
  <2>2. CASE Mode # Long
    <3>1. PICK v : MIPS!IMM(i) = Exact(Mode, v)
      BY <1>3, ModeConstant DEF MIPS!IMM
    <3>2. MIPS!Comparison(s, i) = MIPS!Mistyped
      BY <2>1, <2>2, <3>1, MixedSizes
    <3>3. MIPS!Written(s, i, a) = MIPS!Mistyped
      BY <1>1, <1>2, <3>2, NoType DEF MIPS!LET_ZEXT, MIPS!Extended, MIPS!tZEXT, MIPS!Resize, MIPS!Size, Long
    <3> QED BY <1>2, <3>3, NoType
  <2>3. CASE Mode = Long
    <3>1. MIPS!Comparison(s, i) = Exact(1, Bit(x < m))
      BY <1>2, <1>3, <2>1, <2>3, LongConstant, ExactComparisons DEF MIPS!IMM
    <3>2. i.op # "SLTI" => MIPS!Interpreted(s, i) = MIPS!Bit(x < m)
      BY <1>7 DEF MIPS!Interpreted, MIPS!Imm
    <3>3. (x < m) \in BOOLEAN
      BY <1>3
    <3> QED BY <1>0, <3>1, <3>2, <3>3, Zenon
  <2> QED BY <1>7, <2>2, <2>3
<1> QED BY <1>5, <1>6, <1>7 DEF MIPS!OpsCompare

LEMMA WrittenLink ==
  ASSUME NEW s, NEW i, NEW a \in Nat, i.op \in {"JAL", "JALR", "BLTZAL", "BGEZAL"}
  PROVE  MIPS!Written(s, i, a).val \in Word(Long)
<1> DEFINE v == MIPS!SEXT(MipsW32, MipsW64, a) + 8
<1>1. MIPS!Written(s, i, a) = MIPS!Extended(Long, Short, TRUE, MIPS!CONST(v))
  BY DEF MIPS!Written, MIPS!LET32, MIPS!Link, MIPS!Size, Short, Long, MIPS!Ops32, MIPS!OpsWhole,
         MIPS!OpsCompare, MIPS!Loads, MIPS!Stores
<1>2. Short \in Nat \ {0} /\ Short < Long /\ 2^Long \in Nat \ {0} /\ 2^Short \in Nat \ {0}
      /\ Long # 0 /\ Short # 0 /\ Long \in Nat \ {0} /\ (Mode = Short \/ Mode = Long)
  BY MipsWidthsHold DEF MipsWidths, Mode, Short, Long
<1>3. v \in Int
  <2>1. Signed(Short, a) \in Int
    BY <1>2 DEF Signed
  <2>2. \A y \in Int : y % 2^Long \in Int
    BY <1>2, Residue
  <2> QED BY <2>1, <2>2, SameExtended DEF SEXT, Short, Long
<1> HIDE DEF v
<1>4. PICK x \in Word(Mode) : MIPS!CONST(v) = Exact(Mode, x)
  BY <1>3, ModeConstant
<1>5. CASE Mode = Long
  BY <1>1, <1>2, <1>4, <1>5, NoType DEF MIPS!Extended, MIPS!tSEXT, MIPS!Resize, Exact
<1>6. CASE Mode = Short
  <2>1. x \in Word(Short)
    BY <1>6
  <2>2. /\ MIPS!Extended(Long, Short, TRUE, Exact(Short, x)) = Exact(Long, SEXT(Short, Long, x))
        /\ SEXT(Short, Long, x) \in Word(Long)
    BY <1>2, <2>1, Extensions
  <2>3. MIPS!Written(s, i, a) = Exact(Long, SEXT(Short, Long, x))
    BY <1>1, <1>4, <1>6, <2>2
  <2> QED BY <2>2, <2>3 DEF Exact
<1> QED BY <1>2, <1>5, <1>6

--------------------------------------------------------------------------------
(***************************************************************************)
(* Loads.                                                                  *)
(***************************************************************************)
AddsBytes(big, a, n) ==
    big = [k \in 0..n |-> IF k = 0 THEN 0 ELSE big[k - 1] * 2^MipsW8 + MipsMemory[a + k - 1]]

LEMMA BytesAdd ==
  ASSUME NEW a \in Int, NEW n \in Nat
  PROVE  \E big : AddsBytes(big, a, n)
<1> DEFINE Adds(big, m) == AddsBytes(big, a, m)
           T == {m \in 0..n : ~\E big : Adds(big, m)}
<1>1. SUFFICES ASSUME T # {} PROVE FALSE
  <2>1. n \in 0..n
    OBVIOUS
  <2> QED BY <2>1
<1>2. PICK m \in T : m = 0 \/ (m - 1 \in 0..n /\ m - 1 \notin T)
  <2>1. T \in SUBSET (0..n) /\ n \in Nat
    OBVIOUS
  <2> HIDE DEF T
  <2> QED BY <1>1, <2>1, LeastMissed
<1>3. CASE m = 0
  <2> DEFINE big == [k \in 0..0 |-> 0]
  <2>1. Adds(big, m)
    BY <1>3 DEF AddsBytes
  <2> QED BY <1>2, <2>1
<1>4. CASE m # 0
  <2>1. PICK g : Adds(g, m - 1)
    BY <1>2, <1>4
  <2> DEFINE last == g[m - 1] * 2^MipsW8 + MipsMemory[a + m - 1]
             h == [k \in 0..m |-> IF k = m THEN last ELSE g[k]]
  <2>2. ASSUME NEW k \in 0..m
        PROVE  h[k] = IF k = 0 THEN 0 ELSE h[k - 1] * 2^MipsW8 + MipsMemory[a + k - 1]
    <3>1. CASE k = m
      BY <3>1, <1>2, <1>4
    <3>2. CASE k # m
      <4>1. k \in 0..(m - 1) /\ h[k] = g[k] /\ (k # 0 => h[k - 1] = g[k - 1])
        BY <3>2, <1>2, <1>4
      <4> QED BY <4>1, <2>1 DEF AddsBytes
    <3> QED BY <3>1, <3>2
  <2>3. Adds(h, m)
    BY <2>2 DEF AddsBytes
  <2> HIDE DEF h
  <2> QED BY <2>3, <1>2
<1> QED BY <1>3, <1>4

LEMMA Joined ==
  ASSUME NEW n \in Nat, NEW x \in Word(n), NEW y \in Word(MipsW8)
  PROVE  x * 2^MipsW8 + y \in Word(n + MipsW8)
<1> DEFINE p == 2^n
           q == 2^MipsW8
<1>1. p \in Nat \ {0} /\ q \in Nat \ {0} /\ 2^(n + MipsW8) = p * q
  BY PowerPositive, PowerSum, MipsWidthsHold DEF MipsWidths
<1>2. x \in 0..(p - 1) /\ y \in 0..(q - 1)
  BY DEF Word
<1>3. x * q + y \in 0..(p * q - 1)
  <2> HIDE DEF p, q
  <2>1. x * q \in Nat /\ x * q <= (p - 1) * q /\ (p - 1) * q = p * q - q /\ p * q \in Nat
    BY <1>1, <1>2
  <2> QED BY <1>1, <1>2, <2>1
<1> QED BY <1>1, <1>3 DEF Word

LEMMA BytesFit ==
  ASSUME NEW a \in Int, NEW n \in Nat, NEW big, AddsBytes(big, a, n),
         a..(a + n - 1) \subseteq DOMAIN MipsMemory
  PROVE  big[n] \in Word(n * MipsW8)
<1> DEFINE Fit(k) == big[k] \in Word(k * MipsW8)
           T == {k \in 0..n : ~Fit(k)}
<1>1. SUFFICES ASSUME T # {} PROVE FALSE
  <2>1. n \in 0..n
    OBVIOUS
  <2> QED BY <2>1
<1>2. PICK k \in T : k = 0 \/ (k - 1 \in 0..n /\ k - 1 \notin T)
  <2>1. T \in SUBSET (0..n) /\ n \in Nat
    OBVIOUS
  <2> HIDE DEF T
  <2> QED BY <1>1, <2>1, LeastMissed
<1>3. MipsW8 \in Nat
  BY MipsWidthsHold DEF MipsWidths
<1>4. CASE k = 0
  <2>1. big[0] = 0 /\ 0 * MipsW8 = 0 /\ 0 \in Word(0)
    BY <1>3, PowerPositive DEF AddsBytes, Word
  <2> QED BY <1>2, <1>4, <2>1
<1>5. CASE k # 0
  <2> DEFINE x == big[k - 1]
             y == MipsMemory[a + k - 1]
             w == (k - 1) * MipsW8
  <2>1. k \in Nat /\ k - 1 \in Nat /\ k \in 0..n
    BY <1>2, <1>5
  <2>2. w \in Nat /\ k * MipsW8 = w + MipsW8
    BY <1>3, <2>1
  <2>3. x \in Word(w)
    BY <1>2, <1>5
  <2>4. y \in Word(MipsW8)
    <3>1. a + k - 1 \in DOMAIN MipsMemory
      BY <2>1, <1>5
    <3> QED BY <3>1, MipsAssumption DEF MIPS!MipsAssumed, MIPS!Word, Word
  <2>5. big[k] = x * 2^MipsW8 + y
    BY <1>5, <2>1 DEF AddsBytes
  <2> HIDE DEF x, y, w
  <2>6. x * 2^MipsW8 + y \in Word(w + MipsW8)
    BY <2>2, <2>3, <2>4, Joined
  <2> QED BY <1>2, <2>2, <2>5, <2>6
<1> QED BY <1>4, <1>5

LEMMA BytesTyped ==
  ASSUME NEW a \in Int, NEW n \in Nat
  PROVE  /\ MIPS!Bytes(a, n) \in Word(n * MipsW8) \cup {-1}
         /\ a..(a + n - 1) \subseteq DOMAIN MipsMemory => MIPS!Bytes(a, n) \in Word(n * MipsW8)
<1> DEFINE big == CHOOSE big : AddsBytes(big, a, n)
<1>1. AddsBytes(big, a, n)
  BY BytesAdd
<1>2. MIPS!Bytes(a, n) = IF a..(a + n - 1) \subseteq DOMAIN MipsMemory THEN big[n] ELSE -1
  BY DEF MIPS!Bytes, MIPS!Poison, AddsBytes
<1> HIDE DEF big
<1> QED BY <1>1, <1>2, BytesFit

LEMMA AddressEqual ==
  ASSUME NEW s \in TypedRegisters, NEW i, MIPS!Decodable(i)
  PROVE  /\ MIPS!Signed(MipsW32, MIPS!Address(s, i).val)
              = Signed(Short, (s[i.rs] + MIPS!Imm(i)) % 2^Short)
         /\ MIPS!Signed(MipsW32, MIPS!u32(s[i.rs] + MIPS!Imm(i)))
              = Signed(Short, (s[i.rs] + MIPS!Imm(i)) % 2^Short)
         /\ Signed(Short, (s[i.rs] + MIPS!Imm(i)) % 2^Short) \in Int
<1> DEFINE rs == s[i.rs]
           p == 2^Short
           m == MIPS!Imm(i)
           x == (rs + m) % p
<1>1. p \in Nat \ {0} /\ Short \in Nat \ {0}
  BY MipsWidthsHold DEF MipsWidths
<1>2. /\ rs \in Int /\ MIPS!R32(s, i.rs) = Exact(Short, rs % p) /\ rs % p \in Word(Short)
      /\ m \in Int /\ MIPS!IMM32(i) = Exact(Short, m % p) /\ m % p \in Word(Short)
  BY ImmediateTyped, RegistersRead, Short32
<1>3. MIPS!Address(s, i) = Exact(Short, ((rs % p) + (m % p)) % p)
  <2>1. MIPS!Address(s, i) = MIPS!tADD(Exact(Short, rs % p), Exact(Short, m % p))
    BY <1>2 DEF MIPS!Address
  <2> QED BY <1>1, <1>2, <2>1, ExactSums
<1>4. ((rs % p) + (m % p)) % p = x /\ rs + m \in Int
  <2> HIDE DEF p, rs, m
  <2>1. ((rs % p) + (m % p)) % p = (rs + m) % p
    BY <1>1, <1>2, ModSum, Zenon
  <2>2. rs + m \in Int
    BY <1>2
  <2> QED BY <2>1, <2>2
<1>5. MIPS!Address(s, i).val = x
  BY <1>3, <1>4 DEF Exact
<1>6. MIPS!u32(rs + m) = x
  BY <1>4, Interpreters32
<1>7. x \in Int
  BY <1>1, <1>4, Residue
<1>8. Signed(Short, x) \in Int
  <2> HIDE DEF x, p
  <2> QED BY <1>1, <1>7 DEF Signed, p
<1> HIDE DEF x
<1>9. MIPS!Signed(MipsW32, x) = Signed(Short, x)
  BY DEF MIPS!Signed, Signed, MIPS!Negative, Negative, Short
<1> QED BY <1>5, <1>6, <1>8, <1>9 DEF x

\* How many bytes, and whether the sign is extended.
LoadSize(i) == CASE i.op \in {"LB", "LBU"} -> 1 [] i.op \in {"LH", "LHU"} -> 2 [] i.op = "LW" -> 4
LoadSigned(i) == i.op \in {"LB", "LH", "LW"}

LEMMA WrittenLoad ==
  ASSUME NEW s \in TypedRegisters, NEW i, MIPS!Decodable(i), i.op \in MIPS!Loads, NEW c
  PROVE  /\ MIPS!Written(s, i, c).val \in Word(Long) \cup {-1}
         /\ ~MIPS!Undefined(s, i) /\ MIPS!Written(s, i, c).bits = Long =>
              /\ MIPS!Written(s, i, c).val = MIPS!Interpreted(s, i)
              /\ MIPS!Interpreted(s, i) \in Word(Long)
<1> DEFINE a == Signed(Short, (s[i.rs] + MIPS!Imm(i)) % 2^Short)
           n == LoadSize(i)
           w == n * MipsW8
           first == IF i.op = "LW" THEN a ELSE a - (a % n)
           b == MIPS!Bytes(first, n)
           sign == LoadSigned(i)
<1>1. a \in Int
  BY AddressEqual
<1>2. n \in {1, 2, 4} /\ sign \in BOOLEAN
  BY DEF LoadSize, LoadSigned, MIPS!Loads
<1>3. /\ 1 * MipsW8 = MipsW8 /\ 2 * MipsW8 = MipsW16 /\ 4 * MipsW8 = Short
      /\ w \in Nat \ {0} /\ w < Long /\ Long # 0
  BY <1>2, MipsWidthsHold DEF MipsWidths
<1>4. a % n \in Int /\ first \in Int /\ (a % n = 0 => first = a)
  <2> HIDE DEF a, n
  <2>1. n \in Nat \ {0}
    BY <1>2
  <2>2. a % n \in Int
    BY <1>1, <2>1, Residue
  <2> QED BY <1>1, <2>2
<1>5. b \in Word(w) \cup {-1}
  <2> HIDE DEF first, n
  <2>1. n \in Nat
    BY <1>2
  <2> QED BY <1>4, <2>1, BytesTyped
<1>6. \/ MIPS!Written(s, i, c) = MIPS!Extended(Long, w, sign, Exact(w, b))
      \/ MIPS!Written(s, i, c) = MIPS!Extended(Long, w, sign, MIPS!Mistyped)
  <2>1. MIPS!Written(s, i, c) = MIPS!Loaded(s, i)
    BY DEF MIPS!Written, MIPS!Ops32, MIPS!OpsWhole, MIPS!OpsCompare, MIPS!Loads, MIPS!Stores
  <2>2. MIPS!Signed(MipsW32, MIPS!Address(s, i).val) = a
    BY AddressEqual
  <2>3. \A v : MIPS!Narrow(s, i, v) \in {v, MIPS!Mistyped}
    BY DEF MIPS!Narrow
  <2> HIDE DEF a
  <2>4. CASE i.op = "LB"
    <3>1. n = 1 /\ sign = TRUE
      BY <2>4 DEF LoadSize, LoadSigned
    <3>2. MIPS!Loaded(s, i) = MIPS!Extended(Long, MipsW8, TRUE, MIPS!Narrow(s, i, Exact(w, b)))
      BY <2>2, <2>4, <3>1 DEF MIPS!Loaded, MIPS!Size, Long, Exact
    <3>3. w = MipsW8
      BY <1>3, <3>1
    <3> HIDE DEF w, b, sign
    <3>4. MIPS!Narrow(s, i, Exact(w, b)) \in {Exact(w, b), MIPS!Mistyped}
      BY <2>3
    <3> QED BY <2>1, <3>1, <3>2, <3>3, <3>4
  <2>5. CASE i.op = "LBU"
    <3>1. n = 1 /\ sign = FALSE
      BY <2>5 DEF LoadSize, LoadSigned
    <3>2. MIPS!Loaded(s, i) = MIPS!Extended(Long, MipsW8, FALSE, MIPS!Narrow(s, i, Exact(w, b)))
      BY <2>2, <2>5, <3>1 DEF MIPS!Loaded, MIPS!Size, Long, Exact
    <3>3. w = MipsW8
      BY <1>3, <3>1
    <3> HIDE DEF w, b, sign
    <3>4. MIPS!Narrow(s, i, Exact(w, b)) \in {Exact(w, b), MIPS!Mistyped}
      BY <2>3
    <3> QED BY <2>1, <3>1, <3>2, <3>3, <3>4
  <2>6. CASE i.op = "LH"
    <3>1. n = 2 /\ sign = TRUE
      BY <2>6 DEF LoadSize, LoadSigned
    <3>2. MIPS!Loaded(s, i) = MIPS!Extended(Long, MipsW16, TRUE, MIPS!Narrow(s, i, Exact(w, b)))
      BY <2>2, <2>6, <3>1 DEF MIPS!Loaded, MIPS!Size, Long, Exact
    <3>3. w = MipsW16
      BY <1>3, <3>1
    <3> HIDE DEF w, b, sign
    <3>4. MIPS!Narrow(s, i, Exact(w, b)) \in {Exact(w, b), MIPS!Mistyped}
      BY <2>3
    <3> QED BY <2>1, <3>1, <3>2, <3>3, <3>4
  <2>7. CASE i.op = "LHU"
    <3>1. n = 2 /\ sign = FALSE
      BY <2>7 DEF LoadSize, LoadSigned
    <3>2. MIPS!Loaded(s, i) = MIPS!Extended(Long, MipsW16, FALSE, MIPS!Narrow(s, i, Exact(w, b)))
      BY <2>2, <2>7, <3>1 DEF MIPS!Loaded, MIPS!Size, Long, Exact
    <3>3. w = MipsW16
      BY <1>3, <3>1
    <3> HIDE DEF w, b, sign
    <3>4. MIPS!Narrow(s, i, Exact(w, b)) \in {Exact(w, b), MIPS!Mistyped}
      BY <2>3
    <3> QED BY <2>1, <3>1, <3>2, <3>3, <3>4
  <2>8. CASE i.op = "LW"
    <3>1. n = 4 /\ sign = TRUE
      BY <2>8 DEF LoadSize, LoadSigned
    <3>2. MIPS!Loaded(s, i) = MIPS!Extended(Long, MipsW32, TRUE, Exact(MipsW32, b))
      BY <2>2, <2>8, <3>1 DEF MIPS!Loaded, MIPS!Size, Long, Exact
    <3> QED BY <1>3, <2>1, <3>1, <3>2 DEF Short
  <2> QED BY <2>4, <2>5, <2>6, <2>7, <2>8 DEF MIPS!Loads
<1>7. CASE MIPS!Written(s, i, c) = MIPS!Extended(Long, w, sign, MIPS!Mistyped)
  <2>1. MIPS!Extended(Long, w, sign, MIPS!Mistyped) = MIPS!Mistyped
    <3> HIDE DEF w, sign
    <3> QED BY <1>3, NoType DEF MIPS!Extended, MIPS!tSEXT, MIPS!tZEXT, MIPS!Resize
  <2> QED BY <1>3, <1>7, <2>1, NoType
<1> DEFINE extended == IF sign THEN SEXT(w, Long, b) ELSE b
<1>8. ASSUME b \in Word(w), MIPS!Written(s, i, c) = MIPS!Extended(Long, w, sign, Exact(w, b))
      PROVE  MIPS!Written(s, i, c).val = extended /\ extended \in Word(Long)
  <2> HIDE DEF w, b
  <2>1. /\ MIPS!Extended(Long, w, TRUE, Exact(w, b)) = Exact(Long, SEXT(w, Long, b))
        /\ MIPS!Extended(Long, w, FALSE, Exact(w, b)) = Exact(Long, b)
        /\ SEXT(w, Long, b) \in Word(Long) /\ b \in Word(Long)
    BY <1>3, <1>8, Extensions
  <2> HIDE DEF sign
  <2>2. CASE sign
    <3>1. sign = TRUE
      BY <1>2, <2>2
    <3>2. MIPS!Written(s, i, c) = Exact(Long, SEXT(w, Long, b))
      BY <1>8, <2>1, <3>1
    <3> QED BY <2>1, <2>2, <3>2 DEF Exact
  <2>3. CASE ~sign
    <3>1. sign = FALSE
      BY <1>2, <2>3
    <3>2. MIPS!Written(s, i, c) = Exact(Long, b)
      BY <1>8, <2>1, <3>1
    <3> QED BY <2>1, <2>3, <3>2 DEF Exact
  <2> QED BY <2>2, <2>3
<1>9. ASSUME b = -1, MIPS!Written(s, i, c) = MIPS!Extended(Long, w, sign, Exact(w, b))
      PROVE  MIPS!Written(s, i, c).val = -1
  <2> HIDE DEF w, b, sign
  <2>1. MIPS!Extended(Long, w, sign, Exact(w, -1)).val = -1
    BY <1>3 DEF MIPS!Extended, MIPS!tSEXT, MIPS!tZEXT, MIPS!Resize, MIPS!Poison, Exact
  <2> QED BY <1>9, <2>1
<1>10. ASSUME ~MIPS!Undefined(s, i)
       PROVE  b \in Word(w) /\ MIPS!Interpreted(s, i) = extended
  <2>1. MIPS!Signed(MipsW32, MIPS!u32(s[i.rs] + MIPS!Imm(i))) = a
    BY AddressEqual
  <2> HIDE DEF a
  <2>2. a % n = 0 /\ a..(a + n - 1) \subseteq DOMAIN MipsMemory
    <3>1. n = CASE i.op \in {"LB", "LBU"} -> 1 [] i.op \in {"LH", "LHU"} -> 2 [] OTHER -> 4
      BY DEF LoadSize, MIPS!Loads
    <3> HIDE DEF n
    <3> QED BY <1>10, <2>1, <3>1 DEF MIPS!Undefined
  <2>3. b = MIPS!Bytes(a, n)
    BY <1>4, <2>2
  <2>4. b \in Word(w)
    <3> HIDE DEF n
    <3>1. n \in Nat
      BY <1>2
    <3>2. MIPS!Bytes(a, n) \in Word(n * MipsW8)
      BY <1>1, <2>2, <3>1, BytesTyped
    <3> QED BY <2>3, <3>2
  <2>5. MIPS!SEXT(MipsW8, MipsW64, b) = SEXT(MipsW8, Long, b)
        /\ MIPS!SEXT(MipsW16, MipsW64, b) = SEXT(MipsW16, Long, b)
    BY SameExtended DEF Long
  <2>6. i.op = "LW" => MIPS!s32(b) = SEXT(Short, Long, b)
    <3>1. i.op = "LW" => w = Short
      BY <1>3 DEF LoadSize
    <3> QED BY <2>4, <3>1, ReadAgain DEF Signed32
  <2> DEFINE address == MIPS!Signed(MipsW32, MIPS!u32(s[i.rs] + MIPS!Imm(i)))
  <2>7. MIPS!Interpreted(s, i) =
          CASE i.op = "LB" -> MIPS!SEXT(MipsW8, MipsW64, MIPS!Bytes(address, 1))
            [] i.op = "LBU" -> MIPS!Bytes(address, 1)
            [] i.op = "LH" -> MIPS!SEXT(MipsW16, MipsW64, MIPS!Bytes(address, 2))
            [] i.op = "LHU" -> MIPS!Bytes(address, 2)
            [] i.op = "LW" -> MIPS!s32(MIPS!Bytes(address, 4))
    <3>1. CASE i.op = "LB"
      BY <3>1 DEF MIPS!Interpreted, MIPS!Imm
    <3>2. CASE i.op = "LBU"
      BY <3>2 DEF MIPS!Interpreted, MIPS!Imm
    <3>3. CASE i.op = "LH"
      BY <3>3 DEF MIPS!Interpreted, MIPS!Imm
    <3>4. CASE i.op = "LHU"
      BY <3>4 DEF MIPS!Interpreted, MIPS!Imm
    <3>5. CASE i.op = "LW"
      BY <3>5 DEF MIPS!Interpreted, MIPS!Imm
    <3> QED BY <3>1, <3>2, <3>3, <3>4, <3>5 DEF MIPS!Loads
  <2>8. MIPS!Interpreted(s, i) =
          CASE i.op = "LB" -> SEXT(MipsW8, Long, b) [] i.op = "LBU" -> b
            [] i.op = "LH" -> SEXT(MipsW16, Long, b) [] i.op = "LHU" -> b
            [] i.op = "LW" -> SEXT(Short, Long, b)
    BY <2>1, <2>3, <2>5, <2>6, <2>7 DEF LoadSize, MIPS!Loads
  <2> HIDE DEF b
  <2>9. MIPS!Interpreted(s, i) = extended
    BY <1>3, <2>8 DEF LoadSize, LoadSigned, MIPS!Loads
  <2> QED BY <2>4, <2>9
<1> QED BY <1>5, <1>6, <1>7, <1>8, <1>9, <1>10

--------------------------------------------------------------------------------
(***************************************************************************)
(* One instruction, and a branch with its delay slot.                      *)
(***************************************************************************)
LEMMA LetTypedMips ==
  ASSUME NEW s \in TypedRegisters, NEW k \in MipsRegs, NEW v, k # 0 => v \in Word(Long)
  PROVE  MIPS!Let(s, k, v) \in TypedRegisters
BY DEF MIPS!Let, TypedRegisters

LEMMA DestinationTyped ==
  ASSUME NEW i, MIPS!Decodable(i)
  PROVE  MIPS!Destination(i) \in MipsRegs
<1>1. 0 \in MipsRegs /\ 31 \in MipsRegs
  BY MipsAssumption DEF MIPS!MipsAssumed
<1> QED BY <1>1, ImmediateTyped DEF MIPS!Destination

\* Every instruction leaves the registers their size.
LEMMA DoneTyped ==
  ASSUME NEW s \in TypedRegisters, NEW i, MIPS!Decodable(i), NEW a \in Nat,
         NEW t \in MIPS!Done(s, i, a)
  PROVE  t \in TypedRegisters
<1> DEFINE w == MIPS!Written(s, i, a)
           d == MIPS!Destination(i)
<1>1. d \in MipsRegs
  BY DestinationTyped
<1>2. ASSUME i.op \notin MIPS!Stores PROVE w.val \in Word(Long) \cup {-1}
  <2> DEFINE ops == MIPS!Ops32 \cup MIPS!OpsWhole \cup MIPS!OpsCompare \cup MIPS!Loads \cup
                    {"JAL", "JALR", "BLTZAL", "BGEZAL"}
  <2>1. CASE i.op \in ops
    BY <2>1, Written32, WrittenWhole, WrittenComparison, WrittenLoad, WrittenLink
  <2>2. CASE i.op \notin ops
    <3>1. w = MIPS!CONSTs(Long, 0)
      BY <1>2, <2>2 DEF MIPS!Written, MIPS!Size, Long
    <3>2. Long \in Nat \ {0} /\ 0 \in Int
      BY MipsWidthsHold DEF MipsWidths
    <3>3. w = Exact(Long, 0 % 2^Long) /\ 0 % 2^Long \in Word(Long)
      BY <3>1, <3>2, ExactConstants
    <3> QED BY <3>3 DEF Exact
  <2> QED BY <2>1, <2>2
<1>3. CASE d = 0
  BY <1>3 DEF MIPS!Done, MIPS!Let
<1>4. CASE d # 0
  <2>0. i.op \notin MIPS!Stores
    BY <1>4 DEF MIPS!Destination
  <2> HIDE DEF w, d
  <2>1. CASE w.val = -1
    <3>1. PICK x \in MipsValues : t = MIPS!Let(s, d, x)
      BY <2>1 DEF MIPS!Done, MIPS!Poison, w, d
    <3>2. x \in Word(Long)
      BY <3>1, MipsAssumption DEF MIPS!MipsAssumed, MIPS!Word, Word, Long
    <3> QED BY <1>1, <3>1, <3>2, LetTypedMips
  <2>2. CASE w.val # -1
    <3>1. t = MIPS!Let(s, d, w.val)
      BY <2>2 DEF MIPS!Done, MIPS!Poison, w, d
    <3> QED BY <1>1, <1>2, <2>0, <2>2, <3>1, LetTypedMips
  <2> QED BY <2>1, <2>2
<1> QED BY <1>3, <1>4

\* And does what the interpreter does.
LEMMA DoneAgrees ==
  ASSUME NEW s \in TypedRegisters, NEW i, MIPS!Decodable(i), NEW a \in Nat,
         ~MIPS!Refused(s, i, a), MIPS!Judged(s, i), ~MIPS!Disputed(s, i),
         NEW t \in MIPS!Done(s, i, a)
  PROVE  t = MIPS!InterpretedRegisters(s, i)
<1> DEFINE w == MIPS!Written(s, i, a)
           d == MIPS!Destination(i)
<1>1. CASE i.op = "CACHE"
  <2>1. i.op \in MIPS!NoOps /\ d = 0
    BY <1>1 DEF MIPS!NoOps, MIPS!Destination
  <2> QED BY <2>1 DEF MIPS!Done, MIPS!Let, MIPS!InterpretedRegisters
<1>2. CASE i.op # "CACHE"
  <2>1. i.op \in MIPS!Ops32 \cup MIPS!OpsWhole \cup MIPS!OpsCompare \cup MIPS!Loads
        /\ ~MIPS!Undefined(s, i) /\ i.op \notin {"SLTI", "LUI"}
    BY <1>2 DEF MIPS!Judged, MIPS!Disputed
  <2>2. i.op \notin MIPS!NoOps /\ i.op # "JR"
    BY <2>1 DEF MIPS!NoOps, MIPS!Branches, MIPS!Ops32, MIPS!OpsWhole, MIPS!OpsCompare, MIPS!Loads
  <2>3. w.bits = Long
    BY <2>2 DEF MIPS!Refused, MIPS!Size, Long
  <2>4. w.val = MIPS!Interpreted(s, i) /\ w.val \in Word(Long)
    BY <2>1, <2>3, Written32, WrittenWhole, WrittenComparison, WrittenLoad
  <2>5. w.val # -1
    BY <2>4, Whole, MipsWidthsHold DEF MipsWidths
  <2>6. t = MIPS!Let(s, d, w.val)
    BY <2>5 DEF MIPS!Done, MIPS!Poison
  <2> QED BY <2>2, <2>4, <2>6 DEF MIPS!InterpretedRegisters
<1> QED BY <1>1, <1>2

LEMMA CondAgrees ==
  ASSUME NEW s \in TypedRegisters, NEW i, MIPS!Decodable(i), i.op \in MIPS!Branches,
         MIPS!cond(s, i).bits = 1
  PROVE  /\ MIPS!cond(s, i).val = 1 => MIPS!InterpretedJump(s, i)
         /\ MIPS!cond(s, i).val = 0 => ~MIPS!InterpretedJump(s, i)
<1> DEFINE x == s[i.rs]
           y == s[i.rt]
<1>1. Long \in Nat \ {0} /\ 2^Long \in Nat \ {0} /\ Long - 1 \in Nat
  BY MipsWidthsHold DEF MipsWidths
<1>2. /\ MIPS!R(s, i.rs) = Exact(Long, x) /\ x \in Nat
      /\ MIPS!R(s, i.rt) = Exact(Long, y) /\ y \in Nat
  BY ImmediateTyped, RegistersRead
<1>3. ASSUME NEW b \in BOOLEAN
      PROVE  MIPS!tNOT(Exact(1, Bit(b))) = Exact(1, 1 - Bit(b))
  <2>1. 2^1 = 2
    <3>1. 2^(0 + 1) = 2 * 2^0 /\ 2^0 = 1
      BY PowersOfTwo DEF Doubles
    <3> QED BY <3>1
  <2>2. (1 - Bit(b)) % 2 = 1 - Bit(b)
    BY DEF Bit
  <2> QED BY <2>1, <2>2 DEF MIPS!tNOT, MIPS!CONSTs, Exact
<1>6. ASSUME NEW b \in BOOLEAN
       PROVE  /\ Exact(1, Bit(b)).val = 1 => b
              /\ Exact(1, Bit(b)).val = 0 => ~b
              /\ Exact(1, 1 - Bit(b)).val = 1 => ~b
              /\ Exact(1, 1 - Bit(b)).val = 0 => b
  BY DEF Exact, Bit
<1>4. CASE i.op \in {"BEQ", "BNE"}
  <2>1. MIPS!tEQ(MIPS!R(s, i.rs), MIPS!R(s, i.rt)) = Exact(1, Bit(x = y))
    BY <1>1, <1>2, ExactComparisons
  <2>2. MIPS!tNOT(Exact(1, Bit(x = y))) = Exact(1, 1 - Bit(x = y))
    <3> DEFINE b == x = y
    <3>1. b \in BOOLEAN
      OBVIOUS
    <3> HIDE DEF b
    <3> QED BY <1>3, <3>1, Zenon DEF b
  <2>3. /\ i.op = "BEQ" => MIPS!cond(s, i) = Exact(1, Bit(x = y)) /\ MIPS!InterpretedJump(s, i) = (x = y)
        /\ i.op = "BNE" => MIPS!cond(s, i) = Exact(1, 1 - Bit(x = y))
             /\ MIPS!InterpretedJump(s, i) = (x # y)
    BY <2>1, <2>2 DEF MIPS!cond, MIPS!InterpretedJump
  <2> DEFINE b == x = y
  <2>4. b \in BOOLEAN /\ (b <=> x = y)
    OBVIOUS
  <2>5. /\ i.op = "BEQ" => MIPS!cond(s, i) = Exact(1, Bit(b))
        /\ i.op = "BNE" => MIPS!cond(s, i) = Exact(1, 1 - Bit(b))
    BY <2>3
  <2>6. /\ i.op = "BEQ" => (MIPS!InterpretedJump(s, i) <=> b)
        /\ i.op = "BNE" => (MIPS!InterpretedJump(s, i) <=> ~b)
    BY <2>3
  <2> HIDE DEF b
  <2> QED BY <1>4, <1>6, <2>4, <2>5, <2>6, Zenon
<1>5. CASE i.op \in {"BLEZ", "BGTZ"}
  <2> DEFINE less == MIPS!tSLT(MIPS!CONST(0), Exact(Long, x))
             b == ICMP_SLT(Long, 0, x)
  <2>1. /\ i.op = "BLEZ" => MIPS!cond(s, i) = MIPS!tNOT(less)
        /\ i.op = "BGTZ" => MIPS!cond(s, i) = less
    BY <1>2, <1>5 DEF MIPS!cond, MIPS!tSLE0
  <2>2. Mode = Long
    <3>1. SUFFICES ASSUME Mode # Long PROVE FALSE
      OBVIOUS
    <3>2. PICK v : MIPS!CONST(0) = Exact(Mode, v)
      BY ModeConstant
    <3>3. less = MIPS!Mistyped
      BY <3>1, <3>2, MixedSizes
    <3>4. MIPS!tNOT(less) = MIPS!Mistyped
      BY <3>3, NoType DEF MIPS!tNOT
    <3> QED BY <1>5, <2>1, <3>3, <3>4, NoType
  <2>3. MIPS!CONST(0) = Exact(Long, 0)
    <3>1. 0 \in Word(Long)
      BY <1>1 DEF Word
    <3> QED BY <2>2, <3>1, LongConstant
  <2>4. less = Exact(1, Bit(b))
    BY <1>1, <2>3, ExactComparisons
  <2>5. b \in BOOLEAN
    BY DEF ICMP_SLT
  <2>6. MIPS!tNOT(less) = Exact(1, 1 - Bit(b))
    <3> HIDE DEF b
    <3> QED BY <1>3, <2>4, <2>5, Zenon
  <2>7. b <=> MIPS!Signed(MipsW64, x) > 0
    <3>1. 2^(Long - 1) \in Nat \ {0}
      BY <1>1, PowerPositive
    <3>2. Signed(Long, 0) = 0
      BY <3>1 DEF Signed, Negative
    <3>3. Signed(Long, x) \in Int /\ MIPS!Signed(MipsW64, x) = Signed(Long, x)
      BY <1>1, <1>2 DEF Signed, Negative, MIPS!Signed, MIPS!Negative, Long
    <3> QED BY <3>2, <3>3 DEF ICMP_SLT
  <2>8. MIPS!Signed(MipsW64, x) \in Int
    BY <1>1, <1>2 DEF MIPS!Signed, Long
  <2>9. /\ i.op = "BLEZ" => (MIPS!InterpretedJump(s, i) <=> MIPS!Signed(MipsW64, x) <= 0)
        /\ i.op = "BGTZ" => (MIPS!InterpretedJump(s, i) <=> MIPS!Signed(MipsW64, x) > 0)
    BY DEF MIPS!InterpretedJump
  <2>10. /\ i.op = "BLEZ" => (MIPS!InterpretedJump(s, i) <=> ~b)
         /\ i.op = "BGTZ" => (MIPS!InterpretedJump(s, i) <=> b)
    <3> HIDE DEF b
    <3> QED BY <2>7, <2>8, <2>9
  <2>11. /\ i.op = "BLEZ" => MIPS!cond(s, i) = Exact(1, 1 - Bit(b))
         /\ i.op = "BGTZ" => MIPS!cond(s, i) = Exact(1, Bit(b))
    <3> HIDE DEF b, less
    <3> QED BY <2>1, <2>4, <2>6
  <2> HIDE DEF b, less
  <2> QED BY <1>6, <1>5, <2>5, <2>10, <2>11, Zenon
<1> QED BY <1>4, <1>5 DEF MIPS!Branches

--------------------------------------------------------------------------------
(***************************************************************************)
(* MIPS as one of the guests.  The agreement is about the last step alone: *)
(* what a step has to find is that the registers have their size.          *)
(***************************************************************************)
OfMips == {"MIPS64", "MIPS32"}

MipsTyped ==
    /\ prog \in MipsPrograms64 \cup MipsPrograms32
    /\ r \in TypedRegisters

MipsInv == guest \in OfMips => MipsTyped /\ MIPS!InterpreterAgrees /\ MIPS!BranchesAgree

LEMMA CodeDecodable ==
  ASSUME MipsTyped, NEW a \in DOMAIN prog
  PROVE  a \in Nat /\ MIPS!Decodable(prog[a])
BY MipsAssumption DEF MipsTyped, MIPS!Code

LEMMA MipsStarts == MCInit => MipsInv
<1> SUFFICES ASSUME MCInit, guest \in OfMips
             PROVE  MipsTyped /\ MIPS!InterpreterAgrees /\ MIPS!BranchesAgree
  BY DEF MipsInv
<1>1. prog \in MipsPrograms64 \cup MipsPrograms32 /\ r \in MipsRegisters /\ did = <<>>
  BY DEF MCInit, OfMips, MipsInit
<1>2. r \in TypedRegisters
  BY <1>1, MipsAssumption DEF MIPS!MipsAssumed, MIPS!Word, Word, TypedRegisters, Long
<1>3. ~MIPS!Straight
  BY <1>1 DEF MIPS!Straight
<1> QED BY <1>1, <1>2, <1>3 DEF MipsTyped, MIPS!InterpreterAgrees, MIPS!BranchesAgree

\* Every step leaves the registers their size: the registers after a delay slot are
\* those after the slot of what the branch left.
LEMMA MipsStepTyped ==
  ASSUME MipsTyped, MIPS!Step
  PROVE  MipsTyped'
<1> DEFINE i == prog[pc]
<1>1. pc \in DOMAIN prog /\ prog' = prog
  BY DEF MIPS!Step, MIPS!Fail
<1>2. pc \in Nat /\ MIPS!Decodable(i)
  BY <1>1, CodeDecodable
<1>3. ASSUME NEW s \in TypedRegisters, NEW target, MIPS!After(i, s, target)
      PROVE  r' \in TypedRegisters
  <2>1. CASE MIPS!Delayed(i)
    <3>1. pc + 4 \in DOMAIN prog
      BY <2>1 DEF MIPS!Step
    <3>2. MIPS!Decodable(MIPS!Slot) /\ pc + 4 \in Nat
      BY <3>1, CodeDecodable DEF MIPS!Slot
    <3>3. r' \in MIPS!Done(s, MIPS!Slot, pc + 4)
      BY <1>3, <2>1 DEF MIPS!After
    <3> QED BY <3>2, <3>3, DoneTyped
  <2>2. CASE ~MIPS!Delayed(i)
    BY <1>3, <2>2 DEF MIPS!After
  <2> QED BY <2>1, <2>2
<1>4. CASE MIPS!Fail(i)
  BY <1>4 DEF MIPS!Fail, MipsTyped
<1>5. CASE MIPS!Taken(i)
  <2>1. PICK s \in MIPS!Done(r, i, pc) : \E target : MIPS!After(i, s, target)
    BY <1>5 DEF MIPS!Taken
  <2>2. s \in TypedRegisters
    BY <1>2, <2>1, DoneTyped DEF MipsTyped
  <2> QED BY <1>1, <1>3, <2>1, <2>2 DEF MipsTyped
<1>6. CASE MIPS!Untaken(i)
  <2>1. MIPS!After(i, r, MIPS!next_pc(i, pc))
    BY <1>6 DEF MIPS!Untaken
  <2> QED BY <1>1, <1>3, <2>1 DEF MipsTyped
<1> QED BY <1>4, <1>5, <1>6 DEF MIPS!Step

\* What is about the last step stays so when there is none.
LEMMA MipsIdle ==
  ASSUME MIPS!InterpreterAgrees, MIPS!BranchesAgree, UNCHANGED <<guest, prog, r, pc, did, before>>
  PROVE  MIPS!InterpreterAgrees' /\ MIPS!BranchesAgree'
BY DEF MIPS!InterpreterAgrees, MIPS!BranchesAgree, MIPS!Straight

LEMMA StraightAgrees ==
  ASSUME MipsTyped, MIPS!Step, ~MIPS!Fail(prog[pc]), UNCHANGED guest
  PROVE  MIPS!InterpreterAgrees'
<1> DEFINE i == prog[pc]
<1>1. /\ pc \in DOMAIN prog /\ prog' = prog /\ before' = [r |-> r, pc |-> pc]
      /\ MIPS!Compiles(i) /\ (MIPS!Taken(i) \/ MIPS!Untaken(i))
  BY DEF MIPS!Step
<1>2. pc \in Nat /\ MIPS!Decodable(i) /\ r \in TypedRegisters
  BY <1>1, CodeDecodable DEF MipsTyped
<1>3. ASSUME MIPS!tag(i) = {"CONTINUE"}, ~MIPS!Disputed(r, i), MIPS!Judged(r, i)
      PROVE  r' = MIPS!InterpretedRegisters(r, i)
  <2>1. ~MIPS!Delayed(i) /\ "CONDITIONAL" \notin MIPS!tag(i)
    BY <1>3 DEF MIPS!Delayed
  <2>2. MIPS!Taken(i)
    BY <1>1, <2>1 DEF MIPS!Untaken
  <2>3. PICK s \in MIPS!Done(r, i, pc) : \E target : MIPS!After(i, s, target)
    BY <2>2 DEF MIPS!Taken
  <2>4. r' = s
    BY <2>1, <2>3 DEF MIPS!After
  <2>5. ~MIPS!Refused(r, i, pc)
    BY <1>1, <2>1 DEF MIPS!Compiles, MIPS!Compiled
  <2> QED BY <1>2, <1>3, <2>3, <2>4, <2>5, DoneAgrees
<1>4. before'.r = r /\ before'.pc = pc /\ prog'[before'.pc] = i
  BY <1>1
<1> QED BY <1>3, <1>4 DEF MIPS!InterpreterAgrees, MIPS!Straight

LEMMA BranchTags ==
  ASSUME NEW i, i.op \in MIPS!Branches
  PROVE  /\ MIPS!Delayed(i) /\ "BRANCH" \in MIPS!tag(i) /\ "RET" \notin MIPS!tag(i)
         /\ "CONDITIONAL" \notin MIPS!tag(i) => i.op = "BEQ" /\ i.rs = i.rt
         /\ i.op \notin MIPS!Regimm \cup {"JALR", "J", "JAL"}
         /\ MIPS!Destination(i) = 0
BY DEF MIPS!Branches, MIPS!Delayed, MIPS!tag, MIPS!Regimm, MIPS!Likely, MIPS!Trapping,
       MIPS!Destination, MIPS!NoOps

LEMMA BranchAgrees ==
  ASSUME MipsTyped, MIPS!Step, ~MIPS!Fail(prog[pc]), UNCHANGED guest
  PROVE  MIPS!BranchesAgree'
<1> DEFINE i == prog[pc]
           slot == prog[pc + 4]
           target == MIPS!u32(pc + 4 + MIPS!SEXT(MipsW16, MipsW32, i.imm) * 4)
<1>1. /\ pc \in DOMAIN prog /\ prog' = prog /\ before' = [r |-> r, pc |-> pc]
      /\ MIPS!Compiles(i) /\ (MIPS!Taken(i) \/ MIPS!Untaken(i))
  BY DEF MIPS!Step
<1>2. pc \in Nat /\ MIPS!Decodable(i) /\ r \in TypedRegisters
  BY <1>1, CodeDecodable DEF MipsTyped
<1>3. before'.r = r /\ before'.pc = pc
  BY <1>1
<1>4. SUFFICES ASSUME i.op \in MIPS!Branches, MIPS!Judged(r, slot), ~MIPS!Disputed(r, slot)
               PROVE  /\ r' = MIPS!InterpretedRegisters(r, slot)
                      /\ pc' = IF MIPS!InterpretedJump(r, i) THEN target ELSE pc + 8
  BY <1>1, <1>3 DEF MIPS!BranchesAgree
<1>5. /\ MIPS!Delayed(i) /\ "BRANCH" \in MIPS!tag(i) /\ "RET" \notin MIPS!tag(i)
      /\ "CONDITIONAL" \notin MIPS!tag(i) => i.op = "BEQ" /\ i.rs = i.rt
      /\ i.op \notin MIPS!Regimm \cup {"JALR", "J", "JAL"}
      /\ MIPS!Destination(i) = 0
  BY <1>4, BranchTags
<1>6. pc + 4 \in DOMAIN prog /\ pc + 4 \in Nat /\ MIPS!Decodable(slot)
  BY <1>5, CodeDecodable DEF MIPS!Step
<1>7. ASSUME MIPS!After(i, r, pc') PROVE r' = MIPS!InterpretedRegisters(r, slot)
  <2>1. r' \in MIPS!Done(r, slot, pc + 4)
    BY <1>5, <1>7 DEF MIPS!After, MIPS!Slot
  <2>2. ~MIPS!Refused(r, slot, pc + 4)
    BY <1>1, <1>5 DEF MIPS!Compiles, MIPS!Compiled, MIPS!Slot
  <2> QED BY <1>2, <1>4, <1>6, <2>1, <2>2, DoneAgrees
<1>8. "CONDITIONAL" \in MIPS!tag(i) => MIPS!cond(r, i).bits = 1
  BY <1>1 DEF MIPS!Compiles
<1>9. CASE MIPS!Taken(i)
  <2>1. MIPS!new_pc(i, pc) = target /\ target # -1
    <3>1. MIPS!new_pc(i, pc) = MIPS!BranchTarget(i, pc)
      BY <1>5 DEF MIPS!new_pc
    <3>2. MIPS!BranchTarget(i, pc) = target
      BY DEF MIPS!BranchTarget, MIPS!u32, MIPS!TRUNC
    <3>3. target \in Nat
      <4>1. SEXT(MipsW16, MipsW32, i.imm) \in Int
        <5>1. i.imm \in Word(MipsW16) /\ MipsW16 \in Nat \ {0} /\ Short \in Nat /\ Short >= MipsW16
          BY <1>2, ImmediateTyped, MipsWidthsHold DEF MipsWidths
        <5>2. SEXT(MipsW16, Short, i.imm) \in Word(Short)
          BY <5>1, ExtendedTyped
        <5> QED BY <5>1, <5>2, Whole DEF Short
      <4>2. pc + 4 + MIPS!SEXT(MipsW16, MipsW32, i.imm) * 4 \in Int
        BY <1>2, <4>1, SameExtended
      <4> DEFINE x == pc + 4 + MIPS!SEXT(MipsW16, MipsW32, i.imm) * 4
      <4> HIDE DEF x
      <4>3. MIPS!u32(x) = x % 2^Short /\ x % 2^Short \in Word(Short)
        BY <4>2, Interpreters32 DEF x
      <4>4. MIPS!u32(x) \in Nat
        BY <4>3, Whole, MipsWidthsHold DEF MipsWidths
      <4> QED BY <4>4 DEF x
    <3> HIDE DEF target
    <3> QED BY <3>1, <3>2, <3>3
  <2> HIDE DEF target
  <2>2. PICK s \in MIPS!Done(r, i, pc) : MIPS!After(i, s, target)
    BY <1>5, <1>9, <2>1 DEF MIPS!Taken, MIPS!NoPc
  <2>3. s = r
    BY <1>5, <2>2 DEF MIPS!Done, MIPS!Let
  <2>4. pc' = target
    BY <2>2 DEF MIPS!After
  <2>5. MIPS!InterpretedJump(r, i)
    <3>1. CASE "CONDITIONAL" \in MIPS!tag(i)
      <4>1. MIPS!cond(r, i).val = 1
        BY <1>9, <3>1 DEF MIPS!Taken
      <4> QED BY <1>2, <1>4, <1>8, <3>1, <4>1, CondAgrees
    <3>2. CASE "CONDITIONAL" \notin MIPS!tag(i)
      BY <1>5, <3>2 DEF MIPS!InterpretedJump
    <3> QED BY <3>1, <3>2
  <2> QED BY <1>7, <2>2, <2>3, <2>4, <2>5
<1>10. CASE MIPS!Untaken(i)
  <2>1. "CONDITIONAL" \in MIPS!tag(i) /\ MIPS!cond(r, i).val = 0 /\ MIPS!After(i, r, MIPS!next_pc(i, pc))
    BY <1>10 DEF MIPS!Untaken
  <2>2. pc' = pc + 8 /\ MIPS!After(i, r, pc')
    BY <1>5, <2>1 DEF MIPS!After, MIPS!next_pc, MIPS!Delayed
  <2>3. ~MIPS!InterpretedJump(r, i)
    BY <1>2, <1>4, <1>8, <2>1, CondAgrees
  <2> QED BY <1>7, <2>2, <2>3
<1> QED BY <1>1, <1>9, <1>10

LEMMA MipsKept == MipsInv /\ [MCNext]_allvars => MipsInv'
<1> SUFFICES ASSUME MipsInv, [MCNext]_allvars, guest' \in OfMips
             PROVE  MipsTyped' /\ MIPS!InterpreterAgrees' /\ MIPS!BranchesAgree'
  BY DEF MipsInv
<1>1. guest' = guest
  BY DEF MCNext, allvars
<1>2. MipsTyped /\ MIPS!InterpreterAgrees /\ MIPS!BranchesAgree
  BY <1>1 DEF MipsInv
<1>3. CASE UNCHANGED allvars
  <2>1. UNCHANGED <<guest, prog, r, pc, did, before>>
    BY <1>3 DEF allvars, mips, vars
  <2> QED BY <1>2, <2>1, MipsIdle DEF MipsTyped
<1>4. CASE NextMips
  <2>1. MIPS!Step
    BY <1>4 DEF NextMips, MIPS!Next
  <2>2. MipsTyped'
    BY <1>2, <2>1, MipsStepTyped
  <2>3. CASE MIPS!Fail(prog[pc])
    <3>1. UNCHANGED <<guest, prog, r, pc, did, before>>
      BY <1>1, <2>3 DEF MIPS!Fail
    <3> QED BY <1>2, <2>2, <3>1, MipsIdle
  <2>4. CASE ~MIPS!Fail(prog[pc])
    BY <1>1, <1>2, <2>1, <2>2, <2>4, StraightAgrees, BranchAgrees
  <2> QED BY <2>3, <2>4
<1> QED BY <1>1, <1>3, <1>4
        DEF MCNext, OfMips, Next6502, NextStack, Next88k, NextArm, NextFapra, NextX86

\* The translated instructions of MIPS do what the interpreter beside it does, and its
\* branches decide by the registers before their delay slots, in both modes, for words of
\* any width, any program of decodable instructions and any content of the registers and
\* of the memory (mips_translate.cpp, CPUInterpreter.cpp).
THEOREM InterpretersEqual == MCSpec => []InterpretersAgree
<1>1. MipsInv => InterpretersAgree
  BY DEF MipsInv, OfMips, InterpretersAgree
<1> QED BY <1>1, MipsStarts, MipsKept, PTL DEF MCSpec

--------------------------------------------------------------------------------
\* Nothing done yet.  An operator of its own, because the provers take every function
\* for a sequence where they see the empty one.
Idle == did = <<>>


--------------------------------------------------------------------------------
(***************************************************************************)
(* The ARM.                                                                *)
(***************************************************************************)
Flags32 == [{"N", "Z", "C", "V"} -> 0..1]

\* The bit of a row of the table that belongs to flags.
Column(f) == 15 - (8 * f.Z + 4 * f.C + 2 * f.N + f.V)

LEMMA ConditionTable ==
  ASSUME NEW cond \in 0..15, NEW f \in Flags32
  PROVE  (cond # 14 => Arm7!translate_cond(f, cond))
            <=> (Arm7!ARMcond[cond + 1] \div 2^Column(f)) % 2 = 1
<1>1. f.Z \in 0..1 /\ f.C \in 0..1 /\ f.N \in 0..1 /\ f.V \in 0..1
  BY DEF Flags32
<1> DEFINE d(k) == (Arm7!ARMcond[cond + 1] \div 2^k) % 2
           k == Column(f)
           row == <<255, 65280, 3855, 61680, 13107, 52428, 21845, 43690,
                    3840, 61695, 39321, 26214, 39168, 26367, 65535, 0>>
<1> SUFFICES (cond # 14 => Arm7!translate_cond(f, cond)) <=> d(k) = 1
  OBVIOUS
<1>2. Arm7!ARMcond[cond + 1] = row[cond + 1]
  BY DEF Arm7!ARMcond
<1>3. cond \in {0, 1, 2, 3, 4, 5, 6, 7, 8, 9, 10, 11, 12, 13, 14, 15}
  OBVIOUS
<1>4. CASE cond = 0
  <2>1. /\ d(0) = 1 /\ d(1) = 1 /\ d(2) = 1 /\ d(3) = 1 /\ d(4) = 1 /\ d(5) = 1 /\ d(6) = 1 /\ d(7) = 1
        /\ d(8) = 0 /\ d(9) = 0 /\ d(10) = 0 /\ d(11) = 0 /\ d(12) = 0 /\ d(13) = 0 /\ d(14) = 0
             /\ d(15) = 0
    BY <1>2, <1>4, SmallPowers
  <2> HIDE DEF d
  <2> QED BY <1>1, <1>4, <2>1 DEF Arm7!translate_cond, Column
<1>5. CASE cond = 1
  <2>1. /\ d(0) = 0 /\ d(1) = 0 /\ d(2) = 0 /\ d(3) = 0 /\ d(4) = 0 /\ d(5) = 0 /\ d(6) = 0 /\ d(7) = 0
        /\ d(8) = 1 /\ d(9) = 1 /\ d(10) = 1 /\ d(11) = 1 /\ d(12) = 1 /\ d(13) = 1 /\ d(14) = 1
             /\ d(15) = 1
    BY <1>2, <1>5, SmallPowers
  <2> HIDE DEF d
  <2> QED BY <1>1, <1>5, <2>1 DEF Arm7!translate_cond, Column
<1>6. CASE cond = 2
  <2>1. /\ d(0) = 1 /\ d(1) = 1 /\ d(2) = 1 /\ d(3) = 1 /\ d(4) = 0 /\ d(5) = 0 /\ d(6) = 0 /\ d(7) = 0
        /\ d(8) = 1 /\ d(9) = 1 /\ d(10) = 1 /\ d(11) = 1 /\ d(12) = 0 /\ d(13) = 0 /\ d(14) = 0
             /\ d(15) = 0
    BY <1>2, <1>6, SmallPowers
  <2> HIDE DEF d
  <2> QED BY <1>1, <1>6, <2>1 DEF Arm7!translate_cond, Column
<1>7. CASE cond = 3
  <2>1. /\ d(0) = 0 /\ d(1) = 0 /\ d(2) = 0 /\ d(3) = 0 /\ d(4) = 1 /\ d(5) = 1 /\ d(6) = 1 /\ d(7) = 1
        /\ d(8) = 0 /\ d(9) = 0 /\ d(10) = 0 /\ d(11) = 0 /\ d(12) = 1 /\ d(13) = 1 /\ d(14) = 1
             /\ d(15) = 1
    BY <1>2, <1>7, SmallPowers
  <2> HIDE DEF d
  <2> QED BY <1>1, <1>7, <2>1 DEF Arm7!translate_cond, Column
<1>8. CASE cond = 4
  <2>1. /\ d(0) = 1 /\ d(1) = 1 /\ d(2) = 0 /\ d(3) = 0 /\ d(4) = 1 /\ d(5) = 1 /\ d(6) = 0 /\ d(7) = 0
        /\ d(8) = 1 /\ d(9) = 1 /\ d(10) = 0 /\ d(11) = 0 /\ d(12) = 1 /\ d(13) = 1 /\ d(14) = 0
             /\ d(15) = 0
    BY <1>2, <1>8, SmallPowers
  <2> HIDE DEF d
  <2> QED BY <1>1, <1>8, <2>1 DEF Arm7!translate_cond, Column
<1>9. CASE cond = 5
  <2>1. /\ d(0) = 0 /\ d(1) = 0 /\ d(2) = 1 /\ d(3) = 1 /\ d(4) = 0 /\ d(5) = 0 /\ d(6) = 1 /\ d(7) = 1
        /\ d(8) = 0 /\ d(9) = 0 /\ d(10) = 1 /\ d(11) = 1 /\ d(12) = 0 /\ d(13) = 0 /\ d(14) = 1
             /\ d(15) = 1
    BY <1>2, <1>9, SmallPowers
  <2> HIDE DEF d
  <2> QED BY <1>1, <1>9, <2>1 DEF Arm7!translate_cond, Column
<1>10. CASE cond = 6
  <2>1. /\ d(0) = 1 /\ d(1) = 0 /\ d(2) = 1 /\ d(3) = 0 /\ d(4) = 1 /\ d(5) = 0 /\ d(6) = 1 /\ d(7) = 0
        /\ d(8) = 1 /\ d(9) = 0 /\ d(10) = 1 /\ d(11) = 0 /\ d(12) = 1 /\ d(13) = 0 /\ d(14) = 1
             /\ d(15) = 0
    BY <1>2, <1>10, SmallPowers
  <2> HIDE DEF d
  <2> QED BY <1>1, <1>10, <2>1 DEF Arm7!translate_cond, Column
<1>11. CASE cond = 7
  <2>1. /\ d(0) = 0 /\ d(1) = 1 /\ d(2) = 0 /\ d(3) = 1 /\ d(4) = 0 /\ d(5) = 1 /\ d(6) = 0 /\ d(7) = 1
        /\ d(8) = 0 /\ d(9) = 1 /\ d(10) = 0 /\ d(11) = 1 /\ d(12) = 0 /\ d(13) = 1 /\ d(14) = 0
             /\ d(15) = 1
    BY <1>2, <1>11, SmallPowers
  <2> HIDE DEF d
  <2> QED BY <1>1, <1>11, <2>1 DEF Arm7!translate_cond, Column
<1>12. CASE cond = 8
  <2>1. /\ d(0) = 0 /\ d(1) = 0 /\ d(2) = 0 /\ d(3) = 0 /\ d(4) = 0 /\ d(5) = 0 /\ d(6) = 0 /\ d(7) = 0
        /\ d(8) = 1 /\ d(9) = 1 /\ d(10) = 1 /\ d(11) = 1 /\ d(12) = 0 /\ d(13) = 0 /\ d(14) = 0
             /\ d(15) = 0
    BY <1>2, <1>12, SmallPowers
  <2> HIDE DEF d
  <2> QED BY <1>1, <1>12, <2>1 DEF Arm7!translate_cond, Column
<1>13. CASE cond = 9
  <2>1. /\ d(0) = 1 /\ d(1) = 1 /\ d(2) = 1 /\ d(3) = 1 /\ d(4) = 1 /\ d(5) = 1 /\ d(6) = 1 /\ d(7) = 1
        /\ d(8) = 0 /\ d(9) = 0 /\ d(10) = 0 /\ d(11) = 0 /\ d(12) = 1 /\ d(13) = 1 /\ d(14) = 1
             /\ d(15) = 1
    BY <1>2, <1>13, SmallPowers
  <2> HIDE DEF d
  <2> QED BY <1>1, <1>13, <2>1 DEF Arm7!translate_cond, Column
<1>14. CASE cond = 10
  <2>1. /\ d(0) = 1 /\ d(1) = 0 /\ d(2) = 0 /\ d(3) = 1 /\ d(4) = 1 /\ d(5) = 0 /\ d(6) = 0 /\ d(7) = 1
        /\ d(8) = 1 /\ d(9) = 0 /\ d(10) = 0 /\ d(11) = 1 /\ d(12) = 1 /\ d(13) = 0 /\ d(14) = 0
             /\ d(15) = 1
    BY <1>2, <1>14, SmallPowers
  <2> HIDE DEF d
  <2> QED BY <1>1, <1>14, <2>1 DEF Arm7!translate_cond, Column
<1>15. CASE cond = 11
  <2>1. /\ d(0) = 0 /\ d(1) = 1 /\ d(2) = 1 /\ d(3) = 0 /\ d(4) = 0 /\ d(5) = 1 /\ d(6) = 1 /\ d(7) = 0
        /\ d(8) = 0 /\ d(9) = 1 /\ d(10) = 1 /\ d(11) = 0 /\ d(12) = 0 /\ d(13) = 1 /\ d(14) = 1
             /\ d(15) = 0
    BY <1>2, <1>15, SmallPowers
  <2> HIDE DEF d
  <2> QED BY <1>1, <1>15, <2>1 DEF Arm7!translate_cond, Column
<1>16. CASE cond = 12
  <2>1. /\ d(0) = 0 /\ d(1) = 0 /\ d(2) = 0 /\ d(3) = 0 /\ d(4) = 0 /\ d(5) = 0 /\ d(6) = 0 /\ d(7) = 0
        /\ d(8) = 1 /\ d(9) = 0 /\ d(10) = 0 /\ d(11) = 1 /\ d(12) = 1 /\ d(13) = 0 /\ d(14) = 0
             /\ d(15) = 1
    BY <1>2, <1>16, SmallPowers
  <2> HIDE DEF d
  <2> QED BY <1>1, <1>16, <2>1 DEF Arm7!translate_cond, Column
<1>17. CASE cond = 13
  <2>1. /\ d(0) = 1 /\ d(1) = 1 /\ d(2) = 1 /\ d(3) = 1 /\ d(4) = 1 /\ d(5) = 1 /\ d(6) = 1 /\ d(7) = 1
        /\ d(8) = 0 /\ d(9) = 1 /\ d(10) = 1 /\ d(11) = 0 /\ d(12) = 0 /\ d(13) = 1 /\ d(14) = 1
             /\ d(15) = 0
    BY <1>2, <1>17, SmallPowers
  <2> HIDE DEF d
  <2> QED BY <1>1, <1>17, <2>1 DEF Arm7!translate_cond, Column
<1>18. CASE cond = 14
  <2>1. /\ d(0) = 1 /\ d(1) = 1 /\ d(2) = 1 /\ d(3) = 1 /\ d(4) = 1 /\ d(5) = 1 /\ d(6) = 1 /\ d(7) = 1
        /\ d(8) = 1 /\ d(9) = 1 /\ d(10) = 1 /\ d(11) = 1 /\ d(12) = 1 /\ d(13) = 1 /\ d(14) = 1
             /\ d(15) = 1
    BY <1>2, <1>18, SmallPowers
  <2> HIDE DEF d
  <2> QED BY <1>1, <1>18, <2>1 DEF Arm7!translate_cond, Column
<1>19. CASE cond = 15
  <2>1. /\ d(0) = 0 /\ d(1) = 0 /\ d(2) = 0 /\ d(3) = 0 /\ d(4) = 0 /\ d(5) = 0 /\ d(6) = 0 /\ d(7) = 0
        /\ d(8) = 0 /\ d(9) = 0 /\ d(10) = 0 /\ d(11) = 0 /\ d(12) = 0 /\ d(13) = 0 /\ d(14) = 0
             /\ d(15) = 0
    BY <1>2, <1>19, SmallPowers
  <2> HIDE DEF d
  <2> QED BY <1>1, <1>19, <2>1 DEF Arm7!translate_cond, Column
<1> QED BY <1>3, <1>4, <1>5, <1>6, <1>7, <1>8, <1>9, <1>10, <1>11, <1>12, <1>13, <1>14, <1>15,
      <1>16, <1>17, <1>18, <1>19

\* An immediate that is rotated is a word again.
LEMMA RotatedTyped ==
  ASSUME NEW i, Arm7!IsInstruction(i), Arm7!Immediate(i)
  PROVE  Arm7!Rotated(i) \in Word(ArmW)
<1> DEFINE x == Arm7!immed_8(i)
           q == 2^(2 * i.rs)
           p == 2^(ArmW - 2 * i.rs)
<1>1. /\ x \in Word(ArmW) /\ i.rs \in Nat /\ 2 * i.rs <= ArmW /\ ArmW \in Nat
      /\ 2 * i.rs \in Nat /\ ArmW - 2 * i.rs \in Nat
  BY ArmAssumption DEF Arm7!IsInstruction, Arm7!Word, Word
<1>2. p \in Nat \ {0} /\ q \in Nat \ {0} /\ 2^ArmW = p * q /\ p * q \in Nat \ {0}
  <2>1. 2^((ArmW - 2 * i.rs) + 2 * i.rs) = p * q
    BY <1>1, PowerSum
  <2>2. p \in Nat \ {0} /\ q \in Nat \ {0}
    BY <1>1, PowerPositive
  <2>3. (ArmW - 2 * i.rs) + 2 * i.rs = ArmW
    BY <1>1
  <2> HIDE DEF p, q
  <2> QED BY <2>1, <2>2, <2>3
<1>3. Arm7!Rotated(i) = IF i.rs = 0 THEN x ELSE (x \div q) + ((x * p) % (p * q))
  BY <1>1, <1>2 DEF Arm7!Rotated, Arm7!LSHR, Arm7!SHL
<1> HIDE DEF x, p, q
<1>4. x \in 0..(p * q - 1)
  BY <1>1, <1>2 DEF Word
<1> DEFINE d == x \div q
           e == x % q
<1>5. d \in Int /\ e \in 0..(q - 1) /\ x = e + q * d
  BY <1>2, <1>4, Residue
<1> HIDE DEF d, e
<1>6. d \in 0..(p - 1)
  <2>1. ASSUME d < 0 PROVE FALSE
    <3>1. q * d <= -q
      BY <1>2, <1>5, <2>1
    <3> QED BY <1>2, <1>4, <1>5, <3>1
  <2>2. ASSUME d > p - 1 PROVE FALSE
    <3>1. d >= p
      BY <1>2, <1>5, <2>2
    <3>2. q * d >= q * p /\ q * p = p * q
      BY <1>2, <1>5, <3>1
    <3> QED BY <1>2, <1>4, <1>5, <3>2
  <2> QED BY <1>2, <1>5, <2>1, <2>2
<1>7. p * e \in Nat /\ p * e <= p * q - p
  <2>1. p * e <= p * (q - 1) /\ p * (q - 1) = p * q - p /\ p * e \in Nat
    BY <1>2, <1>5
  <2> QED BY <2>1
<1>8. (x * p) % (p * q) = p * e
  <2>1. x * p = p * e + (p * q) * d
    BY <1>2, <1>4, <1>5
  <2>2. p * e \in 0..(p * q - 1)
    BY <1>2, <1>7
  <2> DEFINE n == p * q
             l == p * e
  <2>3. n \in Nat \ {0} /\ l \in 0..(n - 1) /\ d \in Int /\ x * p = l + n * d
    BY <1>2, <1>5, <2>1, <2>2
  <2> HIDE DEF n, l
  <2>4. (l + n * d) % n = l
    BY <2>3, ResidueUnique
  <2> QED BY <2>3, <2>4 DEF n, l
<1>9. d + p * e \in 0..(p * q - 1)
  BY <1>2, <1>6, <1>7
<1> QED BY <1>2, <1>3, <1>4, <1>8, <1>9 DEF Word, d

LEMMA OperandTyped ==
  ASSUME NEW i, Arm7!IsInstruction(i), NEW s, Arm7!IsState(s)
  PROVE  s.gpr[i.rn] \in Word(ArmW) /\ Arm7!operand(s, i) \in Word(ArmW)
BY RotatedTyped DEF Arm7!operand, Arm7!IsState, Arm7!IsInstruction, Arm7!Word, Word

\* The flags of a difference decide what the words are as signed numbers.
LEMMA FlagsDecide ==
  ASSUME NEW s, Arm7!IsState(s), NEW a \in Word(ArmW), NEW b \in Word(ArmW),
         NEW cond \in {0, 1, 10, 11, 12, 13}
  PROVE  Arm7!translate_cond(Arm7!setsub(s, a, b).flags, cond)
            <=> Arm7!Relation(cond, Arm7!Signed(ArmW, a), Arm7!Signed(ArmW, b))
<1> DEFINE h == 2^(ArmW - 1)
           v == (a - b) % 2^ArmW
           f == Arm7!setsub(s, a, b).flags
           x == Arm7!Signed(ArmW, a)
           y == Arm7!Signed(ArmW, b)
<1>1. h \in Nat \ {0} /\ 2^ArmW = 2 * h
  <2>1. ArmW - 1 \in Nat /\ ArmW = (ArmW - 1) + 1
    BY ArmAssumption
  <2> QED BY <2>1, PowersOfTwo, PowerPositive DEF Doubles
<1>2. /\ f.Z = Bit(v = 0) /\ f.N = Bit(v >= h)
      /\ f.V = Bit((a >= h) # (b >= h) /\ (a >= h) # (v >= h))
  BY DEF Arm7!setsub, Arm7!IsState, Arm7!SUB, Arm7!Bit, Bit, Arm7!Negative
<1>3. x = (IF a >= h THEN a - 2 * h ELSE a) /\ y = (IF b >= h THEN b - 2 * h ELSE b)
  BY <1>1 DEF Arm7!Signed, Arm7!Negative
<1>4. a \in 0..(2 * h - 1) /\ b \in 0..(2 * h - 1)
  BY <1>1 DEF Word
<1>5. v = IF a >= b THEN a - b ELSE a - b + 2 * h
  <2> HIDE DEF h
  <2>1. v = (a - b) % (2 * h)
    BY <1>1
  <2> DEFINE n == 2 * h
             u == IF a >= b THEN a - b ELSE a - b + n
             d == IF a >= b THEN 0 ELSE -1
  <2>2. n \in Nat \ {0} /\ u \in 0..(n - 1) /\ d \in Int /\ a - b = u + n * d
    BY <1>1, <1>4
  <2> HIDE DEF n, u, d
  <2>3. (u + n * d) % n = u
    BY <2>2, ResidueUnique
  <2> QED BY <2>1, <2>2, <2>3 DEF u, n
<1> HIDE DEF h, v, f, x, y
<1>6. (f.Z = 1 <=> x = y) /\ (f.N = f.V <=> x >= y) /\ (f.Z = 0 <=> x # y)
  BY <1>1, <1>2, <1>3, <1>4, <1>5 DEF Bit
<1>7. x \in Int /\ y \in Int
  BY <1>1, <1>3, <1>4
<1>8. Arm7!translate_cond(f, cond) <=> Arm7!Relation(cond, x, y)
  <2>1. cond = 0 \/ cond = 1 \/ cond = 10 \/ cond = 11 \/ cond = 12 \/ cond = 13
    OBVIOUS
  <2>2. CASE cond = 0
    BY <1>6, <2>2 DEF Arm7!translate_cond, Arm7!Relation
  <2>3. CASE cond = 1
    BY <1>6, <2>3 DEF Arm7!translate_cond, Arm7!Relation
  <2>4. CASE cond = 10
    BY <1>6, <2>4 DEF Arm7!translate_cond, Arm7!Relation
  <2>5. CASE cond = 11
    <3>1. ~(f.N = f.V) <=> x < y
      BY <1>6, <1>7
    <3> QED BY <3>1, <2>5 DEF Arm7!translate_cond, Arm7!Relation
  <2>6. CASE cond = 12
    <3>1. (f.Z = 0 /\ f.N = f.V) <=> x > y
      BY <1>6, <1>7
    <3> QED BY <3>1, <2>6 DEF Arm7!translate_cond, Arm7!Relation
  <2>7. CASE cond = 13
    <3>1. ~(f.Z = 0 /\ f.N = f.V) <=> x <= y
      BY <1>6, <1>7
    <3> QED BY <3>1, <2>7 DEF Arm7!translate_cond, Arm7!Relation
  <2> QED BY <2>1, <2>2, <2>3, <2>4, <2>5, <2>6, <2>7
<1> QED BY <1>8 DEF f, x, y

\* One instruction from any state: before it there is nothing to agree with.
ArmStart ==
    /\ DOMAIN prog = {0} /\ Arm7!IsInstruction(prog[0])
    /\ steps \in 0..1
    /\ steps = 0 => Arm7!IsState(r) /\ pc = 0 /\ Idle

ArmInv == guest = "ARM" => ArmStart /\ Arm7!ConditionsAsCommented /\ Arm7!ComparisonsDecide

LEMMA ArmStarts == MCInit => ArmInv
<1> SUFFICES ASSUME MCInit, guest = "ARM"
             PROVE  ArmStart /\ Arm7!ConditionsAsCommented /\ Arm7!ComparisonsDecide
  BY DEF ArmInv
<1>1. /\ \E run \in ArmRuns : (\E i \in run.words : prog = [a \in {0} |-> i]) /\ r \in run.states
      /\ pc = 0 /\ steps = 0 /\ Idle
  BY DEF MCInit, ArmInit, Idle
<1>2. PICK run \in ArmRuns : (\E i \in run.words : prog = [a \in {0} |-> i]) /\ r \in run.states
  BY <1>1
<1>3. PICK i \in run.words : prog = [a \in {0} |-> i]
  BY <1>2
<1>5. DOMAIN prog = {0} /\ prog[0] = i
  BY <1>3
<1>6. Arm7!IsInstruction(i) /\ Arm7!IsState(r)
  BY <1>2, <1>3, ArmAssumption
<1>7. ArmStart
  BY <1>1, <1>5, <1>6 DEF ArmStart
<1>8. Arm7!ConditionsAsCommented
  BY <1>1 DEF Arm7!ConditionsAsCommented
<1>9. did = <<>>
  BY <1>1 DEF Idle
<1>10. Arm7!ComparisonsDecide
  BY <1>9 DEF Arm7!ComparisonsDecide
<1> QED BY <1>7, <1>8, <1>10

LEMMA ArmSteps ==
  ASSUME ArmStart, Arm7!Step
  PROVE  ArmStart' /\ Arm7!ConditionsAsCommented' /\ Arm7!ComparisonsDecide'
<1> DEFINE i == prog[0]
<1>1. steps = 0 /\ pc = 0 /\ Idle /\ Arm7!IsState(r) /\ Arm7!IsInstruction(i)
  <2>1. pc \in DOMAIN prog /\ steps < 1
    BY DEF Arm7!Step
  <2> QED BY <2>1 DEF ArmStart
<1>2. prog' = prog /\ steps' = 1
  BY <1>1 DEF Arm7!Step, Arm7!Fail, Arm7!Taken, Arm7!Untaken
<1>3. ArmStart'
  BY <1>2 DEF ArmStart
<1>4. CASE Arm7!Fail
  <2>1. ctl' = "exit" /\ did' = did /\ Idle
    BY <1>1, <1>4 DEF Arm7!Fail
  <2>2. Arm7!ConditionsAsCommented'
    BY <2>1 DEF Arm7!ConditionsAsCommented
  <2>3. did' = <<>>
    BY <2>1 DEF Idle
  <2>4. Arm7!ComparisonsDecide'
    BY <2>3 DEF Arm7!ComparisonsDecide
  <2> QED BY <1>3, <2>2, <2>4
<1>5. ASSUME Arm7!Taken \/ Arm7!Untaken
      PROVE  Arm7!ConditionsAsCommented' /\ Arm7!ComparisonsDecide'
  <2>1. /\ before' = [r |-> r, pc |-> 0] /\ (Arm7!Taken <=> Arm7!Holds)
        /\ Arm7!Taken => did' = <<0>> /\ r' = Arm7!Done(r, i, 0)
        /\ ~Arm7!Taken => did' = <<>>
    BY <1>1, <1>5 DEF Arm7!Taken, Arm7!Untaken, Arm7!Here
  <2>2. Arm7!Holds <=> (i.cond # 14 => Arm7!translate_cond(r.flags, i.cond))
    BY <1>1 DEF Arm7!Holds, Arm7!Here, Arm7!tag, Arm7!AL
  <2>3. i.cond \in 0..15 /\ r.flags \in Flags32
    BY <1>1 DEF Arm7!IsInstruction, Arm7!IsState, Flags32
  <2>4. Arm7!Holds <=> (Arm7!ARMcond[i.cond + 1] \div 2^Column(r.flags)) % 2 = 1
    BY <2>2, <2>3, ConditionTable
  <2>5. prog'[before'.pc] = i /\ before'.r = r
    BY <1>2, <2>1
  <2>6. (did' # <<>>) <=> Arm7!Holds
    BY <2>1
  <2>7. Arm7!ConditionsAsCommented'
    <3> DEFINE f == r.flags
    <3>1. Arm7!LSHR(Arm7!ARMcond[i.cond + 1], 15 - (8 * f.Z + 4 * f.C + 2 * f.N + f.V))
            = Arm7!ARMcond[i.cond + 1] \div 2^Column(f)
      BY DEF Arm7!LSHR, Column
    <3> QED BY <2>4, <2>5, <2>6, <3>1 DEF Arm7!ConditionsAsCommented
  <2>8. ASSUME Arm7!Taken, Arm7!class(i) = 0, Arm7!opcode(i) = 10,
               NEW cond \in {0, 1, 10, 11, 12, 13}
        PROVE  Arm7!translate_cond(r'.flags, cond) <=>
                 Arm7!Relation(cond, Arm7!Signed(ArmW, r.gpr[i.rn]), Arm7!Signed(ArmW, Arm7!operand(r, i)))
    <3>1. r' = Arm7!setsub(r, r.gpr[i.rn], Arm7!operand(r, i))
      <4>1. Arm7!Done(r, i, 0) = Arm7!Arithmetic(r, i)
        BY <2>8 DEF Arm7!Done
      <4>2. ~Arm7!StoresPc(i)
        BY <2>8 DEF Arm7!StoresPc, Arm7!MOV_
      <4>3. Arm7!Arithmetic(r, i) = Arm7!setsub(r, r.gpr[i.rn], Arm7!operand(r, i))
        BY <2>8, <4>2 DEF Arm7!Arithmetic, Arm7!MOV_, Arm7!CMP_, Arm7!ADD_, Arm7!SUB_
      <4> QED BY <2>1, <2>8, <4>1, <4>3
    <3> QED BY <1>1, <2>8, <3>1, OperandTyped, FlagsDecide
  <2>9. Arm7!ComparisonsDecide'
    BY <2>1, <2>5, <2>8 DEF Arm7!ComparisonsDecide, Arm7!CMP_
  <2> QED BY <2>7, <2>9
<1> QED BY <1>3, <1>4, <1>5 DEF Arm7!Step

LEMMA ArmKept == ArmInv /\ [MCNext]_allvars => ArmInv'
<1> SUFFICES ASSUME ArmInv, [MCNext]_allvars, guest' = "ARM"
             PROVE  ArmStart' /\ Arm7!ConditionsAsCommented' /\ Arm7!ComparisonsDecide'
  BY DEF ArmInv
<1>1. guest' = guest
  BY DEF MCNext, allvars
<1>2. ArmStart /\ Arm7!ConditionsAsCommented /\ Arm7!ComparisonsDecide
  BY <1>1 DEF ArmInv
<1>3. ASSUME UNCHANGED allvars
      PROVE  ArmStart' /\ Arm7!ConditionsAsCommented' /\ Arm7!ComparisonsDecide'
  <2>1. /\ prog' = prog /\ r' = r /\ pc' = pc /\ ctl' = ctl /\ steps' = steps
        /\ did' = did /\ before' = before
    BY <1>3 DEF allvars, mips, vars
  <2>2. ArmStart'
    BY <1>2, <2>1 DEF ArmStart, Idle
  <2>3. Arm7!ConditionsAsCommented'
    BY <1>2, <2>1, Zenon DEF Arm7!ConditionsAsCommented
  <2>4. Arm7!ComparisonsDecide'
    BY <1>2, <2>1, Zenon DEF Arm7!ComparisonsDecide
  <2> QED BY <2>2, <2>3, <2>4
<1>4. CASE NextArm
  BY <1>2, <1>4, ArmSteps DEF NextArm, Arm7!Next
<1> QED BY <1>1, <1>3, <1>4
        DEF MCNext, Next6502, NextStack, NextMips, Next88k, NextFapra, NextX86

--------------------------------------------------------------------------------
(***************************************************************************)
(* Fapra.                                                                  *)
(***************************************************************************)

\* What the two instructions that load a register leave in it.
LEMMA HalvesLoaded ==
  ASSUME NEW high \in Word(Fapra32!Half), NEW low \in Word(Fapra32!Half), NEW x \in Word(Fapra32!Half)
  PROVE  LET h == Fapra32!SHL(FapraW, high, Fapra32!Half)
         IN h \in Nat /\ (h + x) - ((h + x) % 2^(Fapra32!Half)) + low = h + low
<1> DEFINE p == 2^(Fapra32!Half)
           h == Fapra32!SHL(FapraW, high, Fapra32!Half)
<1>1. Fapra32!Half \in Nat /\ FapraW = Fapra32!Half + Fapra32!Half
  BY FapraAssumption DEF Fapra32!WidthsAssumed, Fapra32!Half
<1>2. p \in Nat \ {0} /\ 2^FapraW = p * p
  BY <1>1, PowerPositive, PowerSum
<1>3. high \in 0..(p - 1) /\ low \in 0..(p - 1) /\ x \in 0..(p - 1)
  BY DEF Word
<1>4. h = (high * p) % (p * p)
  BY <1>2 DEF Fapra32!SHL
<1> HIDE DEF p, h
<1>5. h = high * p
  <2> DEFINE n == p * p
             m == high * p
  <2>1. m \in 0..(n - 1) /\ n \in Nat \ {0}
    <3>1. high * p <= (p - 1) * p /\ (p - 1) * p = p * p - p /\ high * p \in Nat
      BY <1>2, <1>3
    <3> QED BY <1>2, <3>1
  <2> HIDE DEF n, m
  <2>2. (m + n * 0) % n = m
    BY <2>1, ResidueUnique
  <2>3. m % n = m
    BY <2>1, <2>2
  <2> QED BY <1>4, <2>3 DEF n, m
<1>6. (x + p * high) % p = x
  <2>1. high \in Int
    BY <1>3
  <2> QED BY <1>2, <1>3, <2>1, ResidueUnique
<1>7. h + x = x + p * high /\ h \in Nat
  BY <1>2, <1>3, <1>5
<1>8. (h + x) % p = x
  BY <1>6, <1>7
<1>9. h + x - x + low = h + low
  BY <1>3, <1>7
<1>10. h \in Nat /\ (h + x) - ((h + x) % p) + low = h + low
  <2> DEFINE m == (h + x) % p
  <2>1. m = x /\ h \in Nat /\ x \in Nat /\ low \in Nat
    BY <1>2, <1>3, <1>7, <1>8
  <2> HIDE DEF m
  <2>2. (h + x) - m + low = h + low
    BY <2>1
  <2> QED BY <1>7, <2>2 DEF m
<1> QED BY <1>10 DEF p, h

\* The registers of a machine, whatever is in them.
Shaped(s) ==
    /\ s = [gpr |-> s.gpr, ram |-> s.ram]
    /\ s.gpr = [n \in Fapra32!Numbers |-> s.gpr[n]]

\* Three steps from any state.  What matters of them is what two loads in a row leave.
AfterOne ==
    LET i == prog[did[1]] IN
    /\ Fapra32!opc(i) \in {"LDIH", "LDIL"} => pc = did[1] + 4
    /\ Fapra32!opc(i) = "LDIH" =>
          \E x \in Word(Fapra32!Half) :
             r.gpr[i.rd] = Fapra32!SHL(FapraW, i.imm, Fapra32!Half) + x

AfterTwo ==
    LET i == prog[did[1]] j == prog[did[2]] IN
    /\ Fapra32!opc(i) \in {"LDIH", "LDIL"} => did[2] = did[1] + 4
    /\ Fapra32!opc(i) = "LDIH" /\ Fapra32!opc(j) = "LDIL" /\ i.rd = j.rd =>
          r.gpr[i.rd] = Fapra32!SHL(FapraW, i.imm, Fapra32!Half) + j.imm

FapraStart ==
    /\ DOMAIN prog \subseteq Nat /\ \A a \in DOMAIN prog : Fapra32!IsInstruction(prog[a])
    /\ steps \in Nat /\ did \in Seq(DOMAIN prog) /\ Len(did) <= steps
    /\ Shaped(r) /\ (steps = 0 => Fapra32!IsState(r))
    /\ steps = 1 /\ Len(did) = 1 => AfterOne
    /\ steps = 2 /\ Len(did) = 2 => AfterTwo

FapraInv == guest = "Fapra" => FapraStart /\ Fapra32!CallsAsCommented

LEMMA FapraStarts == MCInit => FapraInv
<1> SUFFICES ASSUME MCInit, guest = "Fapra"
             PROVE  FapraStart /\ Fapra32!CallsAsCommented
  BY DEF FapraInv
<1>1. prog \in FapraPrograms /\ r \in FapraStates /\ steps = 0 /\ did = <<>>
  BY DEF MCInit, FapraInit
<1>2. FapraStart
  BY <1>1, FapraAssumption DEF FapraStart, Fapra32!IsState, Shaped
<1> QED BY <1>1, <1>2 DEF Fapra32!CallsAsCommented

\* An instruction that is taken, by what it is.
LEMMA LoadTaken ==
  ASSUME Fapra32!Taken, Fapra32!opc(prog[pc]) \in {"LDIH", "LDIL"}
  PROVE  /\ pc' = pc + 4
         /\ r' = Fapra32!Let(r, prog[pc].rd, Fapra32!LoadedHalf(prog[pc], r.gpr[prog[pc].rd]))
<1> DEFINE i == prog[pc]
<1>1. Fapra32!new_pc(prog, pc) = -1
  BY DEF Fapra32!new_pc, Fapra32!None
<1>2. ~Fapra32!StoresPc(i)
  BY DEF Fapra32!StoresPc
<1>3. pc' = pc + 4
  BY <1>1, <1>2 DEF Fapra32!Taken, Fapra32!None, Fapra32!Here, Fapra32!next_pc, Fapra32!INST_SIZE
<1>4. Fapra32!Done(r, i, pc) = {Fapra32!Let(r, i.rd, Fapra32!LoadedHalf(i, r.gpr[i.rd]))}
  BY DEF Fapra32!Done
<1>5. r' = Fapra32!Let(r, i.rd, Fapra32!LoadedHalf(i, r.gpr[i.rd]))
  BY <1>4 DEF Fapra32!Taken, Fapra32!Here
<1> QED BY <1>3, <1>5

LEMMA LetShaped ==
  ASSUME NEW s, Shaped(s), NEW n, NEW v
  PROVE  /\ Shaped(Fapra32!Let(s, n, v))
         /\ n \in Fapra32!Numbers => Fapra32!Let(s, n, v).gpr[n] = v
<1>1. Fapra32!Let(s, n, v) = [gpr |-> [s.gpr EXCEPT ![n] = v], ram |-> s.ram]
  BY DEF Shaped, Fapra32!Let
<1>2. Fapra32!Let(s, n, v).gpr = [s.gpr EXCEPT ![n] = v] /\ Fapra32!Let(s, n, v).ram = s.ram
  BY <1>1
<1>3. DOMAIN s.gpr = Fapra32!Numbers
  BY DEF Shaped
<1> DEFINE t == Fapra32!Let(s, n, v)
<1> HIDE DEF t
<1>4. t.gpr = [m \in Fapra32!Numbers |-> t.gpr[m]] /\ (n \in Fapra32!Numbers => t.gpr[n] = v)
  BY <1>2, <1>3 DEF t
<1>5. t = [gpr |-> t.gpr, ram |-> t.ram]
  BY <1>1, <1>2 DEF t
<1> QED BY <1>4, <1>5 DEF t, Shaped

LEMMA FapraShaped ==
  ASSUME Shaped(r), Fapra32!Taken
  PROVE  Shaped(r')
<1> DEFINE i == prog[pc]
<1>1. r' \in Fapra32!Done(r, i, pc)
  BY DEF Fapra32!Taken, Fapra32!Here
<1>2. Shaped(r) /\ \A n, v : Shaped(Fapra32!Let(r, n, v))
  BY LetShaped
<1>3. CASE Fapra32!opc(i) \in {"LDW", "LDB", "STW", "STB"}
  <2>1. r' \in Fapra32!Accessed(r, i)
    BY <1>1, <1>3 DEF Fapra32!Done
  <2>2. \/ \E v : r' = Fapra32!Let(r, i.rd, v)
        \/ \E w : r' = [r EXCEPT !.ram = w]
    BY <2>1 DEF Fapra32!Accessed
  <2>3. ASSUME NEW w, r' = [r EXCEPT !.ram = w] PROVE Shaped(r')
    <3>1. r' = [gpr |-> r.gpr, ram |-> w]
      BY <2>3 DEF Shaped
    <3>2. r'.gpr = r.gpr /\ r'.ram = w
      BY <3>1
    <3> QED BY <3>1, <3>2 DEF Shaped
  <2> QED BY <1>2, <2>2, <2>3
<1>4. CASE Fapra32!opc(i) \in {"LDIH", "LDIL"}
  <2>1. r' \in {Fapra32!Let(r, i.rd, Fapra32!LoadedHalf(i, r.gpr[i.rd]))}
    BY <1>1, <1>4 DEF Fapra32!Done
  <2> QED BY <1>2, <2>1
<1>5. CASE Fapra32!opc(i) \in {"JMP", "BRA", "BZ", "BNZ", "NOP"}
  <2>1. r' \in {r}
    BY <1>1, <1>5 DEF Fapra32!Done
  <2> QED BY <1>2, <2>1
<1>6. CASE Fapra32!opc(i) \in {"CALL", "BL"}
  <2>1. r' \in {Fapra32!Let(r, i.rd, Fapra32!TRUNC(FapraW, pc + 4))}
    BY <1>1, <1>6 DEF Fapra32!Done, Fapra32!INST_SIZE
  <2> QED BY <1>2, <2>1
<1>7. CASE Fapra32!opc(i) \notin {"LDW", "LDB", "STW", "STB", "LDIH", "LDIL", "JMP", "BRA", "BZ", "BNZ",
                                 "NOP", "CALL", "BL"}
  <2>1. r' \in {Fapra32!Let(r, i.rd, v) : v \in Fapra32!Calculated(i, r.gpr[i.ra], r.gpr[Fapra32!rb(i)])}
    BY <1>1, <1>7 DEF Fapra32!Done
  <2> QED BY <1>2, <2>1
<1> QED BY <1>3, <1>4, <1>5, <1>6, <1>7

LEMMA FapraFirst ==
  ASSUME FapraStart, Fapra32!Taken, pc \in DOMAIN prog, steps = 0
  PROVE  AfterOne'
<1> DEFINE i == prog[pc]
<1>1. did = <<>> /\ Fapra32!IsState(r) /\ Fapra32!IsInstruction(i)
  BY DEF FapraStart
<1>2. did' = <<pc>> /\ prog' = prog
  BY <1>1 DEF Fapra32!Taken
<1>3. ASSUME Fapra32!opc(i) = "LDIH"
      PROVE  \E x \in Word(Fapra32!Half) :
               r'.gpr[i.rd] = Fapra32!SHL(FapraW, i.imm, Fapra32!Half) + x
  <2> DEFINE x == r.gpr[i.rd] % 2^(Fapra32!Half)
             v == Fapra32!SHL(FapraW, i.imm, Fapra32!Half) + x
  <2>1. r' = Fapra32!Let(r, i.rd, v)
    BY <1>3, LoadTaken DEF Fapra32!LoadedHalf
  <2>2. i.rd \in Fapra32!Numbers /\ r.gpr[i.rd] \in Nat
    BY <1>1 DEF Fapra32!IsState, Fapra32!IsInstruction, Fapra32!Word
  <2>3. x \in Word(Fapra32!Half)
    <3>1. Fapra32!Half \in Nat
      BY FapraAssumption DEF Fapra32!WidthsAssumed, Fapra32!Half
    <3>2. 2^(Fapra32!Half) \in Nat \ {0}
      BY <3>1, PowerPositive
    <3> DEFINE p == 2^(Fapra32!Half)
    <3> HIDE DEF p
    <3> SUFFICES r.gpr[i.rd] % p \in 0..(p - 1)
      BY DEF p, Word
    <3> QED BY <2>2, <3>2 DEF p
  <2> HIDE DEF v, x
  <2>4. r'.gpr[i.rd] = v
    BY <2>1, <2>2, LetShaped DEF FapraStart
  <2> QED BY <2>3, <2>4 DEF v
<1>4. Fapra32!opc(i) \in {"LDIH", "LDIL"} => pc' = pc + 4
  BY LoadTaken
<1>5. did'[1] = pc
  BY <1>2
<1> QED BY <1>2, <1>3, <1>4, <1>5 DEF AfterOne

LEMMA FapraSecond ==
  ASSUME FapraStart, Fapra32!Taken, pc \in DOMAIN prog, steps = 1, Len(did) = 1
  PROVE  AfterTwo'
<1> DEFINE i == prog[did[1]]
           j == prog[pc]
<1>1. AfterOne /\ did[1] \in DOMAIN prog /\ Fapra32!IsInstruction(i) /\ Fapra32!IsInstruction(j)
  BY DEF FapraStart
<1>2. did'[1] = did[1] /\ did'[2] = pc /\ prog' = prog
  <2>1. did \in Seq(DOMAIN prog) /\ did' = Append(did, pc) /\ prog' = prog
    BY DEF FapraStart, Fapra32!Taken
  <2>2. Len(did) = 1
    OBVIOUS
  <2> HIDE DEF i, j
  <2>3. pc \in DOMAIN prog /\ 1 \in 1..Len(did)
    BY <2>2
  <2>4. did'[1] = did[1]
    BY <2>1, <2>3
  <2>5. did'[Len(did) + 1] = pc
    <3>1. \A s \in Seq(DOMAIN prog), e \in DOMAIN prog : Append(s, e)[Len(s) + 1] = e
      OBVIOUS
    <3> QED BY <2>1, <2>3, <3>1
  <2>6. did'[2] = pc
    BY <2>2, <2>5
  <2> QED BY <2>1, <2>4, <2>6
<1>3. Fapra32!opc(i) \in {"LDIH", "LDIL"} => pc = did[1] + 4
  BY <1>1 DEF AfterOne
<1>4. ASSUME Fapra32!opc(i) = "LDIH", Fapra32!opc(j) = "LDIL", i.rd = j.rd
      PROVE  r'.gpr[i.rd] = Fapra32!SHL(FapraW, i.imm, Fapra32!Half) + j.imm
  <2> DEFINE old == r.gpr[i.rd]
             h == Fapra32!SHL(FapraW, i.imm, Fapra32!Half)
             v == old - (old % 2^(Fapra32!Half)) + j.imm
  <2>1. PICK x \in Word(Fapra32!Half) : old = h + x
    BY <1>1, <1>4 DEF AfterOne
  <2>2. i.imm \in Word(Fapra32!Half) /\ j.imm \in Word(Fapra32!Half) /\ i.rd \in Fapra32!Numbers
    BY <1>1 DEF Fapra32!IsInstruction, Fapra32!Word, Word
  <2>3. v = h + j.imm
    BY <2>1, <2>2, HalvesLoaded
  <2>4. r' = Fapra32!Let(r, i.rd, v)
    BY <1>4, LoadTaken DEF Fapra32!LoadedHalf
  <2> HIDE DEF v
  <2>5. r'.gpr[i.rd] = v
    BY <2>2, <2>4, LetShaped DEF FapraStart
  <2> QED BY <2>3, <2>5
<1> QED BY <1>2, <1>3, <1>4 DEF AfterTwo

\* A call, the third of the instructions.
LEMMA FapraThird ==
  ASSUME FapraStart, Fapra32!Taken, pc \in DOMAIN prog, steps < 3,
         Fapra32!Loads(prog, pc), Fapra32!ToSet(did') = {pc - 8, pc - 4, pc}
  PROVE  /\ r.gpr[prog[pc].ra] =
              Fapra32!SHL(FapraW, prog[pc - 8].imm, Fapra32!Half) + prog[pc - 4].imm
         /\ Fapra32!SHL(FapraW, prog[pc - 8].imm, Fapra32!Half) + prog[pc - 4].imm \in Nat
<1>1. /\ did \in Seq(DOMAIN prog) /\ DOMAIN prog \subseteq Nat /\ pc \in Nat
      /\ Len(did) <= steps /\ steps \in Nat /\ Len(did) \in Nat
  BY DEF FapraStart
<1>2. /\ pc - 8 \in DOMAIN prog /\ pc - 4 \in DOMAIN prog
      /\ Fapra32!opc(prog[pc - 8]) = "LDIH" /\ Fapra32!opc(prog[pc - 4]) = "LDIL"
      /\ prog[pc - 8].rd = prog[pc - 4].rd /\ prog[pc - 8].rd = prog[pc].ra
  <2>1. pc - 2 * 4 = pc - 8
    BY <1>1
  <2> QED BY <2>1 DEF Fapra32!Loads, Fapra32!INST_SIZE
<1>3. \A a \in {pc - 8, pc - 4} : \E k \in 1..Len(did) : did[k] = a
  <2> TAKE a \in {pc - 8, pc - 4}
  <2>1. did' = Append(did, pc)
    BY DEF Fapra32!Taken
  <2>2. a \in Fapra32!ToSet(did') /\ a # pc
    BY <1>1
  <2>3. PICK k \in DOMAIN did' : did'[k] = a
    BY <2>2 DEF Fapra32!ToSet
  <2>4. k \in 1..(Len(did) + 1)
    BY <1>1, <2>1, <2>3
  <2>5. k # Len(did) + 1
    BY <1>1, <2>1, <2>2, <2>3
  <2>6. k \in 1..Len(did)
    BY <1>1, <2>4, <2>5
  <2>7. did[k] = a
    BY <1>1, <2>1, <2>3, <2>6
  <2> QED BY <2>6, <2>7
<1>4. PICK k \in 1..Len(did) : did[k] = pc - 8
  BY <1>3
<1>5. PICK l \in 1..Len(did) : did[l] = pc - 4
  BY <1>3
<1>6. steps = 2 /\ Len(did) = 2 /\ ((k = 1 /\ l = 2) \/ (k = 2 /\ l = 1))
  <2>1. k # l
    BY <1>1, <1>4, <1>5
  <2>2. k \in Nat /\ l \in Nat /\ k >= 1 /\ l >= 1 /\ k <= Len(did) /\ l <= Len(did)
    BY <1>1
  <2>3. steps < 3
    OBVIOUS
  <2> DEFINE n == Len(did)
  <2>4. n \in Nat /\ n <= steps /\ steps \in Nat /\ k <= n /\ l <= n
    BY <1>1, <2>2
  <2> HIDE DEF n
  <2>5. steps = 2 /\ n = 2 /\ ((k = 1 /\ l = 2) \/ (k = 2 /\ l = 1))
    BY <2>1, <2>2, <2>3, <2>4
  <2> QED BY <2>5 DEF n
<1>7. AfterTwo
  BY <1>6 DEF FapraStart
<1>8. did[1] = pc - 8 /\ did[2] = pc - 4
  <2>1. ASSUME did[1] = pc - 4, did[2] = pc - 8 PROVE FALSE
    <3>1. did[2] = did[1] + 4
      BY <1>2, <1>7, <2>1 DEF AfterTwo
    <3> QED BY <1>1, <2>1, <3>1
  <2> QED BY <1>4, <1>5, <1>6, <2>1
<1>9. r.gpr[prog[pc].ra] = Fapra32!SHL(FapraW, prog[pc - 8].imm, Fapra32!Half) + prog[pc - 4].imm
  BY <1>2, <1>7, <1>8 DEF AfterTwo
<1>10. prog[pc - 8].imm \in Word(Fapra32!Half) /\ prog[pc - 4].imm \in Word(Fapra32!Half)
  BY <1>2 DEF FapraStart, Fapra32!IsInstruction, Fapra32!Word, Word
<1>11. Fapra32!SHL(FapraW, prog[pc - 8].imm, Fapra32!Half) \in Nat /\ prog[pc - 4].imm \in Nat
  BY <1>10, HalvesLoaded DEF Word
<1> QED BY <1>9, <1>11

\* Where a call goes, and what it leaves.
LEMMA FapraCalls ==
  ASSUME FapraStart, Fapra32!Taken, pc \in DOMAIN prog, steps < 3
  PROVE  Fapra32!CallsAsCommented'
<1> DEFINE i == prog[pc]
<1>1. /\ prog' = prog /\ before' = [r |-> r, pc |-> pc] /\ before'.pc = pc /\ before'.r = r
      /\ Fapra32!IsInstruction(i) /\ Shaped(r) /\ pc \in Nat
  BY DEF Fapra32!Taken, FapraStart
<1>2. ASSUME Fapra32!opc(i) = "CALL"
      PROVE  /\ r'.gpr[i.rd] = Fapra32!TRUNC(FapraW, pc + 4)
             /\ Fapra32!Loads(prog, pc) /\ Fapra32!ToSet(did') = {pc - 8, pc - 4, pc}
                   => pc' = r.gpr[i.ra]
             /\ ~Fapra32!Loads(prog, pc) => pc' = r.gpr[i.ra]
  <2>1. r'.gpr[i.rd] = Fapra32!TRUNC(FapraW, pc + 4)
    <3>1. Fapra32!Done(r, i, pc) = {Fapra32!Let(r, i.rd, Fapra32!TRUNC(FapraW, pc + 4))}
      BY <1>2 DEF Fapra32!Done, Fapra32!INST_SIZE
    <3>2. r' = Fapra32!Let(r, i.rd, Fapra32!TRUNC(FapraW, pc + 4))
      BY <3>1 DEF Fapra32!Taken, Fapra32!Here
    <3> QED BY <1>1, <3>2, LetShaped DEF Fapra32!IsInstruction
  <2>2. Fapra32!StoresPc(i) /\ Fapra32!PcStored(r, i) = r.gpr[i.ra]
    BY <1>2 DEF Fapra32!StoresPc, Fapra32!PcStored
  <2>3. ASSUME ~Fapra32!Loads(prog, pc) PROVE pc' = r.gpr[i.ra]
    <3>1. Fapra32!new_pc(prog, pc) = -1
      BY <1>2, <2>3 DEF Fapra32!new_pc, Fapra32!None
    <3> QED BY <2>2, <3>1 DEF Fapra32!Taken, Fapra32!Here, Fapra32!None
  <2>4. ASSUME Fapra32!Loads(prog, pc), Fapra32!ToSet(did') = {pc - 8, pc - 4, pc}
        PROVE  pc' = r.gpr[i.ra]
    <3> DEFINE v == Fapra32!SHL(FapraW, prog[pc - 8].imm, Fapra32!Half) + prog[pc - 4].imm
    <3>1. r.gpr[i.ra] = v /\ v \in Nat
      BY <2>4, FapraThird
    <3>2. pc - 2 * 4 = pc - 8
      BY <1>1
    <3>3. Fapra32!new_pc(prog, pc) = v
      BY <1>2, <2>4, <3>2 DEF Fapra32!new_pc, Fapra32!INST_SIZE
    <3> HIDE DEF v
    <3>4. Fapra32!new_pc(prog, pc) # -1
      BY <3>1, <3>3
    <3>5. pc' = Fapra32!new_pc(prog, pc)
      <4>1. pc' = IF Fapra32!new_pc(prog, pc) # Fapra32!None THEN Fapra32!new_pc(prog, pc)
                  ELSE IF Fapra32!StoresPc(i) THEN Fapra32!PcStored(r, i) ELSE Fapra32!next_pc(pc)
        BY DEF Fapra32!Taken, Fapra32!Here
      <4>2. Fapra32!new_pc(prog, pc) = v /\ Fapra32!StoresPc(i) /\ Fapra32!PcStored(r, i) = v
        BY <2>2, <3>1, <3>3
      <4> QED BY <4>1, <4>2
    <3> QED BY <3>1, <3>3, <3>5
  <2> QED BY <2>1, <2>3, <2>4
<1> QED BY <1>1, <1>2 DEF Fapra32!CallsAsCommented, Fapra32!INST_SIZE

LEMMA FapraSteps ==
  ASSUME FapraStart, Fapra32!Step
  PROVE  FapraStart' /\ Fapra32!CallsAsCommented'
<1>1. pc \in DOMAIN prog /\ steps < 3 /\ steps' = steps + 1 /\ prog' = prog
  BY DEF Fapra32!Step, Fapra32!Fail, Fapra32!Taken, Fapra32!Untaken
<1>5. steps \in Nat /\ Len(did) \in Nat /\ Len(did) < steps' /\ (steps' = 1 => Len(did) # 1)
      /\ (steps' = 2 => Len(did) # 2) /\ steps' # 0 /\ steps' \in Nat
  <2> DEFINE n == Len(did)
  <2>1. steps \in Nat /\ n \in Nat /\ n <= steps
    BY DEF FapraStart
  <2> HIDE DEF n
  <2>2. n < steps' /\ (steps' = 1 => n # 1) /\ (steps' = 2 => n # 2) /\ steps' # 0 /\ steps' \in Nat
    BY <1>1, <2>1
  <2> QED BY <2>1, <2>2 DEF n
<1>2. CASE Fapra32!Fail
  <2>1. r' = r /\ did' = did /\ ctl' = "exit"
    BY <1>2 DEF Fapra32!Fail
  <2>2. FapraStart'
    BY <1>1, <1>5, <2>1 DEF FapraStart
  <2> QED BY <2>1, <2>2 DEF Fapra32!CallsAsCommented
<1>3. CASE Fapra32!Untaken
  <2>1. r' = r /\ did' = did /\ before'.pc = pc
    BY <1>3 DEF Fapra32!Untaken
  <2>2. FapraStart'
    BY <1>1, <1>5, <2>1 DEF FapraStart
  <2>3. Fapra32!opc(prog[pc]) # "CALL"
    BY <1>3 DEF Fapra32!Untaken, Fapra32!Conditional, Fapra32!Here, Fapra32!tag
  <2> QED BY <1>1, <2>1, <2>2, <2>3 DEF Fapra32!CallsAsCommented
<1>4. CASE Fapra32!Taken
  <2>1. /\ did' = Append(did, pc) /\ did' \in Seq(DOMAIN prog) /\ Len(did') = Len(did) + 1
        /\ Len(did) \in Nat
    BY <1>1, <1>4 DEF FapraStart, Fapra32!Taken
  <2>2. Shaped(r')
    BY <1>4, FapraShaped DEF FapraStart
  <2>3. steps \in Nat /\ steps' # 0
    BY <1>1 DEF FapraStart
  <2>4. steps' = 1 /\ Len(did') = 1 => AfterOne'
    BY <1>1, <1>4, <2>3, FapraFirst
  <2>5. steps' = 2 /\ Len(did') = 2 => AfterTwo'
    <3>1. ASSUME steps' = 2, Len(did') = 2 PROVE steps = 1 /\ Len(did) = 1
      <4> DEFINE n == Len(did)
      <4>1. n + 1 = 2 /\ n \in Nat /\ steps + 1 = 2
        BY <1>1, <2>1, <3>1
      <4> HIDE DEF n
      <4>2. n = 1 /\ steps = 1
        BY <2>3, <4>1
      <4> QED BY <4>2 DEF n
    <3> QED BY <1>1, <1>4, <3>1, FapraSecond
  <2>6. FapraStart'
    BY <1>1, <2>1, <2>2, <2>3, <2>4, <2>5 DEF FapraStart
  <2> QED BY <1>1, <1>4, <2>6, FapraCalls
<1> QED BY <1>2, <1>3, <1>4 DEF Fapra32!Step

LEMMA FapraKept == FapraInv /\ [MCNext]_allvars => FapraInv'
<1> SUFFICES ASSUME FapraInv, [MCNext]_allvars, guest' = "Fapra"
             PROVE  FapraStart' /\ Fapra32!CallsAsCommented'
  BY DEF FapraInv
<1>1. guest' = guest
  BY DEF MCNext, allvars
<1>2. FapraStart /\ Fapra32!CallsAsCommented
  BY <1>1 DEF FapraInv
<1>3. CASE UNCHANGED allvars
  BY <1>2, <1>3 DEF allvars, mips, vars, FapraStart, AfterOne, AfterTwo, Fapra32!CallsAsCommented
<1>4. CASE NextFapra
  BY <1>2, <1>4, FapraSteps DEF NextFapra, Fapra32!Next
<1> QED BY <1>1, <1>3, <1>4
        DEF MCNext, Next6502, NextStack, NextMips, Next88k, NextArm, NextX86

--------------------------------------------------------------------------------
(***************************************************************************)
(* The M88000.  A word of the machine, and the operators of Frontend.tla   *)
(* that the module of the M88000 has.                                      *)
(***************************************************************************)
W88 == M88000!W32

LEMMA Width88 ==
    /\ W88 \in Nat /\ W88 >= 4 /\ W88 = 2 * M88kImmBits /\ M88kImmBits \in Nat \ {0}
    /\ M88kImmBits % 2 = 0 /\ M88kImmBits < W88
    /\ M88000!Byte \in Nat \ {0} /\ W88 = 4 * M88000!Byte
    /\ 2^W88 \in Nat /\ 2^W88 >= 16 /\ 2^(W88 - 1) \in Nat \ {0} /\ 2^W88 = 2 * 2^(W88 - 1)
<1>1. M88kImmBits \in Nat \ {0} /\ M88kImmBits % 2 = 0 /\ W88 = 2 * M88kImmBits
  BY M88kAssumption DEF M88000!BytesAssumed, W88, M88000!W32
<1>2. /\ W88 \in Nat /\ W88 >= 4 /\ M88kImmBits < W88 /\ W88 \div 4 \in Nat \ {0}
      /\ W88 = 4 * (W88 \div 4)
  BY <1>1
<1>3. M88000!Byte = W88 \div 4
  BY DEF M88000!Byte, W88
<1>4. /\ 2^W88 \in Nat \ {0} /\ 2^(W88 - 1) \in Nat \ {0} /\ 2^(W88 - 4) \in Nat \ {0}
      /\ 2^4 = 16
  <2>1. W88 - 1 \in Nat /\ W88 - 4 \in Nat
    BY <1>2
  <2>2. 2^4 = 16
    OBVIOUS
  <2> QED BY <1>2, <2>1, <2>2, PowerPositive
<1>5. 2^W88 = 2 * 2^(W88 - 1)
  <2>1. W88 - 1 \in Nat /\ (W88 - 1) + 1 = W88
    BY <1>2
  <2> QED BY <2>1, PowersOfTwo DEF Doubles
<1>6. 2^W88 >= 16
  <2>1. W88 - 4 \in Nat /\ (W88 - 4) + 4 = W88
    BY <1>2
  <2>2. 2^W88 = 2^(W88 - 4) * 2^4
    BY <2>1, PowerSum
  <2> DEFINE q == 2^(W88 - 4)
             p == 2^W88
  <2>3. p = q * 16 /\ q \in Nat \ {0}
    BY <1>4, <2>2
  <2> HIDE DEF p, q
  <2>4. p >= 16
    BY <2>3
  <2> QED BY <2>4 DEF p
<1> QED BY <1>1, <1>2, <1>3, <1>4, <1>5, <1>6

LEMMA Same88 ==
  ASSUME NEW n, NEW a, NEW b
  PROVE  /\ M88000!AND(n, a, b) = AND(n, a, b) /\ M88000!OR(n, a, b) = OR(n, a, b)
         /\ M88000!XOR(n, a, b) = XOR(n, a, b) /\ M88000!COM(n, a) = COM(n, a)
         /\ M88000!SHL(n, a, b) = SHL(n, a, b) /\ M88000!ASHR(n, a, b) = ASHR(n, a, b)
         /\ M88000!LSHR(a, b) = LSHR(a, b) /\ M88000!Signed(n, a) = Signed(n, a)
         /\ M88000!Word(n) = Word(n)
<1>1. M88000!COM(n, a) = COM(n, a) /\ M88000!SHL(n, a, b) = SHL(n, a, b) /\ M88000!Word(n) = Word(n)
  BY DEF M88000!COM, COM, M88000!SHL, SHL, M88000!Word, Word
<1>2. M88000!AND(n, a, b) = AND(n, a, b)
  BY DEF M88000!AND, AND, M88000!OfBits, OfBits, M88000!BitOf, BitOf, M88000!LSHR, LSHR
<1>3. M88000!OR(n, a, b) = OR(n, a, b)
  BY DEF M88000!OR, OR, M88000!OfBits, OfBits, M88000!BitOf, BitOf, M88000!LSHR, LSHR, M88000!Bit, Bit
<1>4. M88000!XOR(n, a, b) = XOR(n, a, b)
  BY DEF M88000!XOR, XOR, M88000!OfBits, OfBits, M88000!BitOf, BitOf, M88000!LSHR, LSHR, M88000!Bit, Bit
<1>5. M88000!LSHR(a, b) = LSHR(a, b)
  BY DEF M88000!LSHR, LSHR
<1>6. M88000!Signed(n, a) = Signed(n, a) /\ M88000!ASHR(n, a, b) = ASHR(n, a, b)
  BY DEF M88000!Signed, Signed, M88000!Negative, Negative, M88000!ASHR, ASHR
<1> QED BY <1>1, <1>2, <1>3, <1>4, <1>5, <1>6

LEMMA Bit88 ==
  ASSUME NEW x \in Word(W88)
  PROVE  \A k \in Nat : M88000!bit(x, k) = BitOf(x, k) /\ BitOf(x, k) \in 0..1
<1> SUFFICES ASSUME NEW k \in Nat
             PROVE  M88000!bit(x, k) = BitOf(x, k) /\ BitOf(x, k) \in 0..1
  OBVIOUS
<1>1. x \in Nat
  BY DEF Word
<1>2. CASE k < W88
  BY <1>1, <1>2, Width88, BitTyped DEF M88000!bit, W88, BitOf, LSHR, M88000!LSHR
<1>3. CASE k >= W88
  <2>1. M88000!bit(x, k) = 0
    BY <1>3, Width88 DEF M88000!bit, W88
  <2>2. BitOf(x, k) = 0
    BY <1>3, Width88, NoBit
  <2> QED BY <2>1, <2>2
<1> QED BY <1>2, <1>3, Width88

--------------------------------------------------------------------------------
(***************************************************************************)
(* What an instruction leaves alone.                                       *)
(***************************************************************************)
Machine88(s) ==
    /\ s = [gpr |-> s.gpr, C |-> s.C, TRAPNO |-> s.TRAPNO, ram |-> s.ram]
    /\ s.gpr = [n \in M88000!Regs |-> s.gpr[n]]

LEMMA Let88 ==
  ASSUME NEW s, Machine88(s), NEW n \in M88000!Regs, NEW v
  PROVE  /\ Machine88(M88000!Let(s, n, v)) /\ M88000!Let(s, n, v).ram = s.ram
         /\ M88000!Let(s, n, v).C = s.C
         /\ n # 0 => M88000!Let(s, n, v).gpr[n] = v
         /\ \A m \in M88000!Regs : m # n => M88000!Let(s, n, v).gpr[m] = s.gpr[m]
<1> DEFINE t == M88000!Let(s, n, v)
<1>1. CASE n = 0
  <2>1. t = s
    BY <1>1 DEF M88000!Let
  <2> QED BY <1>1, <2>1
<1>2. CASE n # 0
  <2>1. t = [gpr |-> [s.gpr EXCEPT ![n] = v], C |-> s.C, TRAPNO |-> s.TRAPNO, ram |-> s.ram]
    BY <1>2 DEF M88000!Let, Machine88
  <2> HIDE DEF t
  <2>2. t.gpr = [s.gpr EXCEPT ![n] = v] /\ t.C = s.C /\ t.TRAPNO = s.TRAPNO /\ t.ram = s.ram
    BY <2>1
  <2>3. DOMAIN s.gpr = M88000!Regs
    BY DEF Machine88
  <2>4. t.gpr = [m \in M88000!Regs |-> t.gpr[m]] /\ t.gpr[n] = v
    BY <2>2, <2>3
  <2>5. \A m \in M88000!Regs : m # n => t.gpr[m] = s.gpr[m]
    BY <2>2, <2>3
  <2>6. t = [gpr |-> t.gpr, C |-> t.C, TRAPNO |-> t.TRAPNO, ram |-> t.ram]
    BY <2>1, <2>2
  <2>7. Machine88(t)
    BY <2>4, <2>6 DEF Machine88
  <2> QED BY <2>2, <2>4, <2>5, <2>7 DEF t
<1> QED BY <1>1, <1>2

\* The other parts of the machine.
LEMMA Other88 ==
  ASSUME NEW s, Machine88(s), NEW x
  PROVE  /\ Machine88([s EXCEPT !.C = x]) /\ [s EXCEPT !.C = x].gpr = s.gpr
         /\ [s EXCEPT !.C = x].ram = s.ram /\ [s EXCEPT !.C = x].C = x
         /\ Machine88([s EXCEPT !.TRAPNO = x]) /\ [s EXCEPT !.TRAPNO = x].gpr = s.gpr
         /\ [s EXCEPT !.TRAPNO = x].ram = s.ram
         /\ Machine88([s EXCEPT !.ram = x]) /\ [s EXCEPT !.ram = x].gpr = s.gpr
         /\ [s EXCEPT !.ram = x].ram = x
<1>1. /\ [s EXCEPT !.C = x] = [gpr |-> s.gpr, C |-> x, TRAPNO |-> s.TRAPNO, ram |-> s.ram]
      /\ [s EXCEPT !.TRAPNO = x] = [gpr |-> s.gpr, C |-> s.C, TRAPNO |-> x, ram |-> s.ram]
      /\ [s EXCEPT !.ram = x] = [gpr |-> s.gpr, C |-> s.C, TRAPNO |-> s.TRAPNO, ram |-> x]
  BY DEF Machine88
<1> QED BY <1>1 DEF Machine88

\* The registers that an instruction may write.
Written88(i) ==
    {M88000!rd(i)} \cup
    (IF M88000!opcode(i) = "LD_D" THEN {M88000!Even(M88000!rd(i)), M88000!Odd(M88000!rd(i))} ELSE {})

LEMMA Pairs88 ==
  ASSUME NEW n \in 0..31
  PROVE  /\ M88000!Even(n) \in 0..31 /\ M88000!Odd(n) \in 0..31
         /\ M88000!Odd(n) = M88000!Even(n) + 1
         /\ M88000!Even(n) # 1 /\ n \in {M88000!Even(n), M88000!Odd(n)}
<1>1. n % 2 \in 0..1 /\ n - (n % 2) \in 0..30 /\ n - (n % 2) # 1
  OBVIOUS
<1>2. M88000!Even(n) = n - (n % 2) /\ M88000!Odd(n) = n - (n % 2) + 1
  BY DEF M88000!Even, M88000!Odd
<1> QED BY <1>1, <1>2

LEMMA Registers88 ==
  ASSUME NEW i, M88000!IsWord(i)
  PROVE  /\ M88000!rd(i) \in M88000!Regs /\ M88000!rs1(i) \in M88000!Regs
         /\ M88000!rs2(i) \in M88000!Regs
         /\ M88000!Even(M88000!rd(i)) \in M88000!Regs /\ M88000!Odd(M88000!rd(i)) \in M88000!Regs
<1>1. i.d \in 0..31 /\ i.s \in 0..31 /\ i.low \in Nat
  BY DEF M88000!IsWord, M88000!Word
<1>2. i.low % 32 \in 0..31
  BY <1>1
<1>3. M88000!rd(i) = i.d /\ M88000!rs1(i) = i.s /\ M88000!rs2(i) = i.low % 32 /\ M88000!Regs = 0..31
  BY DEF M88000!rd, M88000!rs1, M88000!rs2, M88000!Regs
<1> QED BY <1>1, <1>2, <1>3, Pairs88

\* Whatever the machine did before, as t says, and what is left alone.
Leaves(s, i, t) ==
    /\ Machine88(t)
    /\ \A n \in M88000!Regs : n \notin Written88(i) => t.gpr[n] = s.gpr[n]
    /\ M88000!opcode(i) \notin M88000!is_store \cup M88000!is_xmem => t.ram = s.ram

LEMMA Accessed88 ==
  ASSUME NEW s, Machine88(s), NEW i, M88000!IsWord(i), NEW t \in M88000!Accessed(s, i),
         M88000!opcode(i) \in DOMAIN M88000!Width
  PROVE  Leaves(s, i, t)
<1> DEFINE n == M88000!rd(i)
           o == M88000!opcode(i)
<1>1. /\ n \in M88000!Regs /\ M88000!Even(n) \in M88000!Regs /\ M88000!Odd(n) \in M88000!Regs
      /\ n \in Written88(i)
  BY Registers88 DEF Written88
<1>2. o \in {"LD_B", "LD_BU", "LD_H", "LD_HU", "LD", "LD_D", "ST_B", "ST_H", "ST", "ST_D", "XMEM"}
  BY DEF M88000!Width
<1> DEFINE a0 == M88000!Located(s, i)
           w0 == M88000!Width[o]
<1>0. t \in CASE o = "LD_D" -> M88000!LoadPair(s, i) [] o = "ST_D" -> M88000!StorePair(s, i)
             [] o = "XMEM" -> {M88000!arch_m88k_xmem(s, i)}
             [] o \in M88000!is_load \ {"LD_D"} -> {M88000!Let(s, n, M88000!Loaded(s, i))}
             [] OTHER -> {[s EXCEPT !.ram = M88000!Write(@, a0, w0, s.gpr[n])]}
  <2>1. CASE ~M88000!Within(s.ram, a0, w0)
    BY <2>1 DEF M88000!Accessed
  <2>2. CASE M88000!Within(s.ram, a0, w0)
    BY <2>2 DEF M88000!Accessed
  <2> QED BY <2>1, <2>2
<1>3. CASE o = "LD_D"
  <2>1. t \in M88000!LoadPair(s, i)
    BY <1>0, <1>3
  <2>2. \E x, y : t = M88000!Let(M88000!Let(s, M88000!Even(n), x), M88000!Odd(n), y)
    BY <2>1 DEF M88000!LoadPair
  <2>3. PICK x, y : t = M88000!Let(M88000!Let(s, M88000!Even(n), x), M88000!Odd(n), y)
    BY <2>2
  <2> DEFINE u == M88000!Let(s, M88000!Even(n), x)
  <2>4. Machine88(u) /\ u.ram = s.ram /\ \A m \in M88000!Regs : m # M88000!Even(n) => u.gpr[m] = s.gpr[m]
    BY <1>1, Let88
  <2> HIDE DEF u
  <2>5. Machine88(t) /\ t.ram = u.ram /\ \A m \in M88000!Regs : m # M88000!Odd(n) => t.gpr[m] = u.gpr[m]
    BY <1>1, <2>3, <2>4, Let88 DEF u
  <2>6. M88000!Even(n) \in Written88(i) /\ M88000!Odd(n) \in Written88(i)
    BY <1>3 DEF Written88
  <2> QED BY <2>4, <2>5, <2>6 DEF Leaves
<1>4. CASE o = "ST_D"
  <2>1. t \in M88000!StorePair(s, i)
    BY <1>0, <1>4 DEF M88000!is_load
  <2>2. PICK x : t = [s EXCEPT !.ram = x]
    BY <2>1 DEF M88000!StorePair
  <2>3. Machine88(t) /\ t.gpr = s.gpr
    BY <2>2, Other88
  <2> QED BY <1>4, <2>3 DEF Leaves, M88000!is_store
<1>5. CASE o = "XMEM"
  <2>1. t \in {M88000!arch_m88k_xmem(s, i)}
    BY <1>0, <1>5 DEF M88000!is_load
  <2>2. \E x, y : t = [M88000!Let(s, n, x) EXCEPT !.ram = y]
    BY <2>1 DEF M88000!arch_m88k_xmem
  <2>3. PICK x, y : t = [M88000!Let(s, n, x) EXCEPT !.ram = y]
    BY <2>2
  <2> DEFINE u == M88000!Let(s, n, x)
  <2>4. Machine88(u) /\ \A m \in M88000!Regs : m # n => u.gpr[m] = s.gpr[m]
    BY <1>1, Let88
  <2> HIDE DEF u
  <2>5. Machine88(t) /\ t.gpr = u.gpr
    BY <2>3, <2>4, Other88 DEF u
  <2> QED BY <1>1, <1>5, <2>4, <2>5 DEF Leaves, M88000!is_xmem
<1>6. CASE o \in {"LD_B", "LD_BU", "LD_H", "LD_HU", "LD"}
  <2>1. t \in {M88000!Let(s, n, M88000!Loaded(s, i))}
    BY <1>0, <1>6 DEF M88000!is_load
  <2>2. /\ Machine88(t) /\ t.ram = s.ram
        /\ \A m \in M88000!Regs : m # n => t.gpr[m] = s.gpr[m]
    BY <1>1, <2>1, Let88
  <2> QED BY <1>1, <2>2 DEF Leaves
<1>7. CASE o \in {"ST_B", "ST_H", "ST"}
  <2>1. PICK x : t = [s EXCEPT !.ram = x]
    <3>1. t \in {[s EXCEPT !.ram = M88000!Write(@, a0, w0, s.gpr[n])]}
      BY <1>0, <1>7 DEF M88000!is_load
    <3> QED BY <3>1
  <2>2. Machine88(t) /\ t.gpr = s.gpr
    BY <2>1, Other88
  <2> QED BY <1>7, <2>2 DEF Leaves, M88000!is_store
<1> QED BY <1>2, <1>3, <1>4, <1>5, <1>6, <1>7

\* The rows of Done() exclude each other.
LEMMA Rows88 ==
  ASSUME NEW i
  PROVE  LET o == M88000!opcode(i)
             moves == o \in DOMAIN M88000!Width /\ M88000!format(i) \in M88000!MemoryForms
         IN /\ o \in M88000!Alu => ~moves /\ o \notin M88000!Linking /\ o # "FLDCR" /\ ~M88000!Trapped(i)
            /\ moves => o \notin M88000!Linking /\ o # "FLDCR" /\ ~M88000!Trapped(i)
            /\ o \in M88000!Linking => o # "FLDCR" /\ ~M88000!Trapped(i)
            /\ o = "FLDCR" => ~M88000!Trapped(i)
<1> DEFINE o == M88000!opcode(i)
<1>1. o \in DOMAIN M88000!Width =>
        o \in {"LD_B", "LD_BU", "LD_H", "LD_HU", "LD", "LD_D", "ST_B", "ST_H", "ST", "ST_D", "XMEM"}
  BY DEF M88000!Width
<1>2. M88000!Trapped(i) => o \in {"TB0", "TBND", "TCND", "TB1"}
  BY DEF M88000!Trapped, M88000!Traps
<1>3. o \in M88000!Linking => o \in {"JSR", "JSR_N", "BSR", "BSR_N"}
  BY DEF M88000!Linking
<1>4. o \in M88000!Alu =>
        o \in {"ADD", "ADDU", "SUB", "SUBU"} \cup
              {"AND", "AND_C", "AND_U", "MASK", "MASK_U", "OR", "OR_C", "OR_U", "XOR", "XOR_C", "XOR_U"}
              \cup {"ROT", "MAK", "SET", "CLR", "EXT", "EXTU"} \cup {"LDA_H", "LDA", "LDA_D", "LDA_X"}
              \cup {"MULS", "MULU", "DIVS", "DIVU", "CMP"}
  BY DEF M88000!Alu, M88000!AddSub, M88000!Logic, M88000!Fields, M88000!LDA
<1> HIDE DEF o
<1>5. /\ o \in M88000!Alu =>
           o \notin DOMAIN M88000!Width /\ o \notin M88000!Linking /\ o # "FLDCR" /\ ~M88000!Trapped(i)
      /\ o \in DOMAIN M88000!Width => o \notin M88000!Linking /\ o # "FLDCR" /\ ~M88000!Trapped(i)
      /\ o \in M88000!Linking => o # "FLDCR" /\ ~M88000!Trapped(i)
      /\ o = "FLDCR" => ~M88000!Trapped(i)
  BY <1>1, <1>2, <1>3, <1>4
<1> QED BY <1>5 DEF o

LEMMA Leaves88 ==
  ASSUME NEW s, Machine88(s), NEW i, M88000!IsWord(i), NEW a, NEW t \in M88000!Done(s, i, a),
         M88000!opcode(i) \notin M88000!Linking
  PROVE  Leaves(s, i, t)
<1> DEFINE n == M88000!rd(i)
           o == M88000!opcode(i)
<1>1. n \in M88000!Regs /\ n \in Written88(i)
  BY Registers88 DEF Written88
<1>2. \A v : Leaves(s, i, M88000!Let(s, n, v))
  BY <1>1, Let88 DEF Leaves
<1>3. CASE o \in M88000!Alu
  <2> DEFINE v0 == M88000!Calculated(s, i)
             c0 == IF o \in M88000!AddSub /\ M88000!carry(i) % 2 = 1
                   THEN M88000!CarryOut(i, s.gpr[M88000!rs1(i)], M88000!Operand(s, i), v0) ELSE s.C
             q0 == IF v0 = M88000!Poison THEN M88kValues ELSE {v0}
  <2>0. t \in {[M88000!Let(s, n, x) EXCEPT !.C = c0] : x \in q0}
    <3>1. t \in M88000!Computed(s, i)
      BY <1>3, Rows88 DEF M88000!Done
    <3> QED BY <3>1 DEF M88000!Computed
  <2> HIDE DEF v0, c0, q0
  <2>1. \E x, c : t = [M88000!Let(s, n, x) EXCEPT !.C = c]
    BY <2>0
  <2>2. PICK x, c : t = [M88000!Let(s, n, x) EXCEPT !.C = c]
    BY <2>1
  <2> DEFINE u == M88000!Let(s, n, x)
  <2>3. Leaves(s, i, u)
    BY <1>2
  <2> HIDE DEF u
  <2>4. Machine88(t) /\ t.gpr = u.gpr /\ t.ram = u.ram
    BY <2>2, <2>3, Other88 DEF u, Leaves
  <2> QED BY <2>3, <2>4 DEF Leaves
<1>4. CASE o \notin M88000!Alu /\ o \in DOMAIN M88000!Width /\ M88000!format(i) \in M88000!MemoryForms
  <2>1. t \in M88000!Accessed(s, i)
    BY <1>4, Rows88 DEF M88000!Done
  <2> QED BY <1>4, <2>1, Accessed88
<1>5. CASE /\ o \notin M88000!Alu
           /\ ~(o \in DOMAIN M88000!Width /\ M88000!format(i) \in M88000!MemoryForms)
  <2>1. \/ t = M88000!Let(s, n, 0)
        \/ t = [s EXCEPT !.TRAPNO = M88000!vec9(i)]
        \/ t = s
    BY <1>5 DEF M88000!Done
  <2>2. Leaves(s, i, [s EXCEPT !.TRAPNO = M88000!vec9(i)]) /\ Leaves(s, i, s)
    BY Other88 DEF Leaves
  <2> QED BY <1>2, <2>1, <2>2
<1> QED BY <1>3, <1>4, <1>5

\* The states of M88k.tla are machines.
LEMMA State88 ==
  ASSUME NEW s, M88000!IsState(s)
  PROVE  /\ Machine88(s)
         /\ \A n \in M88000!Regs : s.gpr[n] \in Word(W88) /\ s.gpr[n] \in Nat
<1>1. Word(W88) = M88000!Word(M88000!W32)
  BY DEF Word, M88000!Word, W88
<1>2. s.gpr \in [M88000!Regs -> Word(W88)]
  BY <1>1 DEF M88000!IsState
<1>3. Word(W88) \subseteq Nat
  BY DEF Word
<1> QED BY <1>2, <1>3 DEF M88000!IsState, Machine88

\* An instruction that calculates something.
LEMMA Result88 ==
  ASSUME NEW s, Machine88(s), NEW i, M88000!IsWord(i), NEW a, NEW t \in M88000!Done(s, i, a),
         M88000!opcode(i) \in M88000!Alu, M88000!rd(i) # 0, M88000!Calculated(s, i) \in Nat
  PROVE  /\ t.gpr[M88000!rd(i)] = M88000!Calculated(s, i)
         /\ t.C = IF M88000!opcode(i) \in M88000!AddSub /\ M88000!carry(i) % 2 = 1
                  THEN M88000!CarryOut(i, s.gpr[M88000!rs1(i)], M88000!Operand(s, i),
                         M88000!Calculated(s, i))
                  ELSE s.C
<1> DEFINE n == M88000!rd(i)
           o == M88000!opcode(i)
           v == M88000!Calculated(s, i)
           c == IF o \in M88000!AddSub /\ M88000!carry(i) % 2 = 1
                THEN M88000!CarryOut(i, s.gpr[M88000!rs1(i)], M88000!Operand(s, i), v) ELSE s.C
           q == IF v = M88000!Poison THEN M88kValues ELSE {v}
<1>1. t \in {[M88000!Let(s, n, x) EXCEPT !.C = c] : x \in q}
  <2>1. t \in M88000!Computed(s, i)
    BY Rows88 DEF M88000!Done
  <2> QED BY <2>1 DEF M88000!Computed
<1>2. q = {v}
  BY DEF M88000!Poison
<1> HIDE DEF v, c, q
<1>3. t = [M88000!Let(s, n, v) EXCEPT !.C = c]
  BY <1>1, <1>2
<1> DEFINE u == M88000!Let(s, n, v)
<1>4. Machine88(u) /\ u.gpr[n] = v
  BY Registers88, Let88
<1> HIDE DEF u
<1>5. t.gpr = u.gpr /\ t.C = c
  BY <1>3, <1>4, Other88 DEF u
<1> QED BY <1>4, <1>5 DEF v, c

--------------------------------------------------------------------------------
(* Bit fields. *)
LEMMA Field88 ==
  ASSUME NEW i, M88000!IsWord(i), M88000!FieldDefined(i)
  PROVE  /\ M88000!bit_offset(i) \in Nat /\ M88000!bit_offset(i) < W88
         /\ M88000!bit_width(i) \in Nat
         /\ M88000!bit_width(i) = 0 \/ M88000!bit_offset(i) + M88000!bit_width(i) <= W88
         /\ M88000!format(i) = "BFMT_REG" /\ M88000!opcode(i) = "ROT" => M88000!bit_offset(i) # 0
<1>1. i.low \in Nat
  BY DEF M88000!IsWord, M88000!Word
<1>2. 2^5 = 32
  OBVIOUS
<1>3. i.low % 32 \in Nat /\ (i.low \div 32) % 32 \in Nat
  BY <1>1
<1> QED BY <1>2, <1>3 DEF M88000!FieldDefined, M88000!bit_offset, M88000!bit_width, M88000!LSHR, W88

LEMMA Mask88 ==
  ASSUME NEW i, M88000!IsWord(i), M88000!FieldDefined(i), NEW w,
         w = IF M88000!bit_width(i) = 0 THEN W88 ELSE M88000!bit_width(i)
  PROVE  /\ w \in Nat /\ w \in 1..W88
         /\ M88000!wmask(i) \in Nat
         /\ \A k \in Nat : BitOf(M88000!wmask(i), k) = IF k < w THEN 1 ELSE 0
<1>1. w \in Nat /\ w \in 1..W88
  BY Field88, Width88
<1>2. M88000!wmask(i) = 2^w - 1
  BY DEF M88000!wmask, W88
<1>3. 2^w - 1 \in Nat
  BY <1>1, PowerPositive
<1> QED BY <1>1, <1>2, <1>3, OnesBits

LEMMA FieldsExact ==
  ASSUME NEW a \in Word(W88), NEW i, M88000!IsWord(i), M88000!FieldDefined(i),
         M88000!opcode(i) \in M88000!Fields
  PROVE  /\ M88000!FieldInsn(i, a) \in Word(W88)
         /\ \A k \in 0..(W88 - 1) : BitOf(M88000!FieldInsn(i, a), k) = M88000!FieldBit(i, a, k)
<1> DEFINE o == M88000!bit_offset(i)
           m == M88000!wmask(i)
           w == IF M88000!bit_width(i) = 0 THEN W88 ELSE M88000!bit_width(i)
           v == M88000!FieldInsn(i, a)
<1>1. /\ o \in Nat /\ o < W88 /\ a \in Nat /\ W88 \in Nat \ {0}
      /\ w \in 1..W88 /\ m \in Nat /\ \A k \in Nat : BitOf(m, k) = IF k < w THEN 1 ELSE 0
      /\ M88000!bit_width(i) = 0 \/ o + w <= W88
  <2>1. a \in Nat
    BY DEF Word
  <2> QED BY <2>1, Field88, Mask88, Width88
<1>2. \A k \in Nat : M88000!bit(a, k) = BitOf(a, k) /\ BitOf(a, k) \in 0..1
  BY Bit88
<1>3. /\ LSHR(a, o) \in Nat /\ \A k \in Nat : BitOf(LSHR(a, o), k) = BitOf(a, k + o)
  BY <1>1, ShiftedRight
<1>4. /\ SHL(W88, m, o) \in Word(W88) /\ SHL(W88, m, o) \in Nat
      /\ \A k \in 0..(W88 - 1) : BitOf(SHL(W88, m, o), k) = Bit(k >= o /\ k < o + w)
  <2>1. /\ SHL(W88, m, o) \in Word(W88)
        /\ \A k \in 0..(W88 - 1) : BitOf(SHL(W88, m, o), k) = IF k < o THEN 0 ELSE BitOf(m, k - o)
    BY <1>1, ShiftedLeft
  <2>2. \A k \in 0..(W88 - 1) : k >= o => k - o \in Nat /\ (k - o < w <=> k < o + w)
    BY <1>1
  <2>3. SHL(W88, m, o) \in Nat
    BY <2>1 DEF Word
  <2> HIDE DEF m, w, o
  <2>4. ASSUME NEW k \in 0..(W88 - 1)
        PROVE  BitOf(SHL(W88, m, o), k) = Bit(k >= o /\ k < o + w)
    <3>1. CASE k < o
      BY <1>1, <2>1, <3>1 DEF Bit
    <3>2. CASE k >= o
      <4>1. BitOf(SHL(W88, m, o), k) = BitOf(m, k - o) /\ k - o \in Nat /\ (k - o < w <=> k < o + w)
        BY <1>1, <2>1, <2>2, <3>2
      <4>2. BitOf(m, k - o) = IF k - o < w THEN 1 ELSE 0
        BY <1>1, <4>1
      <4> QED BY <3>2, <4>1, <4>2 DEF Bit
    <3> QED BY <1>1, <3>1, <3>2
  <2> QED BY <2>1, <2>3, <2>4
<1>5. ASSUME NEW k \in 0..(W88 - 1)
      PROVE  /\ k \in o..(o + w - 1) <=> k >= o /\ k < o + w
             /\ M88000!opcode(i) = "SET" =>
                  M88000!FieldBit(i, a, k) = IF k \in o..(o + w - 1) THEN 1 ELSE M88000!bit(a, k)
             /\ M88000!opcode(i) = "CLR" =>
                  M88000!FieldBit(i, a, k) = IF k \in o..(o + w - 1) THEN 0 ELSE M88000!bit(a, k)
             /\ M88000!opcode(i) = "MAK" =>
                  M88000!FieldBit(i, a, k) = IF k \in o..(o + w - 1) THEN M88000!bit(a, k - o) ELSE 0
             /\ M88000!opcode(i) = "EXTU" =>
                  M88000!FieldBit(i, a, k) = IF k < w THEN M88000!bit(a, k + o) ELSE 0
             /\ M88000!opcode(i) = "ROT" =>
                  M88000!FieldBit(i, a, k) = M88000!bit(a, (k + o) % W88)
             /\ M88000!opcode(i) = "EXT" =>
                  M88000!FieldBit(i, a, k) =
                    M88000!bit(a, IF k + o < W88 /\ k < w THEN k + o
                                  ELSE IF o + w < W88 THEN o + w - 1 ELSE W88 - 1)
  <2>1. k \in o..(o + w - 1) <=> k >= o /\ k < o + w
    <3> HIDE DEF o, w
    <3> QED BY <1>1
  <2> QED BY <2>1 DEF M88000!FieldBit, W88
<1>6. /\ M88000!opcode(i) = "SET" => v = OR(W88, a, SHL(W88, m, o))
      /\ M88000!opcode(i) = "CLR" => v = AND(W88, a, COM(W88, SHL(W88, m, o)))
      /\ M88000!opcode(i) = "MAK" => v = SHL(W88, AND(W88, a, m), o)
      /\ M88000!opcode(i) = "EXTU" => v = AND(W88, LSHR(a, o), m)
      /\ M88000!opcode(i) = "EXT" => v = M88000!EXT(a, M88000!bit_width(i), o)
      /\ M88000!opcode(i) = "ROT" => v = M88000!Disjoint(LSHR(a, o), M88000!Shift(a, W88 - o))
  BY Same88 DEF M88000!FieldInsn, W88
<1> DEFINE BitsExact == /\ v \in Word(W88)
                        /\ \A k \in 0..(W88 - 1) : BitOf(v, k) = M88000!FieldBit(i, a, k)
<1>7. CASE M88000!opcode(i) = "SET"
  <2>1. v = OR(W88, a, SHL(W88, m, o))
    BY <1>6, <1>7
  <2> HIDE DEF v, m, o, w
  <2>2. v \in Word(W88)
    BY <1>1, <1>4, <2>1, LogicTyped
  <2>3. ASSUME NEW k \in 0..(W88 - 1) PROVE BitOf(v, k) = M88000!FieldBit(i, a, k)
    <3>1. BitOf(v, k) = Bit(1 \in {BitOf(a, k), BitOf(SHL(W88, m, o), k)})
      BY <1>1, <1>4, <2>1, LogicBits
    <3>2. M88000!FieldBit(i, a, k) = IF k >= o /\ k < o + w THEN 1 ELSE BitOf(a, k)
      BY <1>2, <1>5, <1>7
    <3>3. BitOf(SHL(W88, m, o), k) = Bit(k >= o /\ k < o + w) /\ BitOf(a, k) \in 0..1
      BY <1>2, <1>4
    <3> QED BY <3>1, <3>2, <3>3 DEF Bit
  <2> QED BY <2>2, <2>3 DEF v
<1>8. CASE M88000!opcode(i) = "CLR"
  <2>1. v = AND(W88, a, COM(W88, SHL(W88, m, o)))
    BY <1>6, <1>8
  <2> HIDE DEF v, m, o, w
  <2> DEFINE c == COM(W88, SHL(W88, m, o))
  <2>2. /\ c \in Nat
        /\ \A k \in 0..(W88 - 1) : BitOf(c, k) = 1 - BitOf(SHL(W88, m, o), k)
    <3>1. \A k \in 0..(W88 - 1) : c \in Word(W88) /\ BitOf(c, k) = 1 - BitOf(SHL(W88, m, o), k)
      BY <1>1, <1>4, ComBits
    <3>2. 0 \in 0..(W88 - 1)
      BY <1>1
    <3> QED BY <3>1, <3>2 DEF Word
  <2> HIDE DEF c
  <2>3. v \in Word(W88)
    BY <1>1, <2>1, <2>2, LogicTyped DEF c
  <2>4. ASSUME NEW k \in 0..(W88 - 1) PROVE BitOf(v, k) = M88000!FieldBit(i, a, k)
    <3>1. BitOf(v, k) = BitOf(a, k) * BitOf(c, k)
      BY <1>1, <2>1, <2>2, LogicBits DEF c
    <3>2. M88000!FieldBit(i, a, k) = IF k >= o /\ k < o + w THEN 0 ELSE BitOf(a, k)
      BY <1>2, <1>5, <1>8
    <3>3. BitOf(c, k) = 1 - Bit(k >= o /\ k < o + w) /\ BitOf(a, k) \in 0..1
      BY <1>2, <1>4, <2>2
    <3> QED BY <3>1, <3>2, <3>3 DEF Bit
  <2> QED BY <2>3, <2>4 DEF v
<1>9. CASE M88000!opcode(i) = "MAK"
  <2>1. v = SHL(W88, AND(W88, a, m), o)
    BY <1>6, <1>9
  <2> HIDE DEF v, m, o, w
  <2> DEFINE f == AND(W88, a, m)
  <2>2. f \in Nat
    <3>1. f \in Word(W88)
      BY <1>1, LogicTyped
    <3> QED BY <3>1 DEF Word
  <2>3. /\ v \in Word(W88)
        /\ \A k \in 0..(W88 - 1) : BitOf(v, k) = IF k < o THEN 0 ELSE BitOf(f, k - o)
    <3> HIDE DEF f
    <3> QED BY <1>1, <2>1, <2>2, ShiftedLeft DEF f
  <2>4. ASSUME NEW k \in 0..(W88 - 1) PROVE BitOf(v, k) = M88000!FieldBit(i, a, k)
    <3>1. CASE k < o
      BY <1>1, <1>5, <1>9, <2>3, <3>1
    <3>2. CASE k >= o
      <4>1. k - o \in Nat /\ k - o \in 0..(W88 - 1) /\ (k - o < w <=> k < o + w)
        BY <1>1, <3>2
      <4>2. BitOf(f, k - o) = BitOf(a, k - o) * BitOf(m, k - o)
        BY <1>1, <4>1, LogicBits
      <4>3. BitOf(m, k - o) = IF k < o + w THEN 1 ELSE 0
        BY <1>1, <4>1
      <4>4. M88000!FieldBit(i, a, k) = IF k < o + w THEN BitOf(a, k - o) ELSE 0
        BY <1>2, <1>5, <1>9, <3>2, <4>1
      <4>5. BitOf(a, k - o) \in 0..1
        BY <1>2, <4>1
      <4>6. BitOf(v, k) = BitOf(f, k - o)
        BY <1>1, <2>3, <3>2
      <4> HIDE DEF f
      <4> QED BY <4>2, <4>3, <4>4, <4>5, <4>6
    <3> QED BY <1>1, <3>1, <3>2
  <2> QED BY <2>3, <2>4 DEF v
<1>10. CASE M88000!opcode(i) = "EXTU"
  <2>1. v = AND(W88, LSHR(a, o), m)
    BY <1>6, <1>10
  <2> HIDE DEF v, m, o, w
  <2>2. v \in Word(W88)
    BY <1>1, <1>3, <2>1, LogicTyped
  <2>3. ASSUME NEW k \in 0..(W88 - 1) PROVE BitOf(v, k) = M88000!FieldBit(i, a, k)
    <3>1. BitOf(v, k) = BitOf(LSHR(a, o), k) * BitOf(m, k)
      BY <1>1, <1>3, <2>1, LogicBits
    <3>2. BitOf(LSHR(a, o), k) = BitOf(a, k + o) /\ BitOf(m, k) = IF k < w THEN 1 ELSE 0
      BY <1>1, <1>3
    <3>3. M88000!FieldBit(i, a, k) = IF k < w THEN BitOf(a, k + o) ELSE 0
      <4>1. k + o \in Nat
        BY <1>1
      <4> QED BY <1>2, <1>5, <1>10, <4>1
    <3>4. BitOf(a, k + o) \in 0..1
      BY <1>1, <1>2
    <3> QED BY <3>1, <3>2, <3>3, <3>4
  <2> QED BY <2>2, <2>3 DEF v
<1>11. CASE M88000!opcode(i) = "EXT"
  <2>1. v = M88000!EXT(a, M88000!bit_width(i), o)
    BY <1>6, <1>11
  <2>2. CASE M88000!bit_width(i) = 0
    <3>1. v = ASHR(W88, a, o) /\ w = W88
      BY <2>1, <2>2, Same88 DEF M88000!EXT, W88
    <3> HIDE DEF v, o, w
    <3>2. /\ v \in Word(W88)
          /\ \A k \in 0..(W88 - 1) :
               BitOf(v, k) = BitOf(a, IF k + o < W88 THEN k + o ELSE W88 - 1)
      BY <1>1, <3>1, ShiftedSigned
    <3>3. ASSUME NEW k \in 0..(W88 - 1) PROVE BitOf(v, k) = M88000!FieldBit(i, a, k)
      <4> DEFINE j == IF k + o < W88 THEN k + o ELSE W88 - 1
      <4>1. j \in Nat /\ j = IF k + o < W88 /\ k < w THEN k + o
                              ELSE IF o + w < W88 THEN o + w - 1 ELSE W88 - 1
        BY <1>1, <3>1
      <4>2. BitOf(v, k) = BitOf(a, j)
        BY <3>2
      <4> HIDE DEF j
      <4>3. M88000!FieldBit(i, a, k) = M88000!bit(a, j)
        BY <1>5, <1>11, <4>1
      <4> QED BY <1>2, <4>1, <4>2, <4>3
    <3> QED BY <3>2, <3>3 DEF v
  <2>3. CASE M88000!bit_width(i) # 0
    <3> DEFINE nb == W88 - (o + w)
               f == SHL(W88, a, nb)
    <3>1. /\ w = M88000!bit_width(i) /\ o + w <= W88
          /\ nb \in Nat /\ nb % W88 = nb /\ o + nb = W88 - w /\ (W88 - w) % W88 = W88 - w
          /\ W88 - w \in Nat
      <4>1. w = M88000!bit_width(i) /\ o + w <= W88
        BY <1>1, <2>3
      <4>2. nb \in Nat /\ nb \in 0..(W88 - 1) /\ o + nb = W88 - w /\ W88 - w \in 0..(W88 - 1)
        <5> HIDE DEF o, w
        <5> QED BY <1>1, <4>1
      <4> HIDE DEF w, o, nb
      <4>3. \A x \in 0..(W88 - 1) : x % W88 = x /\ x \in Nat
        BY <1>1
      <4> QED BY <4>1, <4>2, <4>3
    <3>2. v = ASHR(W88, f, W88 - w)
      <4>1. v = ASHR(W88, SHL(W88, a, nb % W88), (o + nb) % W88)
        BY <2>1, <2>3, <3>1, Same88 DEF M88000!EXT, W88
      <4> QED BY <3>1, <4>1
    <3> HIDE DEF v, o, w, nb
    <3>10. /\ nb \in Nat /\ o \in Nat /\ w \in Nat /\ W88 - w \in Nat /\ w >= 1
           /\ o + w <= W88 /\ nb = W88 - (o + w) /\ W88 \in Nat \ {0}
      BY <1>1, <3>1 DEF nb
    <3>3. /\ f \in Word(W88)
          /\ \A k \in 0..(W88 - 1) : BitOf(f, k) = IF k < nb THEN 0 ELSE BitOf(a, k - nb)
      BY <1>1, <3>10, ShiftedLeft
    <3> HIDE DEF f
    <3>4. /\ v \in Word(W88)
          /\ \A k \in 0..(W88 - 1) :
               BitOf(v, k) = BitOf(f, IF k + (W88 - w) < W88 THEN k + (W88 - w) ELSE W88 - 1)
      BY <1>1, <3>1, <3>2, <3>3, ShiftedSigned
    <3>5. ASSUME NEW k \in 0..(W88 - 1) PROVE BitOf(v, k) = M88000!FieldBit(i, a, k)
      <4> DEFINE e == IF k + (W88 - w) < W88 THEN k + (W88 - w) ELSE W88 - 1
                 j == IF k < w THEN k + o ELSE o + w - 1
      <4>1. e \in 0..(W88 - 1) /\ ~(e < nb) /\ e - nb = j /\ j \in Nat
        BY <3>10
      <4>2. j = IF k + o < W88 /\ k < w THEN k + o
                ELSE IF o + w < W88 THEN o + w - 1 ELSE W88 - 1
        BY <3>10
      <4>3. BitOf(v, k) = BitOf(f, e)
        BY <3>4
      <4> HIDE DEF e, j
      <4>4. BitOf(f, e) = BitOf(a, j)
        BY <3>3, <4>1
      <4>5. M88000!FieldBit(i, a, k) = M88000!bit(a, j)
        BY <1>5, <1>11, <4>2
      <4> QED BY <1>2, <4>1, <4>3, <4>4, <4>5
    <3> QED BY <3>4, <3>5 DEF v
  <2> QED BY <2>2, <2>3
<1>12. CASE M88000!opcode(i) = "ROT"
  <2> DEFINE f == LSHR(a, o)
             n == W88 - o
             g == SHL(W88, a, n)
  <2>1. o # 0 /\ n \in Nat /\ n < W88
    BY <1>1, <1>12 DEF M88000!FieldDefined
  <2>2. /\ g \in Word(W88) /\ g \in Nat
        /\ \A k \in 0..(W88 - 1) : BitOf(g, k) = IF k < n THEN 0 ELSE BitOf(a, k - n)
    <3> HIDE DEF n
    <3>1. /\ g \in Word(W88)
          /\ \A k \in 0..(W88 - 1) : BitOf(g, k) = IF k < n THEN 0 ELSE BitOf(a, k - n)
      BY <1>1, <2>1, ShiftedLeft
    <3> QED BY <3>1 DEF Word
  <2>3. v = OR(W88, f, g)
    <3>1. M88000!Shift(a, n) = g
      <4>1. ~(n >= M88000!W32)
        BY <1>1, <2>1 DEF W88
      <4>2. M88000!Shift(a, n) = M88000!SHL(M88000!W32, a, n)
        BY <4>1 DEF M88000!Shift
      <4> QED BY <4>2, Same88 DEF W88
    <3>2. v = M88000!Disjoint(f, M88000!Shift(a, n))
      BY <1>6, <1>12
    <3>3. f # -1 /\ g # -1
      <4> HIDE DEF g, f
      <4> QED BY <1>3, <2>2 DEF f
    <3> HIDE DEF f, g, n, v
    <3>4. v = M88000!Disjoint(f, g)
      BY <3>1, <3>2
    <3>5. M88000!Disjoint(f, g) = M88000!OR(M88000!W32, f, g)
      BY <3>3 DEF M88000!Disjoint, M88000!Poison
    <3> QED BY <3>4, <3>5, Same88 DEF W88
  <2>4. f \in Nat
    BY <1>3
  <2> HIDE DEF g, v
  <2>5. v \in Word(W88)
    <3> HIDE DEF f
    <3> QED BY <1>1, <2>2, <2>3, <2>4, LogicTyped
  <2>6. ASSUME NEW k \in 0..(W88 - 1) PROVE BitOf(v, k) = M88000!FieldBit(i, a, k)
    <3>1. BitOf(v, k) = Bit(1 \in {BitOf(f, k), BitOf(g, k)})
      <4> HIDE DEF f
      <4> QED BY <1>1, <2>2, <2>3, <2>4, LogicBits
    <3>2. BitOf(f, k) = BitOf(a, k + o)
      BY <1>3
    <3>3. M88000!FieldBit(i, a, k) = M88000!bit(a, (k + o) % W88)
      BY <1>5, <1>12
    <3>4. k + o \in Nat /\ n = W88 - o
      BY <1>1
    <3>5. BitOf(a, k + o) \in 0..1
      BY <1>2, <3>4
    <3> HIDE DEF n, f
    <3>6. CASE k + o < W88
      <4>1. k < n /\ (k + o) % W88 = k + o
        <5>1. \A x \in 0..(W88 - 1) : x % W88 = x
          BY <1>1
        <5> HIDE DEF o
        <5>2. k < n /\ k + o \in 0..(W88 - 1)
          BY <1>1, <2>1, <3>4, <3>6
        <5> QED BY <5>1, <5>2
      <4>2. BitOf(g, k) = 0
        BY <2>2, <4>1
      <4>3. M88000!FieldBit(i, a, k) = BitOf(a, k + o)
        BY <1>2, <3>3, <3>4, <4>1
      <4> QED BY <3>1, <3>2, <3>5, <4>2, <4>3 DEF Bit
    <3>7. CASE k + o >= W88
      <4>1. ~(k < n) /\ (k + o) % W88 = k - n /\ k - n \in Nat
        <5>1. \A x \in 0..(W88 - 1) : (x + W88) % W88 = x
          BY <1>1
        <5> HIDE DEF o
        <5>2. ~(k < n) /\ k - n \in 0..(W88 - 1) /\ k + o = (k - n) + W88
          BY <1>1, <2>1, <3>4, <3>7
        <5> QED BY <5>1, <5>2
      <4>2. BitOf(g, k) = BitOf(a, k - n)
        BY <2>2, <4>1
      <4>3. BitOf(a, k + o) = 0
        <5> HIDE DEF o
        <5> QED BY <1>1, <3>4, <3>7, NoBit
      <4>4. M88000!FieldBit(i, a, k) = BitOf(a, k - n) /\ BitOf(a, k - n) \in 0..1
        BY <1>2, <3>3, <4>1
      <4> QED BY <3>1, <3>2, <4>2, <4>3, <4>4 DEF Bit
    <3>8. k + o < W88 \/ k + o >= W88
      <4> HIDE DEF o
      <4> QED BY <1>1, <3>4
    <3> QED BY <3>6, <3>7, <3>8
  <2> QED BY <2>5, <2>6 DEF v
<1>13. M88000!opcode(i) \in {"ROT", "MAK", "SET", "CLR", "EXT", "EXTU"}
  BY DEF M88000!Fields
<1> QED BY <1>7, <1>8, <1>9, <1>10, <1>11, <1>12, <1>13

\* arch_m88k_shift() with a field in the instruction.
LEMMA FieldsKept ==
  ASSUME NEW s, M88000!IsState(s), NEW i, M88000!IsWord(i), NEW a, NEW t \in M88000!Done(s, i, a),
         M88000!opcode(i) \in M88000!Fields, M88000!FieldDefined(i), M88000!rd(i) # 0
  PROVE  \A k \in 0..(M88000!W32 - 1) :
            M88000!bit(t.gpr[M88000!rd(i)], k) = M88000!FieldBit(i, s.gpr[M88000!rs1(i)], k)
<1> DEFINE x == s.gpr[M88000!rs1(i)]
           v == M88000!FieldInsn(i, x)
<1>1. x \in Word(W88)
  BY State88, Registers88
<1>2. v \in Word(W88) /\ \A k \in 0..(W88 - 1) : BitOf(v, k) = M88000!FieldBit(i, x, k)
  <2> HIDE DEF x
  <2> QED BY <1>1, FieldsExact
<1>3. M88000!Calculated(s, i) = v
  <2>1. M88000!opcode(i) \in {"ROT", "MAK", "SET", "CLR", "EXT", "EXTU"} /\ M88000!format(i) = "BFMT_REG"
    BY DEF M88000!Fields, M88000!FieldDefined
  <2> QED BY <2>1 DEF M88000!Calculated, M88000!Fields, M88000!AddSub, M88000!Logic, M88000!LDA
<1> HIDE DEF v, x
<1>4. M88000!opcode(i) \in M88000!Alu /\ v \in Nat
  BY <1>2 DEF M88000!Alu, Word
<1>5. t.gpr[M88000!rd(i)] = v
  BY <1>3, <1>4, State88, Result88
<1> QED BY <1>2, <1>5, Bit88, Width88 DEF x, W88

--------------------------------------------------------------------------------
(* Comparisons. *)
LEMMA Nibbles == M88000!Nibble(TRUE) = 9 /\ M88000!Nibble(FALSE) = 6
<1>1. \A k \in 0..3 : k \in {0, 1, 2, 3}
  OBVIOUS
<1>2. 4 \in Nat /\ 4 - 1 = 3 /\ 15 \in Nat /\ 0 \in Nat /\ 6 \in Nat /\ 9 \in Word(4) /\ 6 \in Word(4)
  BY SmallPowers DEF Word
<1>3. /\ XOR(4, 15, 6) \in Word(4) /\ XOR(4, 0, 6) \in Word(4)
      /\ \A k \in 0..3 : /\ BitOf(XOR(4, 15, 6), k) = Bit(BitOf(15, k) # BitOf(6, k))
                         /\ BitOf(XOR(4, 0, 6), k) = Bit(BitOf(0, k) # BitOf(6, k))
  BY <1>2, LogicTyped, LogicBits
<1>4. /\ BitOf(15, 0) = 1 /\ BitOf(15, 1) = 1 /\ BitOf(15, 2) = 1 /\ BitOf(15, 3) = 1
      /\ BitOf(6, 0) = 0 /\ BitOf(6, 1) = 1 /\ BitOf(6, 2) = 1 /\ BitOf(6, 3) = 0
      /\ BitOf(9, 0) = 1 /\ BitOf(9, 1) = 0 /\ BitOf(9, 2) = 0 /\ BitOf(9, 3) = 1
      /\ BitOf(0, 0) = 0 /\ BitOf(0, 1) = 0 /\ BitOf(0, 2) = 0 /\ BitOf(0, 3) = 0
  BY SmallPowers DEF BitOf, LSHR
<1>5. \A k \in 0..3 : /\ BitOf(XOR(4, 15, 6), k) = BitOf(9, k)
                      /\ BitOf(XOR(4, 0, 6), k) = BitOf(6, k)
  BY <1>1, <1>3, <1>4 DEF Bit
<1>6. XOR(4, 15, 6) = 9 /\ XOR(4, 0, 6) = 6
  BY <1>2, <1>3, <1>5, SameBits
<1> QED BY <1>6, Same88 DEF M88000!Nibble

\* The condition bits of a comparison, as four bits for each order.
LEMMA Conditions ==
  ASSUME NEW p \in {9, 6}, NEW q \in {9, 6}
  PROVE  LET c == OR(16, 40968, OR(16, p * 2^8, q * 2^4)) IN
         /\ c \in Nat
         /\ BitOf(c, 2) = 0 /\ BitOf(c, 3) = 1
         /\ BitOf(c, 4) = Bit(q = 9) /\ BitOf(c, 5) = Bit(q = 6)
         /\ BitOf(c, 6) = Bit(q = 6) /\ BitOf(c, 7) = Bit(q = 9)
         /\ BitOf(c, 8) = Bit(p = 9) /\ BitOf(c, 9) = Bit(p = 6)
         /\ BitOf(c, 10) = Bit(p = 6) /\ BitOf(c, 11) = Bit(p = 9)
<1> DEFINE x == p * 2^8
           y == q * 2^4
           d == OR(16, x, y)
           c == OR(16, 40968, d)
<1>1. x \in {2304, 1536} /\ y \in {144, 96} /\ (x = 2304 <=> p = 9) /\ (y = 144 <=> q = 9)
      /\ (p = 6 <=> x = 1536) /\ (q = 6 <=> y = 96)
  BY SmallPowers
<1> HIDE DEF x, y
<1>2. x \in Nat /\ y \in Nat /\ 40968 \in Nat /\ 16 \in Nat
  BY <1>1
<1>3. d \in Nat /\ \A k \in 0..15 : BitOf(d, k) = Bit(1 \in {BitOf(x, k), BitOf(y, k)})
  <2>1. d \in Word(16)
    BY <1>2, LogicTyped
  <2>2. \A k \in 0..(16 - 1) : BitOf(d, k) = Bit(1 \in {BitOf(x, k), BitOf(y, k)})
    BY <1>2, LogicBits
  <2> HIDE DEF d
  <2> QED BY <2>1, <2>2 DEF Word
<1> HIDE DEF d
<1>4. c \in Nat /\ \A k \in 0..15 : BitOf(c, k) = Bit(1 \in {BitOf(40968, k), BitOf(d, k)})
  <2>1. c \in Word(16)
    BY <1>2, <1>3, LogicTyped
  <2>2. \A k \in 0..(16 - 1) : BitOf(c, k) = Bit(1 \in {BitOf(40968, k), BitOf(d, k)})
    <3> DEFINE e == 40968
    <3>1. e \in Nat /\ d \in Nat /\ c = OR(16, e, d)
      BY <1>3 DEF c
    <3> HIDE DEF e
    <3> QED BY <1>2, <3>1, LogicBits DEF e
  <2> HIDE DEF c
  <2> QED BY <2>1, <2>2 DEF Word
<1> HIDE DEF c
<1>5. /\ BitOf(40968, 2) = 0 /\ BitOf(40968, 3) = 1 /\ BitOf(40968, 4) = 0 /\ BitOf(40968, 5) = 0
      /\ BitOf(40968, 6) = 0 /\ BitOf(40968, 7) = 0 /\ BitOf(40968, 8) = 0 /\ BitOf(40968, 9) = 0
      /\ BitOf(40968, 10) = 0 /\ BitOf(40968, 11) = 0
  BY SmallPowers DEF BitOf, LSHR
<1>6. /\ BitOf(2304, 2) = 0 /\ BitOf(2304, 3) = 0 /\ BitOf(2304, 4) = 0 /\ BitOf(2304, 5) = 0
      /\ BitOf(2304, 6) = 0 /\ BitOf(2304, 7) = 0 /\ BitOf(2304, 8) = 1 /\ BitOf(2304, 9) = 0
      /\ BitOf(2304, 10) = 0 /\ BitOf(2304, 11) = 1
  BY SmallPowers DEF BitOf, LSHR
<1>7. /\ BitOf(1536, 2) = 0 /\ BitOf(1536, 3) = 0 /\ BitOf(1536, 4) = 0 /\ BitOf(1536, 5) = 0
      /\ BitOf(1536, 6) = 0 /\ BitOf(1536, 7) = 0 /\ BitOf(1536, 8) = 0 /\ BitOf(1536, 9) = 1
      /\ BitOf(1536, 10) = 1 /\ BitOf(1536, 11) = 0
  BY SmallPowers DEF BitOf, LSHR
<1>8. /\ BitOf(144, 2) = 0 /\ BitOf(144, 3) = 0 /\ BitOf(144, 4) = 1 /\ BitOf(144, 5) = 0
      /\ BitOf(144, 6) = 0 /\ BitOf(144, 7) = 1 /\ BitOf(144, 8) = 0 /\ BitOf(144, 9) = 0
      /\ BitOf(144, 10) = 0 /\ BitOf(144, 11) = 0
  BY SmallPowers DEF BitOf, LSHR
<1>9. /\ BitOf(96, 2) = 0 /\ BitOf(96, 3) = 0 /\ BitOf(96, 4) = 0 /\ BitOf(96, 5) = 1
      /\ BitOf(96, 6) = 1 /\ BitOf(96, 7) = 0 /\ BitOf(96, 8) = 0 /\ BitOf(96, 9) = 0
      /\ BitOf(96, 10) = 0 /\ BitOf(96, 11) = 0
  BY SmallPowers DEF BitOf, LSHR
<1>10. /\ BitOf(x, 2) = 0 /\ BitOf(x, 3) = 0 /\ BitOf(x, 4) = 0 /\ BitOf(x, 5) = 0
       /\ BitOf(x, 6) = 0 /\ BitOf(x, 7) = 0
       /\ BitOf(x, 8) = Bit(p = 9) /\ BitOf(x, 9) = Bit(p = 6)
       /\ BitOf(x, 10) = Bit(p = 6) /\ BitOf(x, 11) = Bit(p = 9)
  <2>1. CASE x = 2304
    BY <1>1, <1>6, <2>1 DEF Bit
  <2>2. CASE x = 1536
    BY <1>1, <1>7, <2>2 DEF Bit
  <2> QED BY <1>1, <2>1, <2>2
<1>11. /\ BitOf(y, 2) = 0 /\ BitOf(y, 3) = 0 /\ BitOf(y, 8) = 0 /\ BitOf(y, 9) = 0
       /\ BitOf(y, 10) = 0 /\ BitOf(y, 11) = 0
       /\ BitOf(y, 4) = Bit(q = 9) /\ BitOf(y, 5) = Bit(q = 6)
       /\ BitOf(y, 6) = Bit(q = 6) /\ BitOf(y, 7) = Bit(q = 9)
  <2>1. CASE y = 144
    BY <1>1, <1>8, <2>1 DEF Bit
  <2>2. CASE y = 96
    BY <1>1, <1>9, <2>2 DEF Bit
  <2> QED BY <1>1, <2>1, <2>2
<1>12. {2, 3, 4, 5, 6, 7, 8, 9, 10, 11} \subseteq 0..15
  OBVIOUS
<1>13. ASSUME NEW k \in {2, 3, 4, 5, 6, 7, 8, 9, 10, 11}
       PROVE  BitOf(c, k) = IF BitOf(40968, k) = 1 \/ BitOf(x, k) = 1 \/ BitOf(y, k) = 1 THEN 1 ELSE 0
  BY <1>3, <1>4, <1>12, <1>13 DEF Bit
<1>14. /\ BitOf(c, 2) = 0 /\ BitOf(c, 3) = 1
       /\ BitOf(c, 4) = Bit(q = 9) /\ BitOf(c, 5) = Bit(q = 6)
       /\ BitOf(c, 6) = Bit(q = 6) /\ BitOf(c, 7) = Bit(q = 9)
       /\ BitOf(c, 8) = Bit(p = 9) /\ BitOf(c, 9) = Bit(p = 6)
       /\ BitOf(c, 10) = Bit(p = 6) /\ BitOf(c, 11) = Bit(p = 9)
  BY <1>5, <1>10, <1>11, <1>13 DEF Bit
<1> QED BY <1>4, <1>14 DEF c, d, x, y

\* A number is signed in one way.
LEMMA SignedOrder ==
  ASSUME NEW a \in Word(W88), NEW b \in Word(W88)
  PROVE  /\ M88000!Signed(W88, a) \in Int /\ M88000!Signed(W88, b) \in Int
         /\ M88000!Signed(W88, a) = M88000!Signed(W88, b) <=> a = b
<1> DEFINE p == 2^(W88 - 1)
<1>1. p \in Nat \ {0} /\ 2^W88 = 2 * p
  BY Width88
<1>2. a \in 0..(2 * p - 1) /\ b \in 0..(2 * p - 1)
  BY <1>1 DEF Word
<1>3. /\ M88000!Signed(W88, a) = IF a >= p THEN a - 2 * p ELSE a
      /\ M88000!Signed(W88, b) = IF b >= p THEN b - 2 * p ELSE b
  BY <1>1 DEF M88000!Signed, M88000!Negative
<1> HIDE DEF p
<1> QED BY <1>1, <1>2, <1>3

\* arch_m88k_cmp(): each pair of bits is a relation and its opposite.
LEMMA ComparesExactly ==
  ASSUME NEW a \in Word(W88), NEW b \in Word(W88)
  PROVE  LET c == M88000!arch_m88k_cmp(a, b) IN
         /\ c \in Nat
         /\ \A k \in 2..11 : BitOf(c, k) = 1 <=> M88000!CmpBits(a, b)[k - 1]
<1> DEFINE c == M88000!arch_m88k_cmp(a, b)
           x == M88000!Signed(W88, a)
           y == M88000!Signed(W88, b)
<1>1. x \in Int /\ y \in Int /\ (x = y <=> a = b) /\ a \in Nat /\ b \in Nat
  BY SignedOrder DEF Word
<1>2. M88000!CmpBits(a, b) = <<a = b, a # b, x > y, x <= y, x < y, x >= y, a > b, a <= b, a < b, a >= b>>
  BY DEF M88000!CmpBits, W88
<1>3. a = b => c = 23204
  BY DEF M88000!arch_m88k_cmp
<1>4. a # b => c = OR(16, 40968, OR(16, M88000!Nibble(a > b) * 2^8, M88000!Nibble(y < x) * 2^4))
  BY Same88 DEF M88000!arch_m88k_cmp, M88000!ICMP_SLT, W88
<1> HIDE DEF c, x, y
<1>5. \A k \in 2..11 : k \in {2, 3, 4, 5, 6, 7, 8, 9, 10, 11}
  OBVIOUS
<1> SUFFICES /\ c \in Nat
             /\ BitOf(c, 2) = 1 <=> a = b
             /\ BitOf(c, 3) = 1 <=> a # b
             /\ BitOf(c, 4) = 1 <=> x > y
             /\ BitOf(c, 5) = 1 <=> x <= y
             /\ BitOf(c, 6) = 1 <=> x < y
             /\ BitOf(c, 7) = 1 <=> x >= y
             /\ BitOf(c, 8) = 1 <=> a > b
             /\ BitOf(c, 9) = 1 <=> a <= b
             /\ BitOf(c, 10) = 1 <=> a < b
             /\ BitOf(c, 11) = 1 <=> a >= b
  <2> DEFINE t == M88000!CmpBits(a, b)
  <2>1. /\ t[1] = (a = b) /\ t[2] = (a # b) /\ t[3] = (x > y) /\ t[4] = (x <= y) /\ t[5] = (x < y)
        /\ t[6] = (x >= y) /\ t[7] = (a > b) /\ t[8] = (a <= b) /\ t[9] = (a < b) /\ t[10] = (a >= b)
    BY <1>2
  <2> HIDE DEF t
  <2>2. ASSUME NEW k \in {2, 3, 4, 5, 6, 7, 8, 9, 10, 11}
        PROVE  BitOf(c, k) = 1 <=> t[k - 1]
    <3>1. CASE k = 2
      <4>1. BitOf(c, 2) = 1 <=> t[1]
        BY <2>1
      <4>2. k - 1 = 1
        BY <3>1
      <4> QED BY <3>1, <4>1, <4>2
    <3>2. CASE k = 3
      <4>1. BitOf(c, 3) = 1 <=> t[2]
        BY <2>1
      <4>2. k - 1 = 2
        BY <3>2
      <4> QED BY <3>2, <4>1, <4>2
    <3>3. CASE k = 4
      <4>1. BitOf(c, 4) = 1 <=> t[3]
        BY <2>1
      <4>2. k - 1 = 3
        BY <3>3
      <4> QED BY <3>3, <4>1, <4>2
    <3>4. CASE k = 5
      <4>1. BitOf(c, 5) = 1 <=> t[4]
        BY <2>1
      <4>2. k - 1 = 4
        BY <3>4
      <4> QED BY <3>4, <4>1, <4>2
    <3>5. CASE k = 6
      <4>1. BitOf(c, 6) = 1 <=> t[5]
        BY <2>1
      <4>2. k - 1 = 5
        BY <3>5
      <4> QED BY <3>5, <4>1, <4>2
    <3>6. CASE k = 7
      <4>1. BitOf(c, 7) = 1 <=> t[6]
        BY <2>1
      <4>2. k - 1 = 6
        BY <3>6
      <4> QED BY <3>6, <4>1, <4>2
    <3>7. CASE k = 8
      <4>1. BitOf(c, 8) = 1 <=> t[7]
        BY <2>1
      <4>2. k - 1 = 7
        BY <3>7
      <4> QED BY <3>7, <4>1, <4>2
    <3>8. CASE k = 9
      <4>1. BitOf(c, 9) = 1 <=> t[8]
        BY <2>1
      <4>2. k - 1 = 8
        BY <3>8
      <4> QED BY <3>8, <4>1, <4>2
    <3>9. CASE k = 10
      <4>1. BitOf(c, 10) = 1 <=> t[9]
        BY <2>1
      <4>2. k - 1 = 9
        BY <3>9
      <4> QED BY <3>9, <4>1, <4>2
    <3>10. CASE k = 11
      <4>1. BitOf(c, 11) = 1 <=> t[10]
        BY <2>1
      <4>2. k - 1 = 10
        BY <3>10
      <4> QED BY <3>10, <4>1, <4>2
    <3> QED BY <2>2, <3>1, <3>2, <3>3, <3>4, <3>5, <3>6, <3>7, <3>8, <3>9, <3>10
  <2> QED BY <1>5, <2>2 DEF c, t
<1>6. CASE a = b
  <2>1. /\ BitOf(23204, 2) = 1 /\ BitOf(23204, 3) = 0 /\ BitOf(23204, 4) = 0 /\ BitOf(23204, 5) = 1
        /\ BitOf(23204, 6) = 0 /\ BitOf(23204, 7) = 1 /\ BitOf(23204, 8) = 0 /\ BitOf(23204, 9) = 1
        /\ BitOf(23204, 10) = 0 /\ BitOf(23204, 11) = 1
    BY SmallPowers DEF BitOf, LSHR
  <2>2. c = 23204 /\ c \in Nat
    BY <1>3, <1>6
  <2> QED BY <1>1, <1>6, <2>1, <2>2
<1>7. CASE a # b
  <2> DEFINE p == M88000!Nibble(a > b)
             q == M88000!Nibble(y < x)
  <2>1. p = (IF a > b THEN 9 ELSE 6) /\ q = (IF y < x THEN 9 ELSE 6)
    <3>1. \A z \in BOOLEAN : M88000!Nibble(z) = IF z THEN 9 ELSE 6
      BY Nibbles
    <3>2. (a > b) \in BOOLEAN /\ (y < x) \in BOOLEAN
      BY <1>1
    <3> QED BY <3>1, <3>2
  <2>2. c = OR(16, 40968, OR(16, p * 2^8, q * 2^4))
    BY <1>4, <1>7
  <2> HIDE DEF p, q
  <2>3. p \in {9, 6} /\ q \in {9, 6}
    BY <2>1
  <2>4. /\ c \in Nat
        /\ BitOf(c, 2) = 0 /\ BitOf(c, 3) = 1
        /\ BitOf(c, 4) = Bit(q = 9) /\ BitOf(c, 5) = Bit(q = 6)
        /\ BitOf(c, 6) = Bit(q = 6) /\ BitOf(c, 7) = Bit(q = 9)
        /\ BitOf(c, 8) = Bit(p = 9) /\ BitOf(c, 9) = Bit(p = 6)
        /\ BitOf(c, 10) = Bit(p = 6) /\ BitOf(c, 11) = Bit(p = 9)
    BY <2>2, <2>3, Conditions
  <2>5. /\ (p = 9 <=> a > b) /\ (p = 6 <=> a < b) /\ (q = 9 <=> x > y) /\ (q = 6 <=> x < y)
        /\ (a <= b <=> a < b) /\ (a >= b <=> a > b) /\ (x <= y <=> x < y) /\ (x >= y <=> x > y)
    BY <1>1, <1>7, <2>1
  <2> QED BY <1>7, <2>4, <2>5 DEF Bit
<1> QED BY <1>6, <1>7

--------------------------------------------------------------------------------
(* The second operand. *)
LEMMA Immediates ==
  ASSUME NEW i, M88000!IsWord(i)
  PROVE  /\ M88000!UIMM(i) \in Word(W88) /\ M88000!IMM(i) \in Word(W88)
         /\ M88000!IMM_U(i) \in Word(W88) /\ M88000!IMM_B(i) \in Word(W88)
         /\ M88000!IMM_UB(i) \in Word(W88) /\ M88000!immediate(i) \in Int
<1> DEFINE h == 2^M88kImmBits
           n == 2^W88
           u == M88000!UIMM(i)
<1>1. h \in Nat \ {0} /\ n = h * h /\ M88kImmBits - 1 \in Nat
  <2>1. W88 = M88kImmBits + M88kImmBits /\ M88kImmBits \in Nat /\ M88kImmBits - 1 \in Nat
    BY Width88
  <2>2. 2^(M88kImmBits + M88kImmBits) = h * h
    BY <2>1, PowerSum
  <2>3. h \in Nat \ {0}
    BY <2>1, PowerPositive
  <2> QED BY <2>1, <2>2, <2>3
<1>2. i.low \in Nat
  BY DEF M88000!IsWord, M88000!Word
<1>3. u = i.low % h /\ u \in 0..(h - 1)
  <2>1. u = i.low % h
    BY DEF M88000!UIMM, M88000!TRUNC
  <2> HIDE DEF u, h
  <2> QED BY <1>1, <1>2, <2>1
<1>4. M88000!immediate(i) \in Int
  <2>1. M88000!immediate(i) = Signed(M88kImmBits, u)
    BY Same88 DEF M88000!immediate, M88000!UIMM
  <2>2. Signed(M88kImmBits, u) \in {u, u - h}
    BY DEF Signed
  <2> HIDE DEF u, h
  <2> QED BY <1>1, <1>3, <2>1, <2>2
<1>5. M88000!IMM(i) \in 0..(n - 1)
  <2>1. M88000!IMM(i) = M88000!immediate(i) % n
    BY DEF M88000!IMM, M88000!TRUNC, W88
  <2>2. n \in Nat \ {0}
    BY <1>1
  <2> HIDE DEF n
  <2> QED BY <1>4, <2>1, <2>2, Residue
<1>6. /\ M88000!IMM_U(i) = u * h /\ M88000!IMM_B(i) = u + (n - h)
      /\ M88000!IMM_UB(i) = u * h + h - 1
  BY DEF M88000!IMM_U, M88000!IMM_B, M88000!IMM_UB, W88
<1> HIDE DEF h, n, u
<1>7. u * h \in Nat /\ u * h + h <= n /\ h <= n /\ n \in Nat
  <2>1. u * h <= (h - 1) * h /\ (h - 1) * h = h * h - h /\ h * h \in Nat /\ u * h \in Nat
    BY <1>1, <1>3
  <2>2. h * h >= h
    BY <1>1, <2>1, <1>3
  <2> QED BY <1>1, <2>1, <2>2
<1>8. /\ u \in 0..(n - 1) /\ M88000!IMM_U(i) \in 0..(n - 1) /\ M88000!IMM_B(i) \in 0..(n - 1)
      /\ M88000!IMM_UB(i) \in 0..(n - 1)
  <2> DEFINE z == u * h
  <2>1. z \in Nat /\ z + h <= n /\ h <= n /\ n \in Nat
    BY <1>7
  <2>2. M88000!IMM_U(i) = z /\ M88000!IMM_UB(i) = z + h - 1
    BY <1>6
  <2> HIDE DEF z
  <2> QED BY <1>1, <1>3, <1>6, <2>1, <2>2
<1> QED BY <1>4, <1>5, <1>8 DEF Word, n, u

LEMMA Operand88 ==
  ASSUME NEW s, M88000!IsState(s), NEW i, M88000!IsWord(i)
  PROVE  M88000!Operand(s, i) \in Word(W88) /\ s.gpr[M88000!rs1(i)] \in Word(W88)
<1>1. /\ s.gpr[M88000!rs2(i)] \in Word(W88) /\ s.gpr[M88000!rs1(i)] \in Word(W88)
  BY Registers88, State88
<1>2. M88000!Operand(s, i) \in
        {s.gpr[M88000!rs2(i)], M88000!UIMM(i), M88000!IMM(i), M88000!IMM_U(i), M88000!IMM_B(i),
          M88000!IMM_UB(i)}
  <2>1. CASE M88000!format(i) # "IFMT_REG"
    BY <2>1 DEF M88000!Operand
  <2>2. CASE M88000!format(i) = "IFMT_REG"
    <3>1. M88000!Operand(s, i) =
            CASE M88000!opcode(i) \in M88000!Signs -> M88000!IMM(i)
              [] M88000!opcode(i) = "AND" -> M88000!IMM_B(i)
              [] M88000!opcode(i) = "AND_U" -> M88000!IMM_UB(i)
              [] M88000!opcode(i) \in {"MASK_U", "OR_U", "XOR_U"} -> M88000!IMM_U(i)
              [] OTHER -> M88000!UIMM(i)
      BY <2>2 DEF M88000!Operand
    <3> QED BY <3>1 DEF M88000!Signs
  <2> QED BY <2>1, <2>2
<1> QED BY <1>1, <1>2, Immediates

LEMMA ComparisonsKept ==
  ASSUME NEW s, M88000!IsState(s), NEW i, M88000!IsWord(i), NEW a, NEW t \in M88000!Done(s, i, a),
         M88000!opcode(i) = "CMP", M88000!rd(i) # 0
  PROVE  \A k \in 2..11 : (M88000!LSHR(t.gpr[M88000!rd(i)], k) % 2 = 1) <=>
            M88000!CmpBits(s.gpr[M88000!rs1(i)], M88000!Operand(s, i))[k - 1]
<1> DEFINE x == s.gpr[M88000!rs1(i)]
           y == M88000!Operand(s, i)
           v == M88000!arch_m88k_cmp(x, y)
<1>1. x \in Word(W88) /\ y \in Word(W88)
  BY Operand88
<1>2. v \in Nat /\ \A k \in 2..11 : BitOf(v, k) = 1 <=> M88000!CmpBits(x, y)[k - 1]
  <2> HIDE DEF x, y
  <2> QED BY <1>1, ComparesExactly
<1>3. M88000!Calculated(s, i) = v
  BY DEF M88000!Calculated, M88000!AddSub, M88000!Logic, M88000!Fields, M88000!LDA
<1> HIDE DEF v
<1>4. M88000!opcode(i) \in M88000!Alu
  BY DEF M88000!Alu
<1>5. t.gpr[M88000!rd(i)] = v
  BY <1>2, <1>3, <1>4, State88, Result88
<1>6. \A k \in 2..11 : M88000!LSHR(v, k) % 2 = BitOf(v, k)
  BY DEF M88000!LSHR, BitOf, LSHR
<1> QED BY <1>2, <1>5, <1>6 DEF x, y

--------------------------------------------------------------------------------
(* Sums and differences. *)
LEMMA CarryExact ==
  ASSUME NEW n \in Nat \ {0}, NEW x \in 0..(n - 1), NEW y \in 0..(n - 1), NEW v \in Int, NEW c \in 0..1
  PROVE  /\ v = (((x + y) % n) + 0) % n /\ c = (IF y # 0 /\ v < x
              THEN 1 ELSE 0) => v \in Nat /\ x + y = v + c * n
         /\ v = (((x - y) % n) - 0) % n /\ c = (IF y # 0 /\ v > x
              THEN 1 ELSE 0) => v \in Nat /\ x - y = v - c * n
<1>1. \A z \in 0..(n - 1) : z % n = z /\ (z + 0) % n = z /\ (z - 0) % n = z
  OBVIOUS
<1>2. ASSUME v = (((x + y) % n) + 0) % n, c = (IF y # 0 /\ v < x THEN 1 ELSE 0)
               PROVE v \in Nat /\ x + y = v + c * n
  <2> DEFINE z == (x + y) % n
  <2>1. z = IF x + y < n THEN x + y ELSE x + y - n
    OBVIOUS
  <2>2. z \in 0..(n - 1) /\ v = (z + 0) % n
    BY <1>2, <2>1
  <2> HIDE DEF z
  <2>3. v = z
    BY <1>1, <2>2
  <2>4. CASE x + y < n
    <3>1. c = 0
      BY <1>2, <2>1, <2>3, <2>4
    <3> QED BY <2>1, <2>2, <2>3, <2>4, <3>1
  <2>5. CASE ~(x + y < n)
    <3>1. c = 1
      BY <1>2, <2>1, <2>3, <2>5
    <3>2. v = x + y - n
      BY <2>1, <2>3, <2>5
    <3> QED BY <2>2, <2>3, <3>1, <3>2
  <2> QED BY <2>4, <2>5
<1>3. ASSUME v = (((x - y) % n) - 0) % n, c = (IF y # 0 /\ v > x THEN 1 ELSE 0)
               PROVE v \in Nat /\ x - y = v - c * n
  <2> DEFINE z == (x - y) % n
  <2>1. z = IF x >= y THEN x - y ELSE x - y + n
    OBVIOUS
  <2>2. z \in 0..(n - 1) /\ v = (z - 0) % n
    BY <1>3, <2>1
  <2> HIDE DEF z
  <2>3. v = z
    BY <1>1, <2>2
  <2>4. CASE x >= y
    <3>1. c = 0
      BY <1>3, <2>1, <2>3, <2>4
    <3> QED BY <2>1, <2>2, <2>3, <2>4, <3>1
  <2>5. CASE ~(x >= y)
    <3>1. c = 1
      BY <1>3, <2>1, <2>3, <2>5
    <3>2. v = x - y + n
      BY <2>1, <2>3, <2>5
    <3> QED BY <2>2, <2>3, <3>1, <3>2
  <2> QED BY <2>4, <2>5
<1> QED BY <1>2, <1>3

LEMMA CarriesKept ==
  ASSUME NEW s, M88000!IsState(s), NEW i, M88000!IsWord(i), NEW a, NEW t \in M88000!Done(s, i, a),
         M88000!opcode(i) \in M88000!AddSub, M88000!carry(i) = 1, M88000!rd(i) # 0
  PROVE  LET x == s.gpr[M88000!rs1(i)]
             y == M88000!Operand(s, i)
             v == t.gpr[M88000!rd(i)]
         IN IF M88000!opcode(i) \in M88000!Subtracts THEN x - y = v - t.C * 2^W88
            ELSE x + y = v + t.C * 2^W88
<1> DEFINE x == s.gpr[M88000!rs1(i)]
           y == M88000!Operand(s, i)
           v == M88000!Calculated(s, i)
           c == M88000!CarryOut(i, x, y, v)
           n == 2^W88
           subtracts == M88000!opcode(i) \in M88000!Subtracts
<1>1. x \in 0..(n - 1) /\ y \in 0..(n - 1) /\ n \in Nat \ {0}
  <2>1. x \in Word(W88) /\ y \in Word(W88)
    BY Operand88
  <2>2. n \in Nat \ {0}
    BY Width88
  <2> QED BY <2>1, <2>2 DEF Word
<1>2. v = M88000!addsub(s, i, x, y)
  BY DEF M88000!Calculated, M88000!AddSub, M88000!Logic, M88000!Fields, M88000!LDA
<1>3. M88000!CarryIn(s, i) = 0 /\ M88000!carry(i) % 2 = 1
  BY DEF M88000!CarryIn
<1> HIDE DEF x, y, v
<1>4. v = IF subtracts THEN (((x - y) % n) - 0) % n ELSE (((x + y) % n) + 0) % n
  BY <1>2, <1>3 DEF M88000!addsub, M88000!SUB, M88000!ADD, W88
<1>5. c = IF subtracts THEN (IF y # 0 /\ v > x THEN 1 ELSE 0) ELSE (IF y # 0 /\ v < x THEN 1 ELSE 0)
  BY DEF M88000!CarryOut, M88000!Bit
<1> HIDE DEF c, n
<1>6. v \in Nat /\ IF subtracts THEN x - y = v - c * n ELSE x + y = v + c * n
  <2>0. /\ v = (((x + y) % n) + 0) % n /\ c = (IF y # 0 /\ v < x
             THEN 1 ELSE 0) => v \in Nat /\ x + y = v + c * n
        /\ v = (((x - y) % n) - 0) % n /\ c = (IF y # 0 /\ v > x
             THEN 1 ELSE 0) => v \in Nat /\ x - y = v - c * n
    <3>1. ((x - y) % n) \in Int /\ ((x + y) % n) \in Int
      BY <1>1
    <3>2. (((x + y) % n) + 0) % n \in Int /\ (((x - y) % n) - 0) % n \in Int
      <4> DEFINE p == (x - y) % n
                 q == (x + y) % n
      <4>1. p \in Int /\ q \in Int
        BY <3>1
      <4> HIDE DEF p, q
      <4>2. (q + 0) % n \in Int /\ (p - 0) % n \in Int
        BY <1>1, <4>1
      <4> QED BY <4>2 DEF p, q
    <3>3. v \in Int /\ c \in 0..1
      <4> HIDE DEF subtracts
      <4>1. v \in Int
        BY <1>4, <3>2
      <4>2. c \in {0, 1}
        BY <1>5
      <4> QED BY <4>1, <4>2
    <3> QED BY <1>1, <3>3, CarryExact
  <2> HIDE DEF subtracts
  <2>1. CASE subtracts
    <3>1. v = (((x - y) % n) - 0) % n /\ c = (IF y # 0 /\ v > x THEN 1 ELSE 0)
      BY <1>4, <1>5, <2>1
    <3> QED BY <2>0, <2>1, <3>1
  <2>2. CASE ~subtracts
    <3>1. v = (((x + y) % n) + 0) % n /\ c = (IF y # 0 /\ v < x THEN 1 ELSE 0)
      BY <1>4, <1>5, <2>2
    <3> QED BY <2>0, <2>2, <3>1
  <2> QED BY <2>1, <2>2
<1>7. M88000!opcode(i) \in M88000!Alu
  BY DEF M88000!Alu
<1>8. t.gpr[M88000!rd(i)] = v /\ t.C = c
  BY <1>3, <1>6, <1>7, State88, Result88 DEF x, y, v, c
<1> QED BY <1>6, <1>8 DEF x, y, n

--------------------------------------------------------------------------------
(* Nothing else. *)
LEMMA NothingElseKept ==
  ASSUME NEW s, NEW i, NEW t, Machine88(s), M88000!IsWord(i), Leaves(s, i, t)
  PROVE  /\ t.gpr = [s.gpr EXCEPT ![M88000!rd(i)] = t.gpr[M88000!rd(i)],
                      ![M88000!Even(M88000!rd(i))] = t.gpr[M88000!Even(M88000!rd(i))],
                      ![M88000!Odd(M88000!rd(i))] = t.gpr[M88000!Odd(M88000!rd(i))]]
         /\ M88000!opcode(i) \notin M88000!is_store \cup M88000!is_xmem => t.ram = s.ram
<1> DEFINE n == M88000!rd(i)
           e == M88000!Even(n)
           o == M88000!Odd(n)
           g == [s.gpr EXCEPT ![n] = t.gpr[n], ![e] = t.gpr[e], ![o] = t.gpr[o]]
<1>1. n \in M88000!Regs /\ e \in M88000!Regs /\ o \in M88000!Regs
  BY Registers88
<1>2. Written88(i) \subseteq {n, e, o}
  BY DEF Written88
<1> HIDE DEF n, e, o
<1>3. s.gpr = [m \in M88000!Regs |-> s.gpr[m]] /\ t.gpr = [m \in M88000!Regs |-> t.gpr[m]]
  BY DEF Machine88, Leaves
<1>4. \A m \in M88000!Regs : m \notin {n, e, o} => t.gpr[m] = s.gpr[m]
  BY <1>2 DEF Leaves
<1>5. g = [m \in M88000!Regs |-> g[m]]
  BY <1>3
<1>6. \A m \in M88000!Regs : g[m] = t.gpr[m]
  BY <1>1, <1>3, <1>4
<1>7. g = t.gpr
  <2> HIDE DEF g
  <2> QED BY <1>3, <1>5, <1>6
<1> QED BY <1>7 DEF Leaves, n, e, o

--------------------------------------------------------------------------------
(* Words in memory. *)
LEMMA FourDigits ==
  ASSUME NEW b \in Nat \ {0}, NEW v \in Nat, v < b * (b * (b * b))
  PROVE  v = ((((v \div (b * (b * b))) % b) * b + ((v \div (b * b)) % b)) * b + ((v \div b) % b)) * b + (v % b)
<1> DEFINE q1 == v \div b
           l0 == v % b
           q2 == q1 \div b
           l1 == q1 % b
           q3 == q2 \div b
           l2 == q2 % b
<1>1. q1 \in Int /\ l0 \in 0..(b - 1) /\ v = l0 + b * q1
  BY Residue
<1>2. q2 \in Int /\ l1 \in 0..(b - 1) /\ q1 = l1 + b * q2
  <2> HIDE DEF q1
  <2> QED BY <1>1, Residue
<1>3. q3 \in Int /\ l2 \in 0..(b - 1) /\ q2 = l2 + b * q3
  <2> HIDE DEF q2
  <2> QED BY <1>2, Residue
<1> HIDE DEF q1, l0, q2, l1, q3, l2
<1> DEFINE bb == b * b
           bbb == b * (b * b)
           m1 == l0 + b * l1
           m2 == m1 + bb * l2
<1>4. bb \in Nat \ {0} /\ bbb \in Nat \ {0} /\ bbb = b * bb
  <2>1. bb \in Nat \ {0}
    OBVIOUS
  <2> HIDE DEF bb
  <2>2. b * bb \in Nat \ {0}
    BY <2>1
  <2> QED BY <2>1, <2>2 DEF bb
<1>5. m1 \in 0..(bb - 1) /\ v = m1 + bb * q2
  <2>1. b * l1 <= b * (b - 1) /\ b * (b - 1) = bb - b /\ b * l1 \in Nat
    BY <1>2
  <2>2. m1 \in 0..(bb - 1)
    <3> DEFINE z == b * l1
    <3>1. z \in Nat /\ z <= bb - b /\ m1 = l0 + z
      BY <2>1
    <3> HIDE DEF z, m1, bb
    <3> QED BY <1>1, <1>4, <3>1
  <2>3. b * q1 = b * l1 + b * (b * q2) /\ b * (b * q2) = bb * q2
    BY <1>1, <1>2
  <2>4. v = m1 + bb * q2
    <3> DEFINE z == b * l1
               y == bb * q2
    <3>1. b * q1 = z + y /\ m1 = l0 + z /\ z \in Int /\ y \in Int
      BY <1>1, <1>2, <1>4, <2>3
    <3>2. m1 + bb * q2 = m1 + y
      OBVIOUS
    <3> HIDE DEF z, y, m1
    <3> QED BY <1>1, <3>1, <3>2
  <2> QED BY <2>2, <2>4
<1>6. m2 \in 0..(bbb - 1) /\ v = m2 + bbb * q3
  <2> HIDE DEF m1, bb, bbb
  <2>1. bb * l2 <= bb * (b - 1) /\ bb * (b - 1) = bb * b - bb /\ bb * l2 \in Nat /\ bb * b = b * bb
    BY <1>3, <1>4
  <2>2. m2 \in 0..(bbb - 1)
    <3> DEFINE z == bb * l2
    <3>1. z \in Nat /\ z <= bbb - bb /\ m2 = m1 + z
      BY <1>4, <2>1
    <3> HIDE DEF z, m2
    <3> QED BY <1>4, <1>5, <3>1
  <2>3. bb * q2 = bb * l2 + bb * (b * q3) /\ bb * (b * q3) = (b * bb) * q3
    BY <1>3, <1>4
  <2>4. v = m2 + bbb * q3
    <3> DEFINE z == bb * l2
               y == bbb * q3
    <3>1. bb * q2 = z + y /\ m2 = m1 + z /\ z \in Int /\ y \in Int
      BY <1>3, <1>4, <2>3
    <3>2. m2 + bbb * q3 = m2 + y
      OBVIOUS
    <3> HIDE DEF z, y, m2
    <3> QED BY <1>5, <3>1, <3>2
  <2> QED BY <2>2, <2>4
<1>7. v \div bb = q2 /\ v \div bbb = q3
  <2> HIDE DEF m1, m2, bb, bbb
  <2>1. (m1 + bb * q2) \div bb = q2 /\ (m2 + bbb * q3) \div bbb = q3
    BY <1>2, <1>3, <1>4, <1>5, <1>6, ResidueUnique
  <2> QED BY <1>5, <1>6, <2>1
<1>8. q3 \in 0..(b - 1)
  <2> HIDE DEF m2
  <2>1. ASSUME q3 < 0 PROVE FALSE
    <3> HIDE DEF bbb
    <3>1. bbb * q3 <= -bbb
      BY <1>3, <1>4, <2>1
    <3> DEFINE y == bbb * q3
    <3>2. y \in Int /\ y <= -bbb /\ v = m2 + y
      BY <1>3, <1>4, <1>6, <3>1
    <3> HIDE DEF y
    <3> QED BY <1>4, <1>6, <3>2
  <2>2. ASSUME q3 >= b PROVE FALSE
    <3>0. v < b * bbb
      OBVIOUS
    <3> HIDE DEF bbb
    <3>1. bbb * q3 >= bbb * b /\ bbb * b = b * bbb
      BY <1>3, <1>4, <2>2
    <3> DEFINE y == bbb * q3
               z == b * bbb
    <3>2. y \in Int /\ z \in Int /\ y >= z /\ v = m2 + y /\ v < z
      BY <1>3, <1>4, <1>6, <3>0, <3>1
    <3> HIDE DEF y, z
    <3> QED BY <1>4, <1>6, <3>2
  <2> QED BY <1>3, <2>1, <2>2
<1>9. q3 % b = q3
  <2>1. \A n \in Nat \ {0} : \A y \in 0..(n - 1) : y % n = y
    OBVIOUS
  <2> QED BY <1>8, <2>1
<1>10. v = ((q3 * b + l2) * b + l1) * b + l0
  <2>1. q2 = q3 * b + l2
    BY <1>3
  <2>2. q1 = q2 * b + l1
    BY <1>2
  <2>3. v = q1 * b + l0
    BY <1>1
  <2> QED BY <2>1, <2>2, <2>3
<1> DEFINE d3 == v \div (b * (b * b))
           d2 == v \div (b * b)
<1>11. d3 % b = q3 /\ d2 % b = l2
  BY <1>7, <1>9 DEF l2
<1>12. (v \div b) % b = l1 /\ v % b = l0
  BY DEF l1, q1, l0
<1> QED BY <1>10, <1>11, <1>12

\* The four bytes of a word, as numbers to divide by.
LEMMA Bytes88 ==
    LET b == 2^M88000!Byte IN
    /\ b \in Nat \ {0} /\ 2^W88 = b * (b * (b * b))
    /\ 2^(M88000!Byte * 0) = 1 /\ 2^(M88000!Byte * 1) = b /\ 2^(M88000!Byte * 2) = b * b
    /\ 2^(M88000!Byte * 3) = b * (b * b)
<1> DEFINE n == M88000!Byte
           b == 2^n
<1>1. n \in Nat /\ W88 = 4 * n
  BY Width88
<1> HIDE DEF n
<1>2. /\ n * 0 = 0 /\ n * 1 = n /\ n * 2 = n + n /\ n * 3 = n + (n + n) /\ W88 = n + (n + (n + n))
      /\ n + n \in Nat /\ n + (n + n) \in Nat
  BY <1>1
<1>3. b \in Nat \ {0} /\ 2^(n + n) = b * b
  BY <1>1, PowerPositive, PowerSum
<1>4. 2^(n + (n + n)) = b * (b * b)
  BY <1>1, <1>2, <1>3, PowerSum
<1>5. 2^(n + (n + (n + n))) = b * (b * (b * b))
  BY <1>1, <1>2, <1>4, PowerSum
<1>6. 2^0 = 1
  BY SmallPowers
<1> QED BY <1>2, <1>3, <1>4, <1>5, <1>6 DEF n

--------------------------------------------------------------------------------
\* Four bytes are read one after the other.
Reads(big, ram, a) ==
    big = [k \in 0..4 |-> IF k = 0 THEN 0 ELSE big[k - 1] * 2^M88000!Byte + ram[a + k - 1]]

LEMMA FourRead ==
  ASSUME NEW ram, NEW a \in Int
  PROVE  LET b == 2^M88000!Byte
         IN M88000!Read(ram, a, 4) =
              (((0 * b + ram[a]) * b + ram[a + 1]) * b + ram[a + 2]) * b + ram[a + 3]
<1> DEFINE b == 2^M88000!Byte
           big == CHOOSE big : Reads(big, ram, a)
           x1 == 0 * b + ram[a]
           x2 == x1 * b + ram[a + 1]
           x3 == x2 * b + ram[a + 2]
           x4 == x3 * b + ram[a + 3]
           w == [k \in 0..4 |-> IF k = 0 THEN 0 ELSE IF k = 1 THEN x1 ELSE IF k = 2 THEN x2
                                ELSE IF k = 3 THEN x3 ELSE x4]
<1>1. M88000!Read(ram, a, 4) = big[4]
  BY DEF M88000!Read, Reads
<1>2. \A k \in 0..4 : k \in {0, 1, 2, 3, 4}
  OBVIOUS
<1>3. a + 1 - 1 = a /\ a + 2 - 1 = a + 1 /\ a + 3 - 1 = a + 2 /\ a + 4 - 1 = a + 3
  OBVIOUS
<1>4. Reads(w, ram, a)
  <2> DEFINE f == [k \in 0..4 |-> IF k = 0 THEN 0 ELSE w[k - 1] * b + ram[a + k - 1]]
  <2>1. /\ f[0] = 0 /\ f[1] = w[0] * b + ram[a] /\ f[2] = w[1] * b + ram[a + 1]
        /\ f[3] = w[2] * b + ram[a + 2] /\ f[4] = w[3] * b + ram[a + 3]
    <3> HIDE DEF w, b
    <3> QED BY <1>3
  <2>2. w[0] = 0 /\ w[1] = x1 /\ w[2] = x2 /\ w[3] = x3 /\ w[4] = x4
    <3> HIDE DEF x1, x2, x3, x4
    <3> QED OBVIOUS
  <2>3. f = [k \in 0..4 |-> f[k]] /\ w = [k \in 0..4 |-> w[k]]
    OBVIOUS
  <2> HIDE DEF f, w
  <2>4. /\ f[0] = w[0] /\ f[1] = w[1] /\ f[2] = w[2] /\ f[3] = w[3] /\ f[4] = w[4]
    <3>1. f[1] = 0 * b + ram[a] /\ f[2] = x1 * b + ram[a + 1] /\ f[3] = x2 * b + ram[a + 2]
          /\ f[4] = x3 * b + ram[a + 3] /\ f[0] = 0
      BY <2>1, <2>2
    <3> QED BY <2>2, <3>1
  <2>5. \A k \in 0..4 : f[k] = w[k]
    BY <1>2, <2>4
  <2>6. f = w
    BY <2>3, <2>5
  <2> QED BY <2>6 DEF Reads, f
<1>5. Reads(big, ram, a)
  BY <1>4
<1> HIDE DEF big, w
<1>6. /\ big[0] = 0 /\ big[1] = big[0] * b + ram[a + 1 - 1] /\ big[2] = big[1] * b + ram[a + 2 - 1]
      /\ big[3] = big[2] * b + ram[a + 3 - 1] /\ big[4] = big[3] * b + ram[a + 4 - 1]
  BY <1>5 DEF Reads
<1>7. big[4] = x4
  BY <1>3, <1>6
<1> QED BY <1>1, <1>7

--------------------------------------------------------------------------------
\* What was written is read, and only there it was written.
LEMMA WrittenRead ==
  ASSUME NEW ram, NEW a \in Int, M88000!Within(ram, a, 4), NEW v \in Word(W88)
  PROVE  LET t == M88000!Write(ram, a, 4, v) IN
         /\ M88000!Read(t, a, 4) = v
         /\ DOMAIN t = DOMAIN ram
         /\ \A x \in DOMAIN ram : x \notin a..(a + 3) => t[x] = ram[x]
<1> DEFINE n == M88000!Byte
           b == 2^n
           t == M88000!Write(ram, a, 4, v)
<1>1. /\ b \in Nat \ {0} /\ 2^W88 = b * (b * (b * b)) /\ 2^(n * 0) = 1 /\ 2^(n * 1) = b
      /\ 2^(n * 2) = b * b /\ 2^(n * 3) = b * (b * b)
  BY Bytes88
<1>2. v \in Nat /\ v < b * (b * (b * b))
  <2> DEFINE z == b * (b * (b * b))
  <2>1. v \in 0..(z - 1) /\ z = 2^W88 /\ 2^W88 \in Nat
    BY <1>1, Width88 DEF Word
  <2> HIDE DEF z
  <2>2. v \in Nat /\ v < z
    BY <2>1
  <2> QED BY <2>2 DEF z
<1>3. t = [x \in DOMAIN ram |-> IF x \in a..(a + 4 - 1)
        THEN (v \div 2^(n * (a + 4 - 1 - x))) % b ELSE ram[x]]
  BY DEF M88000!Write, M88000!LSHR
<1>4. /\ a \in DOMAIN ram /\ a + 1 \in DOMAIN ram /\ a + 2 \in DOMAIN ram /\ a + 3 \in DOMAIN ram
      /\ a + 4 - 1 = a + 3
      /\ {a, a + 1, a + 2, a + 3} \subseteq a..(a + 4 - 1)
      /\ a + 4 - 1 - a = 3 /\ a + 4 - 1 - (a + 1) = 2 /\ a + 4 - 1 - (a + 2) = 1 /\ a + 4 - 1 - (a + 3) = 0
  <2>1. a \in a..(a + 4 - 1) /\ a + 1 \in a..(a + 4 - 1) /\ a + 2 \in a..(a + 4 - 1)
          /\ a + 3 \in a..(a + 4 - 1)
    OBVIOUS
  <2>2. a..(a + 4 - 1) \subseteq DOMAIN ram
    BY DEF M88000!Within
  <2> QED BY <2>1, <2>2
<1> HIDE DEF b, n, t
<1> DEFINE d(m) == (v \div 2^(n * m)) % b
<1>5. /\ t[a] = d(3) /\ t[a + 1] = d(2) /\ t[a + 2] = d(1) /\ t[a + 3] = d(0)
  BY <1>3, <1>4
<1>6. /\ d(3) = (v \div (b * (b * b))) % b /\ d(2) = (v \div (b * b)) % b
      /\ d(1) = (v \div b) % b /\ d(0) = v % b
  <2>1. v \div 1 = v
    BY <1>2
  <2> QED BY <1>1, <2>1
<1>7. v = ((d(3) * b + d(2)) * b + d(1)) * b + d(0)
  <2>1. v = ((((v \div (b * (b * b))) % b) * b + ((v \div (b * b)) % b)) * b + ((v \div b) % b)) * b + (v % b)
    BY <1>1, <1>2, FourDigits
  <2> HIDE DEF d
  <2> QED BY <1>6, <2>1
<1>8. M88000!Read(t, a, 4) = (((0 * b + t[a]) * b + t[a + 1]) * b + t[a + 2]) * b + t[a + 3]
  BY FourRead DEF b, n
<1>9. d(3) \in Nat
  <2> HIDE DEF d
  <2>1. \A z \in Nat \ {0} : (v \div z) % b \in Nat
    <3> SUFFICES ASSUME NEW z \in Nat \ {0} PROVE (v \div z) % b \in Nat
      OBVIOUS
    <3>1. v \div z \in Int
      BY <1>2, Residue
    <3> DEFINE y == v \div z
    <3> HIDE DEF y
    <3>2. y % b \in 0..(b - 1)
      BY <1>1, <3>1, Residue DEF y
    <3> QED BY <1>1, <3>2 DEF y
  <2>2. b * (b * b) \in Nat \ {0}
    BY <1>1
  <2> QED BY <1>6, <2>1, <2>2
<1> HIDE DEF d
<1>10. 0 * b + d(3) = d(3)
  BY <1>1, <1>9
<1>11. M88000!Read(t, a, 4) = v
  BY <1>5, <1>7, <1>8, <1>10
<1>12. DOMAIN t = DOMAIN ram /\ \A x \in DOMAIN ram : x \notin a..(a + 3) => t[x] = ram[x]
  BY <1>3, <1>4
<1> QED BY <1>11, <1>12 DEF t

\* The same bytes are the same word.
LEMMA SameRead ==
  ASSUME NEW ram, NEW t, NEW a \in Int, \A x \in a..(a + 3) : t[x] = ram[x]
  PROVE  M88000!Read(t, a, 4) = M88000!Read(ram, a, 4)
<1>1. /\ a \in a..(a + 3) /\ a + 1 \in a..(a + 3) /\ a + 2 \in a..(a + 3) /\ a + 3 \in a..(a + 3)
  OBVIOUS
<1>2. t[a] = ram[a] /\ t[a + 1] = ram[a + 1] /\ t[a + 2] = ram[a + 2] /\ t[a + 3] = ram[a + 3]
  BY <1>1
<1> QED BY <1>2, FourRead

\* The second word of a pair does not touch the first.
LEMMA PairApart ==
  ASSUME NEW a \in Word(W88)
  PROVE  LET b == M88000!ADD(W88, a, 4) IN
         /\ a \in Nat /\ b \in Nat /\ M88000!ADD(W88, a, 0) = a
         /\ \A x \in a..(a + 3) : x \notin b..(b + 3)
<1> DEFINE n == 2^W88
           b == M88000!ADD(W88, a, 4)
<1>1. n \in Nat /\ n >= 16 /\ a \in 0..(n - 1)
  BY Width88 DEF Word
<1>2. b = (a + 4) % n /\ M88000!ADD(W88, a, 0) = (a + 0) % n
  BY DEF M88000!ADD
<1> HIDE DEF n, b
<1>3. \A z \in 0..(n - 1) : z % n = z /\ (z + n) % n = z
  BY <1>1
<1>4. (a + 0) % n = a
  BY <1>1, <1>3
<1>5. CASE a + 4 < n
  <2>1. b = a + 4
    BY <1>1, <1>2, <1>3, <1>5
  <2> QED BY <1>1, <1>2, <1>4, <2>1 DEF b
<1>6. CASE a + 4 >= n
  <2>1. a + 4 - n \in 0..(n - 1) /\ a + 4 = (a + 4 - n) + n
    BY <1>1, <1>6
  <2>2. b = a + 4 - n
    BY <1>2, <1>3, <2>1
  <2> QED BY <1>1, <1>2, <1>4, <2>1, <2>2 DEF b
<1> QED BY <1>1, <1>5, <1>6

LEMMA Address88 ==
  ASSUME NEW s, NEW i, M88000!IsState(s), M88000!IsWord(i)
  PROVE  M88000!Address(s, i) \in Word(W88)
<1>1. s.gpr[M88000!rs1(i)] \in Nat /\ s.gpr[M88000!rs2(i)] \in Nat
  BY Registers88, State88
<1> DEFINE x == s.gpr[M88000!rs1(i)]
           y == IF M88000!format(i) = "IFMT_MEM" THEN M88000!UIMM(i)
                ELSE M88000!SHL(W88, s.gpr[M88000!rs2(i)], M88000!Scale(i))
           n == 2^W88
<1>2. M88000!Address(s, i) = (x + y) % n
  BY DEF M88000!Address, M88000!ADD, W88
<1>3. n \in Nat \ {0}
  BY Width88
<1>4. M88000!Scale(i) \in Nat
  <2>1. M88000!Scale(i) \in {0, 1, 2, 3}
    <3>1. CASE M88000!format(i) # "TFMT_REGS" /\ M88000!opcode(i) # "XMEM"
      BY <3>1 DEF M88000!Scale
    <3>2. CASE ~(M88000!format(i) # "TFMT_REGS" /\ M88000!opcode(i) # "XMEM")
      BY <3>2 DEF M88000!Scale
    <3> QED BY <3>1, <3>2
  <2> QED BY <2>1
<1>5. y \in Int
  <2>1. CASE M88000!format(i) = "IFMT_MEM"
    <3>1. M88000!UIMM(i) \in Word(W88)
      BY Immediates
    <3> QED BY <2>1, <3>1 DEF Word
  <2>2. CASE M88000!format(i) # "IFMT_MEM"
    <3>1. SHL(W88, s.gpr[M88000!rs2(i)], M88000!Scale(i)) \in Word(W88)
      BY <1>1, <1>4, Width88, ShiftedLeft
    <3>2. y = SHL(W88, s.gpr[M88000!rs2(i)], M88000!Scale(i))
      BY <2>2, Same88
    <3> QED BY <3>1, <3>2 DEF Word
  <2> QED BY <2>1, <2>2
<1> HIDE DEF x, y, n
<1>6. x + y \in Int
  BY <1>1, <1>5 DEF x
<1>7. (x + y) % n \in 0..(n - 1)
  BY <1>3, <1>6, Residue
<1> QED BY <1>2, <1>7 DEF Word, n

LEMMA ExchangeKept ==
  ASSUME NEW s, NEW i, NEW t, M88000!IsState(s), M88000!IsWord(i), t = M88000!arch_m88k_xmem(s, i),
         M88000!Within(s.ram, M88000!Address(s, i), 4)
  PROVE  LET a == M88000!Address(s, i) IN
         /\ M88000!Read(t.ram, a, 4) = s.gpr[M88000!rd(i)]
         /\ M88000!rd(i) # 0 => t.gpr[M88000!rd(i)] = M88000!Read(s.ram, a, 4)
<1> DEFINE a == M88000!Address(s, i)
           n == M88000!rd(i)
           u == M88000!Let(s, n, M88000!Read(s.ram, a, 4))
           m == M88000!Write(s.ram, a, 4, s.gpr[n])
<1>1. n \in M88000!Regs /\ s.gpr[n] \in Word(W88) /\ Machine88(s) /\ a \in Int
  <2>1. a \in Word(W88)
    BY Address88
  <2> QED BY <2>1, Registers88, State88 DEF Word
<1>2. Machine88(u) /\ u.ram = s.ram /\ (n # 0 => u.gpr[n] = M88000!Read(s.ram, a, 4))
  <2> HIDE DEF n, a
  <2> QED BY <1>1, Let88
<1>3. t = [u EXCEPT !.ram = M88000!Write(@, a, 4, s.gpr[n])]
  BY DEF M88000!arch_m88k_xmem
<1> HIDE DEF u
<1>4. t = [u EXCEPT !.ram = m]
  BY <1>2, <1>3
<1> HIDE DEF m
<1>5. t.ram = m /\ t.gpr = u.gpr
  BY <1>2, <1>4, Other88
<1>6. M88000!Read(m, a, 4) = s.gpr[n]
  <2>1. M88000!Within(s.ram, a, 4)
    OBVIOUS
  <2> HIDE DEF n, a
  <2> QED BY <1>1, <2>1, WrittenRead DEF m
<1> QED BY <1>2, <1>5, <1>6

LEMMA StorePairKept ==
  ASSUME NEW s, NEW i, NEW t \in M88000!StorePair(s, i), M88000!IsState(s), M88000!IsWord(i),
         M88000!Within(s.ram, M88000!Address(s, i), 4)
  PROVE  \A k \in {0, 1} : M88000!Read(t.ram, M88000!ADD(W88, M88000!Address(s, i), 4 * k), 4)
                             = s.gpr[M88000!Even(M88000!rd(i)) + k]
<1> DEFINE a == M88000!Address(s, i)
           b == M88000!ADD(W88, a, 4)
           n == M88000!rd(i)
           x == s.gpr[M88000!Even(n)]
           y == s.gpr[M88000!Odd(n)]
           first == M88000!Write(s.ram, a, 4, x)
           second == M88000!Write(first, b, 4, y)
<1>1. a \in Word(W88) /\ x \in Word(W88) /\ y \in Word(W88) /\ Machine88(s)
  BY Address88, Registers88, State88
<1>2. /\ a \in Int /\ b \in Int /\ M88000!ADD(W88, a, 0) = a
      /\ \A z \in a..(a + 3) : z \notin b..(b + 3)
  <2> HIDE DEF a
  <2> QED BY <1>1, PairApart
<1>3. M88000!Within(s.ram, b, 4) /\ t = [s EXCEPT !.ram = M88000!Write(M88000!Write(@, a, 4, x), b, 4, y)]
  BY DEF M88000!StorePair, W88
<1>4. M88000!Within(s.ram, a, 4)
  OBVIOUS
<1> HIDE DEF a, b, x, y
<1>5. t = [s EXCEPT !.ram = second]
  BY <1>3
<1>6. /\ M88000!Read(first, a, 4) = x /\ DOMAIN first = DOMAIN s.ram
  BY <1>1, <1>2, <1>4, WrittenRead
<1> HIDE DEF first
<1>7. M88000!Within(first, b, 4)
  BY <1>3, <1>6 DEF M88000!Within
<1>8. /\ M88000!Read(second, b, 4) = y
      /\ \A z \in DOMAIN first : z \notin b..(b + 3) => second[z] = first[z]
  BY <1>1, <1>2, <1>7, WrittenRead
<1> HIDE DEF second
<1>9. \A z \in a..(a + 3) : second[z] = first[z]
  <2>1. a + 4 - 1 = a + 3
    BY <1>2
  <2>2. a..(a + 3) \subseteq DOMAIN first
    BY <1>4, <1>6, <2>1 DEF M88000!Within
  <2> QED BY <1>2, <1>8, <2>2
<1>10. M88000!Read(second, a, 4) = x
  BY <1>2, <1>6, <1>9, SameRead
<1>11. t.ram = second
  BY <1>1, <1>5, Other88
<1>12. M88000!Even(n) + 0 = M88000!Even(n) /\ M88000!Even(n) + 1 = M88000!Odd(n)
  <2>1. n \in 0..31
    BY Registers88 DEF M88000!Regs
  <2> HIDE DEF n
  <2>2. M88000!Even(n) \in 0..31 /\ M88000!Odd(n) = M88000!Even(n) + 1
    BY <2>1, Pairs88
  <2> QED BY <2>2
<1>13. /\ M88000!Read(t.ram, M88000!ADD(W88, a, 4 * 0), 4) = s.gpr[M88000!Even(n) + 0]
       /\ M88000!Read(t.ram, M88000!ADD(W88, a, 4 * 1), 4) = s.gpr[M88000!Even(n) + 1]
  <2>1. 4 * 0 = 0 /\ 4 * 1 = 4
    OBVIOUS
  <2>2. M88000!ADD(W88, a, 4 * 1) = b
    BY <2>1 DEF b
  <2> QED BY <1>2, <1>8, <1>10, <1>11, <1>12, <2>1, <2>2 DEF x, y
<1> QED BY <1>13 DEF a

LEMMA LoadPairKept ==
  ASSUME NEW s, NEW i, NEW t \in M88000!LoadPair(s, i), M88000!IsState(s), M88000!IsWord(i),
         M88000!Even(M88000!rd(i)) \notin {0, M88000!rs1(i), M88000!rs2(i)}
  PROVE  \A k \in {0, 1} : t.gpr[M88000!Even(M88000!rd(i)) + k]
                             = M88000!Read(s.ram, M88000!ADD(W88, M88000!Address(s, i), 4 * k), 4)
<1> DEFINE a == M88000!Address(s, i)
           b == M88000!ADD(W88, a, 4)
           n == M88000!rd(i)
           e == M88000!Even(n)
           first == M88000!Let(s, e, M88000!Read(s.ram, a, 4))
           second == M88000!ADD(W88, M88000!Address(first, i), 4)
<1>1. /\ a \in Word(W88) /\ Machine88(s) /\ M88000!rs1(i) \in M88000!Regs /\ M88000!rs2(i) \in M88000!Regs
      /\ e \in M88000!Regs /\ M88000!Odd(n) \in M88000!Regs
  BY Address88, Registers88, State88
<1>2. M88000!ADD(W88, a, 0) = a
  <2> HIDE DEF a
  <2> QED BY <1>1, PairApart
<1>3. t = M88000!Let(first, M88000!Odd(n), M88000!Read(s.ram, second, 4))
  <2>1. t \in IF M88000!Within(s.ram, second, 4)
              THEN {M88000!Let(first, M88000!Odd(n), M88000!Read(s.ram, second, 4))} ELSE {}
    BY DEF M88000!LoadPair, W88
  <2> HIDE DEF second, first, n
  <2> QED BY <2>1
<1>4. e # 0 /\ e # M88000!rs1(i) /\ e # M88000!rs2(i)
  OBVIOUS
<1>5. M88000!Odd(n) = e + 1 /\ M88000!Odd(n) # 0 /\ M88000!Odd(n) # e /\ e + 0 = e
  <2>1. n \in 0..31
    BY Registers88 DEF M88000!Regs
  <2> HIDE DEF n
  <2>2. e \in 0..31 /\ M88000!Odd(n) = e + 1
    BY <2>1, Pairs88
  <2> HIDE DEF e
  <2> QED BY <2>2
<1> HIDE DEF e
<1>6. /\ Machine88(first) /\ first.gpr[e] = M88000!Read(s.ram, a, 4)
      /\ first.gpr[M88000!rs1(i)] = s.gpr[M88000!rs1(i)] /\ first.gpr[M88000!rs2(i)] = s.gpr[M88000!rs2(i)]
  <2> HIDE DEF a
  <2> QED BY <1>1, <1>4, Let88
<1> HIDE DEF first
<1>7. second = b
  <2>1. M88000!Address(first, i) = a
    BY <1>6 DEF M88000!Address
  <2> QED BY <2>1
<1> HIDE DEF second, a
<1>8. t.gpr[M88000!Odd(n)] = M88000!Read(s.ram, b, 4) /\ t.gpr[e] = first.gpr[e]
  <2> HIDE DEF b, n
  <2> QED BY <1>1, <1>3, <1>5, <1>6, <1>7, Let88
<1>9. /\ t.gpr[e + 0] = M88000!Read(s.ram, M88000!ADD(W88, a, 4 * 0), 4)
      /\ t.gpr[e + 1] = M88000!Read(s.ram, M88000!ADD(W88, a, 4 * 1), 4)
  <2>1. 4 * 0 = 0 /\ 4 * 1 = 4
    OBVIOUS
  <2>2. M88000!ADD(W88, a, 4 * 1) = b /\ M88000!ADD(W88, a, 4 * 0) = a
    BY <1>2, <2>1
  <2> QED BY <1>5, <1>6, <1>8, <2>2
<1> QED BY <1>9 DEF e, a

--------------------------------------------------------------------------------
\* What an access leaves.
MemoryExact(s, i, t) ==
    LET a == M88000!Address(s, i) n == M88000!rd(i) e == M88000!Even(n) IN
    /\ M88000!opcode(i) = "XMEM" =>
         /\ M88000!Read(t.ram, a, 4) = s.gpr[n]
         /\ n # 0 => t.gpr[n] = M88000!Read(s.ram, a, 4)
    /\ M88000!opcode(i) = "ST_D" =>
         \A k \in {0, 1} : M88000!Read(t.ram, M88000!ADD(W88, a, 4 * k), 4) = s.gpr[e + k]
    /\ M88000!opcode(i) = "LD_D" /\ e \notin {0, M88000!rs1(i), M88000!rs2(i)} =>
         \A k \in {0, 1} : t.gpr[e + k] = M88000!Read(s.ram, M88000!ADD(W88, a, 4 * k), 4)

LEMMA MemoryKept ==
  ASSUME NEW s, M88000!IsState(s), NEW i, M88000!IsWord(i), NEW a, NEW t \in M88000!Done(s, i, a),
         M88000!opcode(i) \in DOMAIN M88000!Width, M88000!format(i) \in M88000!MemoryForms
  PROVE  MemoryExact(s, i, t)
<1>1. t \in M88000!Accessed(s, i)
  BY Rows88 DEF M88000!Done
<1> DEFINE o == M88000!opcode(i)
           l == M88000!Located(s, i)
<1>2. ASSUME o \in {"XMEM", "ST_D", "LD_D"}
      PROVE  /\ M88000!Within(s.ram, M88000!Address(s, i), 4)
             /\ o = "XMEM" => t = M88000!arch_m88k_xmem(s, i)
             /\ o = "ST_D" => t \in M88000!StorePair(s, i)
             /\ o = "LD_D" => t \in M88000!LoadPair(s, i)
  <2>1. M88000!Width[o] = 4 /\ 4 # 2
    BY <1>2 DEF M88000!Width
  <2>2. l = M88000!Address(s, i)
    BY <2>1 DEF M88000!Located
  <2>3. M88000!Within(s.ram, M88000!Address(s, i), 4)
    BY <1>1, <2>1, <2>2 DEF M88000!Accessed
  <2>4. o = "XMEM" => t \in {M88000!arch_m88k_xmem(s, i)}
    BY <1>1, <2>1, <2>2, <2>3 DEF M88000!Accessed, M88000!is_load
  <2>5. o = "ST_D" => t \in M88000!StorePair(s, i)
    BY <1>1, <2>1, <2>2, <2>3 DEF M88000!Accessed, M88000!is_load
  <2>6. o = "LD_D" => t \in M88000!LoadPair(s, i)
    BY <1>1, <2>1, <2>2, <2>3 DEF M88000!Accessed, M88000!is_load
  <2> QED BY <2>3, <2>4, <2>5, <2>6
<1>3. CASE o = "XMEM"
  BY <1>2, <1>3, ExchangeKept DEF MemoryExact
<1>4. CASE o = "ST_D"
  BY <1>2, <1>4, StorePairKept DEF MemoryExact
<1>5. CASE o = "LD_D"
  BY <1>2, <1>5, LoadPairKept DEF MemoryExact
<1>6. CASE o \notin {"XMEM", "ST_D", "LD_D"}
  BY <1>6 DEF MemoryExact
<1> QED BY <1>3, <1>4, <1>5, <1>6

--------------------------------------------------------------------------------
(* Conditional branches. *)
\* All bits but the sign.
LEMMA WithoutSign ==
  ASSUME NEW v \in Word(W88)
  PROVE  LET g == 2^(W88 - 1) IN AND(W88, v, g - 1) = v % g
<1> DEFINE m == W88 - 1
           g == 2^m
           x == AND(W88, v, g - 1)
           y == v % g
<1>1. m \in Nat /\ W88 \in Nat /\ W88 = m + 1 /\ g \in Nat \ {0} /\ 2^W88 = 2 * g /\ v \in Nat
      /\ g - 1 \in Nat
  BY Width88, PowerPositive DEF Word
<1>2. x \in Word(W88) /\ \A k \in 0..(W88 - 1) : BitOf(x, k) = BitOf(v, k) * BitOf(g - 1, k)
  <2> HIDE DEF g
  <2> QED BY <1>1, LogicTyped, LogicBits
<1>3. \A k \in Nat : BitOf(g - 1, k) = IF k < m THEN 1 ELSE 0
  <2> HIDE DEF m
  <2> QED BY <1>1, OnesBits
<1>4. y \in 0..(g - 1) /\ y \in Word(W88) /\ y \in Nat
  <2> HIDE DEF g, y
  <2>1. y \in 0..(g - 1)
    BY <1>1, Residue DEF y
  <2> QED BY <1>1, <2>1 DEF Word
<1>5. \A k \in 0..(m - 1) : BitOf(y, k) = BitOf(v, k)
  <2> HIDE DEF m
  <2> QED BY <1>1, LowBits
<1>6. BitOf(y, m) = 0
  <2> HIDE DEF m, y
  <2> QED BY <1>1, <1>4, HighBit
<1> HIDE DEF g, x, y
<1>7. ASSUME NEW k \in 0..(W88 - 1) PROVE BitOf(x, k) = BitOf(y, k)
  <2>1. k \in Nat /\ k <= m /\ BitOf(v, k) \in 0..1
    BY <1>1, BitTyped
  <2>2. CASE k < m
    <3>1. k \in 0..(m - 1)
      BY <1>1, <2>1, <2>2
    <3>2. BitOf(g - 1, k) = 1 /\ BitOf(y, k) = BitOf(v, k)
      BY <1>3, <1>5, <2>1, <2>2, <3>1
    <3>3. BitOf(x, k) = BitOf(v, k) * 1
      BY <1>2, <3>2
    <3> QED BY <2>1, <3>2, <3>3
  <2>3. CASE k = m
    <3>1. BitOf(g - 1, k) = 0
      BY <1>3, <2>1, <2>3
    <3>2. BitOf(x, k) = BitOf(v, k) * 0
      BY <1>2, <3>1
    <3> QED BY <1>6, <2>1, <2>3, <3>2
  <2> QED BY <1>1, <2>1, <2>2, <2>3
<1>8. x = y
  BY <1>1, <1>2, <1>4, <1>7, SameBits
<1> QED BY <1>8 DEF x, y, g

\* One bit of the code for each kind of number.
LEMMA CodeOfBranch ==
  ASSUME NEW v \in Word(W88), NEW c \in 1..14
  PROVE  LET k == M88000!CodeBit(M88000!Signed(W88, v)) IN
         /\ k \in 0..3
         /\ M88000!arch_m88k_bcnd_cond(v, c) = IF BitOf(c, k) = 1 THEN 1 ELSE 0
<1> DEFINE g == 2^(W88 - 1)
           n == M88000!Signed(W88, v)
           low == AND(W88, v, g - 1)
           k == M88000!CodeBit(n)
<1>1. g \in Nat \ {0} /\ g >= 1 /\ v \in 0..(2 * g - 1) /\ v \in Nat /\ M88000!Sign = g
  BY Width88 DEF Word, M88000!Sign, W88
<1>2. n = IF v >= g THEN v - 2 * g ELSE v
  BY <1>1, Width88 DEF M88000!Signed, M88000!Negative
<1>3. low = v % g
  BY WithoutSign
<1>4. k = IF n > 0 THEN 0 ELSE IF n = 0 THEN 1 ELSE IF n > -g THEN 2 ELSE 3
  BY <1>1 DEF M88000!CodeBit
<1>11. M88000!arch_m88k_bcnd_cond(v, 1) = Bit(n > 0)
  BY <1>1, Same88 DEF M88000!arch_m88k_bcnd_cond, M88000!NEVER, M88000!ALWAYS, M88000!Bit, Bit, W88
<1>12. M88000!arch_m88k_bcnd_cond(v, 2) = Bit(v = 0)
  BY <1>1, Same88 DEF M88000!arch_m88k_bcnd_cond, M88000!NEVER, M88000!ALWAYS, M88000!Bit, Bit, W88
<1>13. M88000!arch_m88k_bcnd_cond(v, 3) = Bit(n >= 0)
  BY <1>1, Same88 DEF M88000!arch_m88k_bcnd_cond, M88000!NEVER, M88000!ALWAYS, M88000!Bit, Bit, W88
<1>14. M88000!arch_m88k_bcnd_cond(v, 4) = Bit(v # g /\ n < 0)
  BY <1>1, Same88 DEF M88000!arch_m88k_bcnd_cond, M88000!NEVER, M88000!ALWAYS, M88000!Bit, Bit, W88
<1>15. M88000!arch_m88k_bcnd_cond(v, 5) = Bit(low # 0)
  BY <1>1, Same88 DEF M88000!arch_m88k_bcnd_cond, M88000!NEVER, M88000!ALWAYS, M88000!Bit, Bit, W88
<1>16. M88000!arch_m88k_bcnd_cond(v, 6) = Bit(v # g /\ n <= 0)
  BY <1>1, Same88 DEF M88000!arch_m88k_bcnd_cond, M88000!NEVER, M88000!ALWAYS, M88000!Bit, Bit, W88
<1>17. M88000!arch_m88k_bcnd_cond(v, 7) = Bit(v # g)
  BY <1>1, Same88 DEF M88000!arch_m88k_bcnd_cond, M88000!NEVER, M88000!ALWAYS, M88000!Bit, Bit, W88
<1>18. M88000!arch_m88k_bcnd_cond(v, 8) = Bit(v = g)
  BY <1>1, Same88 DEF M88000!arch_m88k_bcnd_cond, M88000!NEVER, M88000!ALWAYS, M88000!Bit, Bit, W88
<1>19. M88000!arch_m88k_bcnd_cond(v, 9) = Bit(n > 0 \/ v = g)
  BY <1>1, Same88 DEF M88000!arch_m88k_bcnd_cond, M88000!NEVER, M88000!ALWAYS, M88000!Bit, Bit, W88
<1>20. M88000!arch_m88k_bcnd_cond(v, 10) = Bit(low = 0)
  BY <1>1, Same88 DEF M88000!arch_m88k_bcnd_cond, M88000!NEVER, M88000!ALWAYS, M88000!Bit, Bit, W88
<1>21. M88000!arch_m88k_bcnd_cond(v, 11) = Bit(n >= 0 \/ v = g)
  BY <1>1, Same88 DEF M88000!arch_m88k_bcnd_cond, M88000!NEVER, M88000!ALWAYS, M88000!Bit, Bit, W88
<1>22. M88000!arch_m88k_bcnd_cond(v, 12) = Bit(n < 0)
  BY <1>1, Same88 DEF M88000!arch_m88k_bcnd_cond, M88000!NEVER, M88000!ALWAYS, M88000!Bit, Bit, W88
<1>23. M88000!arch_m88k_bcnd_cond(v, 13) = Bit(v # 0)
  BY <1>1, Same88 DEF M88000!arch_m88k_bcnd_cond, M88000!NEVER, M88000!ALWAYS, M88000!Bit, Bit, W88
<1>24. M88000!arch_m88k_bcnd_cond(v, 14) = Bit(n <= 0)
  BY <1>1, Same88 DEF M88000!arch_m88k_bcnd_cond, M88000!NEVER, M88000!ALWAYS, M88000!Bit, Bit, W88
<1> HIDE DEF g, n, low, k
<1>5. low = 0 <=> v = 0 \/ v = g
  <2>1. \A z \in 0..(g - 1) : z % g = z /\ (z + g) % g = z
    BY <1>1
  <2>2. CASE v < g
    <3>1. v \in 0..(g - 1)
      BY <1>1, <2>2
    <3>2. v % g = v
      BY <2>1, <3>1
    <3> QED BY <1>1, <1>3, <2>2, <3>2
  <2>3. CASE v >= g
    <3>1. v - g \in 0..(g - 1) /\ (v - g) + g = v
      BY <1>1, <2>3
    <3>2. ((v - g) + g) % g = v - g
      BY <2>1, <3>1
    <3>3. low = v - g
      BY <1>3, <3>1, <3>2
    <3> QED BY <1>1, <2>3, <3>3
  <2> QED BY <1>1, <2>2, <2>3
<1>6. /\ k \in {0, 1, 2, 3}
      /\ k = 0 => n > 0 /\ n >= 0 /\ ~(n < 0) /\ ~(n <= 0) /\ v # 0 /\ v # g
      /\ k = 1 => ~(n > 0) /\ n >= 0 /\ ~(n < 0) /\ n <= 0 /\ v = 0 /\ v # g
      /\ k = 2 => ~(n > 0) /\ ~(n >= 0) /\ n < 0 /\ n <= 0 /\ v # 0 /\ v # g
      /\ k = 3 => ~(n > 0) /\ ~(n >= 0) /\ n < 0 /\ n <= 0 /\ v # 0 /\ v = g
  BY <1>1, <1>2, <1>4
<1> DEFINE Decides(j) == M88000!arch_m88k_bcnd_cond(v, j) = IF BitOf(j, k) = 1 THEN 1 ELSE 0
<1>31. Decides(1)
  <2>1. BitOf(1, 0) = 1 /\ BitOf(1, 1) = 0 /\ BitOf(1, 2) = 0 /\ BitOf(1, 3) = 0
    BY SmallPowers DEF BitOf, LSHR
  <2> QED BY <1>5, <1>6, <1>11, <2>1 DEF Bit
<1>32. Decides(2)
  <2>1. BitOf(2, 0) = 0 /\ BitOf(2, 1) = 1 /\ BitOf(2, 2) = 0 /\ BitOf(2, 3) = 0
    BY SmallPowers DEF BitOf, LSHR
  <2> QED BY <1>5, <1>6, <1>12, <2>1 DEF Bit
<1>33. Decides(3)
  <2>1. BitOf(3, 0) = 1 /\ BitOf(3, 1) = 1 /\ BitOf(3, 2) = 0 /\ BitOf(3, 3) = 0
    BY SmallPowers DEF BitOf, LSHR
  <2> QED BY <1>5, <1>6, <1>13, <2>1 DEF Bit
<1>34. Decides(4)
  <2>1. BitOf(4, 0) = 0 /\ BitOf(4, 1) = 0 /\ BitOf(4, 2) = 1 /\ BitOf(4, 3) = 0
    BY SmallPowers DEF BitOf, LSHR
  <2> QED BY <1>5, <1>6, <1>14, <2>1 DEF Bit
<1>35. Decides(5)
  <2>1. BitOf(5, 0) = 1 /\ BitOf(5, 1) = 0 /\ BitOf(5, 2) = 1 /\ BitOf(5, 3) = 0
    BY SmallPowers DEF BitOf, LSHR
  <2> QED BY <1>5, <1>6, <1>15, <2>1 DEF Bit
<1>36. Decides(6)
  <2>1. BitOf(6, 0) = 0 /\ BitOf(6, 1) = 1 /\ BitOf(6, 2) = 1 /\ BitOf(6, 3) = 0
    BY SmallPowers DEF BitOf, LSHR
  <2> QED BY <1>5, <1>6, <1>16, <2>1 DEF Bit
<1>37. Decides(7)
  <2>1. BitOf(7, 0) = 1 /\ BitOf(7, 1) = 1 /\ BitOf(7, 2) = 1 /\ BitOf(7, 3) = 0
    BY SmallPowers DEF BitOf, LSHR
  <2> QED BY <1>5, <1>6, <1>17, <2>1 DEF Bit
<1>38. Decides(8)
  <2>1. BitOf(8, 0) = 0 /\ BitOf(8, 1) = 0 /\ BitOf(8, 2) = 0 /\ BitOf(8, 3) = 1
    BY SmallPowers DEF BitOf, LSHR
  <2> QED BY <1>5, <1>6, <1>18, <2>1 DEF Bit
<1>39. Decides(9)
  <2>1. BitOf(9, 0) = 1 /\ BitOf(9, 1) = 0 /\ BitOf(9, 2) = 0 /\ BitOf(9, 3) = 1
    BY SmallPowers DEF BitOf, LSHR
  <2> QED BY <1>5, <1>6, <1>19, <2>1 DEF Bit
<1>40. Decides(10)
  <2>1. BitOf(10, 0) = 0 /\ BitOf(10, 1) = 1 /\ BitOf(10, 2) = 0 /\ BitOf(10, 3) = 1
    BY SmallPowers DEF BitOf, LSHR
  <2> QED BY <1>5, <1>6, <1>20, <2>1 DEF Bit
<1>41. Decides(11)
  <2>1. BitOf(11, 0) = 1 /\ BitOf(11, 1) = 1 /\ BitOf(11, 2) = 0 /\ BitOf(11, 3) = 1
    BY SmallPowers DEF BitOf, LSHR
  <2> QED BY <1>5, <1>6, <1>21, <2>1 DEF Bit
<1>42. Decides(12)
  <2>1. BitOf(12, 0) = 0 /\ BitOf(12, 1) = 0 /\ BitOf(12, 2) = 1 /\ BitOf(12, 3) = 1
    BY SmallPowers DEF BitOf, LSHR
  <2> QED BY <1>5, <1>6, <1>22, <2>1 DEF Bit
<1>43. Decides(13)
  <2>1. BitOf(13, 0) = 1 /\ BitOf(13, 1) = 0 /\ BitOf(13, 2) = 1 /\ BitOf(13, 3) = 1
    BY SmallPowers DEF BitOf, LSHR
  <2> QED BY <1>5, <1>6, <1>23, <2>1 DEF Bit
<1>44. Decides(14)
  <2>1. BitOf(14, 0) = 0 /\ BitOf(14, 1) = 1 /\ BitOf(14, 2) = 1 /\ BitOf(14, 3) = 1
    BY SmallPowers DEF BitOf, LSHR
  <2> QED BY <1>5, <1>6, <1>24, <2>1 DEF Bit
<1>7. c \in {1, 2, 3, 4, 5, 6, 7, 8, 9, 10, 11, 12, 13, 14}
  OBVIOUS
<1> HIDE DEF Decides
<1>8. Decides(c)
  BY <1>7, <1>31, <1>32, <1>33, <1>34, <1>35, <1>36, <1>37, <1>38, <1>39, <1>40, <1>41, <1>42, <1>43, <1>44
<1> QED BY <1>6, <1>8 DEF Decides, k, n

--------------------------------------------------------------------------------
(* Tags. *)
LEMMA TagKinds ==
  ASSUME NEW i
  PROVE  /\ M88000!opcode(i) \in M88000!Linking => M88000!tag_kind(i) = {"CALL"}
         /\ M88000!opcode(i) \in M88000!CondBranches =>
              M88000!tag_kind(i) = IF M88000!mb(i) = 0 THEN {"CONTINUE"}
                                   ELSE IF M88000!mb(i) = 15 THEN {"BRANCH"}
                                   ELSE {"BRANCH", "CONDITIONAL"}
<1> DEFINE o == M88000!opcode(i)
<1>1. CASE o \in {"JSR", "JSR_N"}
  BY <1>1 DEF M88000!tag_kind, M88000!Linking, M88000!CondBranches, M88000!Calls, M88000!Jumps,
              M88000!BitBranches, M88000!Traps
<1>2. CASE o \in {"BSR", "BSR_N"}
  BY <1>2 DEF M88000!tag_kind, M88000!Linking, M88000!CondBranches, M88000!Calls, M88000!Jumps,
              M88000!BitBranches, M88000!Traps
<1>3. CASE o \in M88000!CondBranches
  BY <1>3 DEF M88000!tag_kind, M88000!Linking, M88000!CondBranches, M88000!Calls, M88000!Jumps,
              M88000!BitBranches, M88000!Traps, M88000!NEVER, M88000!ALWAYS
<1> QED BY <1>1, <1>2, <1>3 DEF M88000!Linking

\* A branch by the code c goes where the bit for the number says.
LEMMA CodeBits ==
  ASSUME NEW v \in Word(W88), NEW c \in 0..15
  PROVE  LET k == M88000!CodeBit(M88000!Signed(W88, v)) IN
         /\ c \in 1..14 => /\ M88000!arch_m88k_bcnd_cond(v, c % 16) \in {0, 1}
                           /\ M88000!arch_m88k_bcnd_cond(v, c % 16) = 1 <=> M88000!bit(c, k) = 1
         /\ M88000!bit(0, k) = 0 /\ M88000!bit(15, k) = 1
<1> DEFINE k == M88000!CodeBit(M88000!Signed(W88, v))
<1>1. k \in 0..3
  <2>1. 1 \in 1..14
    OBVIOUS
  <2> QED BY <2>1, CodeOfBranch
<1>2. \A x \in 0..15 : x \in Word(W88)
  BY Width88 DEF Word
<1> HIDE DEF k
<1>3. \A x \in 0..15 : M88000!bit(x, k) = BitOf(x, k)
  <2>1. k \in Nat
    BY <1>1
  <2> TAKE x \in 0..15
  <2>2. x \in Word(W88)
    BY <1>2
  <2> QED BY <2>1, <2>2, Bit88
<1>4. BitOf(0, k) = 0 /\ BitOf(15, k) = 1
  <2>1. /\ BitOf(0, 0) = 0 /\ BitOf(0, 1) = 0 /\ BitOf(0, 2) = 0 /\ BitOf(0, 3) = 0
        /\ BitOf(15, 0) = 1 /\ BitOf(15, 1) = 1 /\ BitOf(15, 2) = 1 /\ BitOf(15, 3) = 1
    BY SmallPowers DEF BitOf, LSHR
  <2>2. k = 0 \/ k = 1 \/ k = 2 \/ k = 3
    BY <1>1
  <2> QED BY <2>1, <2>2
<1>5. ASSUME c \in 1..14
      PROVE  /\ M88000!arch_m88k_bcnd_cond(v, c % 16) \in {0, 1}
             /\ M88000!arch_m88k_bcnd_cond(v, c % 16) = 1 <=> M88000!bit(c, k) = 1
  <2>1. c % 16 = c
    OBVIOUS
  <2>2. M88000!arch_m88k_bcnd_cond(v, c) = IF BitOf(c, k) = 1 THEN 1 ELSE 0
    BY <1>5, CodeOfBranch DEF k
  <2>3. M88000!bit(c, k) = BitOf(c, k)
    BY <1>3
  <2> QED BY <2>1, <2>2, <2>3
<1>6. M88000!bit(0, k) = 0 /\ M88000!bit(15, k) = 1
  BY <1>3, <1>4
<1> QED BY <1>5, <1>6 DEF k

\* An immediate without a sign is extended alike either way.
LEMMA NotNegative ==
  ASSUME NEW i, M88000!IsWord(i), M88000!immediate(i) >= 0
  PROVE  M88000!immediate(i) = M88000!UIMM(i)
<1> DEFINE u == M88000!UIMM(i)
           h == 2^M88kImmBits
<1>1. i.low \in Nat /\ h \in Nat \ {0}
  BY Width88, PowerPositive DEF M88000!IsWord, M88000!Word
<1>2. u \in 0..(h - 1)
  <2>1. u = i.low % h
    BY DEF M88000!UIMM, M88000!TRUNC
  <2> HIDE DEF u, h
  <2> QED BY <1>1, <2>1
<1>3. M88000!immediate(i) \in {u, u - h}
  <2>1. M88000!immediate(i) = Signed(M88kImmBits, u)
    BY Same88 DEF M88000!immediate, M88000!UIMM
  <2> QED BY <2>1 DEF Signed
<1> HIDE DEF u, h
<1> QED BY <1>1, <1>2, <1>3 DEF u

--------------------------------------------------------------------------------
(* Returns: what the instruction in the slot makes of the link register. *)
LEMMA Linked88 ==
  ASSUME NEW s, M88000!IsState(s), NEW i, M88000!opcode(i) \in {"BSR_N", "JSR_N"},
         NEW t \in M88000!Done(s, i, 0)
  PROVE  /\ M88000!IsState(t) /\ t.gpr[1] = 8 % 2^W88
<1>1. M88000!Done(s, i, 0) = {M88000!Link(s, i, 0)}
  BY Rows88 DEF M88000!Done, M88000!Linking, M88000!Alu, M88000!AddSub, M88000!Logic, M88000!Fields,
                M88000!LDA, M88000!Width
<1>2. t = M88000!Let(s, 1, 8 % 2^W88)
  BY <1>1 DEF M88000!Link, M88000!TRUNC, W88
<1>3. 8 % 2^W88 \in M88000!Word(M88000!W32)
  <2>1. 2^W88 \in Nat \ {0}
    BY Width88
  <2> DEFINE n == 2^W88
  <2>2. n \in Nat \ {0} /\ 8 \in Int
    BY <2>1
  <2> HIDE DEF n
  <2>3. 8 % n \in 0..(n - 1)
    BY <2>2, Residue
  <2> QED BY <2>3 DEF n, M88000!Word, W88
<1> DEFINE v == 8 % 2^W88
<1> HIDE DEF v
<1>4. t = [s EXCEPT !.gpr[1] = v]
  BY <1>2 DEF M88000!Let, v
<1>5. /\ s = [gpr |-> s.gpr, C |-> s.C, TRAPNO |-> s.TRAPNO, ram |-> s.ram]
      /\ s.gpr \in [M88000!Regs -> M88000!Word(M88000!W32)] /\ s.C \in 0..1
      /\ DOMAIN s.ram \subseteq M88000!Word(M88000!W32)
      /\ \A x \in DOMAIN s.ram : s.ram[x] \in M88000!Word(M88000!Byte)
  BY DEF M88000!IsState
<1>6. t = [gpr |-> [s.gpr EXCEPT ![1] = v], C |-> s.C, TRAPNO |-> s.TRAPNO, ram |-> s.ram]
  BY <1>4, <1>5
<1>7. 1 \in M88000!Regs
  BY DEF M88000!Regs
<1> HIDE DEF v
<1>8. /\ t.gpr = [s.gpr EXCEPT ![1] = v] /\ t.C = s.C /\ t.TRAPNO = s.TRAPNO /\ t.ram = s.ram
  BY <1>6
<1>9. t.gpr \in [M88000!Regs -> M88000!Word(M88000!W32)] /\ t.gpr[1] = v
  BY <1>3, <1>5, <1>7, <1>8 DEF v
<1>10. t = [gpr |-> t.gpr, C |-> t.C, TRAPNO |-> t.TRAPNO, ram |-> t.ram]
  BY <1>6, <1>8
<1> QED BY <1>5, <1>8, <1>9, <1>10 DEF M88000!IsState, v

\* Sums modulo n, with the carry taken as nothing.
LEMMA SlotSums ==
  ASSUME NEW n \in Nat \ {0}, NEW m \in Int
  PROVE  /\ ((((8 % n) + (m % n)) % n) + 0) % n = (8 + m) % n
         /\ ((((8 % n) - (m % n)) % n) - 0) % n = (8 - m) % n
         /\ (8 + m) % n \in Nat /\ (8 - m) % n \in Nat
<1>1. ((8 % n) + (m % n)) % n = (8 + m) % n /\ ((8 % n) - (m % n)) % n = (8 - m) % n
  <2>1. 8 \in Int
    OBVIOUS
  <2> QED BY <2>1, ModSum, Zenon
<1>2. \A z \in 0..(n - 1) : (z + 0) % n = z /\ (z - 0) % n = z
  OBVIOUS
<1>3. (8 + m) % n \in 0..(n - 1) /\ (8 - m) % n \in 0..(n - 1)
  BY Residue
<1> DEFINE p == (8 + m) % n
           q == (8 - m) % n
<1>4. (p + 0) % n = p /\ (q - 0) % n = q /\ p \in Nat /\ q \in Nat
  <2>1. p \in 0..(n - 1) /\ q \in 0..(n - 1)
    BY <1>3
  <2> HIDE DEF p, q
  <2> QED BY <1>2, <2>1
<1> QED BY <1>1, <1>4

LEMMA SlotReturns ==
  ASSUME NEW s, M88000!IsState(s), s.gpr[1] = 8 % 2^W88, NEW i, M88000!IsWord(i),
         M88000!SlotUnderstood(i), NEW t \in M88000!Done(s, i, 4)
  PROVE  t.gpr[1] = (8 + M88000!FixReturnPc(i)) % 2^W88
<1> DEFINE o == M88000!opcode(i)
           n == 2^W88
           m == M88000!immediate(i)
<1>0. n \in Nat \ {0} /\ m \in Int
  BY Width88, Immediates
<1>1. CASE M88000!rd(i) # 1
  <2>1. M88000!FixReturnPc(i) = 0
    BY <1>1 DEF M88000!FixReturnPc
  <2>2. 1 \notin Written88(i) /\ 1 \in M88000!Regs
    <3>1. M88000!Even(M88000!rd(i)) # 1
      <4>1. M88000!rd(i) \in 0..31
        BY Registers88 DEF M88000!Regs
      <4> QED BY <4>1, Pairs88
    <3> QED BY <1>1, <3>1 DEF Written88, M88000!SlotUnderstood, M88000!Regs
  <2>3. t.gpr[1] = s.gpr[1]
    BY <2>2, State88, Leaves88 DEF Leaves, M88000!SlotUnderstood
  <2> QED BY <2>1, <2>3
<1>2. CASE M88000!rd(i) = 1
  <2>1. /\ M88000!rs1(i) = 1 /\ M88000!format(i) = "IFMT_REG" /\ o \in M88000!AddSub
        /\ M88000!CarryIn(s, i) = 0 /\ (o \in {"ADDU", "SUBU"} => m >= 0)
    <3>1. /\ M88000!rs1(i) = 1 /\ M88000!format(i) = "IFMT_REG" /\ o \in M88000!AddSub
          /\ M88000!carry(i) < 2 /\ (o \in {"ADDU", "SUBU"} => m >= 0)
      BY <1>2 DEF M88000!SlotUnderstood
    <3>2. M88000!carry(i) \in Int
      <4>1. i.low \in Nat /\ 2^8 = 256
        BY SmallPowers DEF M88000!IsWord, M88000!Word
      <4> QED BY <4>1 DEF M88000!carry, M88000!LSHR
    <3> HIDE DEF m, o
    <3>3. ~(M88000!carry(i) >= 2)
      BY <3>1, <3>2
    <3> QED BY <3>1, <3>3 DEF M88000!CarryIn
  <2>2. M88000!Operand(s, i) = m % n
    <3>1. CASE o \in {"ADD", "SUB"}
      <4>1. M88000!Operand(s, i) = M88000!IMM(i)
        BY <2>1, <3>1 DEF M88000!Operand, M88000!Signs
      <4> QED BY <4>1 DEF M88000!IMM, M88000!TRUNC, W88
    <3>2. CASE o \in {"ADDU", "SUBU"}
      <4>1. M88000!Operand(s, i) = M88000!UIMM(i)
        BY <2>1, <3>2 DEF M88000!Operand, M88000!Signs
      <4>2. M88000!UIMM(i) \in 0..(n - 1)
        BY Immediates DEF Word
      <4>3. m = M88000!UIMM(i)
        BY <2>1, <3>2, NotNegative
      <4> HIDE DEF n, m
      <4>4. m % n = m
        <5>1. m \in 0..(n - 1)
          BY <4>2, <4>3
        <5> QED BY <1>0, <5>1
      <4> QED BY <4>1, <4>3, <4>4
    <3> QED BY <2>1, <3>1, <3>2 DEF M88000!AddSub
  <2>3. M88000!FixReturnPc(i) = IF o \in {"ADD", "ADDU"} THEN m ELSE -m
    BY <1>2, <2>1 DEF M88000!FixReturnPc, M88000!AddSub
  <2>4. M88000!Calculated(s, i) = M88000!addsub(s, i, 8 % n, m % n)
    BY <2>1, <2>2 DEF M88000!Calculated, M88000!AddSub, M88000!Logic, M88000!Fields, M88000!LDA
  <2>5. M88000!Calculated(s, i) = IF o \in {"ADD", "ADDU"} THEN ((((8 % n) + (m % n)) % n) + 0) % n
                                  ELSE ((((8 % n) - (m % n)) % n) - 0) % n
    BY <2>1, <2>4 DEF M88000!addsub, M88000!ADD, M88000!SUB, M88000!Subtracts, M88000!AddSub, W88
  <2> DEFINE v == M88000!Calculated(s, i)
  <2>6. v = (8 + M88000!FixReturnPc(i)) % n /\ v \in Nat
    <3> HIDE DEF n, m, v
    <3>1. v = IF o \in {"ADD", "ADDU"} THEN (8 + m) % n ELSE (8 - m) % n
      BY <1>0, <2>5, SlotSums DEF v
    <3>2. v \in Nat
      BY <1>0, <3>1, SlotSums
    <3>3. 8 - m = 8 + (-m)
      BY <1>0
    <3> QED BY <2>3, <3>1, <3>2, <3>3
  <2>7. t.gpr[M88000!rd(i)] = v
    <3>1. o \in M88000!Alu
      BY <2>1 DEF M88000!Alu
    <3> QED BY <1>2, <2>6, <3>1, State88, Result88
  <2> QED BY <1>2, <2>6, <2>7
<1> QED BY <1>1, <1>2

--------------------------------------------------------------------------------
(* One step from any state. *)
M88kStart ==
    /\ \A a \in DOMAIN prog : M88000!IsWord(prog[a])
    /\ steps \in 0..1
    /\ steps = 0 => M88000!IsState(r) /\ pc = 0 /\ Idle

M88kInv ==
    guest = "M88K" =>
        M88kStart /\ M88000!InstructionsAsCommented /\ M88000!BranchesByCode /\ M88000!ReturnsToTag

\* Where nothing was done there is nothing to say.
LEMMA Nothing88 ==
  ASSUME Idle
  PROVE  M88000!InstructionsAsCommented /\ M88000!BranchesByCode /\ M88000!ReturnsToTag
<1>1. did = <<>>
  BY DEF Idle
<1>2. ~M88000!Straight
  BY <1>1 DEF M88000!Straight
<1>3. M88000!InstructionsAsCommented
  BY <1>2 DEF M88000!InstructionsAsCommented
<1>4. M88000!BranchesByCode /\ M88000!ReturnsToTag
  BY <1>1, Zenon DEF M88000!BranchesByCode, M88000!ReturnsToTag
<1> QED BY <1>3, <1>4

LEMMA M88kStarts == MCInit => M88kInv
<1> SUFFICES ASSUME MCInit, guest = "M88K"
             PROVE  M88kStart /\ M88000!InstructionsAsCommented /\ M88000!BranchesByCode
                      /\ M88000!ReturnsToTag
  BY DEF M88kInv
<1>1. /\ \E words \in M88kPrograms : prog = M88000!Code(words.code) /\ r \in words.states
      /\ pc = 0 /\ steps = 0 /\ Idle
  BY DEF MCInit, M88kInit, Idle
<1>2. PICK words \in M88kPrograms : prog = M88000!Code(words.code) /\ r \in words.states
  BY <1>1
<1>3. r \in UNION {p.states : p \in M88kPrograms}
  BY <1>2
<1>4. M88000!IsState(r)
  BY <1>3, M88kAssumption
<1>5. ASSUME NEW a \in DOMAIN prog PROVE M88000!IsWord(prog[a])
  <2> DEFINE w == words.code[a]
  <2>1. a \in DOMAIN words.code /\ prog[a] = M88000!Decoded(w)
    BY <1>2, <1>5 DEF M88000!Code
  <2>2. M88000!IsWord(w)
    BY <1>2, <2>1, M88kAssumption
  <2>3. prog[a].d = w.d /\ prog[a].s = w.s /\ prog[a].low = w.low
    BY <2>1 DEF M88000!Decoded
  <2> QED BY <2>2, <2>3 DEF M88000!IsWord
<1>6. M88kStart
  BY <1>1, <1>4, <1>5 DEF M88kStart
<1> QED BY <1>1, <1>6, Nothing88

LEMMA M88kCompiled ==
  ASSUME M88kStart, M88000!Step
  PROVE  /\ pc = 0 /\ Idle /\ M88000!IsState(r) /\ 0 \in DOMAIN prog /\ M88000!IsWord(prog[0])
         /\ prog' = prog /\ steps' = 1 /\ M88kStart'
         /\ M88000!is_delaying(prog[0]) => 4 \in DOMAIN prog /\ M88000!IsWord(prog[4])
         /\ \/ did' = did
            \/ /\ M88000!Compiles /\ before' = [r |-> r, pc |-> 0]
               /\ M88000!Taken \/ M88000!Untaken
<1>1. /\ pc \in DOMAIN prog /\ steps < 1 /\ steps' = steps + 1
      /\ M88000!is_delaying(M88000!Here) => pc + 4 \in DOMAIN prog
      /\ M88000!Fail \/ (/\ M88000!Compiles /\ prog' = prog /\ before' = [r |-> r, pc |-> pc]
                         /\ M88000!Taken \/ M88000!Untaken)
  BY DEF M88000!Step
<1>2. steps = 0
  BY <1>1 DEF M88kStart
<1>3. pc = 0 /\ Idle /\ M88000!IsState(r) /\ 0 \in DOMAIN prog /\ M88000!IsWord(prog[0])
  BY <1>1, <1>2 DEF M88kStart
<1>4. steps' = 1 /\ prog' = prog
  BY <1>1, <1>2 DEF M88000!Fail
<1>5. M88kStart'
  BY <1>4 DEF M88kStart
<1>6. M88000!is_delaying(prog[0]) => 4 \in DOMAIN prog
  BY <1>1, <1>3 DEF M88000!Here
<1>7. M88000!is_delaying(prog[0]) => M88000!IsWord(prog[4])
  BY <1>6 DEF M88kStart
<1>8. M88000!Fail => did' = did
  BY DEF M88000!Fail
<1> QED BY <1>1, <1>3, <1>4, <1>5, <1>6, <1>7, <1>8

\* What the comments say of an instruction that makes t of the machine s.
Commented(s, i, t) ==
    /\ M88000!opcode(i) \in M88000!Fields /\ M88000!FieldDefined(i) /\ M88000!rd(i) # 0 =>
         \A k \in 0..(W88 - 1) :
            M88000!bit(t.gpr[M88000!rd(i)], k) = M88000!FieldBit(i, s.gpr[M88000!rs1(i)], k)
    /\ M88000!opcode(i) = "CMP" /\ M88000!rd(i) # 0 =>
         \A k \in 2..11 : (M88000!LSHR(t.gpr[M88000!rd(i)], k) % 2 = 1) <=>
            M88000!CmpBits(s.gpr[M88000!rs1(i)], M88000!Operand(s, i))[k - 1]
    /\ M88000!opcode(i) \in M88000!AddSub /\ M88000!carry(i) = 1 /\ M88000!rd(i) # 0 =>
         LET x == s.gpr[M88000!rs1(i)] y == M88000!Operand(s, i) v == t.gpr[M88000!rd(i)]
         IN IF M88000!opcode(i) \in M88000!Subtracts THEN x - y = v - t.C * 2^W88
            ELSE x + y = v + t.C * 2^W88
    /\ t.gpr = [s.gpr EXCEPT ![M88000!rd(i)] = t.gpr[M88000!rd(i)],
                 ![M88000!Even(M88000!rd(i))] = t.gpr[M88000!Even(M88000!rd(i))],
                 ![M88000!Odd(M88000!rd(i))] = t.gpr[M88000!Odd(M88000!rd(i))]]
    /\ M88000!opcode(i) \notin M88000!is_store \cup M88000!is_xmem => t.ram = s.ram
    /\ M88000!opcode(i) \in DOMAIN M88000!Width /\ M88000!format(i) \in M88000!MemoryForms =>
         MemoryExact(s, i, t)

LEMMA CommentedKept ==
  ASSUME NEW s, M88000!IsState(s), NEW i, M88000!IsWord(i), NEW t \in M88000!Done(s, i, 0),
         M88000!opcode(i) \notin M88000!Linking
  PROVE  Commented(s, i, t)
<1>1. Machine88(s) /\ Leaves(s, i, t)
  BY State88, Leaves88
<1>2. M88000!opcode(i) \in M88000!Fields /\ M88000!FieldDefined(i) /\ M88000!rd(i) # 0 =>
        \A k \in 0..(W88 - 1) :
           M88000!bit(t.gpr[M88000!rd(i)], k) = M88000!FieldBit(i, s.gpr[M88000!rs1(i)], k)
  BY FieldsKept, Zenon DEF W88
<1>3. M88000!opcode(i) = "CMP" /\ M88000!rd(i) # 0 =>
        \A k \in 2..11 : (M88000!LSHR(t.gpr[M88000!rd(i)], k) % 2 = 1) <=>
           M88000!CmpBits(s.gpr[M88000!rs1(i)], M88000!Operand(s, i))[k - 1]
  BY ComparisonsKept, Zenon
<1>4. M88000!opcode(i) \in M88000!AddSub /\ M88000!carry(i) = 1 /\ M88000!rd(i) # 0 =>
        LET x == s.gpr[M88000!rs1(i)] y == M88000!Operand(s, i) v == t.gpr[M88000!rd(i)]
        IN IF M88000!opcode(i) \in M88000!Subtracts THEN x - y = v - t.C * 2^W88
           ELSE x + y = v + t.C * 2^W88
  BY CarriesKept, Zenon
<1>5. /\ t.gpr = [s.gpr EXCEPT ![M88000!rd(i)] = t.gpr[M88000!rd(i)],
                   ![M88000!Even(M88000!rd(i))] = t.gpr[M88000!Even(M88000!rd(i))],
                   ![M88000!Odd(M88000!rd(i))] = t.gpr[M88000!Odd(M88000!rd(i))]]
      /\ M88000!opcode(i) \notin M88000!is_store \cup M88000!is_xmem => t.ram = s.ram
  BY <1>1, NothingElseKept
<1>6. M88000!opcode(i) \in DOMAIN M88000!Width /\ M88000!format(i) \in M88000!MemoryForms =>
        MemoryExact(s, i, t)
  BY MemoryKept, Zenon
<1> QED BY <1>2, <1>3, <1>4, <1>5, <1>6, Zenon DEF Commented

\* An instruction that is not a branch does what its comment says.
LEMMA StraightKept ==
  ASSUME pc = 0, M88000!IsState(r), M88000!IsWord(prog[0]), prog' = prog,
         before' = [r |-> r, pc |-> 0], M88000!Taken \/ M88000!Untaken
  PROVE  M88000!InstructionsAsCommented'
<1> DEFINE i == prog[0]
<1>1. before'.pc = 0 /\ before'.r = r /\ prog'[before'.pc] = i /\ M88000!Here = i
  BY DEF M88000!Here
<1>2. ASSUME M88000!tag(i) = {"CONTINUE"}
      PROVE  Commented(r, i, r')
  <2>1. ~M88000!is_delaying(i) /\ M88000!tag_kind(i) \subseteq {"CONTINUE"} /\ ~M88000!Conditional
    BY <1>1, <1>2 DEF M88000!tag, M88000!Conditional
  <2>2. M88000!opcode(i) \notin M88000!Linking
    BY <2>1, TagKinds
  <2>3. M88000!Taken
    BY <2>1 DEF M88000!Untaken
  <2>4. PICK s \in M88000!Done(r, i, 0) : r' \in M88000!ThenSlot(s)
    BY <1>1, <2>3 DEF M88000!Taken
  <2>5. r' = s
    BY <1>1, <2>1, <2>4 DEF M88000!ThenSlot
  <2> QED BY <2>2, <2>4, <2>5, CommentedKept
<1>3. M88000!Straight' => Commented(before'.r, prog'[before'.pc], r')
  <2>1. M88000!Straight' => M88000!tag(prog'[before'.pc]) = {"CONTINUE"}
    BY DEF M88000!Straight
  <2> QED BY <1>1, <1>2, <2>1, Zenon
<1>4. Commented(before'.r, prog'[before'.pc], r') =>
        /\ M88000!FieldsAsCommented(before.r, prog[before.pc])'
        /\ M88000!ComparisonsAsCommented(before.r, prog[before.pc])'
        /\ M88000!CarriesExactly(before.r, prog[before.pc])'
        /\ M88000!NothingElse(before.r, prog[before.pc])'
        /\ (M88000!opcode(prog[before.pc]) \in DOMAIN M88000!Width
              /\ M88000!format(prog[before.pc]) \in M88000!MemoryForms
              => M88000!MemoryExactly(before.r, prog[before.pc]))'
  BY Zenon DEF Commented, M88000!FieldsAsCommented, M88000!ComparisonsAsCommented, M88000!CarriesExactly,
               M88000!NothingElse, M88000!MemoryExactly, MemoryExact, W88
<1> QED BY <1>3, <1>4, Zenon DEF M88000!InstructionsAsCommented

\* A branch by a code goes where the number in its register says, whatever its slot does.
LEMMA BranchesKept ==
  ASSUME pc = 0, M88000!IsState(r), M88000!IsWord(prog[0]), prog' = prog,
         before' = [r |-> r, pc |-> 0], M88000!Compiles, M88000!Taken \/ M88000!Untaken
  PROVE  M88000!BranchesByCode'
<1> DEFINE i == prog[0]
           v == r.gpr[M88000!rs1(i)]
           c == M88000!mb(i)
           k == M88000!CodeBit(M88000!Signed(W88, v))
           target == IF M88000!bit(c, k) = 1 THEN M88000!new_pc(i, 0)
                     ELSE 0 + (IF M88000!is_delaying(i) THEN 8 ELSE 4)
<1>1. before'.pc = 0 /\ before'.r = r /\ prog'[before'.pc] = i /\ M88000!Here = i
  BY DEF M88000!Here
<1>2. ASSUME M88000!opcode(i) \in M88000!CondBranches, c < 16
      PROVE  pc' = target
  <2>1. v \in Word(W88) /\ c \in 0..15
    <3>1. M88000!rs1(i) \in M88000!Regs
      BY Registers88
    <3>2. c \in 0..31
      BY DEF M88000!mb, M88000!IsWord
    <3> QED BY <1>2, <3>1, <3>2, State88
  <2>2. /\ c \in 1..14 => /\ M88000!arch_m88k_bcnd_cond(v, c % 16) \in {0, 1}
                          /\ M88000!arch_m88k_bcnd_cond(v, c % 16) = 1 <=> M88000!bit(c, k) = 1
        /\ M88000!bit(0, k) = 0 /\ M88000!bit(15, k) = 1
    <3> HIDE DEF v, c
    <3> QED BY <2>1, CodeBits
  <2>3. M88000!translate_cond(r, i) = M88000!arch_m88k_bcnd_cond(v, c % 16)
    BY <1>2 DEF M88000!translate_cond, M88000!CondBranches
  <2>4. M88000!tag_kind(i) = IF c = 0 THEN {"CONTINUE"} ELSE IF c = 15 THEN {"BRANCH"}
                             ELSE {"BRANCH", "CONDITIONAL"}
    BY <1>2, TagKinds
  <2>5. ~M88000!StoresPc(i)
    BY <1>2 DEF M88000!StoresPc, M88000!Trapped, M88000!CondBranches, M88000!Jumps, M88000!Calls,
         M88000!Traps
  <2>6. M88000!next_pc(i, M88000!Slot, 0) = IF M88000!is_delaying(i) THEN 8 ELSE 4
    BY <1>2 DEF M88000!next_pc, M88000!CondBranches
  <2> HIDE DEF v, k, i
  <2>7. M88000!Conditional <=> c \notin {0, 15}
    BY <1>1, <2>4 DEF M88000!Conditional, M88000!tag
  <2>8. /\ M88000!tag(i) \cap {"BRANCH", "CALL"} # {} <=> c # 0
    BY <2>4 DEF M88000!tag
  <2>9. \A s : M88000!GoesTo(s) = IF c # 0 THEN M88000!new_pc(i, 0) ELSE M88000!next_pc(i, M88000!Slot, 0)
    BY <1>1, <2>5, <2>8 DEF M88000!GoesTo
  <2>10. M88000!Taken => /\ pc' = IF c # 0 THEN M88000!new_pc(i, 0) ELSE M88000!next_pc(i, M88000!Slot, 0)
                         /\ M88000!Conditional => M88000!translate_cond(r, i) = 1
    BY <1>1, <2>9 DEF M88000!Taken
  <2>11. M88000!Untaken => /\ pc' = M88000!next_pc(i, M88000!Slot, 0)
                           /\ M88000!Conditional /\ M88000!translate_cond(r, i) = 0
    BY <1>1 DEF M88000!Untaken
  <2>12. M88000!bit(c, k) = 1 \/ M88000!bit(c, k) # 1
    OBVIOUS
  <2>13. CASE c = 0
    BY <2>2, <2>6, <2>7, <2>10, <2>11, <2>13
  <2>14. CASE c = 15
    BY <2>2, <2>6, <2>7, <2>10, <2>11, <2>14
  <2>15. CASE c \in 1..14
    <3>1. c # 0 /\ c # 15 /\ M88000!Conditional
      BY <2>7, <2>15
    <3>2. CASE M88000!Taken
      <4>1. M88000!bit(c, k) = 1
        BY <2>2, <2>3, <2>10, <2>15, <3>1, <3>2
      <4> QED BY <2>10, <3>1, <3>2, <4>1
    <3>3. CASE M88000!Untaken
      <4>1. M88000!translate_cond(r, i) = 0
        BY <2>11, <3>3
      <4>2. M88000!bit(c, k) # 1
        BY <2>2, <2>3, <2>15, <4>1
      <4>3. pc' = IF M88000!is_delaying(i) THEN 8 ELSE 4
        BY <2>6, <2>11, <3>3
      <4> QED BY <4>2, <4>3
    <3> QED BY <3>2, <3>3
  <2>16. c = 0 \/ c = 15 \/ c \in 1..14
    <3> HIDE DEF c
    <3> QED BY <2>1
  <2> QED BY <2>13, <2>14, <2>15, <2>16
<1>3. M88000!opcode(prog'[before'.pc]) \in M88000!CondBranches /\ M88000!mb(prog'[before'.pc]) < 16 =>
        pc' = IF M88000!bit(M88000!mb(prog'[before'.pc]),
                            M88000!CodeBit(M88000!Signed(W88,
                              before'.r.gpr[M88000!rs1(prog'[before'.pc])]))) = 1
              THEN M88000!new_pc(prog'[before'.pc], before'.pc)
              ELSE before'.pc + (IF M88000!is_delaying(prog'[before'.pc]) THEN 8 ELSE 4)
  BY <1>1, <1>2, Zenon DEF c, k, v, target
<1> QED BY <1>3, Zenon DEF M88000!BranchesByCode, W88

\* A call comes back to where the tag says that it does, also when the instruction in
\* its slot changes the link register.
LEMMA ReturnsKept ==
  ASSUME pc = 0, M88000!IsState(r), M88000!IsWord(prog[0]), prog' = prog,
         M88000!is_delaying(prog[0]) => 4 \in DOMAIN prog /\ M88000!IsWord(prog[4]),
         before' = [r |-> r, pc |-> 0], M88000!Taken \/ M88000!Untaken
  PROVE  M88000!ReturnsToTag'
<1> DEFINE i == prog[0]
           slot == prog[4]
<1>1. /\ before'.pc = 0 /\ prog'[before'.pc] = i /\ prog'[before'.pc + 4] = slot /\ M88000!Here = i
  BY DEF M88000!Here
<1>2. ASSUME M88000!opcode(i) \in {"BSR_N", "JSR_N"}, M88000!SlotUnderstood(slot)
      PROVE  r'.gpr[1] = (8 + M88000!FixReturnPc(slot)) % 2^W88
  <2>1. M88000!is_delaying(i) /\ M88000!opcode(i) \in M88000!Linking
    BY <1>2 DEF M88000!is_delaying, M88000!Linking
  <2>2. 4 \in DOMAIN prog /\ M88000!IsWord(slot) /\ M88000!Slot = slot
    BY <2>1 DEF M88000!Slot
  <2>3. ~M88000!Conditional
    BY <1>1, <2>1, TagKinds DEF M88000!Conditional, M88000!tag
  <2>4. M88000!Taken
    BY <2>3 DEF M88000!Untaken
  <2>5. PICK s \in M88000!Done(r, i, 0) : r' \in M88000!ThenSlot(s)
    BY <1>1, <2>4 DEF M88000!Taken
  <2>6. r' \in M88000!Done(s, slot, 4)
    BY <1>1, <2>1, <2>2, <2>5 DEF M88000!ThenSlot
  <2>7. M88000!IsState(s) /\ s.gpr[1] = 8 % 2^W88
    BY <1>2, <2>5, Linked88
  <2> HIDE DEF slot
  <2> QED BY <1>2, <2>2, <2>6, <2>7, SlotReturns
<1>3. M88000!opcode(i) \in {"BSR_N", "JSR_N"} =>
        M88000!TRUNC(W88, M88000!next_pc(i, slot, 0)) = (8 + M88000!FixReturnPc(slot)) % 2^W88
  BY DEF M88000!next_pc, M88000!is_delaying, M88000!TRUNC
<1>4. M88000!opcode(prog'[before'.pc]) \in {"BSR_N", "JSR_N"}
        /\ M88000!SlotUnderstood(prog'[before'.pc + 4])
        => r'.gpr[1] = M88000!TRUNC(W88, M88000!next_pc(prog'[before'.pc], prog'[before'.pc + 4],
          before'.pc))
  BY <1>1, <1>2, <1>3, Zenon
<1> QED BY <1>4, Zenon DEF M88000!ReturnsToTag, W88

LEMMA M88kSteps ==
  ASSUME M88kStart, M88000!Step
  PROVE  M88kStart' /\ M88000!InstructionsAsCommented' /\ M88000!BranchesByCode' /\ M88000!ReturnsToTag'
<1>1. CASE did' = did
  <2>1. Idle'
    BY <1>1, M88kCompiled DEF Idle
  <2>2. Idle' => M88000!InstructionsAsCommented' /\ M88000!BranchesByCode' /\ M88000!ReturnsToTag'
    BY Nothing88, PTL
  <2> QED BY <2>1, <2>2, M88kCompiled
<1>2. CASE /\ M88000!Compiles /\ before' = [r |-> r, pc |-> 0]
           /\ M88000!Taken \/ M88000!Untaken
  <2>1. /\ pc = 0 /\ M88000!IsState(r) /\ M88000!IsWord(prog[0]) /\ prog' = prog /\ M88kStart'
        /\ M88000!is_delaying(prog[0]) => 4 \in DOMAIN prog /\ M88000!IsWord(prog[4])
    BY M88kCompiled
  <2>2. M88000!InstructionsAsCommented'
    BY <1>2, <2>1, StraightKept
  <2>3. M88000!BranchesByCode'
    BY <1>2, <2>1, BranchesKept
  <2>4. M88000!ReturnsToTag'
    BY <1>2, <2>1, ReturnsKept
  <2> QED BY <2>1, <2>2, <2>3, <2>4
<1> QED BY <1>1, <1>2, M88kCompiled

LEMMA M88kKept == M88kInv /\ [MCNext]_allvars => M88kInv'
<1> SUFFICES ASSUME M88kInv, [MCNext]_allvars, guest' = "M88K"
             PROVE  /\ M88kStart' /\ M88000!InstructionsAsCommented'
                    /\ M88000!BranchesByCode' /\ M88000!ReturnsToTag'
  BY DEF M88kInv
<1>1. guest' = guest
  BY DEF MCNext, allvars
<1>2. M88kStart /\ M88000!InstructionsAsCommented /\ M88000!BranchesByCode /\ M88000!ReturnsToTag
  BY <1>1 DEF M88kInv
<1>3. ASSUME UNCHANGED allvars
      PROVE  /\ M88kStart' /\ M88000!InstructionsAsCommented'
             /\ M88000!BranchesByCode' /\ M88000!ReturnsToTag'
  <2>1. /\ prog' = prog /\ r' = r /\ pc' = pc /\ ctl' = ctl /\ steps' = steps
        /\ did' = did /\ before' = before
    BY <1>3 DEF allvars, mips, vars
  <2>2. M88kStart'
    BY <1>2, <2>1 DEF M88kStart, Idle
  <2>3. M88000!Straight' <=> M88000!Straight
    BY <2>1, Zenon DEF M88000!Straight
  <2>4. M88000!InstructionsAsCommented'
    BY <1>2, <2>1, <2>3, Zenon
       DEF M88000!InstructionsAsCommented, M88000!FieldsAsCommented, M88000!ComparisonsAsCommented,
           M88000!CarriesExactly, M88000!NothingElse, M88000!MemoryExactly
  <2>5. M88000!BranchesByCode'
    BY <1>2, <2>1, Zenon DEF M88000!BranchesByCode
  <2>6. M88000!ReturnsToTag'
    BY <1>2, <2>1, Zenon DEF M88000!ReturnsToTag
  <2> QED BY <2>2, <2>4, <2>5, <2>6
<1>4. CASE Next88k
  BY <1>2, <1>4, M88kSteps DEF Next88k, M88000!Next
<1> QED BY <1>1, <1>3, <1>4
        DEF MCNext, Next6502, NextStack, NextMips, NextArm, NextFapra, NextX86

\* The ARM's conditions and comparisons, Fapra's calls and the M88000's fields, words,
\* comparisons, carries, pairs, branches and returns are what the comments beside the code
\* say (arm_disasm.cpp, fapra_arch.cpp, m88k_translate.cpp), whatever the registers and
\* the memory hold.
THEOREM GuestsKeepComments == MCSpec => []GuestsAsCommented
<1>1. M88kInv /\ ArmInv /\ FapraInv => GuestsAsCommented
  BY DEF M88kInv, ArmInv, FapraInv, GuestsAsCommented
<1> QED
  BY <1>1, M88kStarts, M88kKept, ArmStarts, ArmKept, FapraStarts, FapraKept, PTL DEF MCSpec
================================================================================
