--------------------------------- MODULE MCM88k ---------------------------------
(* Instructions of the M88000 and the registers they are executed with: words of   *)
(* eight bits, immediates of four, and sixteen bytes of memory.                     *)
EXTENDS Integers, TLC

\* Around the sign and the carry.
MCM88kValues == {0, 1, 5, 127, 128, 255}

M88kWord(major, d, s, low) == [major |-> major, d |-> d, s |-> s, low |-> low]
Extension(major, d, s, k, low) == M88kWord(major, d, s, k * 2^10 + low)
M88kNop == M88kWord(22, 0, 0, 0)

MachineState(a, b, c, f) ==
    [gpr |-> [[n \in 0..31 |-> 0] EXCEPT ![1] = a, ![2] = b, ![3] = c], C |-> f, TRAPNO |-> 0,
     ram |-> [x \in 0..15 |-> (x + x \div 4) % 4]]

\* All registers, for what may name any of them.
FullState == [MachineState(4, 8, 3, 0) EXCEPT !.gpr = [n \in 0..31 |-> (n % 4) * 4]]

WithSlot(i, slot) == (0 :> i) @@ (4 :> slot)

\* Bit fields of any width at any offset, and the same in registers.
FieldOpcodes == {32, 34, 36, 38, 40, 42}
FieldWords ==
    {Extension(60, 3, 1, k, 32 * w + o) : k \in FieldOpcodes, w \in 0..7, o \in 0..7}
    \cup {Extension(61, 3, 1, k, 2) : k \in FieldOpcodes}

\* Arithmetic with each kind of carry, and with immediates that have carry bits.
ArithmeticWords ==
    {Extension(61, d, 1, k, 256 * c + 2) : k \in 16..31, c \in 0..3, d \in {1, 3}}
    \cup {M88kWord(major, 3, 1, n) : major \in 16..31, n \in {0, 1, 7, 8, 15, 257, 520}}
    \cup {Extension(61, 3, 1, k, 2) : k \in 12..15}

ArithmeticStates ==
    {MachineState(a, b, 0, f) : a \in MCM88kValues, b \in MCM88kValues, f \in {0, 1}}

\* Loads, stores and exchanges, scaled or not, at the edges of memory as well.
MemoryWords ==
    {M88kWord(major, 2, 1, n) : major \in 2..11, n \in {0, 1, 6}}
    \cup {Extension(61, d, 1, k, 512 * scale + 2) : k \in 0..11, d \in {0, 3}, scale \in {0, 1}}
    \cup {Extension(60, 2, 1, k, 2) : k \in 4..10}

MemoryStates == {MachineState(a, b, 27, 0) : a \in {0, 2, 5, 255}, b \in {0, 1, 9}}

\* Branches by any code or bit, jumps and traps, with any of the slots.
JumpWords ==
    {M88kWord(major, m, 1, 3) : major \in 52..59, m \in 0..31}
    \cup {M88kWord(major, 0, 0, 3) : major \in 48..51}
    \cup {Extension(61, 0, 0, k, n) : k \in 48..51, n \in {1, 2}}
    \cup {Extension(60, 5, 1, k, 40) : k \in {52, 54, 58}}
    \cup {Extension(60, 5, 0, 54, 40), M88kWord(62, 5, 1, 3)}

\* addu r1,r1,4; addu r1,r1,15; subu; add r1,r1,-1; sub; addu r2,r1,4; or r1,r0,1; xor.
M88kSlots ==
    {M88kNop, M88kWord(24, 1, 1, 4), M88kWord(24, 1, 1, 15), M88kWord(25, 1, 1, 4),
     M88kWord(28, 1, 1, 15), M88kWord(29, 1, 1, 2), M88kWord(24, 2, 1, 4), M88kWord(22, 1, 0, 1),
     M88kWord(20, 2, 2, 3)}

\* Every opcode there is, legal or not.
AnyWords ==
    {M88kWord(major, d, s, 3) : major \in 0..63, d \in {0, 1, 15, 16, 31}, s \in {0, 1}}
    \cup {Extension(major, d, s, k, x) :
            major \in {32, 33, 34, 60, 61}, d \in {0, 1}, s \in {0, 1}, k \in 0..63,
            x \in {1, 2, 32, 256, 512}}

JumpStates == {MachineState(a, 8, 0, 0) : a \in MCM88kValues}

\* Code and the states it is run in.
MCM88kPrograms ==
    {[code |-> WithSlot(i, M88kNop), states |-> ArithmeticStates] : i \in FieldWords \cup ArithmeticWords}
    \cup {[code |-> WithSlot(i, M88kNop), states |-> MemoryStates] : i \in MemoryWords}
    \cup {[code |-> WithSlot(i, slot), states |-> JumpStates] :
            i \in JumpWords, slot \in M88kSlots}
    \cup {[code |-> WithSlot(i, M88kNop), states |-> {FullState}] : i \in AnyWords}
================================================================================
