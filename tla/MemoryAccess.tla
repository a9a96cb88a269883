------------------------------ MODULE MemoryAccess ------------------------------
(***************************************************************************)
(* libcpu/frontend.cpp, "GENERIC: memory access" and "endianness": guest   *)
(* memory is an array of bytes that the host reads and writes in aligned   *)
(* words of 32 bits.  A word is swapped where guest and host differ; bytes *)
(* and half words are shifted out of a word and merged into one.           *)
(***************************************************************************)
EXTENDS Integers, Sequences, Frontend

CONSTANTS
    ByteSize,       \* bits of a byte; a word has four bytes
    Words,          \* number of words of memory
    Values8, Values16, Values32,    \* what the guest stores
    MaxStores

VARIABLES
    RAM,            \* the bytes
    guestLittle,    \* IS_LITTLE_ENDIAN(cpu)
    hostLittle,     \* cpu->dl->isLittleEndian()
    stores

vars == <<RAM, guestLittle, hostLittle, stores>>

Bytes == 0..(4 * Words - 1)
Aligned(n) == {a \in Bytes : a % n = 0}

\* The number of four bytes, the lowest first.
Joined(byte) ==
    byte[0] + byte[1] * 2^ByteSize + byte[2] * 2^(2 * ByteSize) + byte[3] * 2^(3 * ByteSize)

\* Which of the n bytes of a number is the one at place k.
Nth(k, n, little) == IF little THEN k ELSE n - 1 - k

\* The number that n bytes from address a stand for, and its bytes.
Number(ram, a, n, little) ==
    Joined([k \in 0..3 |-> IF k < n THEN ram[a + Nth(k, n, little)] ELSE 0])

Digit(v, k, n, little) == LSHR(v, Nth(k, n, little) * ByteSize) % 2^ByteSize

Put(a, n, v, little) ==
    [x \in Bytes |-> IF x \in a..(a + n - 1) THEN Digit(v, x - a, n, little) ELSE RAM[x]]

Init ==
    /\ RAM = [x \in Bytes |-> 0]
    /\ guestLittle \in BOOLEAN /\ hostLittle \in BOOLEAN
    /\ stores = 0

--------------------------------------------------------------------------------
\* cpu_new(): "check if we need to swap guest memory"
SWAPMEM == hostLittle # guestLittle

\* llvm.bswap of a word
SWAP32(v) == Joined([k \in 0..3 |-> Digit(v, k, 4, FALSE)])

\* RAM32(), by which instructions are fetched, is RAM32BE() for every guest.
RAM32(a) == Number(RAM, a, 4, FALSE)

arch_load32_aligned(a) ==
    LET v == Number(RAM, a, 4, hostLittle)
    IN IF SWAPMEM THEN SWAP32(v) ELSE v

Store32(v, a) == Put(a, 4, IF SWAPMEM THEN SWAP32(v) ELSE v, hostLittle)

Word32(a) == a - (a % 4)

\* arch_get_shift8(), arch_get_shift16()
Shift8(a) == (IF guestLittle THEN a % 4 ELSE 3 - (a % 4)) * ByteSize

\* Mutant: bytes and not half words are counted.
Shift16_Bytes(a) == (IF guestLittle THEN a % 4 ELSE 3 - (a % 4)) * ByteSize

Shift16(a) ==
    LET half == (a \div 2) % 2
    IN (IF guestLittle THEN half ELSE 1 - half) * 2 * ByteSize

arch_load8(a) == TRUNC(ByteSize, LSHR(arch_load32_aligned(Word32(a)), Shift8(a)))

arch_load16_aligned(a) ==
    TRUNC(2 * ByteSize, LSHR(arch_load32_aligned(Word32(a)), Shift16(a)))

\* The bits of old that are not among width bits from shift on, and v there.
Merge(old, v, shift, width) ==
    LET above == LSHR(old, shift + width) * 2^(shift + width)
        below == old % 2^shift
    IN above + (v % 2^width) * 2^shift + below

arch_store8(v, a) ==
    Store32(Merge(arch_load32_aligned(Word32(a)), v, Shift8(a), ByteSize), Word32(a))

arch_store16(v, a) ==
    Store32(Merge(arch_load32_aligned(Word32(a)), v, Shift16(a), 2 * ByteSize), Word32(a))

--------------------------------------------------------------------------------
Stored(ram) ==
    /\ stores < MaxStores
    /\ stores' = stores + 1
    /\ RAM' = ram
    /\ UNCHANGED <<guestLittle, hostLittle>>

STORE8(v, a) == Stored(arch_store8(v, a))
STORE16(v, a) == Stored(arch_store16(v, a))
STORE32(v, a) == Stored(Store32(v, a))

Next ==
    \/ \E a \in Bytes, v \in Values8 : STORE8(v, a)
    \/ \E a \in Aligned(2), v \in Values16 : STORE16(v, a)
    \/ \E a \in Aligned(4), v \in Values32 : STORE32(v, a)

Spec == Init /\ [][Next]_vars

--------------------------------------------------------------------------------
TypeOK ==
    /\ RAM \in [Bytes -> Word(ByteSize)]
    /\ guestLittle \in BOOLEAN /\ hostLittle \in BOOLEAN
    /\ stores \in 0..MaxStores

\* Whatever was stored in whatever widths, bytes, half words and words read as
\* the guest's byte order has it, on either kind of host (arch_load8(),
\* arch_load16_aligned(), arch_load32_aligned()).
LoadsInGuestOrder ==
    /\ \A a \in Bytes : arch_load8(a) = RAM[a]
    /\ \A a \in Aligned(2) : arch_load16_aligned(a) = Number(RAM, a, 2, guestLittle)
    /\ \A a \in Aligned(4) : arch_load32_aligned(a) = Number(RAM, a, 4, guestLittle)

\* A store changes exactly its own bytes, and leaves in them its value in the
\* guest's byte order (arch_store8(), arch_store16(), arch_store32_aligned()).
StoresInGuestStep ==
    /\ \A a \in Bytes, v \in Values8 : STORE8(v, a) => RAM' = Put(a, 1, v, guestLittle)
    /\ \A a \in Aligned(2), v \in Values16 : STORE16(v, a) => RAM' = Put(a, 2, v, guestLittle)
    /\ \A a \in Aligned(4), v \in Values32 : STORE32(v, a) => RAM' = Put(a, 4, v, guestLittle)
================================================================================
