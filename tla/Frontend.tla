-------------------------------- MODULE Frontend --------------------------------
(***************************************************************************)
(* libcpu/frontend.h and frontend.cpp: what the LLVM instructions that the *)
(* macros stand for compute on integers of w bits, and the helpers built   *)
(* from them that the guest architectures share.  An integer of w bits is  *)
(* a number in 0 .. 2^w - 1.                                               *)
(***************************************************************************)
EXTENDS Integers, Sequences

Word(w) == 0..(2^w - 1)

TRUNC(w, v) == v % 2^w
ADD(w, a, b) == (a + b) % 2^w
SUB(w, a, b) == (a - b) % 2^w
COM(w, v) == 2^w - 1 - v
NEG(w, v) == (2^w - v) % 2^w
SHL(w, v, n) == (v * 2^n) % 2^w
LSHR(v, n) == v \div 2^n

\* ICMP_SLT(v, 0)
Negative(w, v) == v >= 2^(w - 1)

Signed(w, v) == IF Negative(w, v) THEN v - 2^w ELSE v

ASHR(w, v, n) == (Signed(w, v) \div 2^n) % 2^w

SEXT(from, to, v) == Signed(from, v) % 2^to

ICMP_SLT(w, a, b) == Signed(w, a) < Signed(w, b)

Bit(condition) == IF condition THEN 1 ELSE 0

BitOf(v, k) == LSHR(v, k) % 2

\* The number of w bits that has these.
OfBits(w, bit) ==
    LET low[n \in 0..w] == IF n = 0 THEN 0 ELSE low[n - 1] + bit[n - 1] * 2^(n - 1)
    IN low[w]

AND(w, a, b) == OfBits(w, [k \in 0..(w - 1) |-> BitOf(a, k) * BitOf(b, k)])
OR(w, a, b) == OfBits(w, [k \in 0..(w - 1) |-> Bit(1 \in {BitOf(a, k), BitOf(b, k)})])
XOR(w, a, b) == OfBits(w, [k \in 0..(w - 1) |-> Bit(BitOf(a, k) # BitOf(b, k))])

\* arch_shiftrotate(): the new value and the new carry.
arch_shiftrotate(w, v, c, left, rotate) ==
    IF left
    THEN [value |-> SHL(w, v, 1) + (IF rotate THEN c ELSE 0),
          carry |-> Bit(Negative(w, v))]
    ELSE [value |-> LSHR(v, 1) + (IF rotate THEN c * 2^(w - 1) ELSE 0),
          carry |-> v % 2]

\* arch_adc(): calculated with more bits than w.
arch_adc(w, a, v, c) ==
    LET v1 == a + v + c
    IN [value |-> TRUNC(w, v1), carry |-> LSHR(v1, w) % 2]

\* arch_flags_encode(), arch_flags_decode(): layout gives each flag its bit of w.
arch_flags_encode(w, layout, flags) ==
    OfBits(w, [k \in 0..(w - 1) |-> Bit(\E f \in DOMAIN layout : layout[f] = k /\ flags[f] = 1)])

arch_flags_decode(layout, psr) ==
    [f \in DOMAIN layout |-> BitOf(psr, layout[f])]
================================================================================
