-------------------------------- MODULE TypedIR --------------------------------
(***************************************************************************)
(* The macros of libcpu/frontend.h with the types that LLVM gives their    *)
(* values.  A value is [bits, val].  Where LLVM has no instruction for the *)
(* operands' types the result is Mistyped; where the result is poison, as  *)
(* that of a shift by the width or more, val is Poison.                    *)
(***************************************************************************)
EXTENDS Frontend

Poison == -1
Mistyped == [bits |-> 0, val |-> 0]

CONSTs(n, v) == [bits |-> n, val |-> v % 2^n]

Binary(a, b, v) ==
    IF a.bits # b.bits \/ a.bits = 0 THEN Mistyped
    ELSE IF Poison \in {a.val, b.val} THEN [bits |-> a.bits, val |-> Poison]
    ELSE [bits |-> a.bits, val |-> v]

Shifted(a, b, v) == Binary(a, b, IF b.val >= a.bits THEN Poison ELSE v)

tADD(a, b) == Binary(a, b, ADD(a.bits, a.val, b.val))
tSUB(a, b) == Binary(a, b, SUB(a.bits, a.val, b.val))
tAND(a, b) == Binary(a, b, AND(a.bits, a.val, b.val))
tOR(a, b) == Binary(a, b, OR(a.bits, a.val, b.val))
tXOR(a, b) == Binary(a, b, XOR(a.bits, a.val, b.val))
tSHL(a, b) == Shifted(a, b, SHL(a.bits, a.val, b.val))
tLSHR(a, b) == Shifted(a, b, LSHR(a.val, b.val))
tASHR(a, b) == Shifted(a, b, ASHR(a.bits, a.val, b.val))

\* A comparison has one bit.
Compare(a, b, holds) ==
    IF a.bits # b.bits \/ a.bits = 0 THEN Mistyped ELSE [bits |-> 1, val |-> Bit(holds)]

tSLT(a, b) == Compare(a, b, ICMP_SLT(a.bits, a.val, b.val))
tULT(a, b) == Compare(a, b, a.val < b.val)
tEQ(a, b) == Compare(a, b, a.val = b.val)
tNOT(a) == IF a.bits = 1 THEN CONSTs(1, 1 - a.val) ELSE Mistyped

Resize(n, a, fits, v) ==
    IF ~fits \/ a.bits = 0 THEN Mistyped
    ELSE [bits |-> n, val |-> IF a.val = Poison THEN Poison ELSE v]

tTRUNC(n, a) == Resize(n, a, n < a.bits, TRUNC(n, a.val))
tZEXT(n, a) == Resize(n, a, n > a.bits, a.val)
tSEXT(n, a) == Resize(n, a, n > a.bits, SEXT(a.bits, n, a.val))

\* arch_get_reg() and arch_put_reg() for a register of size bits.
Get(size, bits, v) ==
    IF bits # 0 /\ bits < size THEN tTRUNC(bits, CONSTs(size, v)) ELSE CONSTs(size, v)

Extended(size, bits, sext, v) ==
    IF bits = 0 \/ bits = size THEN v
    ELSE IF sext THEN tSEXT(size, v) ELSE tZEXT(size, v)
================================================================================
