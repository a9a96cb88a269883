------------------------------ MODULE FpRegisters ------------------------------
(***************************************************************************)
(* libcpu/fp.cpp: the floating point registers, which generated code and   *)
(* the client share.  Where the host has the format of the guest, or the   *)
(* guest has doubles, a register is one float.  On a host without 80 bit   *)
(* floats it is two words of 64 bits: hi with sign and exponent and lo     *)
(* with the mantissa, in the order of the host (fp_types.h:20-37, where    *)
(* the compiler defines __LITTLE_ENDIAN__ on such hosts).                  *)
(*                                                                         *)
(* Assertions are part of the program, which is always built for debugging *)
(* (CMakeLists.txt:10): a store that one of them refuses ends it.  Signs   *)
(* and mantissas pass unchanged but for the explicit integer bit; the      *)
(* exponent has all its bits here.                                         *)
(***************************************************************************)
EXTENDS Integers, FiniteSets

CONSTANTS
    Count,          \* regclass_count[CPU_REGCLASS_FPR]
    Exponents,      \* exponents, as those of doubles, of the numbers put in registers
    Mantissas,
    MaxStores       \* bound: what is put in registers

VARIABLES
    fpr,            \* cell of the register file -> its content
    written,        \* register -> the number last put there; a ghost
    stores,
    aborted,
    floatSize,      \* of the guest: float_size
    hardwireFpr0,   \* of the guest: CPU_FLAG_HARDWIRE_FPR0
    host,           \* the wide formats the host has: CPU_FLAG_FP80, CPU_FLAG_FP128
    hostLittle

machine == <<floatSize, hardwireFpr0, host, hostLittle>>
vars == <<fpr, written, stores, aborted, machine>>

Exponent64 == 1..2047
Exponent80 == 0..32767
Registers == 0..(Count - 1)
Cells == 0..(2 * Count - 1)
Number == [sign : 0..1, exponent : Exponents, mantissa : Mantissas]
Zero == [sign |-> 0, exponent |-> 0, mantissa |-> 0]

\* arch_init() has cleared the registers.
Empty == [kind |-> "zero"]
Whole(v) == [kind |-> "float", value |-> v]
Hi(v, e) == [kind |-> "hi", sign |-> v.sign, exponent |-> e]
Lo(v) == [kind |-> "lo", mantissa |-> v.mantissa]

Synthesized == floatSize = 80 /\ 80 \notin host

\* "FP128 not yet implemented"
Missing == floatSize = 128 /\ 128 \notin host

\* The exponent of a number in 80 bits, from that of a double.
Rebias(e) == IF e = 2047 THEN 32767 ELSE e - 1023 + 16383

\* Bit n of an exponent, for m = 2^n; and one of two bits.
Bit(e, m) == (e \div m) % 2
OR(x, y) == IF x = 1 THEN 1 ELSE y

\* For registers of two words emit_decode_fp_reg_helper() writes twice Count pointers to
\* arrays of Count: what it overwrites may end the process.
Init ==
    /\ fpr = [c \in Cells |-> Empty]
    /\ written = [i \in Registers |-> Zero]
    /\ stores = 0
    /\ floatSize \in {64, 80, 128} /\ hardwireFpr0 \in BOOLEAN
    /\ host \in SUBSET {80, 128} /\ hostLittle \in BOOLEAN
    /\ aborted \in BOOLEAN /\ (aborted => Synthesized)

--------------------------------------------------------------------------------
(***************************************************************************)
(* The casts, on types: what comes out, or "bad" where LLVM has no such    *)
(* instruction or the code aborts.                                         *)
(***************************************************************************)
IntType(n) == [kind |-> "int", bits |-> n]
FloatType(n) == [kind |-> "float", bits |-> n]
Bad == [kind |-> "float", bits |-> 0]

BITCAST(n, t) == IF t.bits = n THEN FloatType(n) ELSE Bad
ZEXT(n, t) == IF t.kind = "int" /\ t.bits < n THEN IntType(n) ELSE Bad
TRUNC(n, t) == IF t.kind = "int" /\ t.bits > n THEN IntType(n) ELSE Bad
FPEXT(n, t) == IF t.kind # "int" /\ t.bits \in 1..(n - 1) THEN FloatType(n) ELSE Bad
FPTRUNC(n, t) == IF t.kind # "int" /\ t.bits > n THEN FloatType(n) ELSE Bad

\* A narrow integer is widened to 32 bits and is a float then.
Small(t) == BITCAST(32, ZEXT(32, t))

FromInt(n, t) ==
    IF t.kind # "int" THEN t
    ELSE IF t.bits < 32 THEN FPEXT(n, Small(t))
    ELSE IF t.bits < 64 THEN FPEXT(n, BITCAST(32, t))
    ELSE FPEXT(n, BITCAST(64, t))

Resize(n, t) ==
    IF t.kind = "int" \/ t = Bad THEN Bad
    ELSE IF t.bits < n THEN FPEXT(n, t) ELSE IF t.bits > n THEN FPTRUNC(n, t) ELSE t

\* The integer is looked at twice; a float that was made is cast to itself.
arch_cast_fp32(t) ==
    IF t.kind = "int"
    THEN BITCAST(32, IF t.bits < 32 THEN Small(t) ELSE IF t.bits > 32 THEN TRUNC(32, t) ELSE t)
    ELSE IF t.bits > 32 THEN FPTRUNC(32, t) ELSE t

arch_cast_fp64(t) ==
    Resize(64, IF t.kind = "int" /\ t.bits >= 64 THEN BITCAST(64, t) ELSE FromInt(64, t))

\* If the host lacks a format, the next narrower one is taken.
arch_cast_fp80(t) ==
    IF 80 \in host THEN Resize(80, FromInt(80, t)) ELSE arch_cast_fp64(t)

arch_cast_fp128(t) ==
    IF 128 \in host THEN LET f == FromInt(128, t) IN IF f.bits \in 1..127 THEN FPEXT(128, f) ELSE f
    ELSE arch_cast_fp80(t)

fp_cast(n, t) ==
    CASE n = 32 -> arch_cast_fp32(t) [] n = 64 -> arch_cast_fp64(t)
      [] n = 80 -> arch_cast_fp80(t) [] n = 128 -> arch_cast_fp128(t)

ValueTypes ==
    {IntType(n) : n \in {1, 8, 16, 32, 64}} \cup {FloatType(n) : n \in {32, 64} \cup host}

--------------------------------------------------------------------------------
(***************************************************************************)
(* Stores and loads.                                                       *)
(***************************************************************************)
\* arch_store_fp_reg(): "if the caller cares about bit size"
Extended(bits, t) == IF bits # 0 /\ bits # floatSize THEN fp_cast(floatSize, t) ELSE t

\* arch_put_fp_reg() is called with 64 bits where registers are synthesized, and else with
\* those of the caller, also when the value has been extended.  LLVM wants the
\* value to be of the type of the register.
Accepts(bits, t) ==
    LET v == Extended(bits, t)
        asserted == IF Synthesized THEN 64 ELSE IF bits = 0 THEN v.bits ELSE bits
    IN ~Missing /\ asserted = floatSize /\ v = FloatType(floatSize)

\* The client, and generated code where the host has the format, share the cells.
Put(i, v) ==
    /\ written' = [written EXCEPT ![i] = v]
    /\ fpr' = IF Synthesized
              THEN LET hi == i * 2 + IF hostLittle THEN 1 ELSE 0
                       lo == i * 2 + IF hostLittle THEN 0 ELSE 1
                   IN [fpr EXCEPT ![hi] = Hi(v, Rebias(v.exponent)), ![lo] = Lo(v)]
              ELSE [fpr EXCEPT ![i] = Whole(v)]

\* arch_store_fp_reg() of a value of type t
Store(i, bits, t) ==
    \/ ~Accepts(bits, t) /\ aborted' = TRUE /\ UNCHANGED <<fpr, written>>
    \/ /\ Accepts(bits, t)
       /\ IF hardwireFpr0 /\ i = 0 THEN UNCHANGED <<fpr, written>>
          ELSE \E v \in Number : Put(i, v)
       /\ UNCHANGED aborted

\* The client writes to cpu->rf.frf.
ClientPut(i) == (\E v \in Number : Put(i, v)) /\ UNCHANGED aborted

Next ==
    /\ ~aborted /\ stores < MaxStores
    /\ stores' = stores + 1
    /\ UNCHANGED machine
    /\ \E i \in Registers :
          ClientPut(i) \/ \E bits \in {0, 32, 64, 80, 128}, t \in ValueTypes : Store(i, bits, t)

Spec == Init /\ [][Next]_vars

\* arch_load_fp_reg(), arch_store_fp_reg(): "index * 2"
Index(i) == i * 2

\* arch_get_fp_reg() asserts that there is a register of each index it is given, and gets
\* two for a synthesized register; x0 is not looked at there when it is zero.
Loadable(i) ==
    ~Missing /\ (Synthesized /\ ~(hardwireFpr0 /\ i = 0) => Index(i) + 1 < Count)

\* Mutant: the mask of the exponent's low bits is two short.
Compress_Byte(e) ==
    Bit(e, 16384) * 1024 + Bit(e, 8192) * 512 + Bit(e, 4096) * 256 + (e % 256)

\* "compress fp80 -> fp64": exponent bits 0x7000 << 48 and 0x3ff << 52, which
\* meet in the two lowest of the former.
Compress(e) ==
    Bit(e, 16384) * 1024 + OR(Bit(e, 8192), Bit(e, 512)) * 512
        + OR(Bit(e, 4096), Bit(e, 256)) * 256 + (e % 256)

\* arch_synthesize_fp80_load(); the explicit integer bit is shifted out.
Synthesize(i) ==
    LET hi == fpr[Index(i) + IF hostLittle THEN 1 ELSE 0]
        lo == fpr[Index(i) + IF hostLittle THEN 0 ELSE 1]
    IN IF (Index(i) = 0 /\ hardwireFpr0) \/ hi = Empty THEN Zero
       ELSE [sign |-> hi.sign, exponent |-> Compress(hi.exponent), mantissa |-> lo.mantissa]

\* A float of the host is loaded as it is, x0 too.
Load(i) ==
    IF Synthesized THEN Synthesize(i) ELSE IF fpr[i] = Empty THEN Zero ELSE fpr[i].value

--------------------------------------------------------------------------------
TypeOK ==
    /\ fpr \in [Cells -> {Empty} \cup [kind : {"float"}, value : Number]
                        \cup [kind : {"hi"}, sign : 0..1, exponent : Exponent80]
                        \cup [kind : {"lo"}, mantissa : Mantissas]]
    /\ written \in [Registers -> Number \cup {Zero}]
    /\ stores \in 0..MaxStores /\ aborted \in BOOLEAN
    /\ floatSize \in {64, 80, 128} /\ hardwireFpr0 \in BOOLEAN
    /\ host \in SUBSET {80, 128} /\ hostLittle \in BOOLEAN

\* The exponents that a load from two words gets right: all but those below 768, which
\* lose their bits 8 and 9 (fp.cpp:139-142).
Compressed(e) == e = 0 \/ e >= 768

\* What generated code loads from a register is what the client or generated code put
\* there last, and nothing put in another register changes it, on every kind of
\* host, wherever no assertion ends the process (arch_load_fp_reg(),
\* arch_store_fp_reg()).  Exceptions are exponents as above and a hardwired x0,
\* which reads as zero from two words but not from a float.
KeptValues ==
    \A i \in Registers :
        Loadable(i) /\ (Synthesized => Compressed(written[i].exponent)) =>
            Load(i) = IF Synthesized /\ hardwireFpr0 /\ i = 0 THEN Zero ELSE written[i]

\* What "the widest precision available" for n bits is.
Widest(n) ==
    IF n = 128 /\ n \in host THEN 128
    ELSE IF n >= 80 /\ 80 \in host THEN 80
    ELSE IF n >= 64 THEN 64 ELSE n

\* Each cast comes out with the widest format there is for its size, by
\* instructions that LLVM has (arch_cast_fp32() .. arch_cast_fp128()).
CastsToWidest ==
    \A n \in {32, 64, 80, 128}, t \in ValueTypes : fp_cast(n, t) = FloatType(Widest(n))
================================================================================
