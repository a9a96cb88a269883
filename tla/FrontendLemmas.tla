----------------------------- MODULE FrontendLemmas -----------------------------
(***************************************************************************)
(* Numbers and their bits: what the operators of Frontend return, for      *)
(* every width.  The provers know no powers but those of given numbers, so *)
(* the powers of two come first: 2^n is the number of subsets of 1..n.     *)
(***************************************************************************)
EXTENDS Frontend, FiniteSets, FiniteSetTheorems, FunctionTheorems, WellFoundedInduction, TLAPS

Doubles(n) == 2^n \in Nat \ {0} /\ 2^(n + 1) = 2 * 2^n

\* The subsets of 1..n are counted.
LEMMA PowerCounts ==
  ASSUME NEW n \in Nat
  PROVE  /\ IsFiniteSet(SUBSET (1..n)) /\ Cardinality(SUBSET (1..n)) = 2^n
         /\ 2^n \in Nat
<1>1. IsFiniteSet(1..n) /\ Cardinality(1..n) = n
  <2>1. IsFiniteSet(1..n) /\ Cardinality(1..n) = IF 1 > n THEN 0 ELSE n - 1 + 1
    BY FS_Interval
  <2> QED BY <2>1
<1>2. IsFiniteSet(SUBSET (1..n)) /\ Cardinality(SUBSET (1..n)) = 2^n
  BY <1>1, FS_SUBSET, Zenon
<1>3. Cardinality(SUBSET (1..n)) \in Nat
  BY <1>2, FS_CardinalityType, Zenon
<1> QED BY <1>2, <1>3, Zenon

LEMMA TwoChoices == IsFiniteSet({0, 1}) /\ Cardinality({0, 1}) = 2
<1>1. IsFiniteSet({0}) /\ Cardinality({0}) = 1
  BY FS_Singleton, Zenon
<1>2. IsFiniteSet({0} \cup {1}) /\ Cardinality({0} \cup {1}) = IF 1 \in {0} THEN 1 ELSE 1 + 1
  BY <1>1, FS_AddElement, Zenon
<1>3. {0} \cup {1} = {0, 1}
  OBVIOUS
<1> QED BY <1>2, <1>3

\* A subset of 1..(n + 1) has the last number or not.
LEMMA Choices ==
  ASSUME NEW n \in Nat
  PROVE  ExistsBijection((SUBSET (1..n)) \X {0, 1}, SUBSET (1..(n + 1)))
<1> DEFINE P == (SUBSET (1..n)) \X {0, 1}
           Q == SUBSET (1..(n + 1))
           with(c) == IF c[2] = 1 THEN c[1] \cup {n + 1} ELSE c[1]
           f == [c \in P |-> with(c)]
<1>1. 1..n \subseteq 1..(n + 1) /\ n + 1 \notin 1..n /\ n + 1 \in 1..(n + 1)
      /\ \A x \in 1..(n + 1) : x \in 1..n \/ x = n + 1
  OBVIOUS
<1>2. \A c \in P : c[1] \in SUBSET (1..n) /\ c[2] \in {0, 1} /\ c = <<c[1], c[2]>>
  OBVIOUS
<1>3. f \in [P -> Q]
  <2> SUFFICES ASSUME NEW c \in P PROVE with(c) \in Q
    OBVIOUS
  <2>1. c[1] \in SUBSET (1..n)
    BY <1>2
  <2> QED BY <1>1, <2>1, Zenon
<1>4. ASSUME NEW c \in P, NEW d \in P, f[c] = f[d] PROVE c = d
  <2>1. with(c) = with(d)
    BY <1>4
  <2>2. n + 1 \notin c[1] /\ n + 1 \notin d[1]
    BY <1>1, <1>2, Zenon
  <2>3. (n + 1 \in with(c)) <=> c[2] = 1
    BY <2>2, Zenon
  <2>4. (n + 1 \in with(d)) <=> d[2] = 1
    BY <2>2, Zenon
  <2>5. c[2] = d[2]
    BY <2>1, <2>3, <2>4, <1>2
  <2>6. \A x : x \in c[1] <=> x \in with(c) /\ x # n + 1
    BY <2>2, Zenon
  <2>7. \A x : x \in d[1] <=> x \in with(d) /\ x # n + 1
    BY <2>2, Zenon
  <2>8. c[1] = d[1]
    BY <2>1, <2>6, <2>7, Zenon
  <2> QED BY <2>5, <2>8, <1>2, Zenon
<1>5. ASSUME NEW T \in Q PROVE \E c \in P : f[c] = T
  <2> DEFINE c == <<T \ {n + 1}, IF n + 1 \in T THEN 1 ELSE 0>>
  <2>1. T \ {n + 1} \in SUBSET (1..n)
    BY <1>1
  <2>2. c \in P
    BY <2>1
  <2>3. with(c) = T
    <3>1. CASE n + 1 \in T
      BY <3>1
    <3>2. CASE n + 1 \notin T
      BY <3>2
    <3> QED BY <3>1, <3>2
  <2> QED BY <2>2, <2>3
<1>6. f \in Bijection(P, Q)
  <2> HIDE DEF f, P, Q
  <2> QED BY <1>3, <1>4, <1>5, Zenon DEF Bijection, Injection, Surjection, IsInjective
<1> QED BY <1>6 DEF ExistsBijection

LEMMA PowersOfTwo == ASSUME NEW n \in Nat PROVE Doubles(n)
<1> DEFINE P == SUBSET (1..n)
           Q == SUBSET (1..(n + 1))
<1>1. IsFiniteSet(P) /\ Cardinality(P) = 2^n /\ 2^n \in Nat
  BY PowerCounts
<1>2. n + 1 \in Nat
  OBVIOUS
<1>3. Cardinality(Q) = 2^(n + 1)
  BY <1>2, PowerCounts
<1>4. IsFiniteSet(P \X {0, 1}) /\ Cardinality(P \X {0, 1}) = Cardinality(P) * 2
  BY <1>1, TwoChoices, FS_Product
<1>5. Cardinality(Q) = Cardinality(P \X {0, 1})
  BY <1>4, Choices, FS_Bijection
<1>6. 2^n # 0
  <2>1. {} \in P
    OBVIOUS
  <2>2. P # {}
    BY <2>1
  <2> HIDE DEF P
  <2> QED BY <1>1, <2>2, FS_EmptySet
<1>7. 2^n * 2 = 2 * 2^n
  BY <1>1
<1> QED BY <1>1, <1>3, <1>4, <1>5, <1>6, <1>7 DEF Doubles

LEMMA PowerPositive == ASSUME NEW n \in Nat PROVE 2^n \in Nat \ {0}
BY PowersOfTwo DEF Doubles

LEMMA Least ==
  ASSUME NEW T \in SUBSET Nat, T # {}
  PROVE  \E x \in T : \A y \in T : x <= y
<1>1. PICK x \in T : \A y \in T : ~(<<y, x>> \in OpToRel(<, Nat))
  BY NatLessThanWellFounded, WFMin
<1>2. \A y \in T : ~(y < x)
  BY <1>1 DEF OpToRel
<1> QED BY <1>2

\* What an instance of induction needs: the least number that is missed is 0 or
\* one more than a number that is not.
LEMMA LeastMissed ==
  ASSUME NEW w \in Nat, NEW T \in SUBSET (0..w), T # {}
  PROVE  \E m \in T : m = 0 \/ (m - 1 \in 0..w /\ m - 1 \notin T)
<1>1. PICK m \in T : \A y \in T : m <= y
  BY Least
<1> QED BY <1>1

LEMMA PowerSum == ASSUME NEW m \in Nat, NEW n \in Nat PROVE 2^(m + n) = 2^m * 2^n
<1> DEFINE T == {k \in 0..n : 2^(m + k) # 2^m * 2^k}
<1>1. SUFFICES ASSUME T # {} PROVE FALSE
  <2>1. n \in 0..n
    OBVIOUS
  <2> QED BY <2>1
<1>2. PICK k \in T : k = 0 \/ (k - 1 \in 0..n /\ k - 1 \notin T)
  <2>1. T \in SUBSET (0..n) /\ n \in Nat
    OBVIOUS
  <2> HIDE DEF T
  <2> QED BY <1>1, <2>1, LeastMissed
<1>3. 2^m \in Nat
  BY PowerPositive
<1>4. CASE k = 0
  <2>1. m + 0 = m /\ 2^0 = 1 /\ 2^m * 1 = 2^m
    BY <1>3
  <2> QED BY <1>2, <1>4, <2>1
<1>5. CASE k # 0
  <2> DEFINE j == k - 1
  <2>1. j \in Nat /\ m + j \in Nat /\ k = j + 1 /\ m + k = (m + j) + 1
    BY <1>2, <1>5
  <2>2. 2^(m + j) = 2^m * 2^j
    BY <1>2, <1>5
  <2>3. 2^j \in Nat /\ 2^(j + 1) = 2 * 2^j /\ 2^((m + j) + 1) = 2 * 2^(m + j)
    BY <2>1, PowersOfTwo DEF Doubles
  <2>4. 2 * (2^m * 2^j) = 2^m * (2 * 2^j)
    BY <1>3, <2>3
  <2>5. 2^(m + k) = 2^m * 2^k
    <3> HIDE DEF j
    <3> QED BY <2>1, <2>2, <2>3, <2>4
  <2> QED BY <1>2, <2>5
<1> QED BY <1>4, <1>5

LEMMA Division ==
  ASSUME NEW n \in Nat \ {0}, NEW low \in 0..(n - 1), NEW high \in Nat
  PROVE (low + n * high) \div n = high /\ (low + n * high) % n = low
OBVIOUS

LEMMA AddMultiple ==
  ASSUME NEW n \in Nat \ {0}, NEW x \in Nat, NEW y \in Nat
  PROVE  (x + n * y) \div n = (x \div n) + y /\ (x + n * y) % n = x % n
<1> DEFINE q == x \div n
           r == x % n
<1>1. q \in Nat /\ r \in 0..(n - 1) /\ x = r + n * q
  OBVIOUS
<1>2. q + y \in Nat /\ n * (q + y) = n * q + n * y
  BY <1>1
<1>3. n * q \in Nat /\ n * y \in Nat
  BY <1>1
<1>4. x + n * y = r + n * (q + y)
  BY <1>1, <1>2, <1>3
<1>5. (r + n * (q + y)) \div n = q + y /\ (r + n * (q + y)) % n = r
  <2> HIDE DEF q, r
  <2> QED BY <1>1, <1>2, Division
<1> QED BY <1>4, <1>5

--------------------------------------------------------------------------------
(***************************************************************************)
(* OfBits                                                                  *)
(***************************************************************************)
Bits(w) == [0..(w - 1) -> 0..1]

AddsBits(low, w, bit) ==
    low = [n \in 0..w |-> IF n = 0 THEN 0 ELSE low[n - 1] + bit[n - 1] * 2^(n - 1)]

LEMMA SumOfBits ==
  ASSUME NEW w \in Nat, NEW bit \in Bits(w)
  PROVE  \E low \in [0..w -> Nat] : AddsBits(low, w, bit)
<1> DEFINE Sums(low, m) == AddsBits(low, m, bit)
           T == {m \in 0..w : ~\E low \in [0..m -> Nat] : Sums(low, m)}
<1>1. SUFFICES ASSUME T # {} PROVE FALSE
  <2>1. w \in 0..w
    OBVIOUS
  <2> QED BY <2>1
<1>2. PICK m \in T : m = 0 \/ (m - 1 \in 0..w /\ m - 1 \notin T)
  <2>1. T \in SUBSET (0..w) /\ w \in Nat
    OBVIOUS
  <2> HIDE DEF T
  <2> QED BY <1>1, <2>1, LeastMissed
<1>3. CASE m = 0
  <2> DEFINE low == [n \in 0..0 |-> 0]
  <2>1. low \in [0..m -> Nat] /\ Sums(low, m)
    BY <1>3 DEF AddsBits
  <2> QED BY <1>2, <2>1
<1>4. CASE m # 0
  <2>1. m - 1 \in 0..w /\ m - 1 \notin T
    BY <1>2, <1>4
  <2>2. PICK g \in [0..(m - 1) -> Nat] : Sums(g, m - 1)
    BY <2>1
  <2>3. bit[m - 1] \in Nat /\ 2^(m - 1) \in Nat
    <3>1. m - 1 \in 0..(w - 1) /\ m - 1 \in Nat
      BY <1>2, <1>4
    <3>2. bit[m - 1] \in 0..1
      BY <3>1 DEF Bits
    <3>3. 2^(m - 1) \in Nat
      BY <3>1, PowerPositive
    <3> QED BY <3>2, <3>3
  <2> DEFINE last == bit[m - 1] * 2^(m - 1)
  <2>4. last \in Nat
    BY <2>3
  <2> DEFINE h == [k \in 0..m |-> IF k = m THEN g[m - 1] + last ELSE g[k]]
  <2>5. h \in [0..m -> Nat]
    <3> HIDE DEF last
    <3> QED BY <2>2, <2>4, <1>2, <1>4
  <2>6. ASSUME NEW n \in 0..m
        PROVE  h[n] = IF n = 0 THEN 0 ELSE h[n - 1] + bit[n - 1] * 2^(n - 1)
    <3>1. CASE n = m
      BY <3>1, <1>2, <1>4
    <3>2. CASE n # m
      <4>1. n \in 0..(m - 1) /\ h[n] = g[n] /\ (n # 0 => h[n - 1] = g[n - 1])
        BY <3>2, <1>2, <1>4
      <4> QED BY <4>1, <2>2 DEF AddsBits
    <3> QED BY <3>1, <3>2
  <2>7. Sums(h, m)
    BY <2>6 DEF AddsBits
  <2> HIDE DEF h
  <2> QED BY <2>5, <2>7, <1>2
<1> QED BY <1>3, <1>4

LEMMA OfBitsSum ==
  ASSUME NEW w \in Nat, NEW bit \in Bits(w)
  PROVE  \E low : AddsBits(low, w, bit) /\ OfBits(w, bit) = low[w]
<1> DEFINE low == CHOOSE low : AddsBits(low, w, bit)
<1>1. AddsBits(low, w, bit)
  BY SumOfBits
<1>2. OfBits(w, bit) = low[w]
  BY DEF OfBits, AddsBits
<1> HIDE DEF low
<1> QED BY <1>1, <1>2

\* A power of two is a multiple of twice any smaller one.
LEMMA PowerFactor ==
  ASSUME NEW m \in Nat, NEW k \in 0..(m - 1)
  PROVE  \E j \in Nat : 2^m = 2^k * (2 * j)
<1> DEFINE Factor(n) == \E j \in Nat : 2^n = 2^k * (2 * j)
           T == {i \in 0..(m - k - 1) : ~Factor(k + 1 + i)}
<1>1. SUFFICES ASSUME T # {} PROVE FALSE
  <2>1. m - k - 1 \in 0..(m - k - 1) /\ k + 1 + (m - k - 1) = m
    OBVIOUS
  <2> QED BY <2>1
<1>2. PICK i \in T : i = 0 \/ (i - 1 \in 0..(m - k - 1) /\ i - 1 \notin T)
  <2>1. T \in SUBSET (0..(m - k - 1)) /\ m - k - 1 \in Nat
    OBVIOUS
  <2> HIDE DEF T
  <2> QED BY <1>1, <2>1, LeastMissed
<1>3. k \in Nat /\ 2^k \in Nat /\ 2^(k + 1) = 2 * 2^k
  <2>1. k \in Nat
    OBVIOUS
  <2>2. Doubles(k)
    BY <2>1, PowersOfTwo
  <2> QED BY <2>1, <2>2 DEF Doubles
<1>4. CASE i = 0
  <2>1. 2^(k + 1 + i) = 2^k * (2 * 1)
    <3>1. k + 1 + i = k + 1
      BY <1>4
    <3> QED BY <1>3, <3>1
  <2> QED BY <1>2, <2>1
<1>5. CASE i # 0
  <2>1. i - 1 \in 0..(m - k - 1) /\ i - 1 \notin T
    BY <1>2, <1>5
  <2>2. PICK j \in Nat : 2^(k + 1 + (i - 1)) = 2^k * (2 * j)
    BY <2>1
  <2>3. k + i \in Nat /\ k + 1 + (i - 1) = k + i /\ k + 1 + i = (k + i) + 1
    BY <1>2, <1>3
  <2>4. 2^((k + i) + 1) = 2 * 2^(k + i)
    <3>1. Doubles(k + i)
      BY <2>3, PowersOfTwo
    <3> QED BY <3>1 DEF Doubles
  <2>5. 2^(k + 1 + i) = 2 * (2^k * (2 * j))
    BY <2>2, <2>3, <2>4
  <2>6. 2 * (2^k * (2 * j)) = 2^k * (2 * (2 * j)) /\ 2 * j \in Nat
    BY <1>3
  <2> QED BY <1>2, <2>5, <2>6
<1> QED BY <1>4, <1>5

\* The sum up to m has m bits, and they are the first m bits.
HasBits(low, m, bit) ==
    /\ low[m] \in 0..(2^m - 1)
    /\ \A k \in 0..(m - 1) : BitOf(low[m], k) = bit[k]

LEMMA SumHasBits ==
  ASSUME NEW w \in Nat, NEW bit \in Bits(w), NEW low, AddsBits(low, w, bit)
  PROVE  HasBits(low, w, bit)
<1> DEFINE T == {m \in 0..w : ~HasBits(low, m, bit)}
<1>1. SUFFICES ASSUME T # {} PROVE FALSE
  <2>1. w \in 0..w
    OBVIOUS
  <2> QED BY <2>1
<1>2. PICK m \in T : m = 0 \/ (m - 1 \in 0..w /\ m - 1 \notin T)
  <2>1. T \in SUBSET (0..w) /\ w \in Nat
    OBVIOUS
  <2> HIDE DEF T
  <2> QED BY <1>1, <2>1, LeastMissed
<1>3. low[0] = 0 /\ \A n \in 1..w : low[n] = low[n - 1] + bit[n - 1] * 2^(n - 1)
  BY DEF AddsBits
<1>4. CASE m = 0
  <2>1. HasBits(low, 0, bit)
    BY <1>3 DEF HasBits
  <2> QED BY <1>2, <1>4, <2>1
<1>5. CASE m # 0
  <2> DEFINE n == m - 1
             p == 2^n
             b == bit[n]
             x == low[n]
  <2>1. n \in Nat /\ n \in 0..(w - 1) /\ m \in 1..w /\ m = n + 1
    BY <1>2, <1>5
  <2>2. x \in 0..(p - 1) /\ \A k \in 0..(n - 1) : BitOf(x, k) = bit[k]
    BY <1>2, <1>5 DEF HasBits
  <2>3. p \in Nat \ {0} /\ 2^m = 2 * p /\ b \in 0..1 /\ low[m] = x + p * b
    <3>1. p \in Nat \ {0} /\ 2^(n + 1) = 2 * p
      BY <2>1, PowersOfTwo DEF Doubles
    <3>2. b \in 0..1
      BY <2>1 DEF Bits
    <3>3. low[m] = x + b * p
      BY <2>1, <1>3
    <3>4. b * p = p * b
      BY <3>1, <3>2
    <3> QED BY <2>1, <3>1, <3>2, <3>3, <3>4
  <2>4. low[m] \in 0..(2^m - 1)
    <3> HIDE DEF p, b, x, n
    <3>1. b = 0 \/ b = 1
      BY <2>3
    <3> QED BY <2>2, <2>3, <3>1
  <2>5. BitOf(low[m], n) = bit[n]
    <3>1. (x + p * b) \div p = b
      <4> HIDE DEF p, b, x, n
      <4> QED BY <2>2, <2>3, Division
    <3>2. low[m] \div 2^n = b
      BY <2>3, <3>1
    <3>3. b % 2 = b
      BY <2>3
    <3> QED BY <3>2, <3>3 DEF BitOf, LSHR
  <2>6. ASSUME NEW k \in 0..(n - 1) PROVE BitOf(low[m], k) = bit[k]
    <3> DEFINE q == 2^k
    <3>1. PICK j \in Nat : p = q * (2 * j)
      <4>1. n \in Nat
        BY <2>1
      <4> HIDE DEF n
      <4> QED BY <4>1, PowerFactor
    <3>2. q \in Nat \ {0}
      <4>1. k \in Nat
        BY <2>1
      <4> HIDE DEF n
      <4> QED BY <4>1, PowerPositive
    <3>3. x + p * b = x + q * (2 * (j * b)) /\ 2 * (j * b) \in Nat /\ j * b \in Nat
      <4> HIDE DEF p, b, x, n, q
      <4>1. b = 0 \/ b = 1
        BY <2>3
      <4> QED BY <2>3, <3>1, <3>2, <4>1
    <3>4. (x + q * (2 * (j * b))) \div q = (x \div q) + 2 * (j * b)
      <4> HIDE DEF p, b, x, n, q
      <4>1. x \in Nat
        BY <2>2, <2>3
      <4> QED BY <4>1, <3>2, <3>3, AddMultiple
    <3>5. ((x \div q) + 2 * (j * b)) % 2 = (x \div q) % 2
      <4>1. x \div q \in Nat
        <5> HIDE DEF p, b, x, n, q
        <5> QED BY <2>2, <2>3, <3>2
      <4> HIDE DEF p, b, x, n, q
      <4> QED BY <4>1, <3>3, AddMultiple
    <3>6. BitOf(low[m], k) = BitOf(x, k)
      BY <2>3, <3>3, <3>4, <3>5 DEF BitOf, LSHR
    <3> QED BY <2>2, <3>6
  <2>7. HasBits(low, m, bit)
    <3>1. \A k \in 0..(m - 1) : k \in 0..(n - 1) \/ k = n
      BY <2>1
    <3> HIDE DEF n
    <3> QED BY <2>4, <2>5, <2>6, <3>1 DEF HasBits
  <2> QED BY <1>2, <2>7
<1> QED BY <1>4, <1>5

\* A number has the bits it was made of, and no more.
LEMMA OfBitsHas ==
  ASSUME NEW w \in Nat, NEW bit \in Bits(w)
  PROVE  OfBits(w, bit) \in Word(w) /\ \A k \in 0..(w - 1) : BitOf(OfBits(w, bit), k) = bit[k]
<1>1. PICK low : AddsBits(low, w, bit) /\ OfBits(w, bit) = low[w]
  BY OfBitsSum
<1>2. HasBits(low, w, bit)
  BY <1>1, SumHasBits
<1> QED BY <1>1, <1>2 DEF HasBits, Word

LEMMA LogicTyped ==
  ASSUME NEW w \in Nat, NEW a \in Nat, NEW b \in Nat
  PROVE  AND(w, a, b) \in Word(w) /\ OR(w, a, b) \in Word(w) /\ XOR(w, a, b) \in Word(w)
<1>1. \A k \in 0..(w - 1) : BitOf(a, k) \in 0..1 /\ BitOf(b, k) \in 0..1
  <2> SUFFICES ASSUME NEW k \in 0..(w - 1) PROVE BitOf(a, k) \in 0..1 /\ BitOf(b, k) \in 0..1
    OBVIOUS
  <2>1. 2^k \in Nat \ {0}
    <3>1. k \in Nat
      OBVIOUS
    <3> QED BY <3>1, PowerPositive
  <2> QED BY <2>1 DEF BitOf, LSHR
<1>2. [k \in 0..(w - 1) |-> BitOf(a, k) * BitOf(b, k)] \in Bits(w)
  <2>1. \A x, y \in 0..1 : x * y \in 0..1
    OBVIOUS
  <2> QED BY <1>1, <2>1 DEF Bits
<1>3. [k \in 0..(w - 1) |-> Bit(1 \in {BitOf(a, k), BitOf(b, k)})] \in Bits(w)
  BY DEF Bits, Bit
<1>4. [k \in 0..(w - 1) |-> Bit(BitOf(a, k) # BitOf(b, k))] \in Bits(w)
  BY DEF Bits, Bit
<1> QED BY <1>2, <1>3, <1>4, OfBitsHas DEF AND, OR, XOR

--------------------------------------------------------------------------------
(***************************************************************************)
(* Numbers of either sign.                                                 *)
(***************************************************************************)
\* What is left of a sum depends only on what is left of its parts.
LEMMA Residue ==
  ASSUME NEW n \in Nat \ {0}, NEW x \in Int
  PROVE  /\ x % n \in 0..(n - 1)
         /\ x \div n \in Int
         /\ x = (x % n) + n * (x \div n)
OBVIOUS

LEMMA ResidueUnique ==
  ASSUME NEW n \in Nat \ {0}, NEW low \in 0..(n - 1), NEW high \in Int
  PROVE  (low + n * high) % n = low /\ (low + n * high) \div n = high
OBVIOUS

LEMMA AddTimes ==
  ASSUME NEW n \in Nat \ {0}, NEW x \in Int, NEW y \in Int
  PROVE  (x + n * y) % n = x % n /\ (x + n * y) \div n = (x \div n) + y
<1> DEFINE q == x \div n
           l == x % n
<1>1. q \in Int /\ l \in 0..(n - 1) /\ x = l + n * q
  BY Residue
<1> HIDE DEF q, l
<1>2. q + y \in Int /\ n * (q + y) = n * q + n * y
  BY <1>1
<1>3. n * q \in Int /\ n * y \in Int
  BY <1>1
<1>4. x + n * y = l + n * (q + y)
  BY <1>1, <1>2, <1>3
<1>5. (l + n * (q + y)) % n = l /\ (l + n * (q + y)) \div n = q + y
  BY <1>1, <1>2, ResidueUnique
<1> QED BY <1>4, <1>5 DEF q, l

LEMMA ModSum ==
  ASSUME NEW n \in Nat \ {0}, NEW x \in Int, NEW y \in Int
  PROVE  /\ ((x % n) + (y % n)) % n = (x + y) % n
         /\ ((x % n) - (y % n)) % n = (x - y) % n
         /\ ((x % n) + y) % n = (x + y) % n
<1> DEFINE p == x \div n
           k == x % n
           q == y \div n
           l == y % n
<1>1. p \in Int /\ k \in Int /\ x = k + n * p
  BY Residue
<1>2. q \in Int /\ l \in Int /\ y = l + n * q
  BY Residue
<1> HIDE DEF p, k, q, l
<1>3. n * p \in Int /\ n * q \in Int /\ n * (p + q) = n * p + n * q /\ n * (p - q) = n * p - n * q
  BY <1>1, <1>2
<1>4. x + y = (k + l) + n * (p + q) /\ x - y = (k - l) + n * (p - q) /\ x + y = (k + y) + n * p
  BY <1>1, <1>2, <1>3
<1>5. ((k + l) + n * (p + q)) % n = (k + l) % n
  <2>1. k + l \in Int /\ p + q \in Int
    BY <1>1, <1>2
  <2> QED BY <2>1, AddTimes
<1>6. ((k - l) + n * (p - q)) % n = (k - l) % n
  <2>1. k - l \in Int /\ p - q \in Int
    BY <1>1, <1>2
  <2> QED BY <2>1, AddTimes
<1>7. ((k + y) + n * p) % n = (k + y) % n
  <2>1. k + y \in Int
    BY <1>1
  <2> QED BY <2>1, <1>1, AddTimes
<1> QED BY <1>4, <1>5, <1>6, <1>7 DEF k, l

\* The word of a longer one.
LEMMA ModMod ==
  ASSUME NEW n \in Nat \ {0}, NEW m \in Nat \ {0}, NEW x \in Int
  PROVE  (x % (n * m)) % n = x % n
<1> DEFINE k == n * m
           q == x \div k
           l == x % k
<1>1. k \in Nat \ {0}
  OBVIOUS
<1>2. q \in Int /\ l \in Int /\ x = l + k * q
  <2> HIDE DEF k
  <2> QED BY <1>1, Residue
<1> HIDE DEF q, l
<1>3. k * q = n * (m * q) /\ m * q \in Int
  BY <1>2
<1>4. (l + n * (m * q)) % n = l % n
  BY <1>2, <1>3, AddTimes
<1> QED BY <1>2, <1>3, <1>4 DEF l

LEMMA Whole == ASSUME NEW w \in Nat, NEW x \in Word(w) PROVE x % 2^w = x /\ x \in Nat
<1>1. 2^w \in Nat \ {0}
  BY PowerPositive
<1>2. x \in 0..(2^w - 1)
  BY DEF Word
<1>3. \A n \in Nat \ {0} : \A y \in 0..(n - 1) : y % n = y
  OBVIOUS
<1> QED BY <1>1, <1>2, <1>3

LEMMA Grows == ASSUME NEW n \in Nat PROVE n < 2^n
<1> DEFINE T == {k \in 0..n : ~(k < 2^k)}
<1>1. SUFFICES ASSUME T # {} PROVE FALSE
  <2>1. n \in 0..n
    OBVIOUS
  <2> QED BY <2>1
<1>2. PICK k \in T : k = 0 \/ (k - 1 \in 0..n /\ k - 1 \notin T)
  <2>1. T \in SUBSET (0..n) /\ n \in Nat
    OBVIOUS
  <2> HIDE DEF T
  <2> QED BY <1>1, <2>1, LeastMissed
<1>3. CASE k = 0
  <2>1. 2^0 = 1
    OBVIOUS
  <2> QED BY <1>2, <1>3, <2>1
<1>4. CASE k # 0
  <2> DEFINE j == k - 1
  <2>1. j \in Nat /\ k = j + 1 /\ j < 2^j
    BY <1>2, <1>4
  <2>2. 2^j \in Nat /\ 2^(j + 1) = 2 * 2^j
    BY <2>1, PowersOfTwo DEF Doubles
  <2>3. k < 2^k
    <3> HIDE DEF j
    <3> QED BY <2>1, <2>2
  <2> QED BY <1>2, <2>3
<1> QED BY <1>3, <1>4

--------------------------------------------------------------------------------
(***************************************************************************)
(* Words are their bits.                                                   *)
(***************************************************************************)
LEMMA BitStep ==
  ASSUME NEW x \in Nat, NEW m \in Nat
  PROVE  x % 2^(m + 1) = (x % 2^m) + 2^m * BitOf(x, m) /\ BitOf(x, m) \in 0..1
<1> DEFINE p == 2^m
           q == x \div p
           l == x % p
           b == q % 2
           h == q \div 2
<1>1. p \in Nat \ {0} /\ 2^(m + 1) = 2 * p
  BY PowersOfTwo DEF Doubles
<1>2. q \in Int /\ l \in 0..(p - 1) /\ x = l + p * q
  <2> HIDE DEF p
  <2> QED BY <1>1, Residue
<1>3. b \in 0..1 /\ h \in Int /\ q = b + 2 * h
  <2> HIDE DEF q
  <2> QED BY <1>2
<1>4. BitOf(x, m) = b
  BY DEF BitOf, LSHR
<1> HIDE DEF p, q, l, b, h
<1>5. p * q = p * b + (2 * p) * h
  BY <1>1, <1>3
<1>6. l + p * b \in 0..(2 * p - 1)
  <2>1. b = 0 \/ b = 1
    BY <1>3
  <2> QED BY <1>1, <1>2, <2>1
<1>7. 2 * p \in Nat \ {0} /\ p * b \in Int /\ (2 * p) * h \in Int
  BY <1>1, <1>3
<1>8. x = (l + p * b) + (2 * p) * h
  BY <1>2, <1>5, <1>6, <1>7
<1>9. ((l + p * b) + (2 * p) * h) % (2 * p) = l + p * b
  BY <1>3, <1>6, <1>7, ResidueUnique
<1> QED BY <1>1, <1>3, <1>4, <1>8, <1>9 DEF p, l

LEMMA SameBits ==
  ASSUME NEW w \in Nat, NEW x \in Word(w), NEW y \in Word(w),
         \A k \in 0..(w - 1) : BitOf(x, k) = BitOf(y, k)
  PROVE  x = y
<1> DEFINE T == {k \in 0..w : x % 2^k # y % 2^k}
<1>1. SUFFICES ASSUME T # {} PROVE FALSE
  <2>1. w \in 0..w
    OBVIOUS
  <2>2. x % 2^w = y % 2^w
    BY <2>1
  <2> QED BY <2>2, Whole
<1>2. PICK k \in T : k = 0 \/ (k - 1 \in 0..w /\ k - 1 \notin T)
  <2>1. T \in SUBSET (0..w) /\ w \in Nat
    OBVIOUS
  <2> HIDE DEF T
  <2> QED BY <1>1, <2>1, LeastMissed
<1>3. x \in Nat /\ y \in Nat
  BY Whole
<1>4. CASE k = 0
  <2>1. 2^0 = 1 /\ x % 1 = 0 /\ y % 1 = 0
    BY <1>3
  <2> QED BY <1>2, <1>4, <2>1
<1>5. CASE k # 0
  <2> DEFINE j == k - 1
  <2>1. j \in Nat /\ k = j + 1 /\ j \in 0..(w - 1) /\ x % 2^j = y % 2^j
    BY <1>2, <1>5
  <2> HIDE DEF j
  <2>2. BitOf(x, j) = BitOf(y, j)
    BY <2>1
  <2>3. x % 2^(j + 1) = (x % 2^j) + 2^j * BitOf(x, j)
    BY <1>3, <2>1, BitStep
  <2>4. y % 2^(j + 1) = (y % 2^j) + 2^j * BitOf(y, j)
    BY <1>3, <2>1, BitStep
  <2>5. x % 2^k = y % 2^k
    BY <2>1, <2>2, <2>3, <2>4
  <2> QED BY <1>2, <2>5
<1> QED BY <1>4, <1>5

\* The bit above a multiple.
LEMMA BitAt ==
  ASSUME NEW k \in Nat, NEW low \in 0..(2^k - 1), NEW b \in 0..1, NEW h \in Int
  PROVE  BitOf(low + 2^k * (b + 2 * h), k) = b
<1> DEFINE p == 2^k
           q == b + 2 * h
<1>1. p \in Nat \ {0} /\ q \in Int /\ q % 2 = b
  BY PowerPositive
<1>2. (low + p * q) \div p = q
  <2> HIDE DEF p, q
  <2> QED BY <1>1, ResidueUnique DEF p
<1> QED BY <1>1, <1>2 DEF BitOf, LSHR

LEMMA HighBit ==
  ASSUME NEW k \in Nat, NEW x \in 0..(2^k - 1)
  PROVE  BitOf(x, k) = 0
<1> DEFINE none == 0
<1>1. none \in 0..1 /\ none \in Int
  OBVIOUS
<1>2. x = x + 2^k * (none + 2 * none)
  BY PowerPositive
<1> HIDE DEF none
<1>3. BitOf(x + 2^k * (none + 2 * none), k) = none
  BY <1>1, BitAt
<1> QED BY <1>2, <1>3 DEF none

LEMMA LowBits ==
  ASSUME NEW w \in Nat, NEW x \in Nat, NEW k \in 0..(w - 1)
  PROVE  BitOf(x % 2^w, k) = BitOf(x, k)
<1> DEFINE p == 2^k
           y == x % 2^w
           q == x \div 2^w
<1>1. PICK j \in Nat : 2^w = p * (2 * j)
  BY PowerFactor
<1>2. p \in Nat \ {0} /\ 2^w \in Nat \ {0}
  BY PowerPositive
<1>3. y \in Nat /\ q \in Int /\ x = y + 2^w * q
  <2> DEFINE n == 2^w
  <2>1. n \in Nat \ {0} /\ x \in Int
    BY <1>2
  <2> HIDE DEF n
  <2>2. x % n \in 0..(n - 1) /\ x \div n \in Int /\ x = (x % n) + n * (x \div n)
    BY <2>1, Residue
  <2> QED BY <2>1, <2>2 DEF n
<1> HIDE DEF y, q
<1>4. 2^w * q = p * (2 * (j * q)) /\ j * q \in Int /\ 2 * (j * q) \in Int
  <2> HIDE DEF p
  <2>1. (p * (2 * j)) * q = p * (2 * (j * q))
    BY <1>2, <1>3
  <2> QED BY <1>1, <1>3, <2>1
<1>5. x = y + p * (2 * (j * q))
  BY <1>3, <1>4
<1>6. (y + p * (2 * (j * q))) \div p = (y \div p) + 2 * (j * q)
  <2> DEFINE c == 2 * (j * q)
  <2>1. c \in Int /\ y \in Int
    BY <1>3, <1>4
  <2> HIDE DEF p, c
  <2>2. (y + p * c) \div p = (y \div p) + c
    BY <1>2, <2>1, AddTimes
  <2> QED BY <2>2 DEF c
<1>7. ((y \div p) + 2 * (j * q)) % 2 = (y \div p) % 2
  <2> DEFINE v == y \div p
             c == j * q
  <2>1. v \in Int /\ c \in Int
    <3> HIDE DEF p
    <3> QED BY <1>2, <1>3, <1>4, Residue
  <2> HIDE DEF v, c
  <2>2. (v + 2 * c) % 2 = v % 2
    BY <2>1
  <2> QED BY <2>2 DEF v, c
<1> QED BY <1>5, <1>6, <1>7 DEF BitOf, LSHR, y

\* Complement.
LEMMA ComBits ==
  ASSUME NEW w \in Nat, NEW y \in Word(w), NEW k \in 0..(w - 1)
  PROVE  COM(w, y) \in Word(w) /\ BitOf(COM(w, y), k) = 1 - BitOf(y, k)
<1> DEFINE p == 2^k
           q == y \div p
           l == y % p
           b == q % 2
           h == q \div 2
<1>1. PICK j \in Nat : 2^w = p * (2 * j)
  BY PowerFactor
<1>2. p \in Nat \ {0} /\ 2^w \in Nat \ {0} /\ y \in 0..(2^w - 1)
  BY PowerPositive DEF Word
<1>3. q \in Int /\ l \in 0..(p - 1) /\ y = l + p * q
  <2> HIDE DEF p
  <2> QED BY <1>2, Residue
<1>4. b \in 0..1 /\ h \in Int /\ q = b + 2 * h
  <2> HIDE DEF q
  <2> QED BY <1>3
<1>5. BitOf(y, k) = b
  BY DEF BitOf, LSHR
<1> HIDE DEF q, l, b, h
<1>6. 2^w - 1 - y = (p - 1 - l) + p * ((1 - b) + 2 * (j - 1 - h))
  <2> HIDE DEF p
  <2>1. p * ((1 - b) + 2 * (j - 1 - h)) = p * (2 * j) - p * 1 - p * (b + 2 * h)
    BY <1>2, <1>4
  <2>2. p * (2 * j) \in Int /\ p * q \in Int
    BY <1>2, <1>3
  <2> QED BY <1>1, <1>2, <1>3, <1>4, <2>1, <2>2
<1>7. BitOf((p - 1 - l) + p * ((1 - b) + 2 * (j - 1 - h)), k) = 1 - b
  <2> DEFINE u == p - 1 - l
             c == 1 - b
             i == j - 1 - h
  <2>1. u \in 0..(2^k - 1) /\ c \in 0..1 /\ i \in Int
    BY <1>2, <1>3, <1>4
  <2>2. k \in Nat
    OBVIOUS
  <2> HIDE DEF u, c, i
  <2>3. BitOf(u + 2^k * (c + 2 * i), k) = c
    BY <2>1, <2>2, BitAt, Zenon
  <2> QED BY <2>3 DEF u, c, i
<1>8. 2^w - 1 - y \in 0..(2^w - 1)
  BY <1>2
<1> QED BY <1>5, <1>6, <1>7, <1>8 DEF COM, Word

--------------------------------------------------------------------------------
(***************************************************************************)
(* Sign extension repeats the sign.                                        *)
(***************************************************************************)
LEMMA WordsDivide ==
  ASSUME NEW w \in Nat \ {0}, NEW m \in Nat, m >= w
  PROVE  \E d \in Nat \ {0} : 2^m = 2^w * d
<1>1. m - w \in Nat /\ m = w + (m - w) /\ w \in Nat
  OBVIOUS
<1>2. 2^(w + (m - w)) = 2^w * 2^(m - w) /\ 2^(m - w) \in Nat \ {0}
  BY <1>1, PowerSum, PowerPositive
<1> QED BY <1>1, <1>2

\* The first half of the words is not negative.
LEMMA Extended0 ==
  ASSUME NEW w \in Nat \ {0}, NEW m \in Nat, m >= w, NEW x \in Word(w), ~Negative(w, x)
  PROVE  SEXT(w, m, x) = x /\ x \in 0..(2^(w - 1) - 1) /\ x \in Word(m)
<1>1. PICK d \in Nat \ {0} : 2^m = 2^w * d
  BY WordsDivide
<1>2. 2^w \in Nat \ {0} /\ 2^(w - 1) \in Nat \ {0} /\ x \in 0..(2^w - 1)
  BY PowerPositive DEF Word
<1>3. 2^w * d >= 2^w
  BY <1>2
<1>4. x \in Word(m)
  BY <1>1, <1>2, <1>3 DEF Word
<1>5. x % 2^m = x
  BY <1>4, Whole
<1> QED BY <1>2, <1>4, <1>5 DEF SEXT, Signed, Negative

\* The other half is what is missing to zero.
LEMMA Extended1 ==
  ASSUME NEW w \in Nat \ {0}, NEW m \in Nat, m >= w, NEW x \in Word(w), Negative(w, x)
  PROVE  /\ 2^w - x \in 1..2^(w - 1)
         /\ SEXT(w, m, x) = 2^m - (2^w - x)
         /\ SEXT(w, m, x) \in Word(m)
<1>1. PICK d \in Nat \ {0} : 2^m = 2^w * d
  BY WordsDivide
<1>2. 2^w \in Nat \ {0} /\ x \in 0..(2^w - 1)
  BY PowerPositive DEF Word
<1>3. w - 1 \in Nat /\ w = (w - 1) + 1
  OBVIOUS
<1>4. 2^(w - 1) \in Nat \ {0} /\ 2^w = 2 * 2^(w - 1)
  BY <1>3, PowersOfTwo DEF Doubles
<1>5. 2^w - x \in 1..2^(w - 1)
  BY <1>2, <1>4 DEF Negative
<1>6. 2^w * d >= 2^w /\ 2^m \in Nat \ {0}
  BY <1>2, PowerPositive
<1> DEFINE p == 2^m
           l == p - (2^w - x)
           q == -1
<1>7. l \in 0..(p - 1) /\ q \in Int
  BY <1>1, <1>2, <1>4, <1>5, <1>6
<1>8. x - 2^w = l + p * q
  BY <1>2, <1>6
<1>9. (l + p * q) % p = l
  <2> HIDE DEF l, p, q
  <2> QED BY <1>6, <1>7, ResidueUnique DEF p
<1> QED BY <1>5, <1>7, <1>8, <1>9 DEF SEXT, Signed, Negative, Word

LEMMA ExtendedTyped ==
  ASSUME NEW w \in Nat \ {0}, NEW m \in Nat, m >= w, NEW x \in Word(w)
  PROVE  SEXT(w, m, x) \in Word(m)
BY Extended0, Extended1

\* The lower word is the one that was extended.
LEMMA Truncated ==
  ASSUME NEW w \in Nat \ {0}, NEW m \in Nat, m >= w, NEW x \in Word(w)
  PROVE  SEXT(w, m, x) % 2^w = x
<1>1. PICK d \in Nat \ {0} : 2^m = 2^w * d
  BY WordsDivide
<1>2. 2^w \in Nat \ {0} /\ x \in Int /\ x % 2^w = x
  BY PowerPositive, Whole
<1> DEFINE p == 2^w
           s == Signed(w, x)
           q == -1
<1>3. s \in Int /\ s % p = x
  <2>1. CASE ~Negative(w, x)
    BY <1>2, <2>1 DEF Signed
  <2>2. CASE Negative(w, x)
    <3>1. s = x + p * q /\ q \in Int /\ s \in Int
      BY <1>2, <2>2 DEF Signed
    <3>2. (x + p * q) % p = x % p
      <4> HIDE DEF q, s, p
      <4> QED BY <1>2, <3>1, AddTimes DEF p
    <3> QED BY <1>2, <3>1, <3>2
  <2> QED BY <2>1, <2>2
<1>4. (s % (p * d)) % p = s % p
  <2> HIDE DEF s, p
  <2> QED BY <1>2, <1>3, ModMod DEF p
<1> QED BY <1>1, <1>3, <1>4 DEF SEXT

Place(w, k) == IF k < w THEN k ELSE w - 1

LEMMA ExtendedBits ==
  ASSUME NEW w \in Nat \ {0}, NEW m \in Nat, m >= w, NEW x \in Word(w), NEW k \in 0..(m - 1)
  PROVE  BitOf(SEXT(w, m, x), k) = BitOf(x, Place(w, k))
<1>1. 2^k \in Nat \ {0} /\ w - 1 \in Nat /\ x \in 0..(2^w - 1)
  BY PowerPositive DEF Word
<1>2. CASE ~Negative(w, x)
  <2>1. SEXT(w, m, x) = x /\ x \in 0..(2^(w - 1) - 1)
    BY <1>2, Extended0
  <2>2. CASE k < w
    BY <2>1, <2>2 DEF Place
  <2>3. CASE k >= w
    <3>1. PICK d \in Nat \ {0} : 2^k = 2^(w - 1) * d
      <4>1. w - 1 = 0 \/ w - 1 \in Nat \ {0}
        OBVIOUS
      <4>2. CASE w - 1 = 0
        <5>1. 2^(w - 1) = 1
          BY <4>2
        <5> QED BY <1>1, <5>1
      <4>3. CASE w - 1 \in Nat \ {0}
        BY <2>3, <4>3, WordsDivide
      <4> QED BY <4>1, <4>2, <4>3
    <3>2. 2^(w - 1) \in Nat \ {0}
      BY <1>1, PowerPositive
    <3>3. x \in 0..(2^k - 1)
      <4>1. 2^(w - 1) * d >= 2^(w - 1)
        BY <3>2
      <4> QED BY <2>1, <3>1, <3>2, <4>1
    <3>4. BitOf(x, k) = 0 /\ BitOf(x, w - 1) = 0
      BY <1>1, <2>1, <3>3, HighBit
    <3> QED BY <2>1, <2>3, <3>4 DEF Place
  <2> QED BY <2>2, <2>3
<1>3. CASE Negative(w, x)
  <2> DEFINE y == 2^w - x
             e == 2^m - y
  <2>1. y \in 1..2^(w - 1) /\ SEXT(w, m, x) = e /\ e \in Word(m)
    BY <1>3, Extended1
  <2>2. CASE k < w
    <3>1. SEXT(w, m, x) % 2^w = x
      BY Truncated
    <3>2. e \in Nat
      BY <2>1, Whole
    <3>3. BitOf(e % 2^w, k) = BitOf(e, k)
      <4> HIDE DEF e
      <4> QED BY <2>2, <3>2, LowBits
    <3> QED BY <2>1, <2>2, <3>1, <3>3 DEF Place
  <2>3. CASE k >= w
    <3>1. PICK j \in Nat : 2^m = 2^k * (2 * j)
      BY PowerFactor
    <3>2. PICK d \in Nat \ {0} : 2^k = 2^w * d
      BY <2>3, WordsDivide
    <3>3. 2^w \in Nat \ {0} /\ 2^w = 2 * 2^(w - 1) /\ 2^(w - 1) \in Nat \ {0}
      <4>1. w = (w - 1) + 1
        OBVIOUS
      <4> QED BY <1>1, <4>1, PowersOfTwo DEF Doubles
    <3>4. 2^w * d >= 2^w
      BY <3>3
    <3> DEFINE p == 2^k
               l == p - y
               i == j - 1
               one == 1
    <3>5. l \in 0..(p - 1) /\ one \in 0..1 /\ i \in Int
      BY <2>1, <3>2, <3>3, <3>4, <1>1
    <3>6. e = l + p * (one + 2 * i)
      <4>1. p * (one + 2 * i) = p * (2 * j) - p /\ p * (2 * j) \in Int
        BY <1>1
      <4> QED BY <1>1, <2>1, <3>1, <3>3, <4>1
    <3>7. BitOf(l + p * (one + 2 * i), k) = one
      <4>1. k \in Nat
        OBVIOUS
      <4> HIDE DEF l, i, one, e, y
      <4> QED BY <3>5, <4>1, BitAt, Zenon
    <3>8. BitOf(x, w - 1) = 1
      <4> DEFINE n == 2^(w - 1)
                 u == x - n
                 z == 0
      <4>1. u \in 0..(n - 1) /\ z \in Int /\ x = u + n * (one + 2 * z)
        BY <1>1, <1>3, <3>3 DEF Negative
      <4>2. BitOf(u + n * (one + 2 * z), w - 1) = one
        <5> HIDE DEF u, z, one
        <5> QED BY <1>1, <3>5, <4>1, BitAt
      <4> QED BY <4>1, <4>2
    <3> QED BY <2>1, <2>3, <3>6, <3>7, <3>8 DEF Place
  <2> QED BY <2>2, <2>3
<1> QED BY <1>2, <1>3

--------------------------------------------------------------------------------
(***************************************************************************)
(* Bitwise operations of words are those of their extensions.              *)
(***************************************************************************)
LEMMA BitTyped == ASSUME NEW x \in Nat, NEW k \in Nat PROVE BitOf(x, k) \in 0..1
BY BitStep

LEMMA LogicBits ==
  ASSUME NEW w \in Nat, NEW a \in Nat, NEW b \in Nat, NEW k \in 0..(w - 1)
  PROVE  /\ BitOf(AND(w, a, b), k) = BitOf(a, k) * BitOf(b, k)
         /\ BitOf(OR(w, a, b), k) = Bit(1 \in {BitOf(a, k), BitOf(b, k)})
         /\ BitOf(XOR(w, a, b), k) = Bit(BitOf(a, k) # BitOf(b, k))
<1> DEFINE both == [n \in 0..(w - 1) |-> BitOf(a, n) * BitOf(b, n)]
           any == [n \in 0..(w - 1) |-> Bit(1 \in {BitOf(a, n), BitOf(b, n)})]
           one == [n \in 0..(w - 1) |-> Bit(BitOf(a, n) # BitOf(b, n))]
<1>1. both \in Bits(w)
  <2>1. ASSUME NEW n \in 0..(w - 1) PROVE BitOf(a, n) * BitOf(b, n) \in 0..1
    <3>1. BitOf(a, n) \in 0..1 /\ BitOf(b, n) \in 0..1
      BY BitTyped
    <3>2. \A x, y \in 0..1 : x * y \in 0..1
      OBVIOUS
    <3> QED BY <3>1, <3>2
  <2> QED BY <2>1 DEF Bits
<1>2. any \in Bits(w) /\ one \in Bits(w)
  BY DEF Bits, Bit
<1> HIDE DEF both, any, one
<1>3. BitOf(OfBits(w, both), k) = both[k] /\ BitOf(OfBits(w, any), k) = any[k]
      /\ BitOf(OfBits(w, one), k) = one[k]
  BY <1>1, <1>2, OfBitsHas
<1> QED BY <1>3 DEF AND, OR, XOR, both, any, one

LEMMA LogicExtended ==
  ASSUME NEW w \in Nat \ {0}, NEW m \in Nat, m >= w, NEW x \in Word(w), NEW y \in Word(w)
  PROVE  /\ AND(m, SEXT(w, m, x), SEXT(w, m, y)) = SEXT(w, m, AND(w, x, y))
         /\ OR(m, SEXT(w, m, x), SEXT(w, m, y)) = SEXT(w, m, OR(w, x, y))
         /\ XOR(m, SEXT(w, m, x), SEXT(w, m, y)) = SEXT(w, m, XOR(w, x, y))
<1> DEFINE X == SEXT(w, m, x)
           Y == SEXT(w, m, y)
<1>1. X \in Word(m) /\ Y \in Word(m)
  BY ExtendedTyped
<1>2. X \in Nat /\ Y \in Nat /\ x \in Nat /\ y \in Nat /\ w \in Nat
  BY <1>1, Whole
<1>3. AND(w, x, y) \in Word(w) /\ OR(w, x, y) \in Word(w) /\ XOR(w, x, y) \in Word(w)
  BY <1>2, LogicTyped
<1>4. AND(m, X, Y) \in Word(m) /\ OR(m, X, Y) \in Word(m) /\ XOR(m, X, Y) \in Word(m)
  BY <1>2, LogicTyped
<1>5. SEXT(w, m, AND(w, x, y)) \in Word(m) /\ SEXT(w, m, OR(w, x, y)) \in Word(m)
      /\ SEXT(w, m, XOR(w, x, y)) \in Word(m)
  BY <1>3, ExtendedTyped
<1>6. ASSUME NEW k \in 0..(m - 1)
      PROVE  /\ BitOf(AND(m, X, Y), k) = BitOf(SEXT(w, m, AND(w, x, y)), k)
             /\ BitOf(OR(m, X, Y), k) = BitOf(SEXT(w, m, OR(w, x, y)), k)
             /\ BitOf(XOR(m, X, Y), k) = BitOf(SEXT(w, m, XOR(w, x, y)), k)
  <2> DEFINE j == Place(w, k)
  <2>1. j \in 0..(w - 1)
    BY DEF Place
  <2>2. BitOf(X, k) = BitOf(x, j) /\ BitOf(Y, k) = BitOf(y, j)
    BY ExtendedBits
  <2> HIDE DEF X, Y
  <2>3. /\ BitOf(SEXT(w, m, AND(w, x, y)), k) = BitOf(AND(w, x, y), j)
        /\ BitOf(SEXT(w, m, OR(w, x, y)), k) = BitOf(OR(w, x, y), j)
        /\ BitOf(SEXT(w, m, XOR(w, x, y)), k) = BitOf(XOR(w, x, y), j)
    BY <1>3, ExtendedBits
  <2> HIDE DEF j
  <2>4. /\ BitOf(AND(w, x, y), j) = BitOf(x, j) * BitOf(y, j)
        /\ BitOf(OR(w, x, y), j) = Bit(1 \in {BitOf(x, j), BitOf(y, j)})
        /\ BitOf(XOR(w, x, y), j) = Bit(BitOf(x, j) # BitOf(y, j))
    BY <1>2, <2>1, LogicBits
  <2>5. /\ BitOf(AND(m, X, Y), k) = BitOf(X, k) * BitOf(Y, k)
        /\ BitOf(OR(m, X, Y), k) = Bit(1 \in {BitOf(X, k), BitOf(Y, k)})
        /\ BitOf(XOR(m, X, Y), k) = Bit(BitOf(X, k) # BitOf(Y, k))
    BY <1>2, LogicBits
  <2> QED BY <2>2, <2>3, <2>4, <2>5
<1> HIDE DEF X, Y
<1>7. AND(m, X, Y) = SEXT(w, m, AND(w, x, y))
  BY <1>4, <1>5, <1>6, SameBits
<1>8. OR(m, X, Y) = SEXT(w, m, OR(w, x, y))
  BY <1>4, <1>5, <1>6, SameBits
<1>9. XOR(m, X, Y) = SEXT(w, m, XOR(w, x, y))
  BY <1>4, <1>5, <1>6, SameBits
<1> QED BY <1>7, <1>8, <1>9 DEF X, Y

\* An exclusive or with ones is the complement, of a word and of its extension.
LEMMA OnesFlip ==
  ASSUME NEW w \in Nat, NEW x \in Word(w)
  PROVE  XOR(w, x, 2^w - 1) = COM(w, x)
<1> DEFINE ones == 2^w - 1
           none == 0
<1>1. 2^w \in Nat \ {0} /\ x \in Nat
  BY PowerPositive, Whole
<1>2. none \in Word(w) /\ ones = COM(w, none) /\ ones \in Nat
  BY <1>1 DEF COM, Word
<1>3. ASSUME NEW k \in 0..(w - 1) PROVE BitOf(ones, k) = 1
  <2>1. BitOf(none, k) = 0
    BY PowerPositive, HighBit
  <2> HIDE DEF ones, none
  <2>2. BitOf(ones, k) = 1 - BitOf(none, k)
    BY <1>2, ComBits
  <2> QED BY <2>1, <2>2
<1> HIDE DEF ones
<1>4. XOR(w, x, ones) \in Word(w)
  BY <1>1, <1>2, LogicTyped
<1>6. ASSUME NEW k \in 0..(w - 1)
      PROVE  COM(w, x) \in Word(w) /\ BitOf(XOR(w, x, ones), k) = BitOf(COM(w, x), k)
  <2>1. BitOf(XOR(w, x, ones), k) = Bit(BitOf(x, k) # 1)
    BY <1>1, <1>2, <1>3, LogicBits
  <2>2. COM(w, x) \in Word(w) /\ BitOf(COM(w, x), k) = 1 - BitOf(x, k)
    BY ComBits
  <2>3. BitOf(x, k) \in 0..1
    BY <1>1, BitTyped
  <2> QED BY <2>1, <2>2, <2>3 DEF Bit
<1>7. COM(w, x) \in Word(w)
  BY <1>1 DEF COM, Word
<1> QED BY <1>4, <1>6, <1>7, SameBits DEF ones

LEMMA ComExtended ==
  ASSUME NEW w \in Nat \ {0}, NEW m \in Nat, m >= w, NEW x \in Word(w)
  PROVE  COM(m, SEXT(w, m, x)) = SEXT(w, m, COM(w, x))
<1> DEFINE X == SEXT(w, m, x)
<1>1. X \in Word(m) /\ w \in Nat
  BY ExtendedTyped
<1>2. ASSUME NEW n \in Nat, NEW z \in Word(n) PROVE COM(n, z) \in Word(n)
  BY <1>2, PowerPositive DEF COM, Word
<1>3. COM(w, x) \in Word(w)
  BY <1>1, <1>2
<1>4. COM(m, X) \in Word(m)
  BY <1>1, <1>2
<1>5. SEXT(w, m, COM(w, x)) \in Word(m)
  BY <1>3, ExtendedTyped
<1>6. ASSUME NEW k \in 0..(m - 1)
      PROVE  BitOf(COM(m, X), k) = BitOf(SEXT(w, m, COM(w, x)), k)
  <2> DEFINE j == Place(w, k)
  <2>1. j \in 0..(w - 1)
    BY DEF Place
  <2>2. BitOf(X, k) = BitOf(x, j)
    BY ExtendedBits
  <2>3. BitOf(SEXT(w, m, COM(w, x)), k) = BitOf(COM(w, x), j)
    BY <1>3, ExtendedBits
  <2> HIDE DEF j, X
  <2>4. BitOf(COM(w, x), j) = 1 - BitOf(x, j)
    BY <1>1, <2>1, ComBits
  <2>5. BitOf(COM(m, X), k) = 1 - BitOf(X, k)
    BY <1>1, ComBits
  <2> QED BY <2>2, <2>3, <2>4, <2>5
<1> HIDE DEF X
<1> QED BY <1>4, <1>5, <1>6, SameBits DEF X

--------------------------------------------------------------------------------
(***************************************************************************)
(* Flags                                                                   *)
(***************************************************************************)
InWidth(w, layout) ==
    /\ \A f \in DOMAIN layout : layout[f] \in 0..(w - 1)
    /\ \A f, g \in DOMAIN layout : layout[f] = layout[g] => f = g

LEMMA FlagsDecoded ==
  ASSUME NEW w \in Nat, NEW layout, InWidth(w, layout), NEW psr \in Nat
  PROVE  arch_flags_decode(layout, psr) \in [DOMAIN layout -> 0..1]
<1> SUFFICES ASSUME NEW f \in DOMAIN layout PROVE BitOf(psr, layout[f]) \in 0..1
  BY DEF arch_flags_decode
<1>1. layout[f] \in Nat
  BY DEF InWidth
<1>2. 2^layout[f] \in Nat \ {0}
  BY <1>1, PowerPositive
<1> QED BY <1>2 DEF BitOf, LSHR

\* Flags that have bits of their own survive the PSR (arch_flags_encode(),
\* arch_flags_decode()).
THEOREM FlagsKept ==
  ASSUME NEW w \in Nat, NEW layout, InWidth(w, layout),
         NEW flags \in [DOMAIN layout -> 0..1]
  PROVE  /\ arch_flags_encode(w, layout, flags) \in Word(w)
         /\ arch_flags_decode(layout, arch_flags_encode(w, layout, flags)) = flags
<1> DEFINE bit == [k \in 0..(w - 1) |->
                      Bit(\E f \in DOMAIN layout : layout[f] = k /\ flags[f] = 1)]
           psr == OfBits(w, bit)
<1>1. bit \in Bits(w)
  BY DEF Bits, Bit
<1>2. psr \in Word(w) /\ \A k \in 0..(w - 1) : BitOf(psr, k) = bit[k]
  <2> HIDE DEF bit
  <2> QED BY <1>1, OfBitsHas
<1>3. ASSUME NEW f \in DOMAIN layout PROVE BitOf(psr, layout[f]) = flags[f]
  <2>1. layout[f] \in 0..(w - 1)
    BY DEF InWidth
  <2>2. bit[layout[f]] = flags[f]
    <3>1. \A g \in DOMAIN layout : layout[g] = layout[f] => g = f
      BY DEF InWidth
    <3>2. flags[f] \in 0..1
      OBVIOUS
    <3> QED BY <2>1, <3>1, <3>2 DEF Bit
  <2> HIDE DEF psr, bit
  <2> QED BY <1>2, <2>1, <2>2
<1>4. arch_flags_decode(layout, psr) = flags
  <2> HIDE DEF psr
  <2> QED BY <1>3 DEF arch_flags_decode
<1> QED BY <1>2, <1>4 DEF arch_flags_encode

--------------------------------------------------------------------------------
(***************************************************************************)
(* The bits of what is shifted.                                            *)
(***************************************************************************)
LEMMA NoBit ==
  ASSUME NEW w \in Nat, NEW x \in Word(w), NEW k \in Nat, k >= w
  PROVE  BitOf(x, k) = 0
<1> DEFINE p == 2^w
           q == 2^(k - w)
<1>1. k - w \in Nat /\ w + (k - w) = k
  OBVIOUS
<1>2. p \in Nat \ {0} /\ q \in Nat \ {0}
  BY <1>1, PowerPositive
<1>3. 2^k = p * q
  BY <1>1, PowerSum
<1> HIDE DEF p, q
<1>4. p * q >= p
  <2>1. p * q = p + p * (q - 1) /\ p * (q - 1) >= 0
    BY <1>2
  <2> QED BY <1>2, <2>1
<1>5. x \in 0..(2^k - 1)
  BY <1>2, <1>3, <1>4 DEF Word, p
<1> QED BY <1>5, HighBit

LEMMA ShiftedRight ==
  ASSUME NEW v \in Nat, NEW o \in Nat, NEW k \in Nat
  PROVE  LSHR(v, o) \in Nat /\ BitOf(LSHR(v, o), k) = BitOf(v, k + o)
<1> DEFINE p == 2^o
           q == 2^k
           d == v \div p
           l == v % p
           e == d \div q
           m == d % q
<1>1. p \in Nat \ {0} /\ q \in Nat \ {0} /\ 2^(k + o) = q * p
  BY PowerPositive, PowerSum
<1>2. d \in Nat /\ l \in 0..(p - 1) /\ v = l + p * d
  <2> HIDE DEF p
  <2>1. d \in Int /\ l \in 0..(p - 1) /\ v = l + p * d
    BY <1>1, Residue
  <2>2. ASSUME d < 0 PROVE FALSE
    <3> HIDE DEF d, l
    <3>1. p * d <= -p
      BY <1>1, <2>1, <2>2
    <3> QED BY <1>1, <2>1, <3>1
  <2> QED BY <2>1, <2>2
<1>3. e \in Int /\ m \in 0..(q - 1) /\ d = m + q * e
  <2> HIDE DEF d, q
  <2> QED BY <1>1, <1>2, Residue
<1> HIDE DEF d, l, e, m
<1>4. v = (l + p * m) + (q * p) * e /\ l + p * m \in 0..(q * p - 1)
  <2> HIDE DEF p, q
  <2>1. p * d = p * m + p * (q * e) /\ p * (q * e) = (q * p) * e
    BY <1>1, <1>2, <1>3
  <2>2. p * m <= p * (q - 1) /\ p * (q - 1) = q * p - p /\ p * m \in Nat /\ q * p \in Nat
    BY <1>1, <1>3
  <2>3. p * m \in Int /\ (q * p) * e \in Int
    BY <1>1, <1>3
  <2> DEFINE u == p * m
             n == q * p
             t == n * e
  <2>4. u \in Nat /\ n \in Nat /\ u <= n - p /\ t \in Int
    BY <2>2, <2>3
  <2>5. v = l + (u + t)
    BY <1>2, <2>1
  <2> HIDE DEF u, n, t
  <2>6. v = (l + u) + t /\ l + u \in 0..(n - 1)
    BY <1>1, <1>2, <2>4, <2>5
  <2> QED BY <2>6 DEF u, n, t
<1>5. v \div (q * p) = e
  <2> DEFINE n == q * p
             a == l + p * m
  <2>1. n \in Nat \ {0} /\ a \in 0..(n - 1) /\ v = a + n * e
    BY <1>1, <1>4
  <2> HIDE DEF n, a
  <2>2. (a + n * e) \div n = e
    BY <1>3, <2>1, ResidueUnique
  <2> QED BY <2>1, <2>2 DEF n
<1>6. BitOf(LSHR(v, o), k) = e % 2
  BY DEF BitOf, LSHR, d, e
<1>7. BitOf(v, k + o) = e % 2
  BY <1>1, <1>5 DEF BitOf, LSHR
<1>8. LSHR(v, o) = d
  BY DEF LSHR, d
<1> QED BY <1>2, <1>6, <1>7, <1>8

LEMMA ShiftedLeft ==
  ASSUME NEW w \in Nat, NEW v \in Nat, NEW n \in Nat
  PROVE  /\ SHL(w, v, n) \in Word(w)
         /\ \A k \in 0..(w - 1) : BitOf(SHL(w, v, n), k) = IF k < n THEN 0 ELSE BitOf(v, k - n)
<1> DEFINE p == 2^n
           x == v * p
<1>1. p \in Nat \ {0} /\ x \in Nat /\ 2^w \in Nat \ {0}
  BY PowerPositive
<1>2. SHL(w, v, n) = x % 2^w
  BY DEF SHL
<1>3. x % 2^w \in 0..(2^w - 1)
  <2> HIDE DEF x
  <2> DEFINE q == 2^w
  <2> HIDE DEF q
  <2>1. q \in Nat \ {0}
    BY <1>1 DEF q
  <2>2. x % q \in 0..(q - 1)
    BY <1>1, <2>1, Residue
  <2> QED BY <2>2 DEF q
<1>4. ASSUME NEW k \in 0..(w - 1)
      PROVE  BitOf(x % 2^w, k) = IF k < n THEN 0 ELSE BitOf(v, k - n)
  <2>1. BitOf(x % 2^w, k) = BitOf(x, k)
    BY <1>1, LowBits
  <2>2. CASE k >= n
    <3>1. k - n \in Nat /\ (k - n) + n = k
      BY <2>2
    <3>2. LSHR(x, n) = v
      <4>1. (0 + p * v) \div p = v /\ v * p = 0 + p * v
        <5> HIDE DEF p
        <5>1. 0 \in 0..(p - 1) /\ v \in Int
          BY <1>1
        <5> DEFINE z == 0
        <5>2. z \in 0..(p - 1)
          BY <5>1
        <5> HIDE DEF z
        <5>3. (z + p * v) \div p = v
          BY <1>1, <5>1, <5>2, ResidueUnique
        <5> QED BY <1>1, <5>3 DEF z
      <4> QED BY <4>1 DEF LSHR
    <3> HIDE DEF x
    <3>3. BitOf(LSHR(x, n), k - n) = BitOf(x, (k - n) + n)
      BY <1>1, <3>1, ShiftedRight
    <3> QED BY <2>1, <2>2, <3>1, <3>2, <3>3
  <2>3. CASE k < n
    <3>1. PICK j \in Nat : 2^n = 2^k * (2 * j)
      <4>1. k \in 0..(n - 1)
        BY <2>3
      <4> QED BY <4>1, PowerFactor
    <3> DEFINE z == 0
               h == j * v
               m == 2^k
    <3>2. m \in Nat \ {0} /\ h \in Int /\ z \in 0..1 /\ z \in 0..(m - 1)
      BY PowerPositive
    <3>3. x = z + m * (z + 2 * h)
      <4> HIDE DEF m
      <4>1. v * (m * (2 * j)) = m * (2 * (j * v))
        BY <3>2
      <4>2. x = m * (2 * (j * v))
        BY <3>1, <4>1 DEF m
      <4>3. 0 + m * (0 + 2 * h) = m * (2 * (j * v))
        <5>1. 2 * h = 2 * (j * v) /\ 2 * h \in Int
          BY <3>2
        <5> HIDE DEF h
        <5> QED BY <3>2, <5>1
      <4> HIDE DEF x, h
      <4> QED BY <4>2, <4>3
    <3> HIDE DEF z, h, x
    <3>4. BitOf(z + 2^k * (z + 2 * h), k) = z
      <4>1. z \in 0..(2^k - 1) /\ k \in Nat
        BY <3>2
      <4> HIDE DEF m
      <4> QED BY <3>2, <4>1, BitAt, Zenon
    <3> QED BY <2>1, <2>3, <3>3, <3>4 DEF z
  <2> QED BY <2>2, <2>3
<1> QED BY <1>2, <1>3, <1>4 DEF Word

LEMMA OnesBits ==
  ASSUME NEW w \in Nat, NEW k \in Nat
  PROVE  /\ 2^w - 1 \in Word(w)
         /\ BitOf(2^w - 1, k) = IF k < w THEN 1 ELSE 0
<1>1. 2^w \in Nat \ {0} /\ 2^k \in Nat \ {0}
  BY PowerPositive
<1>2. 2^w - 1 \in Word(w)
  BY <1>1 DEF Word
<1>3. CASE k < w
  <2> DEFINE z == 0
  <2>1. z \in Word(w) /\ k \in 0..(w - 1) /\ z \in 0..(2^k - 1)
    BY <1>1, <1>3 DEF Word
  <2>2. COM(w, z) = 2^w - 1
    BY <1>1 DEF COM
  <2> HIDE DEF z
  <2>3. BitOf(COM(w, z), k) = 1 - BitOf(z, k) /\ BitOf(z, k) = 0
    BY <2>1, ComBits, HighBit
  <2> QED BY <1>2, <1>3, <2>2, <2>3
<1>4. CASE k >= w
  BY <1>2, <1>4, NoBit
<1> QED BY <1>3, <1>4

LEMMA ShiftedSigned ==
  ASSUME NEW w \in Nat \ {0}, NEW a \in Word(w), NEW o \in Nat
  PROVE  /\ ASHR(w, a, o) \in Word(w)
         /\ \A k \in 0..(w - 1) :
              BitOf(ASHR(w, a, o), k) = BitOf(a, IF k + o < w THEN k + o ELSE w - 1)
<1> DEFINE m == w + o
           p == 2^o
           q == 2^w
           s == Signed(w, a)
           x == SEXT(w, m, a)
           d == x \div p
<1>1. p \in Nat \ {0} /\ q \in Nat \ {0} /\ 2^m = q * p /\ m \in Nat /\ m >= w
  BY PowerPositive, PowerSum
<1>2. s \in Int
  <2>1. a \in Int
    BY DEF Word
  <2> QED BY <1>1, <2>1 DEF Signed
<1>3. x = s % (q * p)
  BY <1>1 DEF SEXT
<1>4. x \in Word(m) /\ x \in Nat
  BY <1>1, ExtendedTyped DEF Word
<1>5. ASHR(w, a, o) = (s \div p) % q
  BY DEF ASHR
<1> HIDE DEF m, p, q, s, x
<1> DEFINE n == q * p
           e == s \div n
<1>6. e \in Int /\ s = x + n * e /\ n \in Nat \ {0}
  <2>1. n \in Nat \ {0}
    BY <1>1
  <2> HIDE DEF n
  <2> QED BY <1>2, <1>3, <2>1, Residue DEF n
<1>7. s = x + p * (q * e) /\ q * e \in Int
  <2> HIDE DEF e
  <2>1. (q * p) * e = p * (q * e) /\ q * e \in Int
    BY <1>1, <1>6
  <2> QED BY <1>6, <2>1
<1> HIDE DEF n, e
<1>8. s \div p = d + q * e /\ d \in Int
  <2> DEFINE y == q * e
  <2> HIDE DEF y
  <2>1. y \in Int /\ s = x + p * y
    BY <1>7 DEF y
  <2>2. (x + p * y) \div p = (x \div p) + y /\ x \div p \in Int
    <3>1. x \in Int
      BY <1>4
    <3>2. x \div p \in Int
      BY <1>1, <3>1, Residue
    <3>3. (x + p * y) \div p = (x \div p) + y
      BY <1>1, <2>1, <3>1, AddTimes
    <3> QED BY <3>2, <3>3
  <2> QED BY <2>1, <2>2 DEF y
<1>9. ASHR(w, a, o) = d % q
  <2> HIDE DEF d
  <2>1. (d + q * e) % q = d % q
    BY <1>1, <1>6, <1>8, AddTimes
  <2> QED BY <1>5, <1>8, <2>1
<1>10. d = LSHR(x, o) /\ d \in Nat
  BY <1>4, ShiftedRight DEF LSHR, p
<1> HIDE DEF d
<1>11. ASHR(w, a, o) \in Word(w)
  BY <1>1, <1>8, <1>9, Residue DEF Word, q
<1>12. ASSUME NEW k \in 0..(w - 1)
       PROVE  BitOf(ASHR(w, a, o), k) = BitOf(a, IF k + o < w THEN k + o ELSE w - 1)
  <2>1. BitOf(d % 2^w, k) = BitOf(d, k)
    BY <1>10, LowBits
  <2>2. BitOf(d, k) = BitOf(x, k + o)
    BY <1>4, <1>10, ShiftedRight
  <2>3. k + o \in 0..(m - 1)
    BY DEF m
  <2>4. BitOf(x, k + o) = BitOf(a, Place(w, k + o))
    BY <1>1, <2>3, ExtendedBits DEF x
  <2>5. Place(w, k + o) = IF k + o < w THEN k + o ELSE w - 1
    BY DEF Place
  <2>6. ASHR(w, a, o) = d % 2^w
    BY <1>9 DEF q
  <2> QED BY <2>1, <2>2, <2>4, <2>5, <2>6
<1> QED BY <1>11, <1>12

LEMMA SmallPowers ==
    /\ 2^0 = 1 /\ 2^1 = 2 /\ 2^2 = 4 /\ 2^3 = 8 /\ 2^4 = 16 /\ 2^5 = 32 /\ 2^6 = 64 /\ 2^7 = 128
    /\ 2^8 = 256 /\ 2^9 = 512 /\ 2^10 = 1024 /\ 2^11 = 2048 /\ 2^12 = 4096 /\ 2^13 = 8192
    /\ 2^14 = 16384 /\ 2^15 = 32768 /\ 2^16 = 65536
<1>1. \A n \in Nat : 2^0 = 1 /\ 2^(n + 1) = 2 * 2^n
  BY PowersOfTwo DEF Doubles
<1> DEFINE p(n) == 2^n
<1>2. p(0) = 1 /\ \A n \in Nat : p(n + 1) = 2 * p(n)
  BY <1>1
<1> HIDE DEF p
<1>3. /\ p(1) = 2 * p(0) /\ p(2) = 2 * p(1) /\ p(3) = 2 * p(2) /\ p(4) = 2 * p(3)
      /\ p(5) = 2 * p(4) /\ p(6) = 2 * p(5) /\ p(7) = 2 * p(6) /\ p(8) = 2 * p(7)
  <2>1. /\ p(0 + 1) = 2 * p(0) /\ p(1 + 1) = 2 * p(1) /\ p(2 + 1) = 2 * p(2) /\ p(3 + 1) = 2 * p(3)
        /\ p(4 + 1) = 2 * p(4) /\ p(5 + 1) = 2 * p(5) /\ p(6 + 1) = 2 * p(6) /\ p(7 + 1) = 2 * p(7)
    BY <1>2
  <2> QED BY <2>1
<1>4. /\ p(9) = 2 * p(8) /\ p(10) = 2 * p(9) /\ p(11) = 2 * p(10) /\ p(12) = 2 * p(11)
      /\ p(13) = 2 * p(12) /\ p(14) = 2 * p(13) /\ p(15) = 2 * p(14) /\ p(16) = 2 * p(15)
  <2>1. /\ p(8 + 1) = 2 * p(8) /\ p(9 + 1) = 2 * p(9) /\ p(10 + 1) = 2 * p(10) /\ p(11 + 1) = 2 * p(11)
        /\ p(12 + 1) = 2 * p(12) /\ p(13 + 1) = 2 * p(13) /\ p(14 + 1) = 2 * p(14) /\ p(15 + 1) = 2 * p(15)
    BY <1>2
  <2> QED BY <2>1
<1>5. /\ p(0) = 1 /\ p(1) = 2 /\ p(2) = 4 /\ p(3) = 8 /\ p(4) = 16 /\ p(5) = 32 /\ p(6) = 64
      /\ p(7) = 128 /\ p(8) = 256 /\ p(9) = 512 /\ p(10) = 1024 /\ p(11) = 2048 /\ p(12) = 4096
      /\ p(13) = 8192 /\ p(14) = 16384 /\ p(15) = 32768 /\ p(16) = 65536
  BY <1>2, <1>3, <1>4
<1> QED BY <1>5 DEF p
================================================================================
