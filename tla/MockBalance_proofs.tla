--------------------------- MODULE MockBalance_proofs ---------------------------
(* MockBalance at every width, 32 bits included, for addresses of any      *)
(* length.                                                                 *)
EXTENDS MockBalance, TLAPS

LEMMA WrapType ==
  ASSUME NEW n \in Int
  PROVE  Wrap(n) \in -Half..(Half - 1)
<1>1. \A a \in Int, b \in Nat \ {0} : a % b \in 0..(b - 1)
  OBVIOUS
<1>2. (n + Half) % (2 * Half) \in 0..(2 * Half - 1)
  BY <1>1, HalfAssumption
<1>3. QED
  BY <1>2, HalfAssumption DEF Wrap

LEMMA MixedType ==
  ASSUME NEW h \in Int, NEW char \in Nat
  PROVE  Mixed(h, char) \in -Half..(Half - 1)
<1>1. Wrap(32 * h) \in Int
  BY WrapType, HalfAssumption
<1>2. QED
  BY <1>1, WrapType DEF Mixed

(* Arithmetic of the wrapping.                                             *)
LEMMA WrapIsModular ==
  ASSUME NEW n \in Int
  PROVE  \E k \in Int : n = Wrap(n) + k * (2 * Half)
<1>1. \A a \in Int, b \in Nat \ {0} : a = b * (a \div b) + (a % b) /\ a \div b \in Int
  OBVIOUS
<1>2. n + Half \in Int /\ 2 * Half \in Nat \ {0}
  BY HalfAssumption
<1> DEFINE r == (n + Half) % (2 * Half)
<1>3. PICK k \in Int : n + Half = (2 * Half) * k + r
  BY <1>1, <1>2
<1>4. r \in Int /\ Half \in Int /\ Wrap(n) = r - Half
  BY <1>2, HalfAssumption DEF Wrap
<1> HIDE DEF r
<1>5. (2 * Half) * k = k * (2 * Half) /\ k * (2 * Half) \in Int
  BY <1>4
<1>6. n = Wrap(n) + k * (2 * Half)
  BY <1>3, <1>4, <1>5
<1>7. QED
  BY <1>6

LEMMA SmallMultiple ==
  ASSUME NEW k \in Int, NEW M \in Nat \ {0}, -M < k * M, k * M < M
  PROVE  k = 0
<1>1. CASE k >= 1
  <2>1. k * M = (k - 1) * M + M
    OBVIOUS
  <2>2. (k - 1) * M >= 0
    BY <1>1
  <2>3. QED
    BY <2>1, <2>2
<1>2. CASE k <= -1
  <2>1. k * M = -((-k - 1) * M) - M
    OBVIOUS
  <2>2. (-k - 1) * M >= 0
    BY <1>2
  <2>3. QED
    BY <2>1, <2>2
<1>3. QED
  BY <1>1, <1>2

(* Numbers that differ by a multiple of the width wrap to the same.        *)
LEMMA WrapCongruent ==
  ASSUME NEW a \in Int, NEW b \in Int, NEW k \in Int, a = b + k * (2 * Half)
  PROVE  Wrap(a) = Wrap(b)
<1> DEFINE M == 2 * Half
<1>1. M \in Nat \ {0}
  BY HalfAssumption
<1>2. PICK j \in Int : a = Wrap(a) + j * M
  BY WrapIsModular
<1>3. PICK l \in Int : b = Wrap(b) + l * M
  BY WrapIsModular
<1>4. Wrap(a) \in Int /\ Wrap(b) \in Int
  BY WrapType, HalfAssumption
<1>5. Wrap(a) - Wrap(b) = (k + l - j) * M
  <2>1. (k + l - j) * M = k * M + l * M - j * M
    BY <1>1
  <2>2. k * M \in Int /\ l * M \in Int /\ j * M \in Int /\ a = b + k * M
    BY <1>1
  <2>3. QED
    BY <1>2, <1>3, <1>4, <2>1, <2>2
<1>6. -M < Wrap(a) - Wrap(b) /\ Wrap(a) - Wrap(b) < M
  BY WrapType, HalfAssumption
<1>7. k + l - j = 0
  BY <1>1, <1>5, <1>6, SmallMultiple
<1>8. Wrap(a) - Wrap(b) = 0
  BY <1>1, <1>5, <1>7
<1>9. QED
  BY <1>4, <1>8

(* One iteration of the loop, on a number that was wrapped before, wraps   *)
(* what it would give on the number itself.                                *)
LEMMA MixedIsHorner ==
  ASSUME NEW n \in Int, NEW char \in Nat
  PROVE  Mixed(Wrap(n), char) = Wrap(31 * n + char)
<1> DEFINE M == 2 * Half
<1> DEFINE h == Wrap(n)
<1>1. M \in Nat \ {0} /\ h \in Int /\ Wrap(32 * h) \in Int
  BY WrapType, HalfAssumption
<1>2. PICK k \in Int : n = h + k * M
  BY <1>1, WrapIsModular
<1>3. PICK l \in Int : 32 * h = Wrap(32 * h) + l * M
  BY <1>1, WrapIsModular
<1> DEFINE w == Wrap(32 * h)
<1> HIDE DEF M, h, w
<1>4. (w - h) + char = (31 * n + char) + (-l - 31 * k) * M
  <2>1. w \in Int /\ h \in Int /\ M \in Int /\ 32 * h = w + l * M
    BY <1>1, <1>3 DEF w
  <2>2. (-l - 31 * k) * M = -(l * M) - 31 * (k * M) /\ k * M \in Int /\ l * M \in Int
    BY <2>1
  <2>3. QED
    BY <1>2, <2>1, <2>2
<1>5. -l - 31 * k \in Int /\ (w - h) + char \in Int /\ 31 * n + char \in Int
  BY <1>1 DEF w
<1>6. Wrap((w - h) + char) = Wrap(31 * n + char)
  BY <1>4, <1>5, WrapCongruent DEF M
<1>7. QED
  BY <1>6 DEF Mixed, h, w

(* A balance in the ranges of the comments.                                *)
FreeRange == 1000..10999
ReservedRange == 0..99
NonceRange == 0..999
Ranges == [free : FreeRange, reserved : ReservedRange, nonce : NonceRange]

LEMMA BalanceType ==
  ASSUME NEW h \in Int
  PROVE  Balance(AbsOf(h)) \in Ranges
<1>1. PICK a \in Nat : a = AbsOf(h)
  BY DEF AbsOf
<1>2. /\ Rem(a, 10000) = a % 10000 /\ Rem(a, 100) = a % 100 /\ Rem(a, 1000) = a % 1000
  BY DEF Rem
<1>3. \A x \in Nat : /\ (x % 10000) + 1000 \in FreeRange
                     /\ x % 100 \in ReservedRange /\ x % 1000 \in NonceRange
  BY DEF FreeRange, ReservedRange, NonceRange
<1>4. Balance(a) \in Ranges
  BY <1>2, <1>3 DEF Balance, Ranges
<1>5. QED
  BY <1>1, <1>4

LEMMA RangesAreIntegers ==
  ASSUME NEW b \in Ranges
  PROVE  b \in [free : Int, reserved : Int, nonce : Int]
<1>1. FreeRange \subseteq Int /\ ReservedRange \subseteq Int /\ NonceRange \subseteq Int
  BY DEF FreeRange, ReservedRange, NonceRange
<1>2. QED
  BY <1>1 DEF Ranges

IInv == TypeOK /\ (balance # NoBalance => balance \in Ranges)

LEMMA Step == IInv /\ [Next]_vars => IInv'
<1> SUFFICES ASSUME IInv, [Next]_vars PROVE IInv'
  OBVIOUS
<1> USE DEF IInv, TypeOK
<1>0. address \in Seq(Nat) /\ Half \in Nat
  BY AddressAssumption, HalfAssumption
<1>1. CASE Mix
  <2>1. i \in 0..Len(address) /\ i < Len(address) /\ Len(address) \in Nat
    BY <1>0, <1>1 DEF Mix
  <2>2. address[i + 1] \in Nat
    BY <1>0, <2>1
  <2>3. hash \in Int
    BY <1>0
  <2>4. hash' \in -Half..(Half - 1)
    BY <1>1, <2>2, <2>3, MixedType DEF Mix
  <2>5. i' \in 0..Len(address') /\ UNCHANGED <<address, balance>>
    BY <1>1, <2>1 DEF Mix
  <2>6. QED
    BY <2>4, <2>5
<1>2. CASE Answer
  <2>1. hash \in Int
    BY <1>0
  <2>2. balance' \in Ranges
    BY <1>2, <2>1, BalanceType DEF Answer
  <2>3. balance' \in [free : Int, reserved : Int, nonce : Int]
    BY <2>2, RangesAreIntegers
  <2>4. QED
    BY <1>2, <2>2, <2>3 DEF Answer
<1>3. CASE UNCHANGED vars
  BY <1>3 DEF vars
<1>4. QED
  BY <1>1, <1>2, <1>3 DEF Next

-----------------------------------------------------------------------------
(* The polynomial.  Its definition is a recursive function on an interval  *)
(* that grows with i, so the loop itself shows that the function exists:   *)
(* each iteration extends it by one argument.                              *)
IsPolynomial(p, n) ==
  p = [m \in 0..n |-> IF m = 0 THEN 0 ELSE 31 * p[m - 1] + address[m]]

PolynomialInv ==
  /\ \E p : IsPolynomial(p, i)
  /\ \A p : IsPolynomial(p, i) => p[i] \in Int /\ hash = Wrap(p[i])

LEMMA WrapOfZero == Wrap(0) = 0
<1>1. Half \in Nat /\ Half < 2 * Half
  BY HalfAssumption
<1>2. \A a, b \in Nat : a < b => a % b = a
  OBVIOUS
<1>3. (0 + Half) % (2 * Half) = Half
  BY <1>1, <1>2
<1>4. QED
  BY <1>1, <1>3 DEF Wrap

LEMMA PolynomialStart == Init => PolynomialInv
<1> SUFFICES ASSUME Init PROVE PolynomialInv
  OBVIOUS
<1>1. i = 0 /\ hash = 0 /\ 0..0 = {0}
  BY DEF Init
<1>2. IsPolynomial([m \in 0..0 |-> 0], 0)
  BY <1>1 DEF IsPolynomial
<1>3. ASSUME NEW p, IsPolynomial(p, 0) PROVE p[0] = 0
  BY <1>1, <1>3 DEF IsPolynomial
<1>4. QED
  BY <1>1, <1>2, <1>3, WrapOfZero DEF PolynomialInv

LEMMA PolynomialStep == IInv /\ PolynomialInv /\ [Next]_vars => PolynomialInv'
<1> SUFFICES ASSUME IInv, PolynomialInv, [Next]_vars PROVE PolynomialInv'
  OBVIOUS
<1>1. CASE Mix
  <2>1. /\ i \in Nat /\ i < Len(address) /\ address \in Seq(Nat)
        /\ i' = i + 1 /\ address' = address
        /\ hash' = Mixed(hash, address[i + 1])
    BY <1>1, AddressAssumption DEF Mix, IInv, TypeOK
  <2>2. \A m \in 1..(i + 1) : address[m] \in Nat
    BY <2>1
  <2>3. \E q : IsPolynomial(q, i + 1)
    <3>1. PICK p : IsPolynomial(p, i)
      BY DEF PolynomialInv
    <3> DEFINE q == [m \in 0..(i + 1) |->
                       IF m = i + 1 THEN 31 * p[i] + address[i + 1] ELSE p[m]]
    <3>2. \A m \in 0..i :
             p[m] = IF m = 0 THEN 0 ELSE 31 * p[m - 1] + address[m]
      BY <3>1 DEF IsPolynomial
    <3>3. ASSUME NEW m \in 0..(i + 1)
          PROVE  q[m] = IF m = 0 THEN 0 ELSE 31 * q[m - 1] + address[m]
      <4>1. CASE m = i + 1
        BY <2>1, <4>1
      <4>2. CASE m # i + 1
        <5>1. m \in 0..i /\ (m # 0 => m - 1 \in 0..(i + 1) /\ m - 1 # i + 1)
          BY <2>1, <4>2
        <5>2. QED
          BY <3>2, <4>2, <5>1
      <4>3. QED
        BY <4>1, <4>2
    <3>4. IsPolynomial(q, i + 1)
      BY <3>3 DEF IsPolynomial
    <3>5. QED
      BY <3>4
  <2>4. ASSUME NEW q, IsPolynomial(q, i + 1)
        PROVE  q[i + 1] \in Int /\ hash' = Wrap(q[i + 1])
    <3> DEFINE p == [m \in 0..i |-> q[m]]
    <3>1. \A m \in 0..(i + 1) :
             q[m] = IF m = 0 THEN 0 ELSE 31 * q[m - 1] + address[m]
      BY <2>4 DEF IsPolynomial
    <3>2. ASSUME NEW m \in 0..i
          PROVE  p[m] = IF m = 0 THEN 0 ELSE 31 * p[m - 1] + address[m]
      <4>1. m \in 0..(i + 1) /\ (m # 0 => m - 1 \in 0..i)
        BY <2>1
      <4>2. QED
        BY <3>1, <4>1
    <3>3. IsPolynomial(p, i)
      BY <3>2 DEF IsPolynomial
    <3>4. q[i] \in Int /\ hash = Wrap(q[i])
      <4>1. p[i] = q[i]
        BY <2>1
      <4>2. QED
        BY <3>3, <4>1 DEF PolynomialInv
    <3>5. q[i + 1] = 31 * q[i] + address[i + 1]
      BY <2>1, <3>1
    <3>6. hash' = Wrap(31 * q[i] + address[i + 1])
      <4>1. q[i] \in Int /\ address[i + 1] \in Nat
        BY <2>1, <2>2, <3>4
      <4>2. Mixed(Wrap(q[i]), address[i + 1]) = Wrap(31 * q[i] + address[i + 1])
        BY <4>1, MixedIsHorner
      <4>3. QED
        BY <2>1, <3>4, <4>2
    <3>7. QED
      BY <2>1, <2>2, <3>4, <3>5, <3>6
  <2>5. QED
    BY <2>1, <2>3, <2>4 DEF PolynomialInv, IsPolynomial
<1>2. CASE Answer \/ UNCHANGED vars
  BY <1>2 DEF Answer, vars, PolynomialInv, IsPolynomial
<1>3. QED
  BY <1>1, <1>2 DEF Next

-----------------------------------------------------------------------------
THEOREM Invariance == Spec => []IInv
<1>1. Init => IInv
  <2> SUFFICES ASSUME Init PROVE IInv
    OBVIOUS
  <2>1. address \in Seq(Nat) /\ 0 \in 0..Len(address)
    BY AddressAssumption DEF Init
  <2>2. 0 \in -Half..(Half - 1)
    BY HalfAssumption
  <2>3. QED
    BY <2>1, <2>2 DEF Init, IInv, TypeOK, NoBalance
<1>2. QED
  BY <1>1, Step, PTL DEF Spec

(* The hash stays within the width it is computed in.                      *)
THEOREM TypeCorrect == Spec => []TypeOK
<1>1. IInv => TypeOK
  BY DEF IInv
<1>2. QED
  BY <1>1, Invariance, PTL

(* No address gives a balance out of range, as a wrapped absolute value    *)
(* would for the most negative hash.                                       *)
THEOREM InRange == Spec => []BalanceInRange
<1>1. IInv => BalanceInRange
  BY DEF IInv, BalanceInRange, Ranges, FreeRange, ReservedRange, NonceRange
<1>2. QED
  BY <1>1, Invariance, PTL

(* The hash is the polynomial of the address, wrapped once: what a port    *)
(* with wide integers would compute, at any width and any length.          *)
THEOREM HashIsExact == Spec => []HashIsPolynomial
<1>1. PolynomialInv => HashIsPolynomial
  <2> SUFFICES ASSUME PolynomialInv PROVE HashIsPolynomial
    OBVIOUS
  <2> DEFINE p == CHOOSE f : f = [m \in 0..i |-> IF m = 0 THEN 0
                                                 ELSE 31 * f[m - 1] + address[m]]
  <2>1. IsPolynomial(p, i)
    BY DEF PolynomialInv, IsPolynomial
  <2>2. Polynomial(i) = p[i]
    BY DEF Polynomial
  <2>3. QED
    BY <2>1, <2>2 DEF PolynomialInv, HashIsPolynomial
<1>2. Spec => []PolynomialInv
  BY PolynomialStart, PolynomialStep, Invariance, PTL DEF Spec
<1>3. QED
  BY <1>1, <1>2, PTL

=============================================================================
