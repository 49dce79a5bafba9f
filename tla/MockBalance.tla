------------------------------ MODULE MockBalance ------------------------------
(***************************************************************************)
(* The balance that BittensorBalanceService makes up for an address, in    *)
(* place of the network's: a hash of the address in signed integers of a   *)
(* fixed width, its absolute value, and three remainders of that.          *)
(***************************************************************************)
EXTENDS Integers, Sequences

CONSTANTS
  Half,       \* integers wrap at Half: 2^31 in the program
  Addresses   \* sequences of character codes

ASSUME HalfAssumption == Half \in Nat \ {0}
ASSUME AddressAssumption == Addresses \subseteq Seq(Nat)

NoBalance == [free |-> 0, reserved |-> 0, nonce |-> 0]

(* Conversion to a signed integer, as the operands and results of the bit  *)
(* operators << and & are.                                                 *)
Wrap(n) == ((n + Half) % (2 * Half)) - Half

(* The remainder of JavaScript, which has the sign of its left operand.    *)
Rem(a, b) == IF a >= 0 THEN a % b ELSE -((-a) % b)

VARIABLES address, i, hash, balance

vars == <<address, i, hash, balance>>

Init ==
  /\ address \in Addresses
  /\ i = 0
  /\ hash = 0
  /\ balance = NoBalance

MixedUnwrapped(h, char) ==  \* faulty variant: hash & hash is left out
  (Wrap(32 * h) - h) + char

MixedXor(h, char) ==  \* faulty variant: ((hash << 5) + hash) + char
  Wrap((Wrap(32 * h) + h) + char)

Mixed(h, char) == Wrap((Wrap(32 * h) - h) + char)

(* An iteration of the loop of simpleHash.                                 *)
Mix ==
  /\ i < Len(address)
  /\ hash' = Mixed(hash, address[i + 1])
  /\ i' = i + 1
  /\ UNCHANGED <<address, balance>>

AbsWrapped(n) ==  \* faulty variant: the absolute value is a 32-bit integer too
  Wrap(IF n < 0 THEN -n ELSE n)

AbsOf(n) == IF n < 0 THEN -n ELSE n

(* getMockBalanceForAddress with the hash.                                 *)
Balance(h) ==
  [free |-> Rem(h, 10000) + 1000, reserved |-> Rem(h, 100), nonce |-> Rem(h, 1000)]

Answer ==
  /\ i = Len(address)
  /\ balance' = Balance(AbsOf(hash))
  /\ UNCHANGED <<address, i, hash>>

Next == Mix \/ Answer

Spec == Init /\ [][Next]_vars

-----------------------------------------------------------------------------
(* Properties.                                                             *)

(* The hash never leaves the width, though what it is made from does.      *)
TypeOK ==
  /\ address \in Addresses
  /\ i \in 0..Len(address)
  /\ hash \in -Half..(Half - 1)
  /\ balance \in [free : Int, reserved : Int, nonce : Int]

(* Whatever the address, and at the most negative hash too, the balance    *)
(* lies in the ranges the comments of the code give.                       *)
BalanceInRange ==
  balance # NoBalance => /\ balance.free \in 1000..10999
                         /\ balance.reserved \in 0..99
                         /\ balance.nonce \in 0..999

(* The polynomial in 31 of the first n characters, by the rule of Horner,  *)
(* in integers without a width.                                            *)
Polynomial(n) ==
  LET p[m \in 0..n] == IF m = 0 THEN 0 ELSE 31 * p[m - 1] + address[m]
  IN  p[n]

(* The steps that wrap do not lose anything: the hash is the polynomial of *)
(* the characters read, wrapped once.                                      *)
HashIsPolynomial == hash = Wrap(Polynomial(i))

=============================================================================
