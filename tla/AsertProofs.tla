----------------------------- MODULE AsertProofs -----------------------------
(***************************************************************************)
(* The fixed-point arithmetic of calcNextRequiredDifficultyASERT, for      *)
(* every input: the split of the exponent into shifts and frac, and the    *)
(* 64-bit range of the cubic polynomial.  2^64 and 2^48 are written as     *)
(* products so that no literal is beyond the prover's integers.            *)
(***************************************************************************)
EXTENDS Difficulty, TLAPS

Two32 == 4294967296
Two48 == 281474976710656

\* The polynomial of calcNextRequiredDifficultyASERT as the code writes it,
\* over the integers (before any uint64 truncation): what AsertFactor
\* computes modulo 2^64, in limbs.  Its literals are beyond TLC's integers,
\* so it lives here, where only the prover reads it.
AsertPolynomial(f) ==
    195766423245049 * f + 971821376 * f * f + 5127 * f * f * f + 140737488355328

(***************************************************************************)
(* AsertSplit is the floor decomposition of the exponent: frac is in       *)
(* 0..65535 and shifts * 65536 + frac is the exponent, for negative        *)
(* exponents too (where the code borrows a shift when the remainder is not *)
(* zero).  This is why the ASERT target cannot jump at a whole number of  *)
(* half lives (AsertMonotone in the asert run).                            *)
(***************************************************************************)
THEOREM AsertSplitExact ==
  ASSUME NEW exponent \in Int
  PROVE  /\ 0 <= AsertSplit(exponent).frac /\ AsertSplit(exponent).frac <= 65535
         /\ AsertSplit(exponent).shifts \in Int
         /\ AsertSplit(exponent).shifts * 65536 + AsertSplit(exponent).frac = exponent
  <1>1. CASE exponent >= 0
    BY <1>1 DEF AsertSplit
  <1>2. CASE exponent < 0
    <2> DEFINE a == -exponent
               q == a \div 65536
               r == a % 65536
    <2>1. a \in Nat \ {0} /\ q \in Nat /\ 0 <= r /\ r <= 65535 /\ a = q * 65536 + r
      BY <1>2
    <2>2. CASE r # 0
      <3>1. AsertSplit(exponent) = [shifts |-> -q - 1, frac |-> 65536 - r]
        BY <1>2, <2>2 DEF AsertSplit
      <3>2. (-q - 1) * 65536 + (65536 - r) = exponent /\ 0 <= 65536 - r /\ 65536 - r <= 65535
        BY <2>1, <2>2, SMT
      <3> QED BY <2>1, <3>1, <3>2
    <2>3. CASE r = 0
      <3>1. AsertSplit(exponent) = [shifts |-> -q, frac |-> 0]
        BY <1>2, <2>3 DEF AsertSplit
      <3> QED BY <2>1, <2>3, <3>1
    <2> QED BY <2>2, <2>3
  <1> QED BY <1>1, <1>2

(* A quotient below a bound: if q * d <= p < b * d for a positive d, then
   q < b.  Stated over opaque integers so that the product q * d stays an
   atom for the solver. *)
LEMMA QuotientBelow ==
  ASSUME NEW p \in Int, NEW q \in Int, NEW d \in Nat \ {0}, NEW b \in Int,
         q * d <= p, p < b * d
  PROVE  q < b
  <1>1. q >= b => q * d >= b * d
    BY SMT
  <1> QED BY <1>1, SMT

(* A natural below 2^16 lies in the 16-bit range, and 2^16 plus it lies in
   [2^16, 2^17). *)
LEMMA SixteenBitRange ==
  ASSUME NEW x \in Nat, x < 65536
  PROVE  0 <= x /\ 65536 + x <= 131071
  BY SMT

(***************************************************************************)
(* The uint64 evaluation of the polynomial never wraps: for every frac the *)
(* split can produce, A f + B f^2 + C f^3 + 2^47 < 2^64 (at f = 65535 the  *)
(* margin is about 1.8 * 10^14), so its top 16 bits are a number in       *)
(* 0..65535 and the factor lies in 65536..131071.                          *)
(***************************************************************************)
THEOREM AsertPolynomialFits ==
  ASSUME NEW f \in Nat, f <= 65535
  PROVE  /\ AsertPolynomial(f) \in Nat
         /\ AsertPolynomial(f) < Two32 * Two32
         /\ AsertPolynomial(f) \div Two48 \in Nat
         /\ 65536 + AsertPolynomial(f) \div Two48 <= 131071
  \* The values of Two32 and Two48 are given as two inequalities each: the
  \* prover folds an equation into literal products beyond its integers.
  <1>1. Two32 \in Nat /\ Two32 >= 4294967296 /\ Two32 <= 4294967296
    BY DEF Two32
  <1>2. Two48 \in Nat /\ Two48 >= 281474976710656 /\ Two48 <= 281474976710656
    BY DEF Two48
  <1> HIDE DEF Two32, Two48
  <1>3. f * f \in Nat /\ f * f <= 4294836225
    BY SMT
  <1>4. (f * f) * f \in Nat /\ (f * f) * f <= 281462092005375
    BY <1>3, SMT
  <1>5. AsertPolynomial(f)
          = 195766423245049 * f + 971821376 * (f * f) + 5127 * ((f * f) * f)
            + 140737488355328
    BY SMT DEF AsertPolynomial
  <1>6. AsertPolynomial(f) \in Nat /\ AsertPolynomial(f) < Two32 * Two32
    BY <1>1, <1>3, <1>4, <1>5, SMT
  <1>7. AsertPolynomial(f) < 65536 * Two48
    BY <1>2, <1>3, <1>4, <1>5, SMT
  <1> HIDE DEF AsertPolynomial
  <1>8. AsertPolynomial(f) \div Two48 \in Nat
        /\ AsertPolynomial(f) \div Two48 <= 65535
    <2>1. AsertPolynomial(f) \div Two48 \in Nat
          /\ (AsertPolynomial(f) \div Two48) * Two48 <= AsertPolynomial(f)
      BY <1>2, <1>6, SMT
    <2>3. AsertPolynomial(f) \div Two48 < 65536
      BY <1>2, <1>6, <1>7, <2>1, QuotientBelow
    <2> QED BY <2>1, <2>3, SixteenBitRange
  <1>9. 65536 + AsertPolynomial(f) \div Two48 <= 131071
    BY <1>8, SixteenBitRange
  <1> QED BY <1>6, <1>8, <1>9
=============================================================================
