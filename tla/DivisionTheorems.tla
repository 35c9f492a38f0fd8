--------------------------- MODULE DivisionTheorems ---------------------------
(****************************************************************************)
(* Facts about quotients and remainders, for any modulus: what wrapping     *)
(* counters and packing two operands into a word rest on.                   *)
(****************************************************************************)
EXTENDS Integers, TLAPS

(* Division with a remainder is unique: what packing rests on.              *)
LEMMA DivModUnique ==
    ASSUME NEW m \in Nat \ {0}, NEW q \in Int, NEW r \in 0 .. m - 1
    PROVE  (q * m + r) \div m = q /\ (q * m + r) % m = r
<1> DEFINE x == q * m + r
           d == x \div m
           e == x % m
<1>1. x \in Int /\ d \in Int /\ e \in 0 .. m - 1 /\ x = m * d + e
    OBVIOUS
<1> HIDE DEF d, e
<1>2. m * (q - d) = e - r
    BY <1>1
<1>3. q - d \in Int /\ e - r \in Int /\ e - r < m /\ -m < e - r
    BY <1>1
<1>4. ~(q - d >= 1)
  <2> SUFFICES ASSUME q - d >= 1 PROVE FALSE
      OBVIOUS
  <2>1. m * (q - d) >= m
      BY <1>3
  <2>2. QED
      BY <1>2, <1>3, <2>1
<1>5. ~(q - d <= -1)
  <2> SUFFICES ASSUME q - d <= -1 PROVE FALSE
      OBVIOUS
  <2>1. m * (q - d) <= -m
      BY <1>3
  <2>2. QED
      BY <1>2, <1>3, <2>1
<1>6. q = d
    BY <1>1, <1>3, <1>4, <1>5
<1>7. e = r
    BY <1>1, <1>6
<1>8. QED
    BY <1>6, <1>7 DEF d, e

(* A number below the modulus is its own remainder.                         *)
LEMMA ModBelow ==
    ASSUME NEW m \in Nat, NEW a \in 0 .. m - 1
    PROVE  a % m = a /\ a \div m = 0
<1>1. m \in Nat \ {0} /\ 0 * m + a = a
    OBVIOUS
<1>2. QED
    BY <1>1, DivModUnique

(* A word of two digits has a high digit.                                   *)
LEMMA DivBelow ==
    ASSUME NEW m \in Nat \ {0}, NEW k \in Nat, NEW x \in 0 .. k * m - 1
    PROVE  x \div m \in 0 .. k - 1 /\ x % m \in 0 .. m - 1
<1> DEFINE d == x \div m
           e == x % m
<1>1. /\ x \in Int /\ k * m \in Int /\ 0 <= x /\ x < k * m
      /\ d \in Int /\ e \in 0 .. m - 1 /\ x = m * d + e
    OBVIOUS
<1> HIDE DEF d, e
<1>2. ~(d >= k)
  <2> SUFFICES ASSUME d >= k PROVE FALSE
      OBVIOUS
  <2>1. m * d >= m * k
      BY <1>1
  <2>2. m * k = k * m
      OBVIOUS
  <2>3. QED
      BY <1>1, <2>1, <2>2
<1>3. ~(d <= -1)
  <2> SUFFICES ASSUME d <= -1 PROVE FALSE
      OBVIOUS
  <2>1. m * d <= -m
      BY <1>1
  <2>2. QED
      BY <1>1, <2>1
<1>4. QED
    BY <1>1, <1>2, <1>3 DEF d, e

(* Two digits make a word of two digits.                                    *)
LEMMA PackBelow ==
    ASSUME NEW m \in Nat \ {0}, NEW k \in Nat,
           NEW hi \in 0 .. k - 1, NEW lo \in 0 .. m - 1
    PROVE  hi * m + lo \in 0 .. k * m - 1
<1>1. hi * m >= 0 /\ (hi + 1) * m = hi * m + m
    OBVIOUS
<1>2. (hi + 1) * m <= k * m
    OBVIOUS
<1>3. hi * m \in Int /\ k * m \in Int
    OBVIOUS
<1>4. QED
    BY <1>1, <1>2, <1>3
=============================================================================
