---------------------------- MODULE SlotArithmetic ----------------------------
(* Which PSNs share a slot of an array indexed modulo its length, for the   *)
(* proofs about the switches.                                               *)
EXTENDS Integers, TLAPS

(* Two PSNs less than n apart that fall into the same slot are equal. *)
LEMMA SlotInjective ==
    ASSUME NEW n \in Nat \ {0}, NEW p \in Nat, NEW q \in Nat,
           p % n = q % n, p - q < n, q - p < n
    PROVE  p = q
<1> DEFINE a == p \div n
           b == q \div n
           r == p % n
<1>1. a \in Int /\ b \in Int /\ r \in Int
  OBVIOUS
<1>2. p = (n * a) + r
  OBVIOUS
<1>3. q = (n * b) + r
  OBVIOUS
<1> HIDE DEF a, b, r
<1>4. CASE a - b >= 1
  <2>1. n * a >= (n * b) + n
    BY <1>1, <1>4
  <2> QED BY <2>1, <1>1, <1>2, <1>3
<1>5. CASE b - a >= 1
  <2>1. n * b >= (n * a) + n
    BY <1>1, <1>5
  <2> QED BY <2>1, <1>1, <1>2, <1>3
<1>6. CASE a = b
  BY <1>2, <1>3, <1>6
<1> QED BY <1>1, <1>4, <1>5, <1>6

(* The PSN one lap further on falls into the same slot. *)
LEMMA SlotPeriodic ==
    ASSUME NEW n \in Nat \ {0}, NEW p \in Nat
    PROVE  (p + n) % n = p % n
<1> DEFINE q == p + n
           a == p \div n
           b == q \div n
           r == p % n
           s == q % n
<1>1. a \in Int /\ b \in Int /\ r \in 0 .. n - 1 /\ s \in 0 .. n - 1
  OBVIOUS
<1>2. p = (n * a) + r
  OBVIOUS
<1>3. q = (n * b) + s
  OBVIOUS
<1>4. q = p + n
  OBVIOUS
<1> HIDE DEF a, b, r, s, q
<1>5. n * (a + 1) = (n * a) + n
  BY <1>1
<1>6. CASE b >= a + 2
  <2>1. n * b >= (n * (a + 1)) + n
    BY <1>1, <1>6
  <2> QED BY <2>1, <1>1, <1>2, <1>3, <1>4, <1>5
<1>7. CASE b <= a
  <2>1. n * b <= n * a
    BY <1>1, <1>7
  <2> QED BY <2>1, <1>1, <1>2, <1>3, <1>4
<1>8. CASE b = a + 1
  <2>1. r = s
    BY <1>1, <1>2, <1>3, <1>4, <1>5, <1>8
  <2> QED BY <2>1 DEF r, s, q
<1> QED BY <1>1, <1>6, <1>7, <1>8

(* Any n consecutive PSNs reach every one of n slots. *)
LEMMA SlotCovered ==
    ASSUME NEW n \in Nat \ {0}, NEW a \in Nat, NEW i \in 0 .. n - 1
    PROVE  \E p \in a + 1 .. a + n : p % n = i
<1> DEFINE q == a + 1
           k == q \div n
           r == q % n
           p == IF r <= i THEN q + (i - r) ELSE q + (i - r) + n
           b == p \div n
           s == p % n
<1>1. k \in Int /\ r \in 0 .. n - 1
  OBVIOUS
<1>2. q = (n * k) + r
  OBVIOUS
<1>3. p \in a + 1 .. a + n /\ p \in Nat
  BY <1>1
<1>4. b \in Int /\ s \in 0 .. n - 1
  BY <1>3
<1>5. p = (n * b) + s
  BY <1>3
<1>6. p = (n * k) + i \/ p = (n * k) + i + n
  BY <1>1, <1>2
<1>7. n * (k + 1) = (n * k) + n
  BY <1>1
<1> HIDE DEF q, k, r, p, b, s
<1>8. \E m \in Int : p = (n * m) + i
  <2>1. CASE p = (n * k) + i
    BY <1>1, <2>1
  <2>2. CASE p = (n * k) + i + n
    <3>1. p = (n * (k + 1)) + i /\ k + 1 \in Int
      BY <1>1, <1>7, <2>2
    <3> QED BY <3>1
  <2> QED BY <1>6, <2>1, <2>2
<1>9. PICK m \in Int : p = (n * m) + i
  BY <1>8
<1>10. CASE b >= m + 1
  <2>1. n * b >= n * (m + 1)
    BY <1>4, <1>9, <1>10
  <2>2. n * (m + 1) = (n * m) + n
    BY <1>9
  <2> QED BY <2>1, <2>2, <1>4, <1>5, <1>9
<1>11. CASE m >= b + 1
  <2>1. n * m >= n * (b + 1)
    BY <1>4, <1>9, <1>11
  <2>2. n * (b + 1) = (n * b) + n
    BY <1>4
  <2> QED BY <2>1, <2>2, <1>4, <1>5, <1>9
<1>12. CASE b = m
  <2>1. s = i
    BY <1>4, <1>5, <1>9, <1>12
  <2>2. p % n = i
    BY <2>1 DEF s
  <2> QED BY <1>3, <2>2
<1> QED BY <1>4, <1>9, <1>10, <1>11, <1>12
==============================================================================
