----------------------------- MODULE Quotients -----------------------------
(***************************************************************************)
(* Facts about \div and % by a divisor that is not a number, which the     *)
(* provers do not find: sectors and pages of flash, words of a counter;    *)
(* and induction over the natural numbers, stated of a set.                *)
(***************************************************************************)
EXTENDS Integers, WellFoundedInduction, TLAPS

\* The quotient is the only number whose multiple fits.
LEMMA QuotientUnique ==
    ASSUME NEW n \in Nat, NEW d \in Nat \ {0}, NEW q \in Nat,
           q * d <= n, n < q * d + d
    PROVE  n \div d = q
  <1> DEFINE p == n \div d
  <1>1. p \in Nat /\ p * d <= n /\ n < p * d + d
    OBVIOUS
  <1> HIDE DEF p
  <1>2. CASE p < q
    <2>1. p * d + d <= q * d
      BY <1>1, <1>2
    <2> QED
      BY <2>1, <1>1, q * d \in Nat, p * d \in Nat
  <1>3. CASE q < p
    <2>1. q * d + d <= p * d
      BY <1>1, <1>3
    <2> QED
      BY <2>1, <1>1, q * d \in Nat, p * d \in Nat
  <1>4. p = q
    BY <1>1, <1>2, <1>3
  <1> QED
    BY <1>4 DEF p

\* A larger number has a quotient that is no smaller.
LEMMA QuotientMonotone ==
    ASSUME NEW n \in Nat, NEW m \in Nat, NEW d \in Nat \ {0}, n <= m
    PROVE  n \div d <= m \div d
  <1> DEFINE p == n \div d
             q == m \div d
  <1>1. /\ p \in Nat /\ p * d <= n /\ n < p * d + d
        /\ q \in Nat /\ q * d <= m /\ m < q * d + d
    OBVIOUS
  <1> HIDE DEF p, q
  <1>2. CASE q < p
    <2>1. q * d + d <= p * d
      BY <1>1, <1>2
    <2> QED
      BY <2>1, <1>1, q * d \in Nat, p * d \in Nat
  <1>3. p <= q
    BY <1>1, <1>2
  <1> QED
    BY <1>3 DEF p, q

\* One divisor more is one quotient more.
LEMMA QuotientNext ==
    ASSUME NEW n \in Nat, NEW d \in Nat \ {0}
    PROVE  (n + d) \div d = (n \div d) + 1
  <1> DEFINE p == n \div d
  <1>1. p \in Nat /\ p * d <= n /\ n < p * d + d
    OBVIOUS
  <1> HIDE DEF p
  <1>2. (p + 1) * d = p * d + d /\ p * d \in Nat
    BY <1>1
  <1>3. (n + d) \div d = p + 1
    BY <1>1, <1>2, QuotientUnique, n + d \in Nat, p + 1 \in Nat
  <1> QED
    BY <1>3 DEF p

\* A number is made up of its quotient and its remainder.
LEMMA QuotientRemainder ==
    ASSUME NEW n \in Nat, NEW d \in Nat \ {0}
    PROVE  /\ n \div d \in Nat /\ n % d \in Nat /\ n % d < d
           /\ n = (n \div d) * d + (n % d)
  OBVIOUS

\* What fits beside the remainder leaves the quotient alone.
LEMMA QuotientSame ==
    ASSUME NEW n \in Nat, NEW d \in Nat \ {0}, NEW k \in Nat, (n % d) + k < d
    PROVE  (n + k) \div d = n \div d /\ (n + k) % d = (n % d) + k
  <1> DEFINE p == n \div d
             r == n % d
  <1>1. p \in Nat /\ r \in Nat /\ n = p * d + r /\ r + k < d /\ p * d \in Nat
    BY QuotientRemainder
  <1>2. (n + k) \div d = p
    <2> HIDE DEF p, r
    <2>1. n + k \in Nat /\ p * d <= n + k /\ n + k < p * d + d
      BY <1>1
    <2> QED
      BY <1>1, <2>1, QuotientUnique
  <1>3. n + k = ((n + k) \div d) * d + ((n + k) % d) /\ (n + k) % d \in Nat
    BY QuotientRemainder, n + k \in Nat
  <1>4. (n + k) % d = r + k
    <2> HIDE DEF p, r
    <2> QED
      BY <1>1, <1>2, <1>3
  <1> QED
    BY <1>2, <1>4

\* Every set of numbers has a least one.
LEMMA Least ==
    ASSUME NEW T \in SUBSET Nat, T # {}
    PROVE  \E x \in T : \A y \in T : x <= y
  <1>1. PICK x \in T : \A y \in T : ~ (<<y, x>> \in OpToRel(<, Nat))
    BY NatLessThanWellFounded, WFMin, Zenon
  <1>2. \A y \in T : ~ (y < x)
    BY <1>1 DEF OpToRel
  <1> QED
    BY <1>2

\* A set that holds 0, and with a number the next one, holds them all.
LEMMA SetInduction ==
    ASSUME NEW S, 0 \in S, \A n \in Nat : n \in S => n + 1 \in S
    PROVE  Nat \subseteq S
  <1> SUFFICES ASSUME Nat \ S # {}
               PROVE  FALSE
    OBVIOUS
  <1>1. PICK x \in Nat \ S : \A y \in Nat \ S : x <= y
    BY Least, Nat \ S \in SUBSET Nat
  <1>2. x # 0 /\ x - 1 \in Nat
    BY <1>1
  <1>3. x - 1 \in S
    BY <1>1, <1>2
  <1> QED
    BY <1>1, <1>2, <1>3
=============================================================================
