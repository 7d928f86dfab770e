---------------------------- MODULE NumberFacts ----------------------------
(***************************************************************************)
(* Facts about div and mod that the words of the arithmetic units and the  *)
(* indices of ring buffers rest on, and induction, for sets of numbers: a  *)
(* nonempty one has a least element.                                       *)
(***************************************************************************)
EXTENDS Integers, WellFoundedInduction, TLAPS

LEMMA LeastNumber == ASSUME NEW S \in SUBSET Nat, S # {} PROVE \E n \in S : \A m \in S : n <= m
<1> DEFINE R == OpToRel(<, Nat)
<1>1. IsWellFoundedOn(R, Nat)
  BY NatLessThanWellFounded
<1>2. PICK n \in S : \A m \in S : ~(<<m, n>> \in R)
  BY <1>1, WFMin
<1>3. \A m \in S : ~(m < n)
  BY <1>2 DEF OpToRel
<1> QED BY <1>3

LEMMA Induction ==
    ASSUME NEW T \in SUBSET Nat, 0 \in T, \A n \in T : n + 1 \in T
    PROVE  T = Nat
<1> SUFFICES ASSUME Nat \ T # {} PROVE FALSE
  OBVIOUS
<1>1. PICK n \in Nat \ T : \A m \in Nat \ T : n <= m
  BY LeastNumber
<1>2. n # 0 /\ n - 1 \in Nat
  BY <1>1
<1>3. n - 1 \in T
  BY <1>1, <1>2
<1>4. (n - 1) + 1 \in T
  BY <1>3
<1> QED BY <1>1, <1>4

LEMMA ProductNat == ASSUME NEW a \in Nat, NEW b \in Nat PROVE a * b \in Nat
  BY SMTT(30)

(* A remainder is what is left of some multiple, and there is only one.    *)
LEMMA Division ==
    ASSUME NEW w \in Nat, NEW p \in Nat, p >= 1
    PROVE  /\ w \div p \in Nat /\ w % p \in 0..(p - 1)
           /\ w = p * (w \div p) + (w % p)
  BY SMTT(30)

LEMMA Remainder ==
    ASSUME NEW p \in Nat, p >= 1, NEW j \in Nat, NEW r \in 0..(p - 1)
    PROVE  (p * j + r) % p = r /\ (p * j + r) \div p = j
<1> DEFINE w == p * j + r
           k == w \div p
           s == w % p
<1>1. w \in Nat
  BY ProductNat
<1>2. k \in Nat /\ s \in 0..(p - 1) /\ w = p * k + s
  BY <1>1, Division
<1>3. p * j + r = p * k + s
  BY <1>2
<1> HIDE DEF w, k, s
<1>4. j = k
  <2>1. CASE j < k
    <3>1. p * (k - j) >= p /\ p * (k - j) = p * k - p * j
      BY <2>1, <1>2, SMTT(30)
    <3>2. p * k \in Int /\ p * j \in Int
      BY <1>2
    <3> QED BY <3>1, <3>2, <1>2, <1>3
  <2>2. CASE k < j
    <3>1. p * (j - k) >= p /\ p * (j - k) = p * j - p * k
      BY <2>2, <1>2, SMTT(30)
    <3>2. p * k \in Int /\ p * j \in Int
      BY <1>2
    <3> QED BY <3>1, <3>2, <1>2, <1>3
  <2> QED BY <2>1, <2>2, <1>2
<1>5. p * k \in Int
  BY <1>2
<1>6. s = r
  BY <1>2, <1>3, <1>4, <1>5
<1> QED BY <1>4, <1>6 DEF k, s, w

LEMMA SmallRemainder == ASSUME NEW p \in Nat, p >= 1, NEW r \in 0..(p - 1) PROVE r % p = r
<1>1. (p * 0 + r) % p = r
  BY Remainder
<1> QED BY <1>1

(* The same for every integer.                                             *)
LEMMA RemainderInt ==
    ASSUME NEW p \in Nat, p >= 1, NEW j \in Int, NEW r \in 0..(p - 1)
    PROVE  (p * j + r) % p = r /\ (p * j + r) \div p = j
<1> DEFINE w == p * j + r
           k == w \div p
           s == w % p
<1>1. w \in Int
  BY SMTT(30)
<1> HIDE DEF w
<1>2. k \in Int /\ s \in 0..(p - 1) /\ w = p * k + s
  BY <1>1, SMTT(30)
<1>3. p * j + r = p * k + s
  BY <1>2 DEF w
<1> HIDE DEF k, s
<1>4. j = k
  <2>1. CASE j < k
    <3>1. p * (k - j) >= p /\ p * (k - j) = p * k - p * j
      BY <2>1, <1>2, SMTT(30)
    <3>2. p * k \in Int /\ p * j \in Int
      BY <1>2
    <3> QED BY <3>1, <3>2, <1>2, <1>3
  <2>2. CASE k < j
    <3>1. p * (j - k) >= p /\ p * (j - k) = p * j - p * k
      BY <2>2, <1>2, SMTT(30)
    <3>2. p * k \in Int /\ p * j \in Int
      BY <1>2
    <3> QED BY <3>1, <3>2, <1>2, <1>3
  <2> QED BY <2>1, <2>2, <1>2
<1>5. p * k \in Int
  BY <1>2
<1>6. s = r
  BY <1>2, <1>3, <1>4, <1>5
<1> QED BY <1>4, <1>6 DEF k, s, w
=============================================================================
