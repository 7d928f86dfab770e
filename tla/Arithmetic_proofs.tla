-------------------------- MODULE Arithmetic_proofs --------------------------
(***************************************************************************)
(* Proofs about Divider and Multiplier, for every width N and every number *)
(* Q of bits after the point.  DividingInv is what makes QuotientWithinTwo *)
(* inductive: it follows the remainder through every cycle.  For the       *)
(* multiplier PartialProduct follows the result through the N bits that    *)
(* exist, and the cycle past the end changes nothing in the product of an  *)
(* even multiplicand, whichever value its read yields.                     *)
(***************************************************************************)
EXTENDS Divider, Multiplier, NumberFacts, TLAPS

(* Facts about the powers of two.                                          *)
LEMMA PowerFacts ==
    /\ \A i \in 0..(2 * N + Q) : Pow2[i] \in Nat /\ Pow2[i] >= 1
    /\ \A i \in 1..(2 * N + Q) : Pow2[i] = 2 * Pow2[i - 1]
    /\ Pow2[N + Q] = 2 * Pow2[N + Q - 1]
    /\ Pow2[N] = 2 * Pow2[N - 1]
    /\ Pow2[N - 1] * Pow2[Q] = Pow2[N + Q - 1]
    /\ Pow2[N - 1] * Pow2[N + Q - 1] = Pow2[2 * N + Q - 2]
<1>0. N \in Nat /\ Q \in Nat /\ N > 1
  BY WidthAssumption
<1>1. \A i \in 0..(2 * N + Q) : Pow2[i] \in Nat /\ Pow2[i] >= 1
  <2>1. Pow2 \in [0..(2 * N + Q) -> Nat \ {0}]
    BY Pow2Assumption
  <2> QED BY <2>1
<1>2. \A i \in 1..(2 * N + Q) : Pow2[i] = 2 * Pow2[i - 1]
  <2> SUFFICES ASSUME NEW i \in 1..(2 * N + Q) PROVE Pow2[i] = 2 * Pow2[i - 1]
    OBVIOUS
  <2>1. 1 \in 0..(2 * N + Q) /\ i - 1 \in 0..(2 * N + Q) /\ 1 + (i - 1) = i
    BY <1>0
  <2>2. Pow2[1 + (i - 1)] = Pow2[1] * Pow2[i - 1]
    BY <2>1, <1>0, Pow2Assumption
  <2> QED BY <2>1, <2>2, Pow2Assumption
<1>3. Pow2[N + Q] = 2 * Pow2[N + Q - 1] /\ Pow2[N] = 2 * Pow2[N - 1]
  BY <1>2, <1>0
<1>4. Pow2[(N - 1) + Q] = Pow2[N - 1] * Pow2[Q] /\ (N - 1) + Q = N + Q - 1
  BY Pow2Assumption, <1>0
<1>5. /\ Pow2[(N - 1) + (N + Q - 1)] = Pow2[N - 1] * Pow2[N + Q - 1]
      /\ (N - 1) + (N + Q - 1) = 2 * N + Q - 2
  BY Pow2Assumption, <1>0
<1> QED BY <1>1, <1>2, <1>3, <1>4, <1>5

(* A word's magnitude has one bit less than the word.                      *)
LEMMA MagnitudeRange ==
    ASSUME NEW w \in Words
    PROVE  Magnitude(w) \in Nat /\ Magnitude(w) < Pow2[N - 1]
<1>1. Pow2[N - 1] \in Nat /\ Pow2[N] = 2 * Pow2[N - 1]
  BY PowerFacts, WidthAssumption
<1> QED BY <1>1 DEF Words, Magnitude, Negative

(* Multiplication by a positive number keeps the order.                    *)
LEMMA Scale ==
    ASSUME NEW a \in Int, NEW b \in Int, NEW c \in Nat, a < b, c > 0
    PROVE  a * c < b * c
<1>1. b - a \in Nat /\ b - a >= 1
  OBVIOUS
<1>2. (b - a) * c >= c
  BY <1>1, SMTT(30)
<1>3. (b - a) * c = b * c - a * c
  BY SMTT(30)
<1> QED BY <1>2, <1>3

(* What one cycle does to the numbers, with p the weight of the bit.       *)
LEMMA SubtractOnce ==
    ASSUME NEW q \in Nat, NEW r \in Nat, NEW d \in Nat, NEW p \in Nat, NEW D \in Nat,
           q * d + r = D, r >= d * p
    PROVE  (q + p) * d + (r - d * p) = D
<1>1. (q + p) * d = q * d + d * p
  BY SMTT(30)
<1>2. q * d \in Nat /\ d * p \in Nat
  BY ProductNat
<1> QED BY <1>1, <1>2

(* The bits of q below 2p are zero; after the cycle those below p are.     *)
LEMMA NextBit ==
    ASSUME NEW q \in Nat, NEW p \in Nat, p >= 1, NEW k \in 0..q, q = k * (2 * p)
    PROVE  /\ \E j \in 0..q : q = j * p
           /\ \E j \in 0..(q + p) : q + p = j * p
<1>1. q = (2 * k) * p /\ q + p = (2 * k + 1) * p
  BY SMTT(30)
<1>2. (2 * k) * p >= 2 * k /\ (2 * k + 1) * p >= 2 * k + 1
  BY SMTT(30)
<1>3. 2 * k \in 0..q /\ 2 * k + 1 \in 0..(q + p)
  BY <1>1, <1>2
<1> QED BY <1>1, <1>3
-----------------------------------------------------------------------------
LEMMA InitInv == Init => IndInv
<1> SUFFICES ASSUME Init PROVE IndInv
  OBVIOUS
<1>1. /\ Pow2[N] >= 1 /\ Pow2[N] \in Nat
      /\ Pow2[N + Q] >= 1 /\ Pow2[N + Q] \in Nat
      /\ Pow2[N + Q - 1] >= 1 /\ Pow2[N + Q - 1] \in Nat
      /\ Pow2[2 * N + Q - 2] >= 1 /\ Pow2[2 * N + Q - 2] \in Nat
      /\ Pow2[N - 1] >= 1 /\ Pow2[N - 1] \in Nat
  BY PowerFacts, WidthAssumption
<1>2. TypeOK
  <2>1. N - 1 + Q = N + Q - 1
    BY WidthAssumption
  <2>2. done \in BOOLEAN /\ sign \in BOOLEAN /\ overflow \in BOOLEAN
    BY DEF Init
  <2>3. 0 \in Words
    BY <1>1 DEF Words
  <2> QED BY <1>1, <2>1, <2>2, <2>3 DEF Init, TypeOK
<1>3. DividingInv
  BY DEF Init, DividingInv
<1>4. Divisor = 0
  BY <1>1 DEF Init, Divisor, Magnitude, Negative
<1>5. QuotientWithinTwo
  BY <1>4 DEF QuotientWithinTwo, Representable
<1> QED BY <1>2, <1>3, <1>5 DEF IndInv

(* A division that has just begun.                                         *)
LEMMA StartInv == IndInv /\ Start => IndInv'
<1> SUFFICES ASSUME Start, IndInv PROVE IndInv'
  OBVIOUS
<1>p. /\ N \in Nat /\ Q \in Nat /\ N > 1
      /\ Pow2[Q] \in Nat /\ Pow2[Q] >= 1
      /\ Pow2[N - 1] \in Nat /\ Pow2[N - 1] >= 1
      /\ Pow2[N + Q - 1] \in Nat /\ Pow2[N + Q - 1] >= 1
      /\ Pow2[N + Q] \in Nat
  BY PowerFacts, WidthAssumption
<1> DEFINE a == Magnitude(i_dividend')
           b == Magnitude(i_divisor')
           top == Pow2[N + Q - 1]
<1>1. /\ i_dividend' \in Words /\ i_divisor' \in Words
      /\ a \in Nat /\ a < Pow2[N - 1]
      /\ b \in Nat /\ b < Pow2[N - 1]
  BY MagnitudeRange DEF Start
<1>2. /\ Dividend' = a * Pow2[Q] /\ Divisor' = b
      /\ working_dividend' = a * Pow2[Q] /\ working_divisor' = b * top
      /\ working_quotient' = 0 /\ count' = N + Q - 1
      /\ done' = FALSE
  BY DEF Start, Dividend, Divisor
<1> HIDE DEF a, b
<1>3. a * Pow2[Q] \in Nat /\ a * Pow2[Q] < top
  <2>1. a * Pow2[Q] < Pow2[N - 1] * Pow2[Q]
    BY <1>1, <1>p, Scale
  <2> QED BY <2>1, <1>1, <1>p, ProductNat, PowerFacts
<1>4. b * top \in Nat /\ b * top < Pow2[2 * N + Q - 2]
  <2>1. b * top < Pow2[N - 1] * top
    BY <1>1, <1>p, Scale
  <2> QED BY <2>1, <1>1, <1>p, ProductNat, PowerFacts
<1>5. TypeOK'
  <2>1. working_dividend' \in 0..(Pow2[N - 1 + Q] - 1)
    <3>1. N - 1 + Q = N + Q - 1
      BY <1>p
    <3> QED BY <1>2, <1>3, <1>p, <3>1
  <2>2. working_divisor' \in 0..(Pow2[2 * N + Q - 2] - 1)
    <3>1. Pow2[2 * N + Q - 2] \in Nat
      BY PowerFacts, <1>p
    <3> HIDE DEF top
    <3> QED BY <1>2, <1>4, <3>1
  <2>3. working_quotient' \in 0..(Pow2[N + Q] - 1)
    BY <1>2, <1>p, PowerFacts
  <2>4. count' \in Words
    BY <1>2, <1>p, WidthAssumption, PowerFacts DEF Words
  <2>5. sign' \in BOOLEAN /\ overflow' \in BOOLEAN /\ quotient' \in Words
    BY DEF Start, IndInv, TypeOK
  <2> QED BY <1>1, <1>2, <2>1, <2>2, <2>3, <2>4, <2>5 DEF TypeOK
<1>6. DividingInv'
  <2>1. count' \in 0..(N + Q - 1)
    BY <1>2, <1>p
  <2>2. working_divisor' = Divisor' * Pow2[count']
    BY <1>2
  <2>3. working_quotient' * Divisor' + working_dividend' = Dividend'
    BY <1>1, <1>2, <1>3
  <2>4. Divisor' > 0 => working_dividend' < 2 * working_divisor'
    <3> SUFFICES ASSUME b > 0 PROVE a * Pow2[Q] < 2 * (b * top)
      BY <1>2
    <3>1. b * top >= top
      BY <1>1, <1>p, SMTT(30)
    <3> DEFINE x == a * Pow2[Q]
               y == b * top
    <3>2. x \in Nat /\ y \in Nat /\ top \in Nat /\ x < top /\ top <= y
      BY <3>1, <1>3, <1>4, <1>p
    <3> HIDE DEF x, y, top
    <3>3. x < 2 * y
      BY <3>2
    <3> QED BY <3>3 DEF x, y
  <2>5. \E k \in 0..working_quotient' : working_quotient' = k * (2 * Pow2[count'])
    <3>1. 0 \in 0..working_quotient'
      BY <1>2
    <3>2. working_quotient' = 0 * (2 * Pow2[count'])
      BY <1>2, <1>p
    <3> QED BY <3>1, <3>2
  <2>6. working_quotient' + 2 * Pow2[count'] <= Pow2[N + Q]
    BY <1>2, <1>p, PowerFacts
  <2> QED BY <2>1, <2>2, <2>3, <2>4, <2>5, <2>6 DEF DividingInv
<1>7. QuotientWithinTwo'
  BY <1>2 DEF QuotientWithinTwo
<1> QED BY <1>5, <1>6, <1>7 DEF IndInv
(* One cycle, whatever the bit: what Subtract leaves.                      *)
LEMMA SubtractInv ==
    ASSUME TypeOK, DividingInv, ~done, Subtract,
           NEW p \in Nat, p >= 1, p = Pow2[count]
    PROVE  /\ working_quotient' \in Nat /\ working_dividend' \in Nat
           /\ working_dividend' <= working_dividend
           /\ working_quotient' * Divisor + working_dividend' = Dividend
           /\ Divisor > 0 => working_dividend' < Divisor * p
           /\ \E j \in 0..working_quotient' : working_quotient' = j * p
           /\ working_quotient' + p <= Pow2[N + Q]
<1>1. /\ i_dividend \in Words /\ i_divisor \in Words
      /\ working_quotient \in Nat /\ working_dividend \in Nat
      /\ working_divisor \in Nat
      /\ Pow2[N + Q] \in Nat /\ Pow2[Q] \in Nat
  BY PowerFacts, WidthAssumption DEF TypeOK
<1>2. Divisor \in Nat /\ Dividend \in Nat
  BY <1>1, MagnitudeRange, ProductNat DEF Divisor, Dividend
<1>3. /\ working_divisor = Divisor * p
      /\ working_quotient * Divisor + working_dividend = Dividend
      /\ Divisor > 0 => working_dividend < 2 * working_divisor
      /\ \E k \in 0..working_quotient : working_quotient = k * (2 * p)
      /\ working_quotient + 2 * p <= Pow2[N + Q]
  BY DEF DividingInv
<1>4. PICK k \in 0..working_quotient : working_quotient = k * (2 * p)
  BY <1>3
<1>5. /\ \E j \in 0..working_quotient : working_quotient = j * p
      /\ \E j \in 0..(working_quotient + p) : working_quotient + p = j * p
  BY <1>1, <1>4, NextBit, ZenonT(30)
<1>6. CASE Fits
  <2>1. /\ working_quotient' = working_quotient + p
        /\ working_dividend' = working_dividend - working_divisor
        /\ working_dividend >= working_divisor
    BY <1>6 DEF Subtract, Fits
  <2>2. working_quotient' * Divisor + working_dividend' = Dividend
    BY <2>1, <1>1, <1>2, <1>3, SubtractOnce
  <2>3. Divisor > 0 => working_dividend' < Divisor * p
    <3>1. Divisor > 0 => working_dividend' < working_divisor
      BY <2>1, <1>1, <1>3
    <3> QED BY <3>1, <1>3
  <2>4. working_quotient' + p <= Pow2[N + Q]
    BY <2>1, <1>1, <1>3
  <2>5. /\ working_quotient' \in Nat /\ working_dividend' \in Nat
        /\ working_dividend' <= working_dividend
    BY <2>1, <1>1
  <2>6. \E j \in 0..working_quotient' : working_quotient' = j * p
    BY <2>1, <1>5
  <2> QED BY <2>2, <2>3, <2>4, <2>5, <2>6
<1>7. CASE ~Fits
  <2>1. /\ working_quotient' = working_quotient
        /\ working_dividend' = working_dividend
        /\ working_dividend < working_divisor
    BY <1>1, <1>7 DEF Subtract, Fits
  <2>2. Divisor > 0 => working_dividend' < Divisor * p
    BY <2>1, <1>3
  <2>3. working_quotient' + p <= Pow2[N + Q]
    BY <2>1, <1>1, <1>3
  <2>4. /\ working_quotient' \in Nat /\ working_dividend' \in Nat
        /\ working_dividend' <= working_dividend
    BY <2>1, <1>1
  <2>5. \E j \in 0..working_quotient' : working_quotient' = j * p
    BY <2>1, <1>5
  <2> QED BY <2>1, <2>2, <2>3, <2>4, <2>5, <1>3
<1> QED BY <1>6, <1>7

(* A multiple of an even number, shifted right.                            *)
LEMMA Halved ==
    ASSUME NEW d \in Nat, NEW h \in Nat
    PROVE  (d * (2 * h)) \div 2 = d * h
<1> DEFINE x == d * h
<1>1. x \in Nat /\ d * (2 * h) = 2 * x
  BY ProductNat, SMTT(30)
<1> HIDE DEF x
<1>2. (2 * x) \div 2 = x
  BY <1>1
<1> QED BY <1>1, <1>2 DEF x

(* The result of a division that ends with the quotient q.                 *)
LEMMA FinalQuotient ==
    ASSUME NEW q \in Nat, NEW r \in Nat, NEW d \in Nat, NEW D \in Nat,
           NEW half \in Nat, half >= 1,
           q * d + r = D, r < 2 * d, d > 0, D < half * d
    PROVE  /\ q < 2 * half /\ q % (2 * half) = q
           /\ q * d <= D /\ D < (q + 2) * d
<1>1. q * d \in Nat /\ half * d \in Nat /\ (q + 2) * d = q * d + 2 * d
  BY ProductNat, SMTT(30)
<1>2. q * d <= D /\ D < (q + 2) * d
  BY <1>1
<1>3. q < half
  <2> SUFFICES ASSUME half <= q PROVE FALSE
    OBVIOUS
  <2>1. half = q \/ half < q
    OBVIOUS
  <2>2. half * d <= q * d
    BY <2>1, <1>1, Scale
  <2> QED BY <2>2, <1>1, <1>2
<1>4. q < 2 * half /\ 2 * half \in Nat /\ 2 * half > 0
  BY <1>3
<1> DEFINE whole == 2 * half
<1>5. q < whole /\ whole \in Nat /\ whole > 0
  BY <1>4
<1> HIDE DEF whole
<1>6. q % whole = q
  BY <1>5
<1> QED BY <1>2, <1>4, <1>6 DEF whole
LEMMA StepInv == IndInv /\ Step => IndInv'
<1> SUFFICES ASSUME IndInv, Step PROVE IndInv'
  OBVIOUS
<1> DEFINE p == Pow2[count]
<1>1. /\ TypeOK /\ DividingInv /\ ~done /\ Subtract
      /\ i_dividend' = i_dividend /\ i_divisor' = i_divisor /\ sign' = sign
  BY DEF IndInv, Step, ports
<1>2. /\ count \in 0..(N + Q - 1) /\ count \in 0..(2 * N + Q)
      /\ N \in Nat /\ Q \in Nat /\ N > 1
  BY <1>1, WidthAssumption DEF DividingInv
<1>3. p \in Nat /\ p >= 1
  BY <1>2, PowerFacts
<1>4. /\ working_quotient' \in Nat /\ working_dividend' \in Nat
      /\ working_dividend' <= working_dividend
      /\ working_quotient' * Divisor + working_dividend' = Dividend
      /\ Divisor > 0 => working_dividend' < Divisor * p
      /\ \E j \in 0..working_quotient' : working_quotient' = j * p
      /\ working_quotient' + p <= Pow2[N + Q]
  BY <1>1, <1>3, SubtractInv
<1>5. /\ Divisor' = Divisor /\ Dividend' = Dividend
      /\ Divisor \in Nat /\ Dividend \in Nat
  <2>1. Divisor' = Divisor /\ Dividend' = Dividend
    BY <1>1 DEF Divisor, Dividend
  <2>2. /\ i_dividend \in Words /\ i_divisor \in Words
        /\ Pow2[Q] \in Nat
    BY <1>1, <1>2, PowerFacts DEF TypeOK
  <2> QED BY <2>1, <2>2, MagnitudeRange, ProductNat DEF Divisor, Dividend
<1>6. /\ working_quotient \in Nat /\ working_dividend \in Nat /\ working_divisor \in Nat
      /\ working_divisor = Divisor * p
      /\ working_divisor' = working_divisor \div 2
  BY <1>1, <1>2, PowerFacts DEF TypeOK, DividingInv, Subtract
<1>7. TypeOK'
  <2>1. working_quotient' \in 0..(Pow2[N + Q] - 1)
    <3>1. Pow2[N + Q] \in Nat
      BY <1>2, PowerFacts
    <3> HIDE DEF p
    <3> QED BY <1>3, <1>4, <3>1
  <2>2. working_dividend' \in 0..(Pow2[N - 1 + Q] - 1)
    <3>1. N - 1 + Q \in 0..(2 * N + Q)
      BY <1>2
    <3>2. Pow2[N - 1 + Q] \in Nat /\ working_dividend \in 0..(Pow2[N - 1 + Q] - 1)
      BY <3>1, <1>1, PowerFacts DEF TypeOK
    <3> QED BY <1>4, <1>6, <3>2
  <2>3. working_divisor' \in 0..(Pow2[2 * N + Q - 2] - 1)
    <3>1. 2 * N + Q - 2 \in 0..(2 * N + Q)
      BY <1>2
    <3>2. Pow2[2 * N + Q - 2] \in Nat
          /\ working_divisor \in 0..(Pow2[2 * N + Q - 2] - 1)
      BY <3>1, <1>1, PowerFacts DEF TypeOK
    <3>3. working_divisor \div 2 \in Nat /\ working_divisor \div 2 <= working_divisor
      BY <1>6
    <3> QED BY <1>6, <3>2, <3>3
  <2>4. Pow2[N] \in Nat /\ Pow2[N] >= 1
    BY <1>2, PowerFacts
  <2>5. count' \in Words
    <3>1. count \in Words /\ count' = IF count = 0 THEN Pow2[N] - 1 ELSE count - 1
      BY <1>1 DEF TypeOK, Step
    <3> QED BY <3>1, <2>4 DEF Words
  <2>6. quotient' \in Words
    <3>1. CASE count = 0
      <4>1. quotient' = working_quotient % Pow2[N]
        BY <3>1 DEF Step, Finish
      <4> QED BY <4>1, <2>4, <1>6 DEF Words
    <3>2. CASE count # 0
      BY <3>2, <1>1 DEF Step, TypeOK
    <3> QED BY <3>1, <3>2
  <2>7. done' \in BOOLEAN /\ overflow' \in BOOLEAN
    <3>1. CASE count = 0
      BY <3>1 DEF Step, Finish
    <3>2. CASE count # 0
      BY <3>2, <1>1 DEF Step, TypeOK
    <3> QED BY <3>1, <3>2
  <2>8. i_dividend' \in Words /\ i_divisor' \in Words /\ sign' \in BOOLEAN
    BY <1>1 DEF TypeOK
  <2> QED BY <2>1, <2>2, <2>3, <2>5, <2>6, <2>7, <2>8 DEF TypeOK
<1>8. CASE count # 0
  <2> DEFINE h == Pow2[count - 1]
  <2>1. done' = done /\ count' = count - 1
    BY <1>8 DEF Step
  <2>2. h \in Nat /\ h >= 1 /\ p = 2 * h
    <3>1. count \in 1..(2 * N + Q) /\ count - 1 \in 0..(2 * N + Q)
      BY <1>8, <1>2
    <3> QED BY <3>1, PowerFacts
  <2> HIDE DEF p, h
  <2>3. working_divisor' = Divisor * h
    BY <1>5, <1>6, <2>2, Halved
  <2>4. Divisor > 0 => working_dividend' < 2 * working_divisor'
    <3>1. Divisor * p = 2 * (Divisor * h)
      BY <1>5, <2>2, SMTT(30)
    <3> QED BY <3>1, <2>3, <1>4
  <2>5. DividingInv'
    <3>1. Pow2[count'] = h
      BY <2>1 DEF h
    <3>2. count' \in 0..(N + Q - 1)
      BY <2>1, <1>2, <1>8
    <3>3. \E k \in 0..working_quotient' : working_quotient' = k * (2 * h)
      BY <1>4, <2>2
    <3>4. working_quotient' + 2 * h <= Pow2[N + Q]
      BY <1>4, <2>2
    <3>5. working_quotient' * Divisor' + working_dividend' = Dividend'
      BY <1>4, <1>5
    <3> QED BY <2>3, <2>4, <3>1, <3>2, <3>3, <3>4, <3>5, <1>5 DEF DividingInv
  <2>6. QuotientWithinTwo'
    BY <2>1, <1>1 DEF QuotientWithinTwo
  <2> QED BY <1>7, <2>5, <2>6 DEF IndInv
<1>9. CASE count = 0
  <2>1. /\ done' = TRUE
        /\ quotient' = working_quotient % Pow2[N]
        /\ overflow' <=> working_quotient >= Pow2[N]
    BY <1>9 DEF Step, Finish
  <2>2. p = 1
    BY <1>9, Pow2Assumption
  <2>3. /\ working_quotient * Divisor + working_dividend = Dividend
        /\ Divisor > 0 => working_dividend < 2 * Divisor
        /\ \E k \in 0..working_quotient : working_quotient = 2 * k
    <3>1. working_divisor = Divisor
      BY <1>5, <1>6, <2>2
    <3>2. PICK k \in 0..working_quotient : working_quotient = k * (2 * p)
      BY <1>1 DEF DividingInv
    <3>3. working_quotient = 2 * k
      BY <3>2, <2>2
    <3> QED BY <3>1, <3>3, <1>1 DEF DividingInv
  <2>4. QuotientWithinTwo'
    <3> SUFFICES ASSUME Divisor > 0, Dividend < Pow2[N - 1] * Divisor
                 PROVE  /\ ~overflow'
                        /\ \E k \in 0..quotient' : quotient' = 2 * k
                        /\ quotient' * Divisor <= Dividend
                        /\ Dividend < (quotient' + 2) * Divisor
      BY <1>5 DEF QuotientWithinTwo, Representable
    <3>1. /\ Pow2[N - 1] \in Nat /\ Pow2[N - 1] >= 1
          /\ Pow2[N] = 2 * Pow2[N - 1]
      BY <1>2, PowerFacts
    <3>2. /\ working_quotient < Pow2[N]
          /\ working_quotient % Pow2[N] = working_quotient
          /\ working_quotient * Divisor <= Dividend
          /\ Dividend < (working_quotient + 2) * Divisor
      <4> DEFINE half == Pow2[N - 1]
      <4>1. /\ half \in Nat /\ half >= 1
            /\ Dividend < half * Divisor
            /\ working_dividend < 2 * Divisor
            /\ working_quotient * Divisor + working_dividend = Dividend
        BY <3>1, <2>3
      <4> HIDE DEF half
      <4>2. /\ working_quotient < 2 * half
            /\ working_quotient % (2 * half) = working_quotient
            /\ working_quotient * Divisor <= Dividend
            /\ Dividend < (working_quotient + 2) * Divisor
        BY <4>1, <1>5, <1>6, FinalQuotient
      <4> QED BY <4>2, <3>1 DEF half
    <3>3. quotient' = working_quotient
      BY <3>2, <2>1
    <3>4. ~overflow'
      BY <3>1, <3>2, <2>1, <1>6
    <3> QED BY <3>2, <3>3, <3>4, <2>3
  <2>5. DividingInv'
    BY <2>1 DEF DividingInv
  <2> QED BY <1>7, <2>4, <2>5 DEF IndInv
<1> QED BY <1>8, <1>9
-----------------------------------------------------------------------------
(* The remainder stays below the shifted divisor and the bits found so far *)
(* account for what was subtracted, for every width.                       *)
THEOREM DividerInvariant == Spec => []IndInv
<1>1. Init => IndInv
  BY InitInv
<1>2. IndInv /\ [Next]_vars => IndInv'
  <2> SUFFICES ASSUME IndInv, [Next]_vars PROVE IndInv'
    OBVIOUS
  <2>1. CASE Start
    BY <2>1, StartInv
  <2>2. CASE Step
    BY <2>2, StepInv
  <2>3. CASE UNCHANGED vars
    BY <2>3 DEF IndInv, TypeOK, DividingInv, QuotientWithinTwo, Representable,
                Dividend, Divisor, vars, ports, working
  <2> QED BY <2>1, <2>2, <2>3 DEF Next
<1> QED BY <1>1, <1>2, PTL DEF Spec

(* Every register of the divider keeps to its width: no bit is lost in the *)
(* working copies.                                                         *)
THEOREM DividerTypeOK == Spec => []TypeOK
<1>1. IndInv => TypeOK
  BY DEF IndInv
<1> QED BY <1>1, DividerInvariant, PTL

(* Where the quotient fits, the divider returns it up to its last bit, and *)
(* raises no overflow.                                                     *)
THEOREM DividerQuotientWithinTwo == Spec => []QuotientWithinTwo
<1>1. IndInv => QuotientWithinTwo
  BY DEF IndInv
<1> QED BY <1>1, DividerInvariant, PTL

-----------------------------------------------------------------------------
(* Facts about the powers of two that are widths here.                     *)
LEMMA Powers ==
    /\ N \in Nat /\ Q \in Nat /\ N > 1 /\ N < Pow2[N] /\ Pow2[0] = 1
    /\ \A i \in 0..(2 * N + Q) : Pow2[i] \in Nat /\ Pow2[i] >= 1
    /\ \A i \in 0..(N - 1) : Pow2[i + 1] = 2 * Pow2[i]
    /\ Pow2[N] = 2 * Pow2[N - 1]
    /\ Pow2[Wide] \in Nat /\ Pow2[Wide] = Pow2[N - 1] * Pow2[N]
<1>0. N \in Nat /\ Q \in Nat /\ N > 1 /\ N + Q < Pow2[N]
  BY WidthAssumption
<1>1. \A i \in 0..(2 * N + Q) : Pow2[i] \in Nat /\ Pow2[i] >= 1
  <2>1. Pow2 \in [0..(2 * N + Q) -> Nat \ {0}]
    BY Pow2Assumption
  <2> QED BY <2>1
<1>2. N < Pow2[N] /\ Pow2[0] = 1
  <2>1. N \in 0..(2 * N + Q)
    BY <1>0
  <2>2. Pow2[N] \in Nat
    BY <2>1, <1>1
  <2>3. N < Pow2[N]
    BY <2>2, <1>0
  <2>4. Pow2[0] = 1
    BY Pow2Assumption
  <2> QED BY <2>3, <2>4
<1>3. \A i \in 0..(N - 1) : Pow2[i + 1] = 2 * Pow2[i]
  <2> SUFFICES ASSUME NEW i \in 0..(N - 1) PROVE Pow2[i + 1] = 2 * Pow2[i]
    OBVIOUS
  <2>1. 1 \in 0..(2 * N + Q) /\ i \in 0..(2 * N + Q) /\ 1 + i <= 2 * N + Q
    BY <1>0
  <2>2. Pow2[1 + i] = Pow2[1] * Pow2[i] /\ 1 + i = i + 1
    BY <2>1, Pow2Assumption
  <2> QED BY <2>2, Pow2Assumption
<1>4. Pow2[N] = 2 * Pow2[N - 1]
  BY <1>3, <1>0
<1>5. Pow2[(N - 1) + N] = Pow2[N - 1] * Pow2[N] /\ (N - 1) + N = Wide
  BY Pow2Assumption, <1>0 DEF Wide
<1>6. Pow2[Wide] \in Nat
  BY <1>0, <1>1 DEF Wide
<1> QED BY <1>0, <1>1, <1>2, <1>3, <1>4, <1>5, <1>6

(* Smaller factors, smaller products.                                      *)
LEMMA ProductLess ==
    ASSUME NEW a \in Nat, NEW b \in Nat, NEW c \in Nat, NEW d \in Nat,
           a < c, b <= d, d > 0
    PROVE  a * b < c * d
<1>1. (c - a) * d >= d
  BY SMTT(30)
<1>2. a * (d - b) >= 0
  BY SMTT(30)
<1>3. c * d = a * b + a * (d - b) + (c - a) * d
  BY SMTT(30)
<1>4. a * b \in Nat /\ a * (d - b) \in Int /\ (c - a) * d \in Int
  BY SMTT(30)
<1> QED BY <1>1, <1>2, <1>3, <1>4

(* One more bit of w: what a shift and an addition rely on.                *)
LEMMA BitSplit ==
    ASSUME NEW w \in Nat, NEW p \in Nat, p >= 1
    PROVE  w % (2 * p) = (IF (w \div p) % 2 = 1 THEN (w % p) + p ELSE w % p)
<1> DEFINE k == w \div p
           r == w % p
           m == k \div 2
           b == k % 2
<1>1. k \in Nat /\ r \in 0..(p - 1) /\ w = p * k + r
  BY Division
<1>2. m \in Nat /\ b \in 0..1 /\ k = 2 * m + b
  BY <1>1, Division
<1> HIDE DEF k, r, m, b
<1>3. p * k = (2 * p) * m + p * b
  BY <1>1, <1>2, SMTT(30)
<1>4. p * b = (IF b = 1 THEN p ELSE 0)
  BY <1>2
<1>5. p * b + r \in 0..(2 * p - 1)
  BY <1>1, <1>2, <1>4
<1>6. w = (2 * p) * m + (p * b + r)
  <2>1. (2 * p) * m \in Nat /\ p * b \in Nat
    BY <1>2, ProductNat
  <2> QED BY <1>1, <1>3, <2>1
<1>7. w % (2 * p) = p * b + r
  <2>1. \A q \in Nat, s \in 0..(2 * p - 1) : q = 2 * p => (q * m + s) % q = s
    BY <1>2, Remainder
  <2>2. 2 * p \in Nat /\ p * b + r \in 0..(2 * p - 1)
    BY <1>5
  <2>3. ((2 * p) * m + (p * b + r)) % (2 * p) = p * b + r
    BY <2>1, <2>2
  <2> QED BY <2>3, <1>6
<1> QED BY <1>1, <1>2, <1>4, <1>7 DEF r, b, k

(* Powers no greater than 2^N.                                             *)
LEMMA PowerBelow == ASSUME NEW i \in 0..N PROVE Pow2[i] <= Pow2[N]
<1>1. N \in Nat /\ Q \in Nat
  BY Powers
<1>2. i \in 0..(2 * N + Q) /\ N - i \in 0..(2 * N + Q) /\ i + (N - i) = N /\ N <= 2 * N + Q
  BY <1>1
<1>3. Pow2[i + (N - i)] = Pow2[i] * Pow2[N - i]
  BY <1>1, <1>2, Pow2Assumption
<1>4. Pow2[i] \in Nat /\ Pow2[i] >= 1 /\ Pow2[N - i] \in Nat /\ Pow2[N - i] >= 1
  BY <1>2, Powers
<1>5. Pow2[i] * Pow2[N - i] >= Pow2[i]
  <2> DEFINE a == Pow2[i]
             c == Pow2[N - i]
  <2> HIDE DEF a, c
  <2>1. a \in Nat /\ c \in Nat /\ c >= 1
    BY <1>4 DEF a, c
  <2>2. a * c >= a
    BY <2>1, SMTT(30)
  <2> QED BY <2>2 DEF a, c
<1> QED BY <1>2, <1>3, <1>5
-----------------------------------------------------------------------------
(* What a multiplication under way relies on.                              *)
Underway == ~mdone => mcount \in 0..N /\ multiplicand_temp = Multiplicand

MulInv == MulTypeOK /\ Underway /\ PartialProduct /\ EvenProductExact

LEMMA Constants ==
    /\ N \in Nat /\ Q \in Nat /\ N > 1 /\ Q < N /\ N < Pow2[N] /\ Pow2[0] = 1
    /\ Pow2[N] \in Nat /\ Pow2[N] >= 1
    /\ Pow2[N - 1] \in Nat /\ Pow2[N - 1] >= 1
    /\ Pow2[Wide] \in Nat /\ Pow2[Wide] >= 1
    /\ Pow2[N - 1 + Q] \in Nat /\ Pow2[N - 1 + Q] >= 1
<1>1. N \in Nat /\ Q \in Nat /\ N > 1 /\ Q < N /\ N < Pow2[N] /\ Pow2[0] = 1
  BY Powers, WidthAssumption
<1>2. /\ N \in 0..(2 * N + Q) /\ N - 1 \in 0..(2 * N + Q)
      /\ Wide \in 0..(2 * N + Q) /\ N - 1 + Q \in 0..(2 * N + Q)
  BY <1>1 DEF Wide
<1> QED BY <1>1, <1>2, Powers

LEMMA MulInitInv == MulInit => MulInv
<1> SUFFICES ASSUME MulInit PROVE MulInv
  OBVIOUS
<1>1. 0 \in Words
  BY Constants DEF Words
<1>2. MulTypeOK
  <2>1. mdone \in BOOLEAN /\ msign \in BOOLEAN /\ moverflow \in BOOLEAN
    BY DEF MulInit
  <2>2. mcount \in 0..(N + 1)
    BY Constants DEF MulInit
  <2> QED BY <1>1, <2>1, <2>2, Constants DEF MulInit, MulTypeOK
<1>3. Underway /\ PartialProduct
  BY DEF MulInit, Underway, PartialProduct
<1>4. EvenProductExact
  <2>1. Multiplicand = 0 /\ Factor = 0
    BY Constants DEF MulInit, Multiplicand, Factor, Magnitude, Negative
  <2>2. ~(0 * 0 >= Pow2[N - 1 + Q])
    BY Constants
  <2>3. working_result = 0 * 0 /\ moverflow = FALSE
    BY DEF MulInit
  <2> QED BY <2>1, <2>2, <2>3 DEF EvenProductExact
<1> QED BY <1>2, <1>3, <1>4 DEF MulInv

LEMMA FirstBits == ASSUME NEW w \in Nat PROVE w % 1 = 0 /\ w * 0 = 0 /\ w * 1 = w
<1>1. w % 1 \in 0..(1 - 1)
  BY Division
<1> QED BY <1>1

(* A multiplication that has just begun has seen no bit.                   *)
LEMMA MulStartInv == MulInv /\ MulStart => MulInv'
<1> SUFFICES ASSUME MulStart PROVE MulInv'
  OBVIOUS
<1> DEFINE a == Magnitude(i_multiplicand')
           b == Magnitude(i_multiplier')
<1>1. /\ i_multiplicand' \in Words /\ i_multiplier' \in Words
      /\ a \in Nat /\ a < Pow2[N - 1]
      /\ b \in Nat /\ b < Pow2[N - 1]
  BY MagnitudeRange DEF MulStart
<1>2. /\ Multiplicand' = a /\ Factor' = b
      /\ multiplicand_temp' = a /\ multiplier_temp' = b
      /\ working_result' = 0 /\ mcount' = 0 /\ mdone' = FALSE /\ moverflow' = FALSE
  BY DEF MulStart, Multiplicand, Factor
<1> HIDE DEF a, b
<1>3. Pow2[N - 1] <= Pow2[Wide]
  <2> DEFINE n == Pow2[N - 1]
             c == Pow2[N]
  <2>1. n \in Nat /\ c \in Nat /\ c >= 1 /\ Pow2[Wide] = n * c
    BY Constants, Powers
  <2> HIDE DEF n, c
  <2>2. n * c >= n
    BY <2>1, SMTT(30)
  <2> QED BY <2>1, <2>2 DEF n
<1>4. MulTypeOK'
  <2>1. msign' \in BOOLEAN
    BY DEF MulStart
  <2>2. mdone' \in BOOLEAN /\ moverflow' \in BOOLEAN
    BY <1>2
  <2>3. multiplier_temp' \in 0..(Pow2[Wide] - 1) /\ working_result' \in 0..(Pow2[Wide] - 1)
    BY <1>1, <1>2, <1>3, Constants
  <2>4. multiplicand_temp' \in 0..(Pow2[N - 1] - 1) /\ mcount' \in 0..(N + 1)
    BY <1>1, <1>2, Constants
  <2> QED BY <1>1, <2>1, <2>2, <2>3, <2>4 DEF MulTypeOK
<1>5. Underway'
  BY <1>2, Constants DEF Underway
<1>6. PartialProduct'
  BY <1>1, <1>2, FirstBits, Constants DEF PartialProduct
<1>7. EvenProductExact'
  BY <1>2 DEF EvenProductExact
<1> QED BY <1>4, <1>5, <1>6, <1>7 DEF MulInv
-----------------------------------------------------------------------------
(* A cycle that adds a bit that exists.                                    *)
LEMMA AddInv == MulInv /\ MulStep /\ mcount # N => MulInv'
<1> SUFFICES ASSUME MulInv, MulStep, mcount # N PROVE MulInv'
  OBVIOUS
<1> DEFINE a == Multiplicand
           f == Factor
           p == Pow2[mcount]
           w == Pow2[Wide]
           r == a % p
           s == a % (2 * p)
           bit == Bit(a, mcount)
<1>1. /\ i_multiplicand \in Words /\ i_multiplier \in Words
      /\ ~mdone /\ mcount \in 0..(N - 1) /\ multiplicand_temp = a
      /\ working_result = f * r /\ multiplier_temp = f * p
  BY Constants DEF MulInv, MulTypeOK, Underway, PartialProduct, MulStep
<1>2. a \in Nat /\ a < Pow2[N - 1] /\ f \in Nat /\ f < Pow2[N - 1]
  BY <1>1, MagnitudeRange DEF Multiplicand, Factor
<1>3. /\ p \in Nat /\ p >= 1 /\ Pow2[mcount + 1] = 2 * p /\ 2 * p <= Pow2[N]
      /\ w \in Nat /\ w >= 1 /\ w = Pow2[N - 1] * Pow2[N]
  <2>1. mcount \in 0..(2 * N + Q) /\ mcount + 1 \in 0..N
    BY <1>1, Constants
  <2> QED BY <1>1, <2>1, Powers, PowerBelow, Constants
<1>4. r \in 0..(p - 1) /\ s \in 0..(2 * p - 1) /\ s = (IF bit THEN r + p ELSE r)
  <2>1. r \in 0..(p - 1)
    BY <1>2, <1>3, Division
  <2>2. s \in 0..(2 * p - 1)
    <3>1. 2 * p \in Nat /\ 2 * p >= 1
      BY <1>3
    <3> HIDE DEF p, a
    <3> QED BY <1>2, <3>1, Division
  <2> QED BY <2>1, <2>2, <1>2, <1>3, BitSplit DEF Bit
<1>5. /\ i_multiplicand' = i_multiplicand /\ i_multiplier' = i_multiplier
      /\ multiplicand_temp' = multiplicand_temp /\ msign' = msign
      /\ mdone' = mdone /\ moverflow' = moverflow
      /\ mcount' = mcount + 1
  <2>1. (mcount + 1) % Pow2[N] = mcount + 1
    BY <1>1, Constants, SmallRemainder
  <2> QED BY <2>1, <1>1 DEF MulStep, mulPorts
<1>6. /\ working_result' = (IF bit THEN working_result + multiplier_temp
                            ELSE working_result) % w
      /\ multiplier_temp' = (2 * multiplier_temp) % w
  <2>0. mcount < N /\ multiplicand_temp = a
    BY <1>1, Constants
  <2>1. Selected(multiplicand_temp, mcount) = {bit}
    BY <2>0, Zenon DEF Selected
  <2> QED BY <2>1 DEF MulStep, Add
<1>7. Multiplicand' = a /\ Factor' = f
  BY <1>5 DEF Multiplicand, Factor
<1> HIDE DEF a, f, p, w, r, s, bit
<1>8. f * s \in 0..(w - 1) /\ f * (2 * p) \in 0..(w - 1)
  <2>1. f * s < w
    BY <1>2, <1>3, <1>4, Constants, ProductLess
  <2>2. f * (2 * p) < w
    BY <1>2, <1>3, Constants, ProductLess
  <2>3. f * s \in Nat /\ f * (2 * p) \in Nat
    BY <1>2, <1>3, <1>4, ProductNat
  <2> QED BY <2>1, <2>2, <2>3, <1>3
<1>9. working_result' = f * s
  <2>1. (IF bit THEN working_result + multiplier_temp ELSE working_result) = f * s
    <3>1. f * (r + p) = f * r + f * p
      BY <1>2, <1>3, <1>4, SMTT(30)
    <3> QED BY <3>1, <1>1, <1>4
  <2> QED BY <2>1, <1>3, <1>6, <1>8, SmallRemainder
<1>10. multiplier_temp' = f * (2 * p)
  <2>1. 2 * multiplier_temp = f * (2 * p)
    BY <1>1, <1>2, <1>3, SMTT(30)
  <2> QED BY <2>1, <1>3, <1>6, <1>8, SmallRemainder
<1>11. MulTypeOK'
  <2>1. mcount' \in 0..(N + 1)
    BY <1>1, <1>5, Constants
  <2>2. working_result' \in 0..(Pow2[Wide] - 1) /\ multiplier_temp' \in 0..(Pow2[Wide] - 1)
    BY <1>8, <1>9, <1>10 DEF w
  <2> QED BY <2>1, <2>2, <1>5 DEF MulInv, MulTypeOK
<1>12. Underway'
  BY <1>1, <1>5, <1>7, Constants DEF Underway
<1>13. PartialProduct'
  BY <1>1, <1>3, <1>5, <1>7, <1>9, <1>10 DEF PartialProduct, s
<1>14. EvenProductExact'
  BY <1>1, <1>5 DEF EvenProductExact
<1> QED BY <1>11, <1>12, <1>13, <1>14 DEF MulInv

(* The cycle past the last bit.                                            *)
LEMMA LastInv == MulInv /\ MulStep /\ mcount = N => MulInv'
<1> SUFFICES ASSUME MulInv, MulStep, mcount = N PROVE MulInv'
  OBVIOUS
<1> DEFINE a == Multiplicand
           f == Factor
           w == Pow2[Wide]
<1>1. /\ i_multiplicand \in Words /\ i_multiplier \in Words
      /\ ~mdone /\ multiplicand_temp = a /\ working_result = f * (a % Pow2[N])
      /\ working_result \in 0..(w - 1) /\ multiplier_temp \in 0..(w - 1)
  BY DEF MulInv, MulTypeOK, Underway, PartialProduct, MulStep
<1>2. a \in Nat /\ a < Pow2[N - 1] /\ f \in Nat /\ w \in Nat /\ w >= 1
  BY <1>1, Constants, MagnitudeRange DEF Multiplicand, Factor
<1>3. a % Pow2[N] = a
  <2>1. a \in 0..(Pow2[N] - 1)
    BY <1>2, Constants, Powers
  <2> QED BY <2>1, Constants, SmallRemainder
<1>4. /\ i_multiplicand' = i_multiplicand /\ i_multiplier' = i_multiplier
      /\ multiplicand_temp' = multiplicand_temp /\ msign' = msign
      /\ mdone' = TRUE /\ (moverflow' <=> working_result >= Pow2[N - 1 + Q])
      /\ moverflow' \in BOOLEAN
      /\ mcount' = (N + 1) % Pow2[N]
  <2>1. /\ i_multiplicand' = i_multiplicand /\ i_multiplier' = i_multiplier
        /\ multiplicand_temp' = multiplicand_temp /\ msign' = msign
        /\ mcount' = (N + 1) % Pow2[N]
    BY DEF MulStep, mulPorts
  <2>2. MulFinish
    BY DEF MulStep
  <2>3. mdone' = TRUE /\ moverflow' = (working_result >= Pow2[N - 1 + Q])
    BY <2>2 DEF MulFinish
  <2>4. moverflow' <=> working_result >= Pow2[N - 1 + Q]
    BY <2>3
  <2>5. moverflow' \in BOOLEAN
    BY <2>2 DEF MulFinish
  <2> QED BY <2>1, <2>3, <2>4, <2>5, Zenon
<1>5. Multiplicand' = a /\ Factor' = f
  BY <1>4 DEF Multiplicand, Factor
<1>6. PICK bit \in Selected(multiplicand_temp, mcount) :
        working_result' = (IF bit THEN working_result + multiplier_temp
                           ELSE working_result) % w
  BY DEF MulStep, Add
<1>7. multiplier_temp' = (2 * multiplier_temp) % w
  BY DEF MulStep, Add
<1>8. a % 2 = 0 => ~bit
  <2>1. a \div Pow2[0] = a
    <3>1. a = 1 * (a \div 1) + (a % 1) /\ a % 1 = 0 /\ a \div 1 \in Nat
      BY <1>2, Division, FirstBits
    <3> QED BY <3>1, Constants
  <2>2. a % 2 = 0 => ~Bit(a, 0)
    BY <2>1 DEF Bit
  <2>3. Selected(a, mcount) = {FALSE, Bit(a, 0)}
    <3>1. ~(mcount < N)
      BY Constants
    <3> QED BY <3>1, Zenon DEF Selected
  <2> HIDE DEF a
  <2> QED BY <1>1, <1>6, <2>2, <2>3, Zenon
<1> HIDE DEF a, f, w
<1>9. a % 2 = 0 => working_result' = f * a
  BY <1>1, <1>2, <1>3, <1>6, <1>8, SmallRemainder
<1>10. working_result' \in 0..(w - 1) /\ multiplier_temp' \in 0..(w - 1)
  <2>1. working_result + multiplier_temp \in Nat /\ 2 * multiplier_temp \in Nat
    BY <1>1, <1>2
  <2>2. (IF bit THEN working_result + multiplier_temp ELSE working_result) \in Nat
    BY <1>1, <1>2, <2>1
  <2> QED BY <2>1, <2>2, <1>2, <1>6, <1>7, Division
<1>11. MulTypeOK'
  <2>1. mcount' \in 0..(N + 1)
    <3>1. CASE N + 1 < Pow2[N]
      <4>1. (N + 1) % Pow2[N] = N + 1
        BY <3>1, Constants, SmallRemainder
      <4> QED BY <4>1, <1>4, Constants
    <3>2. CASE ~(N + 1 < Pow2[N])
      <4>1. N + 1 \in Nat
        BY Constants
      <4>2. (N + 1) % Pow2[N] \in 0..(Pow2[N] - 1)
        BY <4>1, Constants, Division
      <4> QED BY <3>2, <4>2, <1>4, Constants
    <3> QED BY <3>1, <3>2
  <2>2. mdone' \in BOOLEAN
    BY <1>4
  <2> QED BY <2>1, <2>2, <1>4, <1>10 DEF MulInv, MulTypeOK, w
<1>12. Underway' /\ PartialProduct'
  BY <1>4 DEF Underway, PartialProduct
<1>13. EvenProductExact'
  <2>1. f * a = a * f
    BY <1>2
  <2>2. moverflow' <=> f * a >= Pow2[N - 1 + Q]
    BY <1>1, <1>3, <1>4
  <2> QED BY <2>1, <2>2, <1>5, <1>9 DEF EvenProductExact
<1> QED BY <1>11, <1>12, <1>13 DEF MulInv
-----------------------------------------------------------------------------
(* A multiplication of any two words keeps MulInv.                         *)
LEMMA MulStepInv == MulInv /\ [MulNext]_mulVars => MulInv'
<1>1. MulInv /\ UNCHANGED mulVars => MulInv'
  BY DEF MulInv, MulTypeOK, Underway, PartialProduct, EvenProductExact, Multiplicand, Factor,
         mulVars, mulPorts, mulWorking
<1> QED BY <1>1, MulStartInv, AddInv, LastInv DEF MulNext

THEOREM MultiplierInvariant == MulSpec => []MulInv
<1> QED BY MulInitInv, MulStepInv, PTL DEF MulSpec

(* While it multiplies, the working registers of multiplier hold the       *)
(* multiplier times the bits seen so far, and its next power of two; no    *)
(* carry of always_ff's additions and shifts is lost.                      *)
THEOREM MultiplierPartialProduct == MulSpec => []PartialProduct
<1>1. MulInv => PartialProduct
  BY DEF MulInv
<1> QED BY <1>1, MultiplierInvariant, PTL

(* The product of an even multiplicand is exact and its overflow is        *)
(* reported, although the last cycle reads a bit that does not exist.      *)
THEOREM MultiplierEvenProductExact == MulSpec => []EvenProductExact
<1>1. MulInv => EvenProductExact
  BY DEF MulInv
<1> QED BY <1>1, MultiplierInvariant, PTL
=============================================================================
