---------------------------- MODULE Vertex_proofs ----------------------------
(***************************************************************************)
(* Proofs about the way of a vertex: NiosProgram, for any files, triangles *)
(* and runs, and Projection, for words and screens of any size and any     *)
(* tables of sine and cosine.                                              *)
(***************************************************************************)
EXTENDS Projection, NiosProgram, NumberFacts, FiniteSetTheorems, TLAPS

(***************************************************************************)
(* Projection: a vertex becomes the nearest pixel.                         *)
(***************************************************************************)
(* What the units make of a coordinate c at depth z: the quotient, without *)
(* its last bit, with the sign back on it, scaled to the screen, and the   *)
(* pixel.                                                                  *)
Cut(c, z)          == 2 * ((Abs(c) * One) \div (2 * z))
Signed(c, z)       == IF c < 0 THEN -Cut(c, z) ELSE Cut(c, z)
Scaled(c, z, extent) == ((Signed(c, z) + One) * ((extent * One) \div 2)) \div One
Pixel(w)           == (w + One \div 2) \div One

(* For this vertex: its magnitudes, the quotients, the places between -1   *)
(* and 1, the places on the screen, rounded and cut to pixels.             *)
C  == (3 * X) \div 4
AX == Abs(X)
AC == Abs(C)
QX == Cut(C, zplusthree)
QY == Cut(Y, zplusthree)
PX == Signed(C, zplusthree)
PY == Signed(Y, zplusthree)
WX == Scaled(C, zplusthree, WIDTH)
WY == Scaled(Y, zplusthree, HEIGHT)
RX == IF RoundsUp(WX) THEN WX + One ELSE WX
RY == IF RoundsUp(WY) THEN WY + One ELSE WY
NX == Pixel(WX) * One
NY == Pixel(WY) * One

NoFlips == ~flipX /\ ~flipY /\ ~flipDivider
Now(S) == State \in S

(* The registers in each state, from the inputs alone.                     *)
Prepared ==
    /\ Now({"WAIT", "S1", "S2", "S3"}) => /\ tempy = 0 /\ multy = 0
                                         /\ ~flipY /\ ~flipDivider
    /\ Now({"WAIT", "S1"}) => ~flipX
    /\ Now({"S2", "S3"}) => tempx = AX /\ multx = aspect_ratio
    /\ Now({"S2", "S3", "S4", "S5"}) => (flipX <=> X < 0) /\ ~flipY /\ ~flipDivider
    /\ Now({"S3"}) => multiplying \in {Idle, <<AX, aspect_ratio, 0, 0>>}
    /\ Now({"S4"}) \/ (Now({"S3"}) /\ multiplying = Idle) => productx = AC

Divisible ==
    /\ Now({"S5"}) => tempx = AC /\ tempy = Y
    /\ Now({"S7", "S8"}) => tempx = C /\ tempy = Y /\ NoFlips
    /\ Now({"S9", "S10"}) => tempx = AC /\ tempy = Y
    /\ Now({"S9", "S10", "S11", "S12"}) => (flipX <=> C < 0) /\ ~flipY /\ ~flipDivider
    /\ Now({"S10"}) => dividing \in {Idle, <<AC, Y, zplusthree>>}
    /\ Now({"S11"}) \/ (Now({"S10"}) /\ dividing = Idle) =>
          quotientx = QX /\ quotienty = QY
    /\ Now({"S12"}) => tempx = QX /\ tempy = QY

Screened ==
    /\ Now({"S13", "S14", "S15", "S16", "S17", "S18"}) => NoFlips
    /\ Now({"S13"}) => tempx = PX /\ tempy = PY
    /\ Now({"S14", "S15", "S16"}) => tempx = PX + One /\ tempy = PY + One
    /\ Now({"S15", "S16"}) => multx = width /\ multy = height
    /\ Now({"S16"}) => multiplying \in {Idle, <<PX + One, width, PY + One, height>>}
    /\ Now({"S16"}) /\ multiplying = Idle => productx = WX /\ producty = WY
    /\ Now({"S17", "S18"}) => tempx = WX /\ tempy = WY
    /\ Now({"S19"}) => tempx = RX /\ tempy = RY
    /\ Now({"DONESTATE1"}) => tempx = NX /\ tempy = NY
    /\ DONE => /\ Now({"DONESTATE2"})
               /\ newx = NX /\ newy = NY

States == {"WAIT", "S00", "S1", "S2", "S3", "S4", "S5", "S7", "S8", "S9", "S10", "S11",
           "S12", "S13", "S14", "S15", "S16", "S17", "S18", "S19",
           "DONESTATE1", "DONESTATE2"}
Inputs ==
    /\ vertex \in Vertices /\ angle \in Angles
    /\ State \in States /\ DONE \in BOOLEAN
    /\ flipX \in BOOLEAN /\ flipY \in BOOLEAN /\ flipDivider \in BOOLEAN
    /\ multiplying # Idle => State \in {"S3", "S16"}
    /\ dividing # Idle => State = "S10"

ProjectionInv == Inputs /\ Prepared /\ Divisible /\ Screened
-----------------------------------------------------------------------------
(* Numbers.                                                                *)

Half == One \div 2
H    == M \div 2

LEMMA Quarters ==
    /\ One \in Nat /\ One >= 4 /\ One = 2 * Half /\ Half \in Nat /\ Half >= 2
    /\ One \div 4 \in Nat /\ One = 4 * (One \div 4) /\ aspect_ratio = 3 * (One \div 4)
<1>1. /\ One \in Nat /\ One >= 1 /\ One % 4 = 0
  BY ProjectionAssumption
<1>2. One \div 4 \in Nat /\ One = 4 * (One \div 4) + (One % 4)
  BY <1>1, Division
<1> DEFINE q == One \div 4
<1>3. q \in Nat /\ One = 4 * q
  BY <1>1, <1>2
<1> HIDE DEF q
<1>4. One \div 2 = 2 * q
  <2>1. (2 * (2 * q) + 0) \div 2 = 2 * q
    BY <1>3, Remainder
  <2> QED BY <2>1, <1>3
<1>5. (3 * One) \div 4 = 3 * q
  <2>1. (4 * (3 * q) + 0) \div 4 = 3 * q
    BY <1>3, Remainder
  <2> QED BY <2>1, <1>3
<1> QED BY <1>1, <1>3, <1>4, <1>5 DEF q, Half, aspect_ratio

(* The words: M is 2^32, H the first number that has a sign.               *)
LEMMA Words == /\ H \in Nat /\ H >= 8 * One /\ M = 2 * H /\ M \in Nat /\ M >= 1
               /\ H = One * (2 * One) /\ M = One * (4 * One)
<1>1. One \in Nat /\ One >= 4
  BY Quarters
<1> DEFINE n == One * (2 * One)
<1>2. n \in Nat /\ M = 2 * n /\ M = One * (4 * One)
  BY <1>1, SMTT(30) DEF M
<1>3. n >= 8 * One
  BY <1>1, SMTT(30)
<1> HIDE DEF n
<1>4. (2 * n + 0) \div 2 = n
  BY <1>2, Remainder
<1>5. H = n
  BY <1>2, <1>4 DEF H
<1>6. M \in Nat /\ M >= 1
  BY <1>1, <1>2, <1>3
<1> QED BY <1>1, <1>2, <1>3, <1>5, <1>6 DEF n

(* What is below 0 by less than M is seen as what lies M above it.         *)
LEMMA Borrowed == ASSUME NEW n \in Int, n + M \in 0..(M - 1) PROVE n % M = n + M
<1>1. \A j \in Int : (M * j + (n + M)) % M = n + M
  BY Words, RemainderInt
<1>2. -1 \in Int /\ M * (-1) + (n + M) = n
  BY Words
<1> QED BY <1>1, <1>2

LEMMA WrapFacts == ASSUME NEW n \in Int, -H <= n, n < H PROVE Wrap(n) = n
<1>1. CASE n >= 0
  <2>1. n \in 0..(M - 1)
    BY <1>1, Words
  <2>2. n % M = n
    BY <2>1, Words, SmallRemainder
  <2> QED BY <2>2 DEF Wrap, H
<1>2. CASE n < 0
  <2>1. n + M \in 0..(M - 1) /\ n + M >= H
    BY <1>2, Words
  <2>3. n % M = n + M
    BY <2>1, Borrowed
  <2> QED BY <2>1, <2>3, Words DEF Wrap, H
<1> QED BY <1>1, <1>2

(* The shift divides, and adds 4 to what is negative.                      *)
LEMMA ShiftedFacts ==
    ASSUME NEW p \in Int, -(2 * One) <= p, p <= 2 * One
    PROVE  Shifted(One * p) = IF p < 0 THEN p + 4 * One ELSE p
<1> DEFINE u == IF p < 0 THEN p + 4 * One ELSE p
<1>1. One \in Nat /\ One >= 4 /\ M \in Nat /\ M >= 1 /\ M = One * (4 * One)
  BY Quarters, Words
<1>2. u \in Nat /\ u < 4 * One
  BY <1>1
<1>3. One * u \in 0..(M - 1)
  <2> HIDE DEF u
  <2> QED BY <1>1, <1>2, SMTT(30)
<1>4. (One * p) % M = One * u
  <2>1. CASE p < 0
    <3>1. One * p + M = One * u /\ One * p \in Int
      BY <2>1, <1>1, SMTT(30)
    <3> HIDE DEF u
    <3> QED BY <3>1, <1>3, Borrowed
  <2>2. CASE p >= 0
    <3>1. u = p
      BY <2>2
    <3> HIDE DEF u
    <3> QED BY <3>1, <1>1, <1>3, SmallRemainder
  <2> QED BY <2>1, <2>2
<1>5. (One * u + 0) \div One = u
  <2> HIDE DEF u
  <2> QED BY <1>1, <1>2, Remainder
<1>6. One * u + 0 = One * u
  BY <1>1, <1>3
<1> QED BY <1>4, <1>5, <1>6 DEF Shifted

-----------------------------------------------------------------------------
(* The rotation.  A negative y appears 4 units higher, but then the vertex *)
(* is far enough away: it does not leave the screen, because the tables    *)
(* hold points outside of the square between 1 and -1 on the axes.         *)
Placed ==
    /\ X \in {-One, 0, One}
    /\ Y \in Nat /\ Y < 4 * One /\ Z \in Nat /\ Z < 4 * One
    /\ zplusthree = Z + 3 * One /\ Y <= zplusthree

LEMMA RotationFacts ==
    ASSUME vertex \in Vertices, angle \in Angles
    PROVE  Placed
<1>1. /\ One \in Nat /\ One >= 4
      /\ vertex[1] \in {-One, 0, One} /\ vertex[2] \in {-One, 0, One}
      /\ vertex[3] \in {-One, 0, One}
  BY Quarters, ProjectionAssumption
<1>2. PICK y \in {-1, 0, 1} : vertex[2] = One * y
  BY <1>1
<1>3. PICK z \in {-1, 0, 1} : vertex[3] = One * z
  BY <1>1
<1> DEFINE s == angle.sin
           c == angle.cos
           n == angle.neg_sin
<1>4. s \in (-One)..One /\ c \in (-One)..One /\ n \in (-One)..One
  BY ProjectionAssumption
<1>5. Abs(s) + Abs(c) >= One /\ Abs(n) + Abs(c) >= One /\ s + n \in {-1, 0, 1}
  BY TablesAssumption
<1> HIDE DEF s, c, n
<1> DEFINE p == y * c + s * z
           q == z * c + n * y
<1>6. p \in Int /\ -(2 * One) <= p /\ p <= 2 * One /\ q \in Int /\ -(2 * One) <= q /\ q <= 2 * One
  BY <1>1, <1>2, <1>3, <1>4
<1>7. vertex[2] * c + s * vertex[3] = One * p /\ vertex[3] * c + n * vertex[2] = One * q
  BY <1>1, <1>2, <1>3, <1>4
<1>8. Y = (IF p < 0 THEN p + 4 * One ELSE p) /\ Z = (IF q < 0 THEN q + 4 * One ELSE q)
  <2> HIDE DEF p, q
  <2> QED BY <1>6, <1>7, ShiftedFacts DEF Y, Z, s, c, n
<1>9. p < 0 /\ q >= 0 => One + p <= q
  BY <1>1, <1>2, <1>3, <1>4, <1>5 DEF Abs
<1>10. Y \in Nat /\ Y < 4 * One /\ Z \in Nat /\ Z < 4 * One /\ Y <= Z + 3 * One
  <2> HIDE DEF p, q
  <2> QED BY <1>1, <1>6, <1>8, <1>9
<1>11. zplusthree = Z + 3 * One
  BY <1>1, <1>10, Words, WrapFacts DEF zplusthree
<1> QED BY <1>1, <1>10, <1>11 DEF Placed, X

(* The quotient lacks at most its last bit, and is even.                   *)
LEMMA CutFacts ==
    ASSUME NEW c \in Int, NEW z \in Nat, z >= One, Abs(c) <= z
    PROVE  /\ Abs(c) \in Nat /\ Cut(c, z) \in 0..One
           /\ Cut(c, z) * z <= Abs(c) * One /\ Abs(c) * One < Cut(c, z) * z + 2 * z
           /\ \E k \in Nat : Cut(c, z) = 2 * k
<1> DEFINE a == Abs(c)
           k == (a * One) \div (2 * z)
           r == (a * One) % (2 * z)
<1>1. One \in Nat /\ One >= 4 /\ a \in Nat /\ a <= z
  BY Quarters DEF Abs
<1>2. a * One \in Nat /\ 2 * z \in Nat /\ 2 * z >= 1
  BY <1>1, ProductNat
<1>3. k \in Nat /\ r \in 0..(2 * z - 1) /\ a * One = (2 * z) * k + r
  BY <1>2, Division
<1>4. Cut(c, z) = 2 * k
  BY DEF Cut
<1> HIDE DEF a, k, r
<1>5. (2 * z) * k = (2 * k) * z
  BY <1>3, SMTT(30)
<1>6. (2 * k) * z \in Nat /\ a * One <= z * One
  BY <1>1, <1>3, ProductNat, SMTT(30)
<1>7. 2 * k <= One
  <2> SUFFICES ASSUME 2 * k > One PROVE FALSE
    BY <1>1, <1>3
  <2>1. (2 * k) * z >= (One + 1) * z /\ (One + 1) * z = z * One + z
    BY <1>1, <1>3, SMTT(30)
  <2>2. z * One \in Nat
    BY <1>1, ProductNat
  <2> QED BY <2>1, <2>2, <1>1, <1>2, <1>3, <1>5, <1>6
<1>8. (2 * k) * z <= a * One /\ a * One < (2 * k) * z + 2 * z
  BY <1>2, <1>3, <1>5, <1>6
<1> QED BY <1>1, <1>3, <1>4, <1>7, <1>8 DEF a

LEMMA MagnitudeFacts == ASSUME NEW a \in Nat, a < H PROVE Magnitude(a) = a
  BY Words, SmallRemainder DEF Magnitude, H

LEMMA QuotientFacts ==
    ASSUME NEW a \in Nat, NEW z \in Nat, z >= One, a <= z, z < H
    PROVE  Quotient(a, z) = Cut(a, z)
<1>1. Magnitude(a) = a /\ Magnitude(z) = z /\ Abs(a) = a
  BY MagnitudeFacts, Words DEF Abs
<1>2. Cut(a, z) \in Nat /\ Cut(a, z) < H
  BY <1>1, CutFacts, Words, Quarters
<1>3. Cut(a, z) % H = Cut(a, z)
  BY <1>2, Words, SmallRemainder
<1>4. ~((a < 0) # (z < 0))
  BY Quarters
<1>5. 2 * ((Magnitude(a) * One) \div (2 * Magnitude(z))) = Cut(a, z)
  BY <1>1 DEF Cut
<1> QED BY <1>2, <1>3, <1>4, <1>5 DEF Quotient, SignedWord, H

LEMMA ProductFacts ==
    ASSUME NEW a \in Nat, a < H, NEW b \in Nat, b < H,
           NEW w \in Nat, w < H, (a * b) \div One = w
    PROVE  Product(a, b) = w
<1>1. Magnitude(a) = a /\ Magnitude(b) = b
  BY MagnitudeFacts
<1>2. w % H = w
  BY Words, SmallRemainder
<1>3. ~((a < 0) # (b < 0))
  OBVIOUS
<1> QED BY <1>1, <1>2, <1>3 DEF Product, SignedWord, H

-----------------------------------------------------------------------------
(* The screen.                                                             *)

(* s, a coordinate on the screen from 0 to 2, is scaled by extent / 2.       *)
LEMMA ScaleFacts ==
    ASSUME NEW s \in 0..(2 * One), NEW extent \in Nat, extent < One,
           NEW w, w = (s * ((extent * One) \div 2)) \div One
    PROVE  /\ (extent * One) \div 2 \in Nat /\ (extent * One) \div 2 < H
           /\ w \in Nat /\ w <= extent * One /\ extent * One < H - One
           /\ 2 * w <= s * extent /\ s * extent <= 2 * w + 1
<1>1. /\ One \in Nat /\ One >= 4 /\ One = 2 * Half /\ Half \in Nat /\ Half >= 2
      /\ H \in Nat /\ H >= 8 * One /\ H = One * (2 * One)
  BY Quarters, Words
<1> DEFINE b == (extent * One) \div 2
           e == extent * Half
<1>2. e \in Nat /\ extent * One = 2 * e
  BY <1>1, SMTT(30)
<1>3. b = e
  <2>1. (2 * e + 0) \div 2 = e
    BY <1>2, Remainder
  <2> QED BY <1>2, <2>1
<1>4. extent * One <= H - 2 * One
  <2>1. extent * One <= (One - 1) * One /\ (One - 1) * One = One * One - One
    BY <1>1, SMTT(30)
  <2>2. One * One \in Nat /\ H = 2 * (One * One) /\ One * One >= 4 * One
    BY <1>1, SMTT(30)
  <2> QED BY <1>1, <1>2, <2>1, <2>2
<1>5. b \in Nat /\ b < H /\ extent * One < H - One
  BY <1>1, <1>2, <1>3, <1>4
<1> DEFINE r == (s * e) % One
<1>6. s * e \in Nat
  BY <1>2, ProductNat
<1>7. w \in Nat /\ r \in 0..(One - 1) /\ s * e = One * w + r
  <2>1. w = (s * e) \div One
    BY <1>3
  <2> One \in Nat /\ One >= 1
    BY <1>1
  <2> DEFINE n == s * e
  <2>2. n \in Nat
    BY <1>6
  <2> HIDE DEF n
  <2>3. n \div One \in Nat /\ n % One \in 0..(One - 1) /\ n = One * (n \div One) + (n % One)
    BY <2>2, Division
  <2> QED BY <2>1, <2>3 DEF n
<1> HIDE DEF r
<1>8. s * e = Half * (s * extent) /\ One * w = Half * (2 * w) /\ s * extent \in Nat
  BY <1>1, <1>7, ProductNat, SMTT(30) DEF e
<1> DEFINE t == s * extent
           d == t - 2 * w
<1>9. Half * d = r /\ d \in Int
  <2> HIDE DEF e, t
  <2>1. t \in Nat
    BY <1>8 DEF t
  <2>2. Half * t = Half * (2 * w) + r
    BY <1>6, <1>7, <1>8, <1>1 DEF t
  <2>3. Half * (t - 2 * w) = Half * t - Half * (2 * w)
    BY <1>1, <1>7, <2>1, SMTT(30)
  <2>4. Half * (2 * w) \in Nat
    BY <1>1, <1>7, ProductNat
  <2> QED BY <1>7, <2>1, <2>2, <2>3, <2>4
<1> HIDE DEF d
<1>10. 0 <= d /\ d <= 1
  <2>1. CASE d < 0
    <3>1. Half * d < 0
      BY <1>1, <1>9, <2>1, SMTT(30)
    <3> QED BY <1>7, <1>9, <3>1
  <2>2. CASE d >= 2
    <3>1. Half * d >= 2 * Half
      BY <1>1, <1>9, <2>2, SMTT(30)
    <3> QED BY <1>1, <1>7, <1>9, <3>1
  <2> QED BY <1>9, <2>1, <2>2
<1>11. 2 * w <= s * extent /\ s * extent <= 2 * w + 1
  BY <1>7, <1>8, <1>10 DEF d, t
<1>12. s * extent <= 2 * (extent * One)
  BY <1>1, SMTT(30)
<1>13. w <= extent * One
  <2> HIDE DEF e
  <2> QED BY <1>2, <1>7, <1>8, <1>11, <1>12
<1> QED BY <1>5, <1>7, <1>11, <1>13

(* Adding one to what has bit 14, and cutting, rounds to the nearest pixel. *)
LEMMA PixelFacts ==
    ASSUME NEW w \in Nat
    PROVE  /\ Pixel(w) \in Nat
           /\ 2 * (Pixel(w) * One) <= 2 * w + One /\ 2 * w < 2 * (Pixel(w) * One) + One
           /\ (IF RoundsUp(w) THEN w + One ELSE w) \div One = Pixel(w)
           /\ (Pixel(w) * One) \div One = Pixel(w)
<1>1. /\ One \in Nat /\ One >= 4 /\ One = 2 * Half /\ Half \in Nat /\ Half >= 2
  BY Quarters
<1> DEFINE i == w \div One
           r == w % One
<1>2. i \in Nat /\ r \in 0..(One - 1) /\ w = One * i + r /\ One * i \in Nat
  <2> One \in Nat /\ One >= 1
    BY <1>1
  <2>1. i \in Nat /\ r \in 0..(One - 1) /\ w = One * i + r
    BY Division
  <2> HIDE DEF i, r
  <2> QED BY <2>1, <1>1, ProductNat
<1> HIDE DEF i, r
<1>3. \A j \in Nat, x \in 0..(One - 1) : (One * j + x) \div One = j
  BY <1>1, Remainder
<1>4. One * (i + 1) = One * i + One /\ One * i = Half * (2 * i)
      /\ Half * (2 * i + 1) = Half * (2 * i) + Half
  BY <1>1, <1>2, SMTT(30)
<1>5. CASE r < Half
  <2>1. w + Half = One * i + (r + Half) /\ r + Half \in 0..(One - 1)
    BY <1>1, <1>2, <1>5
  <2>2. Pixel(w) = i
    BY <1>2, <1>3, <2>1 DEF Pixel, Half
  <2>3. (Half * (2 * i) + r) \div Half = 2 * i
    BY <1>1, <1>2, <1>5, Remainder
  <2>4. (2 * i + 0) % 2 = 0
    BY <1>2, Remainder
  <2>5. ~RoundsUp(w)
    BY <1>2, <1>4, <2>3, <2>4 DEF RoundsUp, Half
  <2>6. (w \div One) = i
    BY <1>2, <1>3
  <2>7. (One * i + 0) \div One = i /\ i * One = One * i
    BY <1>1, <1>2, <1>3
  <2>8. (i * One) \div One = i
    BY <1>2, <2>7
  <2>9. 2 * (i * One) <= 2 * w + One /\ 2 * w < 2 * (i * One) + One
    BY <1>1, <1>2, <1>5, <2>7
  <2> QED BY <1>2, <2>2, <2>5, <2>6, <2>8, <2>9
<1>6. CASE r >= Half
  <2>1. w + Half = One * (i + 1) + (r - Half) /\ r - Half \in 0..(One - 1)
    BY <1>1, <1>2, <1>4, <1>6
  <2>2. Pixel(w) = i + 1
    BY <1>2, <1>3, <2>1 DEF Pixel, Half
  <2>3. (Half * (2 * i + 1) + (r - Half)) \div Half = 2 * i + 1
    BY <1>1, <1>2, <1>6, Remainder
  <2>4. (2 * i + 1) % 2 = 1
    BY <1>2, Remainder
  <2>5. RoundsUp(w)
    BY <1>1, <1>2, <1>4, <2>3, <2>4 DEF RoundsUp, Half
  <2>6. w + One = One * (i + 1) + r
    BY <1>1, <1>2, <1>4
  <2>7. (w + One) \div One = i + 1
    BY <1>2, <1>3, <2>6
  <2>8. (One * (i + 1) + 0) \div One = i + 1 /\ (i + 1) * One = One * i + One
    BY <1>1, <1>2, <1>3, <1>4
  <2> QED BY <1>1, <1>2, <1>4, <1>6, <2>2, <2>5, <2>7, <2>8
<1> QED BY <1>1, <1>2, <1>5, <1>6

LEMMA DivisionBound ==
    ASSUME NEW n \in Int, NEW e \in Nat, n * One <= e
    PROVE  n <= e \div One
<1>1. One \in Nat /\ One >= 1
  BY Quarters
<1>2. /\ e \div One \in Nat /\ e % One \in 0..(One - 1)
      /\ e = One * (e \div One) + (e % One)
  BY <1>1, Division
<1> DEFINE k == e \div One
<1>3. k \in Nat /\ e < One * k + One
  BY <1>1, <1>2
<1> HIDE DEF k
<1>4. CASE n > k
  <2>1. n * One >= (k + 1) * One /\ (k + 1) * One = One * k + One
    BY <1>1, <1>3, <1>4, SMTT(30)
  <2>2. n * One \in Int /\ One * k \in Nat
    BY <1>1, <1>3, ProductNat
  <2> QED BY <1>1, <1>3, <2>1, <2>2
<1> QED BY <1>3, <1>4 DEF k

(* The place of c / z on a screen of the given extent is the nearest pixel,  *)
(* up to what the quotient and the product lack, and lies on the screen.   *)
LEMMA SignedFacts ==
    ASSUME NEW c \in Int, NEW z \in Nat, z >= One, Abs(c) <= z
    PROVE  /\ Signed(c, z) \in Int /\ -One <= Signed(c, z) /\ Signed(c, z) <= One
           /\ Signed(c, z) * z <= c * One + 2 * z
           /\ c * One - 2 * z <= Signed(c, z) * z
           /\ \E k \in Nat : Signed(c, z) + One = 2 * k
<1> DEFINE u == Cut(c, z)
<1>1. One \in Nat /\ One = 2 * Half /\ Half \in Nat
  BY Quarters
<1>2. /\ u \in 0..One /\ u * z <= Abs(c) * One /\ Abs(c) * One < u * z + 2 * z
      /\ \E k \in Nat : u = 2 * k
  BY CutFacts
<1>3. PICK k \in Nat : u = 2 * k
  BY <1>2
<1> HIDE DEF u
<1>4. u * z \in Nat /\ c * One \in Int /\ u \in Nat
  BY <1>1, <1>2, ProductNat
<1>5. CASE c < 0
  <2>1. Signed(c, z) = -u
    BY <1>5 DEF Signed, u
  <2>2. (-u) * z = -(u * z) /\ (-c) * One = -(c * One)
    BY <1>1, <1>4, SMTT(30)
  <2>3. Abs(c) = -c
    BY <1>5 DEF Abs
  <2>4. Half - k \in Nat /\ -u + One = 2 * (Half - k)
    BY <1>1, <1>2, <1>3
  <2> QED BY <1>1, <1>2, <1>4, <2>1, <2>2, <2>3, <2>4
<1>6. CASE c >= 0
  <2>1. Signed(c, z) = u
    BY <1>6 DEF Signed, u
  <2>2. Abs(c) = c
    BY <1>6 DEF Abs
  <2>3. Half + k \in Nat /\ u + One = 2 * (Half + k)
    BY <1>1, <1>3
  <2>4. \E j \in Nat : Signed(c, z) + One = 2 * j
    BY <2>1, <2>3
  <2>5. /\ u \in Int /\ -One <= u /\ u <= One
        /\ u * z <= c * One + 2 * z /\ c * One - 2 * z <= u * z
    BY <1>1, <1>2, <1>4, <2>2
  <2> QED BY <2>1, <2>4, <2>5
<1> QED BY <1>5, <1>6

LEMMA ScreenFacts ==
    ASSUME NEW c \in Int, NEW z \in Nat, z >= One, Abs(c) <= z,
           NEW extent \in Nat, extent < One, NEW w, w = Scaled(c, z, extent)
    PROVE  /\ w \in Nat /\ w + One < H /\ Pixel(w) \in 0..extent
           /\ Distance(2 * z * Pixel(w), extent * (c + z)) <= z + (2 * z * (extent + 2)) \div One
<1> DEFINE g == Signed(c, z)
           s == g + One
           t == s * extent
           p == Pixel(w)
<1>1. /\ One \in Nat /\ One >= 4 /\ H \in Nat
  BY Quarters, Words
<1>2. /\ g \in Int /\ s \in 0..(2 * One)
      /\ g * z <= c * One + 2 * z /\ c * One - 2 * z <= g * z
  BY <1>1, SignedFacts
<1>3. /\ w \in Nat /\ w <= extent * One /\ extent * One < H - One
      /\ 2 * w <= t /\ t <= 2 * w + 1
  <2>1. w = (s * ((extent * One) \div 2)) \div One
    BY DEF Scaled
  <2> HIDE DEF s
  <2> QED BY <1>2, <2>1, ScaleFacts
<1>4. p \in Nat /\ 2 * (p * One) <= 2 * w + One /\ 2 * w < 2 * (p * One) + One
  BY <1>3, PixelFacts
<1> HIDE DEF p
<1>5. p <= extent
  <2> SUFFICES ASSUME p >= extent + 1 PROVE FALSE
    BY <1>4
  <2>1. p * One >= (extent + 1) * One /\ (extent + 1) * One = extent * One + One
    BY <1>1, <1>4, SMTT(30)
  <2>2. extent * One \in Nat /\ p * One \in Nat
    BY <1>1, <1>4, ProductNat
  <2> QED BY <1>1, <1>3, <1>4, <2>1, <2>2
<1>6. t \in Nat /\ s \in Nat
  <2> HIDE DEF s
  <2> QED BY <1>2, ProductNat
<1>7. z * t = extent * (g * z) + extent * (One * z)
  <2> HIDE DEF g
  <2> QED BY <1>1, <1>2, SMTT(30)
<1> HIDE DEF g, s, t
<1> DEFINE b == g * z
           u == 2 * (p * One)
           d == 2 * z * p - extent * (c + z)
           e == 2 * z * (extent + 2)
<1>8. b \in Int /\ u \in Nat /\ d \in Int /\ e \in Nat
  BY <1>1, <1>2, <1>4, ProductNat
<1>9. /\ d * One = z * u - extent * (c * One) - extent * (One * z)
      /\ e = 2 * (extent * z) + 4 * z
  BY <1>1, <1>4, SMTT(30)
<1>10. z * u <= z * t + z * One /\ z * t - z * One - z <= z * u
  <2>1. u <= t + One /\ t - One - 1 <= u
    BY <1>1, <1>3, <1>4, <1>6
  <2> HIDE DEF u
  <2>2. z * u <= z * (t + One) /\ z * (t - One - 1) <= z * u
    BY <1>1, <1>6, <1>8, <2>1, SMTT(30)
  <2>3. z * (t + One) = z * t + z * One /\ z * (t - One - 1) = z * t - z * One - z
    BY <1>1, <1>6, SMTT(30)
  <2> QED BY <2>2, <2>3
<1>11. /\ extent * b <= extent * (c * One) + 2 * (extent * z)
       /\ extent * (c * One) - 2 * (extent * z) <= extent * b
  <2> DEFINE a == c * One
  <2>1. a \in Int /\ b <= a + 2 * z /\ a - 2 * z <= b
    BY <1>1, <1>2
  <2> HIDE DEF a, b
  <2>2. extent * b <= extent * (a + 2 * z) /\ extent * (a - 2 * z) <= extent * b
    BY <1>8, <2>1, SMTT(30)
  <2>3. /\ extent * (a + 2 * z) = extent * a + 2 * (extent * z)
        /\ extent * (a - 2 * z) = extent * a - 2 * (extent * z)
    BY <2>1, SMTT(30)
  <2> QED BY <2>2, <2>3 DEF a
<1>12. /\ z * u \in Int /\ z * t \in Int /\ z * One \in Int /\ extent * b \in Int
       /\ extent * (c * One) \in Int /\ extent * z \in Int /\ extent * (One * z) \in Int
  BY <1>1, <1>6, <1>8
<1> HIDE DEF b, u, d, e
<1>13. d * One <= z * One + e /\ -(d * One) <= z * One + e
  BY <1>7, <1>9, <1>10, <1>11, <1>12 DEF b
<1>14. (d - z) * One <= e /\ (-d - z) * One <= e
  <2>1. (d - z) * One = d * One - z * One /\ (-d - z) * One = -(d * One) - z * One
    BY <1>1, <1>8, SMTT(30)
  <2>2. d * One \in Int
    BY <1>1, <1>8
  <2> QED BY <1>8, <1>12, <1>13, <2>1, <2>2
<1>15. d - z <= e \div One /\ -d - z <= e \div One /\ e \div One \in Nat
  <2>1. d - z \in Int /\ -d - z \in Int
    BY <1>8
  <2>2. d - z <= e \div One /\ -d - z <= e \div One
    BY <1>8, <1>14, <2>1, DivisionBound
  <2>3. One >= 1
    BY <1>1
  <2>4. e \div One \in Nat
    BY <1>1, <1>8, <2>3, Division
  <2> QED BY <2>2, <2>4
<1>16. Distance(2 * z * p, extent * (c + z)) <= z + e \div One
  <2> DEFINE x == 2 * z * p
             y == extent * (c + z)
  <2>1. x \in Int /\ y \in Int /\ d = x - y
    BY <1>4 DEF d
  <2> HIDE DEF x, y
  <2>2. Distance(x, y) = IF x < y THEN y - x ELSE x - y
    BY DEF Distance
  <2>3. Distance(x, y) <= z + e \div One
    BY <1>15, <2>1, <2>2
  <2> QED BY <2>3 DEF x, y
<1>17. w + One < H
  <2>1. extent * One \in Nat
    BY <1>1, ProductNat
  <2> QED BY <1>1, <1>3, <2>1
<1> QED BY <1>3, <1>4, <1>5, <1>16, <1>17 DEF p, e

-----------------------------------------------------------------------------
(* What the inputs come to.                                                *)
LEMMA EvenFacts ==
    /\ \A k \in Nat : (2 * k) % 2 = 0
    /\ One % 2 = 0 /\ 0 % 2 = 0
<1>1. \A k \in Nat : (2 * k + 0) % 2 = 0
  BY Remainder
<1>2. \A k \in Nat : 2 * k + 0 = 2 * k
  OBVIOUS
<1>3. \A k \in Nat : (2 * k) % 2 = 0
  BY <1>1, <1>2
<1> QED BY <1>3, Quarters

LEMMA AspectFacts ==
    ASSUME X \in {-One, 0, One}
    PROVE  /\ X \in Int /\ C \in Int /\ Abs(C) \in Nat /\ Abs(C) <= One
           /\ Abs(X) \in {0, One} /\ (X < 0 <=> C < 0)
           /\ Product(Abs(X), aspect_ratio) = Abs(C)
<1> DEFINE q == One \div 4
<1>1. One \in Nat /\ q \in Nat /\ One = 4 * q /\ aspect_ratio = 3 * q /\ q >= 1
  BY Quarters
<1>2. H \in Nat /\ H >= 8 * One
  BY Words
<1> HIDE DEF q
<1>3. \A j \in Int : (4 * j + 0) \div 4 = j /\ 4 * j + 0 = 4 * j
  BY RemainderInt
<1>4. \A j \in Nat : One * j \in Nat /\ (One * j + 0) \div One = j /\ One * j + 0 = One * j
  BY <1>1, Remainder, ProductNat
<1>5. CASE X = One
  <2>1. 3 * X = 4 * (3 * q) /\ 3 * q \in Nat
    BY <1>1, <1>5
  <2>2. C = 3 * q /\ Abs(X) = One /\ Abs(C) = 3 * q
    BY <1>1, <1>3, <1>5, <2>1 DEF C, Abs
  <2>3. (One * (3 * q)) \div One = 3 * q
    BY <1>4, <2>1
  <2>4. One < H /\ 3 * q < H
    BY <1>1, <1>2
  <2>5. Product(One, 3 * q) = 3 * q
    BY <1>1, <2>1, <2>3, <2>4, ProductFacts
  <2> QED BY <1>1, <1>5, <2>2, <2>5
<1>6. CASE X = -One
  <2>1. 3 * X = 4 * (-(3 * q)) /\ 3 * q \in Nat /\ -(3 * q) \in Int
    BY <1>1, <1>6
  <2>2. C = -(3 * q) /\ Abs(X) = One /\ Abs(C) = 3 * q
    BY <1>1, <1>3, <1>6, <2>1 DEF C, Abs
  <2>3. (One * (3 * q)) \div One = 3 * q
    BY <1>4, <2>1
  <2>4. One < H /\ 3 * q < H
    BY <1>1, <1>2
  <2>5. Product(One, 3 * q) = 3 * q
    BY <1>1, <2>1, <2>3, <2>4, ProductFacts
  <2> QED BY <1>1, <1>6, <2>2, <2>5
<1>7. CASE X = 0
  <2>1. 3 * X = 4 * 0 /\ 0 \in Int
    BY <1>7
  <2>2. C = 0 /\ Abs(X) = 0 /\ Abs(C) = 0
    BY <1>3, <1>7, <2>1 DEF C, Abs
  <2>3. 0 * (3 * q) = One * 0 /\ 0 \in Nat
    BY <1>1
  <2>4. (0 * (3 * q)) \div One = 0
    BY <1>4, <2>3
  <2>5. 0 < H /\ 3 * q < H /\ 3 * q \in Nat
    BY <1>1, <1>2
  <2>6. Product(0, 3 * q) = 0
    BY <2>3, <2>4, <2>5, ProductFacts
  <2> QED BY <1>1, <1>7, <2>2, <2>6
<1> QED BY <1>5, <1>6, <1>7

(* A coordinate c of a vertex in front of the eye, on one axis.            *)
LEMMA AxisFacts ==
    ASSUME NEW c \in Int, NEW z \in Nat, z >= One, z < H, Abs(c) <= z,
           NEW extent \in Nat, extent < One
    PROVE  /\ Quotient(Abs(c), z) = Cut(c, z) /\ Cut(c, z) \in 0..One
           /\ Signed(c, z) \in (-One)..One
           /\ Signed(c, z) + One \in 0..(2 * One)
           /\ (Signed(c, z) + One) % 2 = 0
           /\ Product(Signed(c, z) + One, (extent * One) \div 2) = Scaled(c, z, extent)
           /\ Scaled(c, z, extent) \in Nat /\ Scaled(c, z, extent) + One < H
           /\ Scaled(c, z, extent) <= extent * One /\ extent * One < H
<1> DEFINE s == Signed(c, z) + One
           b == (extent * One) \div 2
           w == Scaled(c, z, extent)
<1>1. /\ One \in Nat /\ One >= 4 /\ H \in Nat /\ H >= 8 * One
  BY Quarters, Words
<1>2. Cut(c, z) \in 0..One /\ Abs(c) \in Nat
  BY CutFacts
<1>3. Quotient(Abs(c), z) = Cut(c, z)
  <2>1. Quotient(Abs(c), z) = Cut(Abs(c), z)
    BY <1>2, QuotientFacts
  <2>2. Abs(Abs(c)) = Abs(c)
    BY <1>2 DEF Abs
  <2> QED BY <2>1, <2>2 DEF Cut
<1>4. /\ Signed(c, z) \in Int /\ -One <= Signed(c, z) /\ Signed(c, z) <= One
      /\ \E k \in Nat : s = 2 * k
  BY SignedFacts
<1>5. s \in 0..(2 * One) /\ s < H /\ s \in Nat
  BY <1>1, <1>4
<1>6. s % 2 = 0
  BY <1>4, EvenFacts
<1>7. w \in Nat /\ w + One < H
  BY ScreenFacts
<1>8. w = (s * b) \div One
  BY DEF Scaled
<1> HIDE DEF s
<1>9. b \in Nat /\ b < H /\ w <= extent * One /\ extent * One < H - One
  BY <1>5, <1>8, ScaleFacts
<1>10. w < H /\ extent * One < H
  <2>1. extent * One \in Nat
    BY <1>1, ProductNat
  <2> HIDE DEF w
  <2> QED BY <1>1, <1>7, <1>9, <2>1
<1>11. Product(s, b) = w
  <2> HIDE DEF b, w
  <2> QED BY <1>5, <1>7, <1>8, <1>9, <1>10, ProductFacts
<1> QED BY <1>2, <1>3, <1>4, <1>5, <1>6, <1>7, <1>9, <1>10, <1>11 DEF s


-----------------------------------------------------------------------------
(* The steps.                                                              *)

LEMMA InputsFacts ==
    ASSUME Inputs
    PROVE  /\ X \in Int /\ C \in Int /\ Abs(C) \in Nat /\ Abs(C) <= One
           /\ Abs(X) \in {0, One} /\ (X < 0 <=> C < 0)
           /\ Product(Abs(X), aspect_ratio) = Abs(C)
           /\ zplusthree \in Nat /\ zplusthree >= One /\ zplusthree < H
           /\ Abs(C) <= zplusthree /\ Y \in Nat /\ Y <= zplusthree /\ Abs(Y) = Y
<1>1. Placed
  BY RotationFacts DEF Inputs
<1>2. One \in Nat /\ One >= 4 /\ H \in Nat /\ H >= 8 * One
  BY Quarters, Words
<1>3. /\ X \in Int /\ C \in Int /\ Abs(C) \in Nat /\ Abs(C) <= One
      /\ Abs(X) \in {0, One} /\ (X < 0 <=> C < 0)
      /\ Product(Abs(X), aspect_ratio) = Abs(C)
  BY <1>1, AspectFacts DEF Placed
<1>4. /\ zplusthree \in Nat /\ zplusthree >= One /\ zplusthree < H
      /\ zplusthree >= 3 * One /\ Y \in Nat /\ Y <= zplusthree
  BY <1>1, <1>2 DEF Placed
<1>5. Abs(Y) = Y
  BY <1>4 DEF Abs
<1> QED BY <1>2, <1>3, <1>4, <1>5

LEMMA PlaceFacts ==
    ASSUME Inputs
    PROVE  /\ Quotient(Abs(C), zplusthree) = QX /\ Quotient(Y, zplusthree) = QY
           /\ QX \in 0..One /\ QY \in 0..One
           /\ PX = (IF C < 0 THEN -QX ELSE QX) /\ PY = QY
           /\ PX \in (-One)..One /\ PX + One \in 0..(2 * One) /\ (PX + One) % 2 = 0
           /\ PY \in (-One)..One /\ PY + One \in 0..(2 * One) /\ (PY + One) % 2 = 0
           /\ Product(PX + One, width) = WX /\ Product(PY + One, height) = WY
           /\ WX \in Nat /\ WX + One < H /\ WY \in Nat /\ WY + One < H
<1>1. /\ C \in Int /\ Y \in Int /\ zplusthree \in Nat /\ zplusthree >= One
      /\ zplusthree < H /\ Abs(C) <= zplusthree /\ Abs(Y) <= zplusthree /\ Abs(Y) = Y
      /\ ~(Y < 0)
  BY InputsFacts
<1>2. WIDTH \in Nat /\ WIDTH < One /\ HEIGHT \in Nat /\ HEIGHT < One
  BY ProjectionAssumption
<1>3. /\ Quotient(Abs(C), zplusthree) = QX /\ QX \in 0..One
      /\ PX \in (-One)..One /\ PX + One \in 0..(2 * One) /\ (PX + One) % 2 = 0
      /\ Product(PX + One, width) = WX /\ WX \in Nat /\ WX + One < H
  BY <1>1, <1>2, AxisFacts DEF QX, PX, WX, width
<1>4. /\ Quotient(Abs(Y), zplusthree) = QY /\ QY \in 0..One
      /\ PY \in (-One)..One /\ PY + One \in 0..(2 * One) /\ (PY + One) % 2 = 0
      /\ Product(PY + One, height) = WY /\ WY \in Nat /\ WY + One < H
  BY <1>1, <1>2, AxisFacts DEF QY, PY, WY, height
<1>5. PX = (IF C < 0 THEN -QX ELSE QX) /\ PY = QY
  BY <1>1 DEF PX, QX, PY, QY, Signed
<1> QED BY <1>1, <1>3, <1>4, <1>5

LEMMA Held ==
    ASSUME UNCHANGED inputs
    PROVE  /\ X' = X /\ Y' = Y /\ zplusthree' = zplusthree /\ C' = C /\ AX' = AX /\ AC' = AC
           /\ QX' = QX /\ QY' = QY /\ PX' = PX /\ PY' = PY /\ WX' = WX /\ WY' = WY
           /\ RX' = RX /\ RY' = RY /\ NX' = NX /\ NY' = NY
<1>1. vertex' = vertex /\ angle' = angle
  BY DEF inputs
<1>2. X' = X /\ Y' = Y /\ zplusthree' = zplusthree
  BY <1>1 DEF X, Y, Z, zplusthree
<1>3. C' = C
  BY <1>2 DEF C
<1>4. QX' = QX /\ QY' = QY /\ AX' = AX /\ AC' = AC
  BY <1>2, <1>3 DEF QX, QY, AX, AC
<1>5. PX' = PX /\ PY' = PY
  BY <1>2, <1>3 DEF PX, PY
<1>6. WX' = WX /\ WY' = WY
  BY <1>2, <1>3 DEF WX, WY
<1>7. RX' = RX /\ RY' = RY /\ NX' = NX /\ NY' = NY
  BY <1>6 DEF RX, RY, NX, NY
<1> QED BY <1>2, <1>3, <1>4, <1>5, <1>6, <1>7

(* What each conversion of sign yields: no word overflows.                 *)
LEMMA WordFacts ==
    ASSUME Inputs
    PROVE  /\ (IF X < 0 THEN Wrap(-X) ELSE X) = AX
           /\ (IF X < 0 THEN Wrap(-AC) ELSE AC) = C
           /\ (IF C < 0 THEN Wrap(-C) ELSE C) = AC
           /\ (IF C < 0 THEN Wrap(-QX) ELSE QX) = PX /\ QY = PY
           /\ Wrap(PX + One) = PX + One /\ Wrap(PY + One) = PY + One
           /\ (IF RoundsUp(WX) THEN Wrap(WX + One) ELSE WX) = RX
           /\ (IF RoundsUp(WY) THEN Wrap(WY + One) ELSE WY) = RY
           /\ (RX \div One) * One = NX /\ (RY \div One) * One = NY
           /\ ~(C < 0 /\ X >= 0) /\ ~(Y < 0) /\ ~(PX + One < 0) /\ ~(PY + One < 0)
           /\ ~(zplusthree < 0) /\ zplusthree # 0 /\ (X < 0 <=> C < 0)
           /\ Product(AX, aspect_ratio) = AC
           /\ Product(PX + One, width) = WX /\ Product(PY + One, height) = WY
           /\ Quotient(AC, zplusthree) = QX /\ Quotient(Y, zplusthree) = QY
<1>1. One \in Nat /\ One >= 4 /\ H \in Nat /\ H >= 8 * One
  BY Quarters, Words
<1>2. /\ X \in Int /\ C \in Int /\ AC \in Nat /\ AC <= One
      /\ AX \in {0, One} /\ (X < 0 <=> C < 0)
      /\ Product(AX, aspect_ratio) = AC
      /\ zplusthree \in Nat /\ zplusthree >= One /\ Y \in Nat
  BY InputsFacts DEF AX, AC
<1>3. /\ AX = (IF X < 0 THEN -X ELSE X) /\ AC = (IF C < 0 THEN -C ELSE C)
  BY DEF AX, AC, Abs
<1>4. /\ Quotient(AC, zplusthree) = QX /\ Quotient(Y, zplusthree) = QY
      /\ QX \in 0..One /\ QY \in 0..One
      /\ PX = (IF C < 0 THEN -QX ELSE QX) /\ PY = QY
      /\ PX + One \in 0..(2 * One) /\ PY + One \in 0..(2 * One)
      /\ Product(PX + One, width) = WX /\ Product(PY + One, height) = WY
      /\ WX \in Nat /\ WX + One < H /\ WY \in Nat /\ WY + One < H
  BY PlaceFacts DEF AC
<1>5. \A n \in Int : -H <= n /\ n < H => Wrap(n) = n
  BY WrapFacts
<1>6. (IF X < 0 THEN Wrap(-X) ELSE X) = AX
  BY <1>1, <1>2, <1>3, <1>5
<1>7. (IF X < 0 THEN Wrap(-AC) ELSE AC) = C
  BY <1>1, <1>2, <1>3, <1>5
<1>8. (IF C < 0 THEN Wrap(-C) ELSE C) = AC
  BY <1>1, <1>2, <1>3, <1>5
<1>9. (IF C < 0 THEN Wrap(-QX) ELSE QX) = PX
  BY <1>1, <1>4, <1>5
<1>10. Wrap(PX + One) = PX + One /\ Wrap(PY + One) = PY + One
  BY <1>1, <1>4, <1>5
<1>11. Wrap(WX + One) = WX + One /\ Wrap(WY + One) = WY + One
  BY <1>1, <1>4, <1>5
<1>12. (RX \div One) * One = NX /\ (RY \div One) * One = NY
  BY <1>4, PixelFacts DEF RX, RY, NX, NY
<1>13. ~(C < 0 /\ X >= 0) /\ ~(Y < 0) /\ ~(PX + One < 0) /\ ~(PY + One < 0)
       /\ ~(zplusthree < 0) /\ zplusthree # 0
  BY <1>1, <1>2, <1>4
<1> QED BY <1>2, <1>4, <1>6, <1>7, <1>8, <1>9, <1>10, <1>11, <1>12, <1>13 DEF RX, RY

LEMMA StartKeepsInv == ProjectionInv /\ Start => ProjectionInv'
<1> SUFFICES ASSUME ProjectionInv, Start PROVE ProjectionInv'
  OBVIOUS
<1>1. Inputs'
  BY DEF ProjectionInv, Inputs, Start, States, temps, units
<1>2. Prepared'
  <2>1. CASE State = "WAIT"
    BY <2>1 DEF ProjectionInv, Prepared, Start, Now, temps, units
  <2>2. CASE State = "DONESTATE2"
    BY <2>2 DEF ProjectionInv, Prepared, Start, Now, temps, units
  <2> QED BY <2>1, <2>2 DEF Start
<1>3. Divisible'
  BY DEF Divisible, Start, Now
<1>4. Screened'
  BY DEF Screened, Start, Now
<1> QED BY <1>1, <1>2, <1>3, <1>4 DEF ProjectionInv

(* The first four states of the coordinates: the aspect of x.              *)
LEMMA AspectKeepsInv ==
    ASSUME ProjectionInv, S00 \/ S1 \/ Multiply("S2", "S3") \/ S3 \/ S4 \/ S5 \/ S7
    PROVE  ProjectionInv'
<1>1. UNCHANGED inputs
  BY DEF S00, S1, Multiply, S3, S4, S5, S7
<1>2. /\ X' = X /\ Y' = Y /\ zplusthree' = zplusthree /\ C' = C /\ AX' = AX /\ AC' = AC
  BY <1>1, Held
<1>3. Inputs
  BY DEF ProjectionInv
<1>4. /\ (IF X < 0 THEN Wrap(-X) ELSE X) = AX
      /\ (IF X < 0 THEN Wrap(-AC) ELSE AC) = C
      /\ zplusthree # 0
  BY <1>3, WordFacts
<1>5. CASE S00
  BY <1>5, <1>2 DEF ProjectionInv, Inputs, Prepared, Divisible, Screened, S00, Now,
                    States, NoFlips, inputs, units
<1>6. CASE S1
  BY <1>6, <1>2, <1>4 DEF ProjectionInv, Inputs, Prepared, Divisible, Screened, S1,
                          Now, States, NoFlips, inputs, units, outs
<1>7. CASE Multiply("S2", "S3")
  <2>1. /\ State = "S2" /\ State' = "S3" /\ tempx = AX /\ multx = aspect_ratio
        /\ tempy = 0 /\ multy = 0 /\ multiplying' = <<tempx, multx, tempy, multy>>
    BY <1>7 DEF ProjectionInv, Prepared, Multiply, Now
  <2>2. multiplying' = <<AX', aspect_ratio, 0, 0>> /\ multiplying' # Idle
    BY <2>1, <1>2 DEF Idle
  <2>3. Inputs'
    BY <1>7, <2>1 DEF ProjectionInv, Inputs, Multiply, States, inputs, temps, outs
  <2>4. Prepared'
    BY <1>7, <1>2, <2>1, <2>2 DEF ProjectionInv, Prepared, Multiply, Now, inputs,
                                  temps, outs
  <2>5. Divisible' /\ Screened'
    BY <1>7, <1>2, <2>1 DEF ProjectionInv, Inputs, Divisible, Screened, Multiply, Now,
                            inputs, temps, outs
  <2> QED BY <2>3, <2>4, <2>5 DEF ProjectionInv
<1>8. CASE S3
  BY <1>8, <1>2, <1>4 DEF ProjectionInv, Inputs, Prepared, Divisible, Screened, S3,
                          Now, States, NoFlips, inputs, temps, units, outs
<1>9. CASE S4
  BY <1>9, <1>2, <1>4 DEF ProjectionInv, Inputs, Prepared, Divisible, Screened, S4,
                          Now, States, NoFlips, inputs, units, outs
<1>10. CASE S5
  BY <1>10, <1>2, <1>4 DEF ProjectionInv, Inputs, Prepared, Divisible, Screened, S5,
                           Now, States, NoFlips, inputs, units, outs
<1>11. CASE S7
  BY <1>11, <1>2, <1>4 DEF ProjectionInv, Inputs, Prepared, Divisible, Screened, S7,
                           Now, States, NoFlips, inputs, temps, units, outs
<1> QED BY <1>5, <1>6, <1>7, <1>8, <1>9, <1>10, <1>11


(* The division.                                                           *)
LEMMA DivisionKeepsInv ==
    ASSUME ProjectionInv, S8 \/ S9 \/ S10 \/ S11 \/ S12
    PROVE  ProjectionInv'
<1>1. UNCHANGED inputs
  BY DEF S8, S9, S10, S11, S12
<1>2. /\ Y' = Y /\ zplusthree' = zplusthree /\ C' = C /\ AC' = AC
      /\ QX' = QX /\ QY' = QY /\ PX' = PX /\ PY' = PY
  BY <1>1, Held
<1>3. Inputs
  BY DEF ProjectionInv
<1>4. /\ (IF C < 0 THEN Wrap(-C) ELSE C) = AC
      /\ (IF C < 0 THEN Wrap(-QX) ELSE QX) = PX /\ QY = PY
      /\ ~(Y < 0) /\ ~(zplusthree < 0)
  BY <1>3, WordFacts
<1>5. CASE S8
  BY <1>5, <1>2, <1>4 DEF ProjectionInv, Inputs, Prepared, Divisible, Screened, S8,
                          Now, States, NoFlips, inputs, units, outs
<1>6. CASE S9
  <2>1. /\ State = "S9" /\ State' = "S10" /\ tempx = AC /\ tempy = Y
        /\ dividing' = <<tempx, tempy, zplusthree>>
    BY <1>6 DEF ProjectionInv, Divisible, S9, Now
  <2>2. dividing' = <<AC', Y', zplusthree'>> /\ dividing' # Idle
    BY <2>1, <1>2 DEF Idle
  <2>3. Inputs'
    BY <1>6, <2>1 DEF ProjectionInv, Inputs, S9, States, inputs, temps, outs
  <2>4. Divisible'
    BY <1>6, <1>2, <2>1, <2>2 DEF ProjectionInv, Divisible, S9, Now, inputs, temps, outs
  <2>5. Prepared' /\ Screened'
    BY <1>6, <1>2, <2>1 DEF ProjectionInv, Inputs, Prepared, Screened, S9, Now, inputs,
                            temps, outs
  <2> QED BY <2>3, <2>4, <2>5 DEF ProjectionInv
<1>7. CASE S10
  BY <1>7, <1>2, <1>4 DEF ProjectionInv, Inputs, Prepared, Divisible, Screened, S10,
                          Now, States, NoFlips, inputs, temps, units, outs
<1>8. CASE S11
  BY <1>8, <1>2, <1>4 DEF ProjectionInv, Inputs, Prepared, Divisible, Screened, S11,
                          Now, States, NoFlips, inputs, units, outs
<1>9. CASE S12
  BY <1>9, <1>2, <1>4 DEF ProjectionInv, Inputs, Prepared, Divisible, Screened, S12,
                          Now, States, NoFlips, inputs, units, outs
<1> QED BY <1>5, <1>6, <1>7, <1>8, <1>9

(* The way to the screen.                                                  *)
LEMMA ScreenKeepsInv ==
    ASSUME ProjectionInv,
           S13 \/ S14 \/ Multiply("S15", "S16") \/ S16 \/ S17 \/ S18 \/ S19 \/ DONESTATE1
    PROVE  ProjectionInv'
<1>1. UNCHANGED inputs
  BY DEF S13, S14, Multiply, S16, S17, S18, S19, DONESTATE1
<1>2. /\ PX' = PX /\ PY' = PY /\ WX' = WX /\ WY' = WY
      /\ RX' = RX /\ RY' = RY /\ NX' = NX /\ NY' = NY
  BY <1>1, Held
<1>3. Inputs
  BY DEF ProjectionInv
<1>4. /\ Wrap(PX + One) = PX + One /\ Wrap(PY + One) = PY + One
      /\ ~(PX + One < 0) /\ ~(PY + One < 0)
      /\ (IF RoundsUp(WX) THEN Wrap(WX + One) ELSE WX) = RX
      /\ (IF RoundsUp(WY) THEN Wrap(WY + One) ELSE WY) = RY
      /\ (RX \div One) * One = NX /\ (RY \div One) * One = NY
  BY <1>3, WordFacts
<1>5. CASE S13
  BY <1>5, <1>2, <1>4 DEF ProjectionInv, Inputs, Prepared, Divisible, Screened, S13,
                          Now, States, NoFlips, inputs, units, outs
<1>6. CASE S14
  BY <1>6, <1>2, <1>4 DEF ProjectionInv, Inputs, Prepared, Divisible, Screened, S14,
                          Now, States, NoFlips, inputs, units, outs
<1>7. CASE Multiply("S15", "S16")
  <2>1. /\ State = "S15" /\ State' = "S16" /\ tempx = PX + One /\ multx = width
        /\ tempy = PY + One /\ multy = height
        /\ multiplying' = <<tempx, multx, tempy, multy>>
    BY <1>7 DEF ProjectionInv, Screened, Multiply, Now
  <2>2. multiplying' = <<PX' + One, width, PY' + One, height>> /\ multiplying' # Idle
    BY <2>1, <1>2 DEF Idle
  <2>3. Inputs'
    BY <1>7, <2>1 DEF ProjectionInv, Inputs, Multiply, States, inputs, temps, outs
  <2>4. Screened'
    BY <1>7, <1>2, <2>1, <2>2 DEF ProjectionInv, Screened, NoFlips, Multiply, Now,
                                  inputs, temps, outs
  <2>5. Prepared' /\ Divisible'
    BY <1>7, <1>2, <2>1 DEF ProjectionInv, Inputs, Prepared, Divisible, Multiply, Now,
                            inputs, temps, outs
  <2> QED BY <2>3, <2>4, <2>5 DEF ProjectionInv
<1>8. CASE S16
  BY <1>8, <1>2, <1>4 DEF ProjectionInv, Inputs, Prepared, Divisible, Screened, S16,
                          Now, States, NoFlips, inputs, units, outs
<1>9. CASE S17
  BY <1>9, <1>2, <1>4 DEF ProjectionInv, Inputs, Prepared, Divisible, Screened, S17,
                          Now, States, NoFlips, inputs, units, outs
<1>10. CASE S18
  BY <1>10, <1>2, <1>4 DEF ProjectionInv, Inputs, Prepared, Divisible, Screened, S18,
                           Now, States, NoFlips, inputs, units, outs
<1>11. CASE S19
  BY <1>11, <1>2, <1>4 DEF ProjectionInv, Inputs, Prepared, Divisible, Screened, S19,
                           Now, States, NoFlips, inputs, units, outs
<1>12. CASE DONESTATE1
  BY <1>12, <1>2, <1>4 DEF ProjectionInv, Inputs, Prepared, Divisible, Screened,
                           DONESTATE1, Now, States, NoFlips, inputs, temps, units
<1> QED BY <1>5, <1>6, <1>7, <1>8, <1>9, <1>10, <1>11, <1>12

(* The units end: what they yield is what the next state loads.            *)
LEMMA UnitsKeepInv ==
    ASSUME ProjectionInv, Multiplied \/ Divided
    PROVE  ProjectionInv'
<1>1. UNCHANGED inputs /\ UNCHANGED State /\ UNCHANGED temps /\ UNCHANGED outs
  BY DEF Multiplied, Divided
<1>2. /\ X' = X /\ Y' = Y /\ zplusthree' = zplusthree /\ C' = C /\ AX' = AX /\ AC' = AC
      /\ QX' = QX /\ QY' = QY /\ PX' = PX /\ PY' = PY /\ WX' = WX /\ WY' = WY
      /\ RX' = RX /\ RY' = RY /\ NX' = NX /\ NY' = NY
  BY <1>1, Held
<1>3. Inputs
  BY DEF ProjectionInv
<1>4. /\ Product(AX, aspect_ratio) = AC
      /\ Product(PX + One, width) = WX /\ Product(PY + One, height) = WY
      /\ Quotient(AC, zplusthree) = QX /\ Quotient(Y, zplusthree) = QY
  BY <1>3, WordFacts
<1>5. Inputs'
  BY <1>1, <1>3 DEF Inputs, Multiplied, Divided, inputs, temps, outs
<1>6. CASE Multiplied
  <2>1. multiplying # Idle /\ multiplying' = Idle /\ UNCHANGED <<dividing, quotientx, quotienty>>
    BY <1>6 DEF Multiplied
  <2>2. /\ productx' = Product(multiplying[1], multiplying[2])
        /\ producty' = Product(multiplying[3], multiplying[4])
    BY <1>6 DEF Multiplied
  <2>3. State = "S3" => productx' = AC
    BY <2>1, <2>2, <1>4 DEF ProjectionInv, Prepared, Now
  <2>4. State = "S16" => productx' = WX /\ producty' = WY
    BY <2>1, <2>2, <1>4 DEF ProjectionInv, Screened, Now
  <2>5. State \in {"S3", "S16"}
    BY <2>1, <1>3 DEF Inputs
  <2>6. Prepared'
    BY <1>1, <1>2, <2>1, <2>3, <2>5 DEF ProjectionInv, Prepared, Now, temps
  <2>7. Divisible'
    BY <1>1, <1>2, <2>1 DEF ProjectionInv, Divisible, NoFlips, Now, temps
  <2>8. Screened'
    BY <1>1, <1>2, <2>1, <2>4, <2>5 DEF ProjectionInv, Screened, NoFlips, Now, temps, outs
  <2> QED BY <1>5, <2>6, <2>7, <2>8 DEF ProjectionInv
<1>7. CASE Divided
  <2>1. /\ dividing # Idle /\ dividing' = Idle
        /\ UNCHANGED <<multiplying, productx, producty>>
        /\ quotientx' = Quotient(dividing[1], dividing[3])
        /\ quotienty' = Quotient(dividing[2], dividing[3])
    BY <1>7 DEF Divided
  <2>2. State = "S10"
    BY <2>1, <1>3 DEF Inputs
  <2>3. quotientx' = QX /\ quotienty' = QY
    BY <2>1, <2>2, <1>4 DEF ProjectionInv, Divisible, Now
  <2>4. Prepared'
    BY <1>1, <1>2, <2>1 DEF ProjectionInv, Prepared, Now, temps
  <2>5. Divisible'
    BY <1>1, <1>2, <2>1, <2>2, <2>3 DEF ProjectionInv, Divisible, NoFlips, Now, temps
  <2>6. Screened'
    BY <1>1, <1>2, <2>1 DEF ProjectionInv, Screened, NoFlips, Now, temps, outs
  <2> QED BY <1>5, <2>4, <2>5, <2>6 DEF ProjectionInv
<1> QED BY <1>6, <1>7

(* The inductive invariant: in every state of the machine, the registers   *)
(* hold what the vertex and the angle alone determine, whatever an earlier *)
(* vertex left in them.                                                    *)
THEOREM ProjectionInvariant == Spec => []ProjectionInv
<1>1. Init => ProjectionInv
  BY DEF Init, ProjectionInv, Inputs, Prepared, Divisible, Screened, States, Now, NoFlips
<1>2. ProjectionInv /\ [Next]_vars => ProjectionInv'
  <2> SUFFICES ASSUME ProjectionInv, [Next]_vars PROVE ProjectionInv'
    OBVIOUS
  <2>1. CASE Start
    BY <2>1, StartKeepsInv
  <2>2. CASE Step
    BY <2>2, AspectKeepsInv, DivisionKeepsInv, ScreenKeepsInv DEF Step
  <2>3. CASE Multiplied \/ Divided
    BY <2>3, UnitsKeepInv
  <2>4. CASE UNCHANGED vars
    <3>1. UNCHANGED inputs
      BY <2>4 DEF vars
    <3>2. /\ X' = X /\ Y' = Y /\ zplusthree' = zplusthree /\ C' = C /\ AX' = AX /\ AC' = AC
          /\ QX' = QX /\ QY' = QY /\ PX' = PX /\ PY' = PY /\ WX' = WX /\ WY' = WY
          /\ RX' = RX /\ RY' = RY /\ NX' = NX /\ NY' = NY
      BY <3>1, Held
    <3>3. Inputs' /\ Prepared'
      BY <2>4, <3>2 DEF ProjectionInv, Inputs, Prepared, Now, vars, inputs, temps,
                        units, outs
    <3>4. Divisible'
      BY <2>4, <3>2 DEF ProjectionInv, Divisible, NoFlips, Now, vars, temps, units
    <3>5. Screened'
      BY <2>4, <3>2 DEF ProjectionInv, Screened, NoFlips, Now, vars, temps, units, outs
    <3> QED BY <3>3, <3>4, <3>5 DEF ProjectionInv
  <2> QED BY <2>1, <2>2, <2>3, <2>4 DEF Next
<1> QED BY <1>1, <1>2, PTL DEF Spec


-----------------------------------------------------------------------------
(* What is delivered is the nearest pixel to the perspective picture of    *)
(* the vertex, up to the last bit of the quotient and of the product.      *)
THEOREM ProjectionProjected == Spec => []Projected
<1> SUFFICES ASSUME ProjectionInv, DONE
             PROVE  Nearest(newx, (3 * X) \div 4, WIDTH) /\ Nearest(newy, Y, HEIGHT)
  BY ProjectionInvariant, PTL DEF Projected
<1> DEFINE z == zplusthree
<1>1. /\ C \in Int /\ Y \in Int /\ z \in Nat /\ z >= One /\ Abs(C) <= z /\ Abs(Y) <= z
  BY InputsFacts DEF ProjectionInv
<1>2. WX \in Nat /\ WY \in Nat
  BY PlaceFacts DEF ProjectionInv
<1>3. newx \div One = Pixel(WX) /\ newy \div One = Pixel(WY)
  BY <1>2, PixelFacts DEF ProjectionInv, Screened, NX, NY
<1> HIDE DEF z
<1>4. WX = Scaled(C, z, WIDTH) /\ WY = Scaled(Y, z, HEIGHT)
  BY DEF WX, WY, z
<1>5. WIDTH \in Nat /\ WIDTH < One /\ HEIGHT \in Nat /\ HEIGHT < One
  BY ProjectionAssumption
<1>6. Distance(2 * z * Pixel(WX), WIDTH * (C + z)) <= z + (2 * z * (WIDTH + 2)) \div One
  BY <1>1, <1>4, <1>5, ScreenFacts
<1>7. Distance(2 * z * Pixel(WY), HEIGHT * (Y + z)) <= z + (2 * z * (HEIGHT + 2)) \div One
  BY <1>1, <1>4, <1>5, ScreenFacts
<1> QED BY <1>3, <1>6, <1>7 DEF Nearest, C, z

(* What is delivered is a pixel of the screen: the edges that the          *)
(* rasterizer draws between such vertices end, and stay in the buffer.     *)
THEOREM ProjectionOnScreen == Spec => []OnScreen
<1> SUFFICES ASSUME ProjectionInv, DONE
             PROVE  newx \div One \in 0..WIDTH /\ newy \div One \in 0..HEIGHT
  BY ProjectionInvariant, PTL DEF OnScreen
<1>1. /\ C \in Int /\ Y \in Int /\ zplusthree \in Nat /\ zplusthree >= One
      /\ Abs(C) <= zplusthree /\ Abs(Y) <= zplusthree
  BY InputsFacts DEF ProjectionInv
<1>2. WX \in Nat /\ WY \in Nat
  BY PlaceFacts DEF ProjectionInv
<1>3. newx \div One = Pixel(WX) /\ newy \div One = Pixel(WY)
  BY <1>2, PixelFacts DEF ProjectionInv, Screened, NX, NY
<1>4. WIDTH \in Nat /\ WIDTH < One /\ HEIGHT \in Nat /\ HEIGHT < One
  BY ProjectionAssumption
<1>5. Pixel(WX) \in 0..WIDTH /\ Pixel(WY) \in 0..HEIGHT
  BY <1>1, <1>4, ScreenFacts DEF WX, WY
<1> QED BY <1>3, <1>5

(* The dividers and the multipliers are started only with operands of      *)
(* which they compute what is meant.                                       *)
THEOREM ProjectionOperandsInRange == Spec => []OperandsInRange
<1> SUFFICES ASSUME ProjectionInv PROVE OperandsInRange
  BY ProjectionInvariant, PTL
<1>1. Inputs
  BY DEF ProjectionInv
<1>2. /\ AC \in Nat /\ AX \in {0, One} /\ Y \in Nat /\ AC <= zplusthree /\ Y <= zplusthree
      /\ zplusthree \in Nat /\ zplusthree >= One /\ One \in Nat /\ One >= 4
  BY <1>1, InputsFacts, Quarters DEF AX, AC
<1>3. zplusthree > 0
  BY <1>2
<1>4. AC < 2 * One * zplusthree /\ Y < 2 * One * zplusthree
  <2> DEFINE z == zplusthree
  <2>1. z \in Nat /\ z >= 1
    BY <1>2
  <2> HIDE DEF z
  <2>2. 2 * One * z > z
    BY <1>2, <2>1, SMTT(30)
  <2> QED BY <1>2, <2>2 DEF z
<1>5. ASSUME dividing # Idle
      PROVE  \A k \in 1..2 : dividing[k] >= 0 /\ dividing[k] < 2 * One * dividing[3]
  <2>1. dividing = <<AC, Y, zplusthree>>
    BY <1>5 DEF ProjectionInv, Inputs, Divisible, Now
  <2>2. dividing[1] = AC /\ dividing[2] = Y /\ dividing[3] = zplusthree
    BY <2>1
  <2>3. \A k \in 1..2 : k = 1 \/ k = 2
    OBVIOUS
  <2> QED BY <1>2, <1>4, <2>2, <2>3
<1>6. ASSUME multiplying # Idle
      PROVE  \A k \in {1, 3} : multiplying[k] >= 0 /\ multiplying[k] % 2 = 0
  <2>1. State \in {"S3", "S16"}
    BY <1>1, <1>6 DEF Inputs
  <2>2. CASE State = "S3"
    <3>1. multiplying = <<AX, aspect_ratio, 0, 0>>
      BY <1>6, <2>2 DEF ProjectionInv, Prepared, Now
    <3>2. multiplying[1] = AX /\ multiplying[3] = 0
      BY <3>1
    <3>3. AX >= 0 /\ AX % 2 = 0 /\ 0 % 2 = 0
      BY <1>2, EvenFacts
    <3> QED BY <3>2, <3>3
  <2>3. CASE State = "S16"
    <3>1. multiplying = <<PX + One, width, PY + One, height>>
      BY <1>6, <2>3 DEF ProjectionInv, Screened, Now
    <3>2. multiplying[1] = PX + One /\ multiplying[3] = PY + One
      BY <3>1
    <3>3. /\ PX + One >= 0 /\ (PX + One) % 2 = 0
          /\ PY + One >= 0 /\ (PY + One) % 2 = 0
      BY <1>1, PlaceFacts
    <3> QED BY <3>2, <3>3
  <2> QED BY <2>1, <2>2, <2>3
<1> QED BY <1>3, <1>5, <1>6 DEF OperandsInRange

(***************************************************************************)
(* NiosProgram: the registers hold the vertices of the file.               *)
(***************************************************************************)
(* Counting the lines of a kind.                                           *)
LEMMA CountFacts ==
    ASSUME NEW f \in Seq(Lines), NEW kind
    PROVE  /\ Count(f, kind, 0) = 0
           /\ \A n \in Nat :
                /\ Count(f, kind, n) \in Nat
                /\ f[n + 1].kind = kind => Count(f, kind, n + 1) = Count(f, kind, n) + 1
                /\ f[n + 1].kind # kind => Count(f, kind, n + 1) = Count(f, kind, n)
<1> DEFINE S(n) == {k \in 1..n : f[k].kind = kind}
<1>1. \A n \in Nat : IsFiniteSet(S(n)) /\ Cardinality(S(n)) \in Nat
  <2> TAKE n \in Nat
  <2>1. IsFiniteSet(1..n)
    BY FS_Interval
  <2>2. S(n) \in SUBSET (1..n)
    OBVIOUS
  <2> HIDE DEF S
  <2> QED BY <2>1, <2>2, FS_Subset, FS_CardinalityType
<1>2. S(0) = {}
  OBVIOUS
<1>3. Count(f, kind, 0) = 0
  BY <1>2, FS_EmptySet DEF Count
<1>4. ASSUME NEW n \in Nat
      PROVE  /\ f[n + 1].kind = kind => S(n + 1) = S(n) \cup {n + 1}
             /\ f[n + 1].kind # kind => S(n + 1) = S(n)
             /\ n + 1 \notin S(n)
  OBVIOUS
<1>5. \A n \in Nat : Count(f, kind, n) = Cardinality(S(n))
  BY DEF Count
<1> HIDE DEF S
<1>6. ASSUME NEW n \in Nat
      PROVE  /\ Count(f, kind, n) \in Nat
             /\ f[n + 1].kind = kind => Count(f, kind, n + 1) = Count(f, kind, n) + 1
             /\ f[n + 1].kind # kind => Count(f, kind, n + 1) = Count(f, kind, n)
  <2>1. Cardinality(S(n) \cup {n + 1}) = Cardinality(S(n)) + 1
    BY <1>1, <1>4, FS_AddElement
  <2>2. n + 1 \in Nat
    OBVIOUS
  <2> QED BY <1>1, <1>4, <1>5, <2>1, <2>2
<1> QED BY <1>3, <1>6

LEMMA CountMonotone ==
    ASSUME NEW f \in Seq(Lines), NEW kind, NEW m \in Nat, NEW n \in Nat, m <= n
    PROVE  Count(f, kind, m) <= Count(f, kind, n)
<1>1. IsFiniteSet(1..n)
  BY FS_Interval
<1>2. {k \in 1..n : f[k].kind = kind} \in SUBSET (1..n)
  OBVIOUS
<1>3. IsFiniteSet({k \in 1..n : f[k].kind = kind})
  BY <1>1, <1>2, FS_Subset
<1>4. {k \in 1..m : f[k].kind = kind} \in SUBSET {k \in 1..n : f[k].kind = kind}
  OBVIOUS
<1> QED BY <1>3, <1>4, FS_Subset DEF Count

(* Two lines of a kind have different numbers.                             *)
LEMMA CountStrict ==
    ASSUME NEW f \in Seq(Lines), NEW kind, NEW m \in Nat, NEW n \in Nat, m < n,
           f[n].kind = kind
    PROVE  Count(f, kind, m) < Count(f, kind, n)
<1> DEFINE p == n - 1
<1>1. p \in Nat /\ n = p + 1 /\ m <= p
  OBVIOUS
<1> HIDE DEF p
<1>2. Count(f, kind, p + 1) = Count(f, kind, p) + 1
  BY <1>1, CountFacts
<1>3. Count(f, kind, m) <= Count(f, kind, p)
  BY <1>1, CountMonotone
<1>4. Count(f, kind, m) \in Nat /\ Count(f, kind, p) \in Nat
  BY <1>1, CountFacts
<1>5. Count(f, kind, n) = Count(f, kind, p) + 1
  BY <1>1, <1>2
<1> QED BY <1>3, <1>4, <1>5

LEMMA NthIs ==
    ASSUME NEW f \in Seq(Lines), NEW kind, NEW k \in DOMAIN f, f[k].kind = kind
    PROVE  Nth(f, kind, Count(f, kind, k)) = f[k]
<1> DEFINE j == CHOOSE x \in DOMAIN f :
                   f[x].kind = kind /\ Count(f, kind, x) = Count(f, kind, k)
<1>1. j \in DOMAIN f /\ f[j].kind = kind /\ Count(f, kind, j) = Count(f, kind, k)
  OBVIOUS
<1> HIDE DEF j
<1>2. DOMAIN f = 1..Len(f) /\ Len(f) \in Nat
  OBVIOUS
<1>3. j \in Nat /\ k \in Nat
  BY <1>1, <1>2
<1>6. Count(f, kind, k) \in Nat
  BY <1>3, CountFacts
<1>4. ~(j < k) /\ ~(k < j)
  BY <1>1, <1>3, <1>6, CountStrict
<1>5. j = k
  BY <1>3, <1>4
<1> QED BY <1>5 DEF Nth, j

LEMMA NthExists ==
    ASSUME NEW f \in Seq(Lines), NEW kind, NEW m \in Nat,
           NEW n \in 1..Count(f, kind, m)
    PROVE  \E k \in 1..m : f[k].kind = kind /\ Count(f, kind, k) = n
<1> DEFINE S == {j \in Nat : Count(f, kind, j) >= n}
<1>1. Count(f, kind, 0) = 0 /\ \A j \in Nat : Count(f, kind, j) \in Nat
  BY CountFacts
<1>2. m \in S /\ S \in SUBSET Nat
  BY <1>1
<1>3. PICK k \in S : \A j \in S : k <= j
  <2> HIDE DEF S
  <2> QED BY <1>2, LeastNumber
<1>4. k \in Nat /\ Count(f, kind, k) >= n /\ k <= m /\ k # 0
  BY <1>1, <1>2, <1>3
<1> DEFINE p == k - 1
<1>5. p \in Nat /\ k = p + 1 /\ ~(p \in S)
  BY <1>3, <1>4
<1>6. Count(f, kind, p) < n
  BY <1>1, <1>5
<1> HIDE DEF p
<1>9. /\ f[p + 1].kind = kind => Count(f, kind, p + 1) = Count(f, kind, p) + 1
      /\ f[p + 1].kind # kind => Count(f, kind, p + 1) = Count(f, kind, p)
  BY <1>5, CountFacts
<1>7. /\ f[k].kind = kind => Count(f, kind, k) = Count(f, kind, p) + 1
      /\ f[k].kind # kind => Count(f, kind, k) = Count(f, kind, p)
  BY <1>5, <1>9
<1>8. f[k].kind = kind /\ Count(f, kind, k) = n
  <2>1. n \in Nat /\ Count(f, kind, k) \in Nat /\ Count(f, kind, p) \in Nat
    BY <1>1, <1>4, <1>5
  <2>2. f[k].kind = kind
    BY <1>4, <1>6, <1>7, <2>1
  <2>3. Count(f, kind, k) = Count(f, kind, p) + 1
    BY <1>7, <2>2
  <2> QED BY <1>4, <1>6, <2>1, <2>2, <2>3
<1> QED BY <1>4, <1>8

-----------------------------------------------------------------------------
(* The number of the vertex of corner c of the face in line k, its a-th    *)
(* coordinate's register and what belongs there.                           *)
Turn(k, c)     == 3 * (Count(file, "f", k) - 1) + (c - 1)
Place(k, c, a) == Turn(k, c) + (a - 1) * Slots
Value(k, c, a) == Fixed(Nth(file, "v", file[k].v[c]).v[a])

(* The program has written coordinate a of the vertex numbered t.          *)
Behind(t, a) == t < tracker \/ (t = tracker /\ a < axis)

Typed ==
    /\ file \in Files /\ opens \in BOOLEAN
    /\ pc \in {"clear", "read", "face", "start", "done", "stuck"}
    /\ line \in 1..(Len(file) + 1) /\ corner \in 1..3 /\ axis \in 1..3
    /\ vals \in Seq(Seq(Int)) /\ tracker \in Nat /\ runs \in Nat \ {0}
    /\ size = Count(file, "f", line - 1)
    /\ regs \in [0..SIZE -> Int]
    /\ hw \in [on : BOOLEAN, next : 0..NUM_TRIANGLES]
    /\ whole \in BOOLEAN
    /\ shown \in [0..(NUM_TRIANGLES - 1) -> {<<>>} \cup [1..3 -> [1..3 -> Int]]]

(* What the program has read of the file, and where it is in it.           *)
ReadSoFar ==
    /\ pc = "clear" => line = 1
    /\ pc \in {"start", "done"} => line = Len(file) + 1
    /\ Len(vals) = Count(file, "v", line - 1)
    /\ \A k \in 1..(line - 1) : file[k].kind = "v" => vals[Count(file, "v", k)] = file[k].v
    /\ pc = "face" => /\ line > 1 /\ file[line - 1].kind = "f"
                      /\ tracker = Turn(line - 1, corner)
    /\ pc # "face" => /\ corner = 1 /\ axis = 1
                      /\ tracker = 3 * Count(file, "f", line - 1)

(* The start bit is set only when the program is done, or was done before  *)
(* it is run again.                                                        *)
StartBit == regs[START] % 2 = 1 => pc = "done" \/ (pc = "clear" /\ runs > 1)

(* What the program has written is there.                                  *)
Written ==
    Fits => \A k \in 1..(line - 1), c \in 1..3, a \in 1..3 :
        file[k].kind = "f" /\ Behind(Turn(k, c), a) => regs[Place(k, c, a)] = Value(k, c, a)

Frames ==
    /\ runs = 1 /\ hw.on => pc = "done"
    /\ whole => pc = "done"
    /\ whole /\ Fits => \A k \in Drawn : k < hw.next => shown[k] = Wanted(k)

NiosInv == Typed /\ ReadSoFar /\ StartBit /\ Written /\ Frames


-----------------------------------------------------------------------------
LEMMA FileFacts ==
    ASSUME file \in Files
    PROVE  /\ file \in Seq(Lines) /\ Len(file) \in Nat /\ DOMAIN file = 1..Len(file)
           /\ \A k \in 1..Len(file) : file[k].kind = "f" =>
                \A c \in 1..3 : file[k].v[c] \in 1..Count(file, "v", k)
           /\ Faces(file) \in Nat
<1>1. /\ file \in Seq(Lines)
      /\ \A k \in DOMAIN file : file[k].kind = "f" =>
           \A c \in 1..3 : file[k].v[c] \in 1..Count(file, "v", k)
  BY FilesAssumption
<1>2. Len(file) \in Nat /\ DOMAIN file = 1..Len(file)
  BY <1>1
<1>3. Faces(file) \in Nat
  BY <1>1, <1>2, CountFacts DEF Faces
<1> QED BY <1>1, <1>2, <1>3

LEMMA Sizes == /\ Slots \in Nat /\ Slots = 3 * NUM_TRIANGLES /\ NUM_TRIANGLES \in Nat
               /\ START \in Nat /\ START >= 3 * Slots /\ SIZE = START + 1
  BY SizesAssumption DEF Slots, START, SIZE

(* The vertices of a file that fits have their registers to themselves.    *)
LEMMA TurnFacts ==
    ASSUME file \in Files, NEW k \in 1..Len(file), file[k].kind = "f", NEW c \in 1..3
    PROVE  /\ Count(file, "f", k) \in Nat /\ Count(file, "f", k) >= 1
           /\ Count(file, "f", k) <= Faces(file)
           /\ Turn(k, c) \in Nat
           /\ Fits => Turn(k, c) < Slots
<1>1. file \in Seq(Lines) /\ Len(file) \in Nat /\ Faces(file) \in Nat
  BY FileFacts
<1>2. Count(file, "f", 0) = 0 /\ Count(file, "f", k) \in Nat
  BY <1>1, CountFacts
<1>3. Count(file, "f", 0) < Count(file, "f", k)
  BY <1>1, CountStrict
<1>4. Count(file, "f", k) <= Faces(file)
  BY <1>1, CountMonotone DEF Faces
<1> QED BY <1>1, <1>2, <1>3, <1>4, Sizes DEF Turn, Fits

LEMMA TurnsDiffer ==
    ASSUME file \in Files,
           NEW k \in 1..Len(file), file[k].kind = "f", NEW c \in 1..3,
           NEW j \in 1..Len(file), file[j].kind = "f", NEW d \in 1..3,
           Turn(k, c) = Turn(j, d)
    PROVE  k = j /\ c = d
<1>1. Count(file, "f", k) \in Nat /\ Count(file, "f", j) \in Nat
  BY TurnFacts
<1>2. Count(file, "f", k) = Count(file, "f", j) /\ c = d
  <2> DEFINE x == Count(file, "f", k)
             y == Count(file, "f", j)
  <2>1. 3 * (x - 1) + (c - 1) = 3 * (y - 1) + (d - 1)
    BY DEF Turn
  <2> x \in Nat /\ y \in Nat
    BY <1>1
  <2> HIDE DEF x, y
  <2>2. x = y /\ c = d
    BY <2>1
  <2> QED BY <2>2 DEF x, y
<1>3. file \in Seq(Lines) /\ k \in Nat /\ j \in Nat
  BY FileFacts
<1>4. ~(k < j) /\ ~(j < k)
  BY <1>1, <1>2, <1>3, CountStrict
<1> QED BY <1>2, <1>3, <1>4

LEMMA FixedFacts == \A v : Fixed(v) \in Int /\ Fixed(v) % 2 = 0 /\ Fixed(v) \in {fixedOne, fixedNegOne}
  BY DEF Fixed, fixedOne, fixedNegOne

(* The vertices a face names have been read before it.                     *)
LEMMA VertexRead ==
    ASSUME Typed, ReadSoFar, NEW k \in 1..(line - 1), file[k].kind = "f", NEW c \in 1..3
    PROVE  vals[file[k].v[c]] = Nth(file, "v", file[k].v[c]).v
<1> DEFINE n == file[k].v[c]
<1>1. file \in Seq(Lines) /\ Len(file) \in Nat /\ DOMAIN file = 1..Len(file)
      /\ k \in 1..Len(file) /\ line - 1 <= Len(file) /\ line \in Nat
  BY FileFacts DEF Typed
<1>2. n \in 1..Count(file, "v", k)
  BY <1>1, FileFacts DEF Typed
<1>7. k \in Nat
  BY <1>1
<1> HIDE DEF n
<1>3. PICK j \in 1..k : file[j].kind = "v" /\ Count(file, "v", j) = n
  BY <1>1, <1>2, <1>7, NthExists
<1>4. j \in 1..(line - 1) /\ j \in DOMAIN file
  BY <1>1
<1>5. vals[n] = file[j].v
  BY <1>3, <1>4 DEF ReadSoFar
<1>6. Nth(file, "v", n) = file[j]
  BY <1>1, <1>3, <1>4, NthIs
<1> QED BY <1>5, <1>6 DEF n

(* A program that is done has every triangle that fits in its registers.   *)
LEMMA AllWritten ==
    ASSUME NiosInv, pc = "done", Fits
    PROVE  \A k \in Drawn : Exported(k) = Wanted(k)
<1> SUFFICES ASSUME NEW k \in Drawn
             PROVE  Exported(k) = Wanted(k)
  OBVIOUS
<1>1. /\ file \in Seq(Lines) /\ Len(file) \in Nat /\ DOMAIN file = 1..Len(file)
      /\ Faces(file) \in Nat /\ line = Len(file) + 1 /\ axis = 1
      /\ tracker = 3 * Faces(file)
  BY FileFacts DEF NiosInv, Typed, ReadSoFar, Faces
<1>2. k \in Nat /\ k + 1 \in 1..Faces(file)
  BY <1>1 DEF Drawn
<1>3. PICK j \in 1..Len(file) : file[j].kind = "f" /\ Count(file, "f", j) = k + 1
  <2> DEFINE n == k + 1
  <2>1. n \in 1..Count(file, "f", Len(file))
    BY <1>2 DEF Faces
  <2> HIDE DEF n
  <2>2. \E j \in 1..Len(file) : file[j].kind = "f" /\ Count(file, "f", j) = n
    BY <1>1, <2>1, NthExists
  <2> QED BY <2>2 DEF n
<1>4. Nth(file, "f", k + 1) = file[j]
  BY <1>1, <1>3, NthIs
<1>5. ASSUME NEW c \in 1..3, NEW a \in 1..3
      PROVE  regs[3 * k + c - 1 + (a - 1) * Slots] = Fixed(Nth(file, "v", file[j].v[c]).v[a])
  <2>1. Turn(j, c) = 3 * k + c - 1
    BY <1>2, <1>3 DEF Turn
  <2>2. Behind(Turn(j, c), a)
    BY <1>1, <1>2, <2>1 DEF Behind
  <2>3. j \in 1..(line - 1)
    BY <1>1
  <2>4. regs[Place(j, c, a)] = Value(j, c, a)
    BY <1>3, <2>2, <2>3 DEF NiosInv, Written
  <2> QED BY <2>1, <2>4 DEF Place, Value
<1> QED BY <1>4, <1>5 DEF Exported, Wanted


-----------------------------------------------------------------------------
(* What does not touch the file leaves its faces and vertices alone.       *)
LEMMA FileHeld ==
    ASSUME file' = file
    PROVE  /\ Fits' = Fits /\ Drawn' = Drawn
           /\ \A k, c : Turn(k, c)' = Turn(k, c)
           /\ \A k, c, a : Place(k, c, a)' = Place(k, c, a) /\ Value(k, c, a)' = Value(k, c, a)
           /\ \A k : Wanted(k)' = Wanted(k)
  BY DEF Fits, Drawn, Turn, Place, Value, Wanted

(* A register beyond the vertices.                                         *)
LEMMA WrittenBeyond ==
    ASSUME Typed, Written, UNCHANGED <<file, line, tracker, axis>>,
           NEW r \in {START, SIZE}, NEW v, Write(r, v)
    PROVE  Written'
<1> SUFFICES ASSUME Fits, NEW k \in 1..(line - 1), NEW c \in 1..3, NEW a \in 1..3,
                    file[k].kind = "f", Behind(Turn(k, c), a)
             PROVE  regs'[Place(k, c, a)] = Value(k, c, a)
  BY DEF Written, Fits, Behind, Turn, Place, Value
<1>1. regs[Place(k, c, a)] = Value(k, c, a)
  BY DEF Written
<1>2. k \in 1..Len(file)
  BY FileFacts DEF Typed
<1>3. Turn(k, c) \in Nat /\ Turn(k, c) < Slots
  BY <1>2, TurnFacts DEF Typed
<1>4. Place(k, c, a) \in 0..SIZE /\ Place(k, c, a) # r
  <2>1. CASE a = 1
    BY <2>1, <1>3, Sizes DEF Place
  <2>2. CASE a = 2
    BY <2>2, <1>3, Sizes DEF Place
  <2>3. CASE a = 3
    BY <2>3, <1>3, Sizes DEF Place
  <2> QED BY <2>1, <2>2, <2>3
<1> QED BY <1>1, <1>4 DEF Write, Typed

(* One coordinate of a face.                                               *)
LEMMA WrittenFace ==
    ASSUME NiosInv, WriteFace
    PROVE  Written'
<1>1. /\ pc = "face" /\ file' = file /\ line' = line /\ vals' = vals
      /\ regs' = [regs EXCEPT ![Register] = Fixed(vals[file[line - 1].v[corner]][axis])]
      /\ axis' = (axis % 3) + 1
      /\ tracker' = (IF axis = 3 THEN tracker + 1 ELSE tracker)
  BY DEF WriteFace, Write
<1>2. Typed /\ ReadSoFar /\ Written /\ file \in Files
  BY DEF NiosInv, Typed
<1>3. /\ line > 1 /\ file[line - 1].kind = "f" /\ tracker = Turn(line - 1, corner)
      /\ line \in 1..(Len(file) + 1) /\ corner \in 1..3 /\ axis \in 1..3
      /\ regs \in [0..SIZE -> Int] /\ tracker \in Nat
  BY <1>1, <1>2 DEF ReadSoFar, Typed
<1>4. file \in Seq(Lines) /\ Len(file) \in Nat
  BY <1>2, FileFacts
<1> DEFINE K == line - 1
<1>5. K \in 1..(line - 1) /\ K \in 1..Len(file)
  BY <1>3, <1>4
<1>6. vals[file[K].v[corner]][axis] = Nth(file, "v", file[K].v[corner]).v[axis]
  BY <1>2, <1>3, <1>5, VertexRead
<1>7. Register = Place(K, corner, axis)
      /\ Fixed(vals[file[K].v[corner]][axis]) = Value(K, corner, axis)
  BY <1>3, <1>6 DEF Register, Place, Value
<1>8. axis' = (IF axis = 3 THEN 1 ELSE axis + 1)
  BY <1>1, <1>3
<1> SUFFICES ASSUME Fits, NEW k \in 1..(line - 1), NEW c \in 1..3, NEW a \in 1..3,
                    file[k].kind = "f", Behind(Turn(k, c), a)'
             PROVE  regs'[Place(k, c, a)] = Value(k, c, a)
  BY <1>1 DEF Written, Fits, Turn, Place, Value
<1>9. k \in 1..Len(file)
  BY <1>3, <1>4
<1>10. /\ Turn(k, c) \in Nat /\ Turn(k, c) < Slots
       /\ Turn(K, corner) \in Nat /\ Turn(K, corner) < Slots
  BY <1>2, <1>3, <1>5, <1>9, TurnFacts
<1>11. Turn(k, c)' = Turn(k, c)
  BY <1>1, FileHeld
<1>12. \/ Behind(Turn(k, c), a)
       \/ Turn(k, c) = Turn(K, corner) /\ a = axis
  <2>1. Turn(k, c) < tracker' \/ (Turn(k, c) = tracker' /\ a < axis')
    BY <1>11 DEF Behind
  <2> HIDE DEF K
  <2> QED BY <2>1, <1>1, <1>3, <1>8, <1>10 DEF Behind, K
<1>13. CASE Turn(k, c) = Turn(K, corner) /\ a = axis
  <2>1. k = K /\ c = corner
    BY <1>2, <1>3, <1>5, <1>9, <1>13, TurnsDiffer
  <2>2. Place(K, corner, axis) \in 0..SIZE
    <3>1. CASE axis = 1
      BY <3>1, <1>10, Sizes DEF Place
    <3>2. CASE axis = 2
      BY <3>2, <1>10, Sizes DEF Place
    <3>3. CASE axis = 3
      BY <3>3, <1>10, Sizes DEF Place
    <3> QED BY <1>3, <3>1, <3>2, <3>3
  <2>3. regs'[Place(K, corner, axis)] = Value(K, corner, axis)
    BY <1>1, <1>3, <1>7, <2>2
  <2> QED BY <1>13, <2>1, <2>3
<1>14. CASE ~(Turn(k, c) = Turn(K, corner) /\ a = axis)
  <2>1. regs[Place(k, c, a)] = Value(k, c, a)
    BY <1>2, <1>12, <1>14 DEF Written
  <2>2. Place(k, c, a) # Place(K, corner, axis) /\ Place(k, c, a) \in 0..SIZE
    <3> DEFINE t == Turn(k, c)
               u == Turn(K, corner)
    <3> HIDE DEF t, u
    <3>1. t \in 0..(Slots - 1) /\ u \in 0..(Slots - 1) /\ ~(t = u /\ a = axis)
      BY <1>10, <1>14, Sizes DEF t, u
    <3>2. Place(k, c, a) = t + (a - 1) * Slots /\ Place(K, corner, axis) = u + (axis - 1) * Slots
      BY DEF Place, t, u
    <3> DEFINE m == (a - 1) * Slots
               n == (axis - 1) * Slots
    <3>3. \/ a = 1 /\ m = 0
          \/ a = 2 /\ m = Slots
          \/ a = 3 /\ m = 2 * Slots
      BY Sizes
    <3>4. \/ axis = 1 /\ n = 0
          \/ axis = 2 /\ n = Slots
          \/ axis = 3 /\ n = 2 * Slots
      BY <1>3, Sizes
    <3> HIDE DEF m, n
    <3>5. t + m # u + n /\ t + m \in 0..SIZE
      BY <3>1, <3>3, <3>4, Sizes
    <3> QED BY <3>2, <3>5 DEF m, n
  <2> QED BY <1>1, <1>3, <1>7, <2>1, <2>2
<1> QED BY <1>13, <1>14


-----------------------------------------------------------------------------
(* The steps.                                                              *)
LEMMA StartRegister ==
    ASSUME Typed, NEW r \in {START, SIZE}, NEW v \in Int, Write(r, v)
    PROVE  /\ regs' \in [0..SIZE -> Int]
           /\ regs'[START] = IF r = START THEN v ELSE regs[START]
  BY Sizes DEF Typed, Write

LEMMA ClearKeepsInv == ASSUME NiosInv, Clear PROVE NiosInv'
<1>1. /\ pc = "clear" /\ line = 1 /\ line' = 1 /\ Typed /\ ReadSoFar
      /\ pc' \in {"read", "stuck"} /\ Write(START, 0)
      /\ UNCHANGED <<file, opens, line, corner, axis, vals, size, tracker, runs>>
      /\ UNCHANGED <<hw, shown, whole>>
  BY DEF NiosInv, ReadSoFar, Clear, Before, HardwareStays
<1>2. regs' \in [0..SIZE -> Int] /\ regs'[START] = 0
  BY <1>1, StartRegister
<1>3. Typed'
  BY <1>1, <1>2 DEF Typed
<1>4. ReadSoFar'
  BY <1>1 DEF ReadSoFar
<1>5. StartBit'
  BY <1>2 DEF StartBit
<1>6. Written'
  <2>1. ~(\E k : k \in 1..(line' - 1))
    BY <1>1
  <2> QED BY <2>1 DEF Written
<1>7. Frames'
  BY <1>1 DEF NiosInv, Frames
<1> QED BY <1>3, <1>4, <1>5, <1>6, <1>7 DEF NiosInv

LEMMA ReadLineKeepsInv == ASSUME NiosInv, ReadLine PROVE NiosInv'
<1> DEFINE l == file[line]
<1>1. /\ pc = "read" /\ line <= Len(file) /\ line' = line + 1
      /\ pc' = (CASE l.kind = "long" -> "stuck" [] l.kind = "f" -> "face" [] OTHER -> "read")
      /\ vals' = (IF l.kind = "v" THEN Append(vals, l.v) ELSE vals)
      /\ size' = (IF l.kind = "f" THEN size + 1 ELSE size)
      /\ UNCHANGED <<file, opens, corner, axis, tracker, regs, runs>>
      /\ UNCHANGED <<hw, shown, whole>>
  BY DEF ReadLine, LinesRead, HardwareStays
<1>2. /\ Typed /\ ReadSoFar /\ file \in Seq(Lines) /\ Len(file) \in Nat /\ DOMAIN file = 1..Len(file)
      /\ line \in 1..(Len(file) + 1) /\ vals \in Seq(Seq(Int)) /\ size = Count(file, "f", line - 1)
  BY FileFacts DEF NiosInv, Typed
<1>3. l \in Lines /\ l.kind \in {"v", "f", "other", "long"} /\ l.v \in Seq(Int)
  <2>1. l \in Lines
    BY <1>1, <1>2
  <2> QED BY <2>1 DEF Lines
<1> DEFINE p == line - 1
<1>4. p \in Nat /\ line = p + 1 /\ line' - 1 = line
  BY <1>1, <1>2
<1> HIDE DEF p
<1>5. \A kind : /\ l.kind = kind => Count(file, kind, line) = Count(file, kind, p) + 1
                /\ l.kind # kind => Count(file, kind, line) = Count(file, kind, p)
                /\ Count(file, kind, p) \in Nat
  <2> TAKE kind
  <2>1. /\ file[p + 1].kind = kind => Count(file, kind, p + 1) = Count(file, kind, p) + 1
        /\ file[p + 1].kind # kind => Count(file, kind, p + 1) = Count(file, kind, p)
        /\ Count(file, kind, p) \in Nat
    BY <1>2, <1>4, CountFacts
  <2> QED BY <2>1, <1>4
<1>6. \A kind : Count(file, kind, line - 1) = Count(file, kind, p)
  BY DEF p
<1>7. /\ size = Count(file, "f", p) /\ Len(vals) = Count(file, "v", p)
      /\ corner = 1 /\ axis = 1 /\ tracker = 3 * Count(file, "f", p)
      /\ \A k \in 1..p : file[k].kind = "v" => vals[Count(file, "v", k)] = file[k].v
  BY <1>1, <1>2, <1>6 DEF ReadSoFar, p
<1>8. /\ pc' \in {"stuck", "face", "read"} /\ (pc' = "face" <=> l.kind = "f")
  BY <1>1, <1>3
<1> HIDE DEF l
<1>9. vals' \in Seq(Seq(Int)) /\ Len(vals') = Count(file, "v", line)
  <2>1. CASE l.kind = "v"
    BY <2>1, <1>1, <1>2, <1>3, <1>5, <1>7
  <2>2. CASE l.kind # "v"
    BY <2>2, <1>1, <1>2, <1>5, <1>7
  <2> QED BY <2>1, <2>2
<1>10. size' = Count(file, "f", line)
  BY <1>1, <1>5, <1>7
<1>11. Typed'
  <2>1. file' = file /\ size' = Count(file', "f", line' - 1)
    BY <1>1, <1>4, <1>10
  <2>2. line' \in 1..(Len(file') + 1)
    BY <1>1, <1>2
  <2> QED BY <1>1, <1>2, <1>8, <1>9, <2>1, <2>2 DEF Typed
<1>12. ASSUME NEW k \in 1..line, file[k].kind = "v"
       PROVE  vals'[Count(file, "v", k)] = file[k].v
  <2>1. CASE k = line
    <3>1. vals' = Append(vals, l.v) /\ Count(file, "v", k) = Len(vals) + 1
      BY <2>1, <1>1, <1>5, <1>7, <1>12 DEF l
    <3> QED BY <3>1, <2>1, <1>2, <1>3 DEF l
  <2>2. CASE k # line
    <3>1. k \in 1..p /\ k \in Nat
      BY <2>2, <1>4
    <3>2. vals[Count(file, "v", k)] = file[k].v
      BY <3>1, <1>7, <1>12
    <3>3. Count(file, "v", k) <= Count(file, "v", p)
      BY <3>1, <1>2, <1>4, CountMonotone
    <3>4. Count(file, "v", 0) = 0 /\ Count(file, "v", 0) < Count(file, "v", k)
      <4>1. 0 \in Nat /\ 0 < k
        BY <3>1
      <4>2. Count(file, "v", 0) < Count(file, "v", k)
        BY <3>1, <4>1, <1>2, <1>12, CountStrict
      <4> QED BY <4>2, <1>2, CountFacts
    <3>5. Count(file, "v", k) \in 1..Len(vals)
      BY <3>1, <3>3, <3>4, <1>2, <1>7, CountFacts
    <3> QED BY <3>2, <3>5, <1>1, <1>2, <1>3
  <2> QED BY <2>1, <2>2
<1>13. ReadSoFar'
  <2>1. file' = file /\ Len(vals') = Count(file', "v", line' - 1)
    BY <1>1, <1>4, <1>9
  <2>2. \A k \in 1..(line' - 1) : file'[k].kind = "v" => vals'[Count(file', "v", k)] = file'[k].v
    BY <1>1, <1>4, <1>12
  <2>3. pc' = "face" => /\ line' > 1 /\ file'[line' - 1].kind = "f"
                        /\ tracker' = 3 * (Count(file', "f", line' - 1) - 1) + (corner' - 1)
    <3> SUFFICES ASSUME pc' = "face"
                 PROVE  /\ line' > 1 /\ file'[line' - 1].kind = "f"
                        /\ tracker' = 3 * (Count(file', "f", line' - 1) - 1) + (corner' - 1)
      OBVIOUS
    <3>1. file[line].kind = "f" /\ file' = file /\ line' - 1 = line /\ line' > 1
      BY <1>1, <1>4, <1>8 DEF l
    <3>2. Count(file, "f", line) = Count(file, "f", p) + 1 /\ Count(file, "f", p) \in Nat
      BY <3>1, <1>5 DEF l
    <3>3. tracker' = 3 * Count(file, "f", p) /\ corner' = 1
      BY <1>1, <1>7
    <3>4. tracker' = 3 * (Count(file, "f", line) - 1) + (corner' - 1)
      BY <3>2, <3>3
    <3> QED BY <3>1, <3>4
  <2>4. pc' # "face" => /\ corner' = 1 /\ axis' = 1
                        /\ tracker' = 3 * Count(file', "f", line' - 1)
    BY <1>1, <1>4, <1>5, <1>7, <1>8 DEF l
  <2> QED BY <1>8, <2>1, <2>2, <2>3, <2>4 DEF ReadSoFar, Turn
<1>14. StartBit'
  BY <1>1 DEF NiosInv, StartBit
<1>15. Written'
  <2> SUFFICES ASSUME Fits, NEW k \in 1..line, NEW c \in 1..3, NEW a \in 1..3,
                      file[k].kind = "f", Behind(Turn(k, c), a)
               PROVE  regs[Place(k, c, a)] = Value(k, c, a)
    BY <1>1, <1>4 DEF Written, Fits, Behind, Turn, Place, Value
  <2>1. CASE k = line
    <3>1. Turn(k, c) = tracker + c - 1 /\ tracker \in Nat
      BY <2>1, <1>5, <1>7 DEF Turn, l
    <3> QED BY <3>1, <1>7 DEF Behind
  <2>2. CASE k # line
    <3>1. k \in 1..(line - 1)
      BY <2>2, <1>4
    <3> QED BY <3>1 DEF NiosInv, Written
  <2> QED BY <2>1, <2>2
<1>16. Frames'
  <2>1. Frames
    BY DEF NiosInv
  <2> QED BY <1>1, <2>1 DEF Frames
<1> QED BY <1>11, <1>13, <1>14, <1>15, <1>16 DEF NiosInv


LEMMA WriteFaceKeepsInv == ASSUME NiosInv, WriteFace PROVE NiosInv'
<1> DEFINE v == Fixed(vals[file[line - 1].v[corner]][axis])
<1>1. /\ pc = "face" /\ Write(Register, v)
      /\ axis' = (axis % 3) + 1
      /\ tracker' = (IF axis = 3 THEN tracker + 1 ELSE tracker)
      /\ corner' = (IF axis = 3 THEN (corner % 3) + 1 ELSE corner)
      /\ pc' = (IF axis = 3 /\ corner = 3 THEN "read" ELSE "face")
      /\ UNCHANGED <<file, opens, line, vals, size, runs>>
      /\ UNCHANGED <<hw, shown, whole>>
  BY DEF WriteFace, HardwareStays
<1>2. v \in Int /\ v % 2 = 0
  BY FixedFacts
<1> HIDE DEF v
<1>3. /\ Typed /\ ReadSoFar /\ corner \in 1..3 /\ axis \in 1..3 /\ tracker \in Nat
      /\ line \in 1..(Len(file) + 1)
      /\ regs \in [0..SIZE -> Int] /\ START \in 0..SIZE
  BY Sizes DEF NiosInv, Typed
<1>4. regs' \in [0..SIZE -> Int] /\ (regs'[START] = regs[START] \/ regs'[START] = v)
  BY <1>1, <1>2, <1>3 DEF Write
<1>5. /\ axis' = (IF axis = 3 THEN 1 ELSE axis + 1)
      /\ corner' = (IF axis = 3 THEN (IF corner = 3 THEN 1 ELSE corner + 1) ELSE corner)
  BY <1>1, <1>3
<1>6. Typed'
  <2>1. /\ axis' \in 1..3 /\ corner' \in 1..3 /\ tracker' \in Nat
        /\ pc' \in {"clear", "read", "face", "start", "done", "stuck"}
    BY <1>1, <1>3, <1>5
  <2> QED BY <1>1, <1>3, <1>4, <2>1 DEF Typed
<1>7. ReadSoFar'
  <2>1. /\ line > 1 /\ file[line - 1].kind = "f"
        /\ tracker = 3 * (Count(file, "f", line - 1) - 1) + (corner - 1)
    BY <1>1, <1>3 DEF ReadSoFar, Turn
  <2>2. Count(file, "f", line - 1) \in Nat
    <3>1. line - 1 \in Nat /\ file \in Seq(Lines)
      BY <1>3, <2>1, FileFacts DEF Typed
    <3> QED BY <3>1, CountFacts
  <2>3. pc' = "face" => tracker' = 3 * (Count(file, "f", line - 1) - 1) + (corner' - 1)
    BY <1>1, <1>3, <1>5, <2>1, <2>2
  <2>4. pc' # "face" => corner' = 1 /\ axis' = 1 /\ tracker' = 3 * Count(file, "f", line - 1)
    BY <1>1, <1>3, <1>5, <2>1, <2>2
  <2>5. /\ Len(vals') = Count(file', "v", line' - 1)
        /\ \A k \in 1..(line' - 1) : file'[k].kind = "v" => vals'[Count(file', "v", k)] = file'[k].v
    BY <1>1, <1>3 DEF ReadSoFar
  <2>6. pc' \in {"read", "face"} /\ file' = file /\ line' = line
    BY <1>1
  <2> QED BY <2>1, <2>3, <2>4, <2>5, <2>6 DEF ReadSoFar, Turn
<1>8. StartBit'
  BY <1>1, <1>2, <1>4 DEF NiosInv, StartBit
<1>9. Written'
  BY WrittenFace
<1>10. Frames'
  BY <1>1 DEF NiosInv, Frames
<1> QED BY <1>6, <1>7, <1>8, <1>9, <1>10 DEF NiosInv

LEMMA EndKeepsInv == ASSUME NiosInv, WriteSize \/ WriteStart PROVE NiosInv'
<1>1. /\ UNCHANGED <<file, opens, line, corner, axis, vals, size, tracker, runs>>
      /\ UNCHANGED <<hw, shown, whole>>
  BY DEF WriteSize, WriteStart, HardwareStays
<1>2. Typed /\ ReadSoFar /\ StartBit /\ Written /\ Frames
  BY DEF NiosInv
<1>3. size \in Int /\ StartValue \in Int /\ START # SIZE
  <2>1. file \in Seq(Lines) /\ line - 1 \in Nat
    BY <1>2, FileFacts DEF Typed
  <2>2. size \in Nat
    BY <1>2, <2>1, CountFacts DEF Typed
  <2> QED BY <2>2, Sizes DEF StartValue
<1>4. CASE WriteSize
  <2>1. pc = "read" /\ line > Len(file) /\ pc' = "start" /\ Write(SIZE, size)
    BY <1>4 DEF WriteSize, LinesRead
  <2>2. regs' \in [0..SIZE -> Int] /\ regs'[START] = regs[START]
    BY <1>2, <1>3, <2>1, StartRegister
  <2>3. Typed'
    BY <1>1, <1>2, <2>1, <2>2 DEF Typed
  <2>4. line = Len(file) + 1
    BY <1>2, <2>1, FileFacts DEF Typed
  <2>5. ReadSoFar'
    BY <1>1, <1>2, <2>1, <2>4 DEF ReadSoFar
  <2>6. StartBit'
    BY <1>2, <2>1, <2>2 DEF StartBit
  <2>7. Written'
    BY <1>1, <1>2, <2>1, WrittenBeyond
  <2>8. Frames'
    BY <1>1, <1>2, <2>1 DEF Frames
  <2> QED BY <2>3, <2>5, <2>6, <2>7, <2>8 DEF NiosInv
<1>5. CASE WriteStart
  <2>1. pc = "start" /\ pc' = "done" /\ Write(START, StartValue)
    BY <1>5 DEF WriteStart
  <2>2. regs' \in [0..SIZE -> Int]
    BY <1>2, <1>3, <2>1, StartRegister
  <2>3. Typed'
    BY <1>1, <1>2, <2>1, <2>2 DEF Typed
  <2>4. ReadSoFar'
    BY <1>1, <1>2, <2>1 DEF ReadSoFar
  <2>5. StartBit'
    BY <2>1 DEF StartBit
  <2>6. Written'
    BY <1>1, <1>2, <2>1, WrittenBeyond
  <2>7. Frames'
    BY <1>1, <1>2, <2>1 DEF Frames
  <2> QED BY <2>3, <2>4, <2>5, <2>6, <2>7 DEF NiosInv
<1> QED BY <1>4, <1>5

LEMMA RunAgainKeepsInv == ASSUME NiosInv, RunAgain PROVE NiosInv'
<1>1. /\ file' \in Files /\ opens' \in BOOLEAN
      /\ pc' = "clear" /\ line' = 1 /\ corner' = 1 /\ axis' = 1
      /\ vals' = <<>> /\ size' = 0 /\ tracker' = 0 /\ runs' = runs + 1
      /\ whole' = FALSE /\ UNCHANGED <<regs, hw, shown>>
  BY DEF RunAgain, Run
<1>2. Typed /\ runs \in Nat \ {0}
  BY DEF NiosInv, Typed
<1>3. file' \in Seq(Lines) /\ Len(file') \in Nat
  BY <1>1, FilesAssumption
<1>4. Count(file', "v", 0) = 0 /\ Count(file', "f", 0) = 0
  BY <1>3, CountFacts
<1>5. line' - 1 = 0
  BY <1>1
<1>6. Typed'
  <2>1. size' = Count(file', "f", line' - 1)
    BY <1>1, <1>4, <1>5
  <2>2. line' \in 1..(Len(file') + 1) /\ runs' \in Nat \ {0} /\ vals' \in Seq(Seq(Int))
    BY <1>1, <1>2, <1>3
  <2>3. /\ pc' \in {"clear", "read", "face", "start", "done", "stuck"}
        /\ corner' \in 1..3 /\ axis' \in 1..3 /\ tracker' \in Nat
    BY <1>1
  <2>5. whole' \in BOOLEAN
    BY <1>1, Zenon
  <2>4. /\ regs' \in [0..SIZE -> Int]
        /\ hw' \in [on : BOOLEAN, next : 0..NUM_TRIANGLES]
        /\ shown' \in [0..(NUM_TRIANGLES - 1) -> {<<>>} \cup [1..3 -> [1..3 -> Int]]]
    BY <1>1, <1>2 DEF Typed
  <2> QED BY <1>1, <2>1, <2>2, <2>3, <2>4, <2>5 DEF Typed
<1>7. ReadSoFar'
  <2>1. \A k \in 1..(line' - 1) : FALSE
    BY <1>5
  <2> QED BY <1>1, <1>4, <1>5, <2>1 DEF ReadSoFar
<1>8. StartBit'
  BY <1>1, <1>2 DEF StartBit
<1>9. Written'
  <2>1. \A k \in 1..(line' - 1) : FALSE
    BY <1>5
  <2> QED BY <2>1 DEF Written
<1>10. Frames'
  BY <1>1, <1>2 DEF Frames
<1> QED BY <1>6, <1>7, <1>8, <1>9, <1>10 DEF NiosInv

LEMMA HardwareKeepsInv == ASSUME NiosInv, Hardware PROVE NiosInv'
<1>1. UNCHANGED program /\ UNCHANGED regs
  BY DEF Hardware, HwStart, HwTake, HwNextFrame
<1>2. Typed /\ ReadSoFar /\ StartBit /\ Written /\ Frames
  BY DEF NiosInv
<1>3. /\ hw \in [on : BOOLEAN, next : 0..NUM_TRIANGLES] /\ NUM_TRIANGLES \in Nat
      /\ shown \in [0..(NUM_TRIANGLES - 1) -> {<<>>} \cup [1..3 -> [1..3 -> Int]]]
      /\ whole \in BOOLEAN
  BY <1>2, Sizes DEF Typed
<1>4. ReadSoFar' /\ StartBit' /\ Written'
  <2>1. ReadSoFar'
    BY <1>1, <1>2 DEF ReadSoFar, program, Turn
  <2>2. StartBit'
    BY <1>1, <1>2 DEF StartBit, program
  <2>3. Written'
    BY <1>1, <1>2 DEF Written, program, Fits, Behind, Turn, Place, Value
  <2> QED BY <2>1, <2>2, <2>3
<1>5. ASSUME hw' \in [on : BOOLEAN, next : 0..NUM_TRIANGLES], whole' \in BOOLEAN,
             shown' \in [0..(NUM_TRIANGLES - 1) -> {<<>>} \cup [1..3 -> [1..3 -> Int]]]
      PROVE  Typed'
  BY <1>1, <1>2, <1>5 DEF Typed, program
<1>6. /\ pc' = pc /\ runs' = runs /\ (Fits' <=> Fits) /\ Drawn' = Drawn
      /\ \A k \in Drawn : Wanted(k)' = Wanted(k)
  BY <1>1 DEF program, Fits, Drawn, Wanted
<1>7. CASE HwStart \/ HwNextFrame
  <2>1. /\ hw' = [on |-> TRUE, next |-> 0] /\ whole' = (pc = "done") /\ UNCHANGED shown
        /\ hw.on \/ regs[START] % 2 = 1
    BY <1>3, <1>7 DEF HwStart, HwNextFrame
  <2>2. Typed'
    BY <1>3, <1>5, <2>1
  <2>3. \A k \in Drawn : ~(k < hw'.next)
    BY <2>1 DEF Drawn
  <2>4. runs = 1 => pc = "done"
    BY <1>2, <2>1 DEF Frames, StartBit
  <2>5. Frames'
    BY <1>6, <2>1, <2>3, <2>4 DEF Frames
  <2> QED BY <1>4, <2>2, <2>5 DEF NiosInv
<1>8. CASE HwTake
  <2>1. /\ hw.on /\ hw.next < NUM_TRIANGLES
        /\ shown' = [shown EXCEPT ![hw.next] = Exported(hw.next)]
        /\ hw' = [hw EXCEPT !.next = hw.next + 1]
        /\ UNCHANGED whole
    BY <1>8 DEF HwTake
  <2>2. hw' \in [on : BOOLEAN, next : 0..NUM_TRIANGLES] /\ hw'.next = hw.next + 1 /\ hw'.on
        /\ hw.next \in 0..(NUM_TRIANGLES - 1)
    BY <1>3, <2>1
  <2>3. Exported(hw.next) \in [1..3 -> [1..3 -> Int]]
    <3>1. ASSUME NEW c \in 1..3, NEW a \in 1..3
          PROVE  regs[3 * hw.next + c - 1 + (a - 1) * Slots] \in Int
      <4> DEFINE m == (a - 1) * Slots
      <4>1. m \in {0, Slots, 2 * Slots}
        BY Sizes
      <4> HIDE DEF m
      <4>2. 3 * hw.next + c - 1 + m \in 0..SIZE
        BY <2>2, <4>1, Sizes
      <4> QED BY <4>2, <1>2 DEF Typed, m
    <3> QED BY <3>1 DEF Exported
  <2>4. Typed'
    BY <1>3, <1>5, <2>1, <2>2, <2>3
  <2>5. ASSUME whole, Fits, NEW k \in Drawn, k < hw.next + 1
        PROVE  shown'[k] = Wanted(k)
    <3>1. k \in 0..(NUM_TRIANGLES - 1)
      BY DEF Drawn
    <3>2. CASE k = hw.next
      <4>1. pc = "done"
        BY <1>2, <2>5 DEF Frames
      <4>2. Exported(k) = Wanted(k)
        BY <2>5, <4>1, AllWritten
      <4> QED BY <3>1, <3>2, <4>2, <1>3, <2>1
    <3>3. CASE k # hw.next
      <4>1. k < hw.next
        BY <2>2, <2>5, <3>1, <3>3
      <4>2. shown[k] = Wanted(k)
        BY <4>1, <1>2, <2>5 DEF Frames
      <4> QED BY <3>1, <3>3, <4>2, <1>3, <2>1
    <3> QED BY <3>2, <3>3
  <2>6. Frames'
    BY <1>2, <1>6, <2>1, <2>2, <2>5 DEF Frames
  <2> QED BY <1>4, <2>4, <2>6 DEF NiosInv
<1> QED BY <1>7, <1>8 DEF Hardware

(* The inductive invariant: where the program is in the file, what it has  *)
(* read and written of it, and what the hardware may have seen.            *)
THEOREM NiosInvariant == NiosSpec => []NiosInv
<1>1. NiosInit => NiosInv
  <2> SUFFICES ASSUME NiosInit PROVE NiosInv
    OBVIOUS
  <2>1. /\ file \in Files /\ opens \in BOOLEAN
        /\ pc = "clear" /\ line = 1 /\ corner = 1 /\ axis = 1
        /\ vals = <<>> /\ size = 0 /\ tracker = 0 /\ runs = 1
        /\ regs = [r \in 0..SIZE |-> 0]
        /\ hw = [on |-> FALSE, next |-> 0]
        /\ shown = [k \in 0..(NUM_TRIANGLES - 1) |-> <<>>]
        /\ whole = FALSE
    BY DEF NiosInit
  <2>2. file \in Seq(Lines) /\ Len(file) \in Nat
    BY <2>1, FileFacts
  <2>3. Count(file, "v", 0) = 0 /\ Count(file, "f", 0) = 0 /\ line - 1 = 0
    BY <2>1, <2>2, CountFacts
  <2>4. \A k \in 1..(line - 1) : FALSE
    BY <2>3
  <2>5. Typed
    BY <2>1, <2>2, <2>3, Sizes DEF Typed
  <2>6. ReadSoFar
    BY <2>1, <2>3, <2>4 DEF ReadSoFar
  <2>7. StartBit
    BY <2>1, Sizes DEF StartBit
  <2>8. Written /\ Frames
    BY <2>1, <2>4 DEF Written, Frames
  <2> QED BY <2>5, <2>6, <2>7, <2>8 DEF NiosInv
<1>2. NiosInv /\ [NiosNext]_niosVars => NiosInv'
  <2> SUFFICES ASSUME NiosInv, [NiosNext]_niosVars PROVE NiosInv'
    OBVIOUS
  <2>1. CASE Stuck \/ UNCHANGED niosVars
    <3>1. UNCHANGED <<program, regs, hw, shown, whole>>
      BY <2>1 DEF Stuck, HardwareStays, niosVars
    <3>2. Typed' /\ ReadSoFar'
      BY <3>1 DEF NiosInv, Typed, ReadSoFar, program, Turn
    <3>3. StartBit'
      BY <3>1 DEF NiosInv, StartBit, program
    <3>4. Written'
      BY <3>1 DEF NiosInv, Written, program, Fits, Behind, Turn, Place, Value
    <3>5. Frames'
      BY <3>1 DEF NiosInv, Frames, program, Fits, Drawn, Wanted
    <3> QED BY <3>2, <3>3, <3>4, <3>5 DEF NiosInv
  <2>2. CASE Clear \/ ReadLine \/ WriteFace \/ WriteSize \/ WriteStart
    BY <2>2, ClearKeepsInv, ReadLineKeepsInv, WriteFaceKeepsInv, EndKeepsInv
  <2>3. CASE RunAgain
    BY <2>3, RunAgainKeepsInv
  <2>4. CASE Hardware
    BY <2>4, HardwareKeepsInv
  <2> QED BY <2>1, <2>2, <2>3, <2>4 DEF NiosNext, Program
<1> QED BY <1>1, <1>2, PTL DEF NiosSpec

(* On the first run the hardware finds every vertex of the file in place:  *)
(* the start bit is the last thing the program writes, and no vertex that  *)
(* runs over the start register sets it.                                   *)
THEOREM NiosStartsComplete == NiosSpec => []StartsComplete
<1>1. NiosInv => StartsComplete
  <2> SUFFICES ASSUME NiosInv, runs = 1, hw.on
               PROVE  pc = "done" /\ (Fits => \A k \in Drawn : Exported(k) = Wanted(k))
    BY DEF StartsComplete
  <2>1. pc = "done"
    BY DEF NiosInv, Frames
  <2> QED BY <2>1, AllWritten
<1> QED BY <1>1, NiosInvariant, PTL

(* A frame taken while the program is done shows the triangles of its      *)
(* file, whatever an earlier run has left in the registers.                *)
THEOREM NiosFrameShowsFile == NiosSpec => []FrameShowsFile
<1>1. NiosInv => FrameShowsFile
  <2> SUFFICES ASSUME NiosInv, whole, hw.next = NUM_TRIANGLES, Fits, NEW k \in Drawn
               PROVE  shown[k] = Wanted(k)
    BY DEF FrameShowsFile
  <2>1. k < hw.next
    BY Sizes DEF Drawn
  <2> QED BY <2>1 DEF NiosInv, Frames
<1> QED BY <1>1, NiosInvariant, PTL


-----------------------------------------------------------------------------
(* The registers of vertices hold 1, -1 or nothing, whatever the file says *)
(* and however many runs have written them: the vertices that Projection   *)
(* assumes.                                                                *)
Coordinates == {0, fixedOne, fixedNegOne}
CoordinatesInv ==
    /\ \A r \in 0..(3 * Slots - 1) : regs[r] \in Coordinates
    /\ \A k \in 0..(NUM_TRIANGLES - 1) : shown[k] # <<>> =>
          \A c \in 1..3, a \in 1..3 : shown[k][c][a] \in Coordinates

(* What the hardware takes from the registers, also half way through a     *)
(* run, are corners of the cube or points of its planes and axes.          *)
THEOREM NiosCoordinates == NiosSpec => []CoordinatesInv
<1>1. NiosInit => CoordinatesInv
  <2> SUFFICES ASSUME NiosInit PROVE CoordinatesInv
    OBVIOUS
  <2>1. \A r \in 0..(3 * Slots - 1) : regs[r] = 0
    BY Sizes DEF NiosInit
  <2>2. \A k \in 0..(NUM_TRIANGLES - 1) : shown[k] = <<>>
    BY DEF NiosInit
  <2> QED BY <2>1, <2>2 DEF CoordinatesInv, Coordinates
<1>2. NiosInv /\ CoordinatesInv /\ [NiosNext]_niosVars => CoordinatesInv'
  <2> SUFFICES ASSUME NiosInv, CoordinatesInv, [NiosNext]_niosVars PROVE CoordinatesInv'
    OBVIOUS
  <2>1. regs \in [0..SIZE -> Int] /\ hw.next \in Nat
        /\ shown \in [0..(NUM_TRIANGLES - 1) -> {<<>>} \cup [1..3 -> [1..3 -> Int]]]
    BY Sizes DEF NiosInv, Typed
  <2>2. 3 * Slots - 1 < START /\ START < SIZE /\ 3 * Slots \in Nat /\ START \in Nat /\ SIZE \in Nat
    BY Sizes
  <2>3. ASSUME NEW r, NEW v, Write(r, v), UNCHANGED shown,
               r \in {START, SIZE} \/ v \in Coordinates
        PROVE  CoordinatesInv'
    BY <2>1, <2>2, <2>3 DEF CoordinatesInv, Write
  <2>4. CASE Clear \/ WriteSize \/ WriteStart
    <3>1. (\E v : Write(START, v) \/ Write(SIZE, v)) /\ UNCHANGED shown
      BY <2>4 DEF Clear, WriteSize, WriteStart, Before, HardwareStays
    <3> QED BY <2>3, <3>1
  <2>5. CASE WriteFace
    <3>1. Write(Register, Fixed(vals[file[line - 1].v[corner]][axis])) /\ UNCHANGED shown
      BY <2>5 DEF WriteFace, HardwareStays
    <3> QED BY <2>3, <3>1, FixedFacts DEF Coordinates
  <2>6. CASE ReadLine \/ Stuck \/ RunAgain \/ HwStart \/ HwNextFrame \/ UNCHANGED niosVars
    <3>1. UNCHANGED <<regs, shown>>
      BY <2>6 DEF ReadLine, Stuck, RunAgain, HwStart, HwNextFrame, HardwareStays, niosVars
    <3> QED BY <3>1 DEF CoordinatesInv
  <2>7. CASE HwTake
    <3>1. /\ hw.next \in 0..(NUM_TRIANGLES - 1) /\ UNCHANGED regs
          /\ shown' = [shown EXCEPT ![hw.next] = Exported(hw.next)]
      BY <2>1, <2>7, Sizes DEF HwTake
    <3>2. ASSUME NEW c \in 1..3, NEW a \in 1..3
          PROVE  Exported(hw.next)[c][a] \in Coordinates
      <4> DEFINE m == (a - 1) * Slots
      <4>1. m \in {0, Slots, 2 * Slots}
        BY Sizes
      <4> HIDE DEF m
      <4>2. 3 * hw.next + c - 1 + m \in 0..(3 * Slots - 1)
        BY <3>1, <4>1, Sizes
      <4>3. Exported(hw.next)[c][a] = regs[3 * hw.next + c - 1 + m]
        BY DEF Exported, m
      <4> QED BY <4>2, <4>3 DEF CoordinatesInv
    <3> QED BY <2>1, <3>1, <3>2 DEF CoordinatesInv
  <2> QED BY <2>4, <2>5, <2>6, <2>7 DEF NiosNext, Program, Hardware
<1> QED BY <1>1, <1>2, NiosInvariant, PTL DEF NiosSpec
=============================================================================
