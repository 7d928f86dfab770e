----------------------------- MODULE Projection -----------------------------
(***************************************************************************)
(* One vertex on its way to the screen (polygonRaster.sv): the rotation    *)
(* about the x axis, which is wired, and the projection machine S1..S19    *)
(* with its dividers and multipliers.  Registers hold two's complement     *)
(* words of 2Q+2 bits (32, with Q = 15), here the integers they stand for. *)
(* The path of z, which drives no output that is used, is left out, and    *)
(* so are the cycles of a division or a product: they take any time, and   *)
(* what they yield is what Divider and Multiplier show.                    *)
(***************************************************************************)
EXTENDS Integers

CONSTANTS One,          \* 2^Q, the number 1
          WIDTH, HEIGHT,\* 319 and 239, the last pixel of a row and of a column
          Vertices,     \* vertices a program may write to the registers
          Angles        \* entries of the tables: sin, cos and neg_sin

ASSUME ProjectionAssumption ==
    /\ One \in Nat /\ One > 0 /\ One % 4 = 0
    /\ WIDTH \in Nat /\ HEIGHT \in Nat /\ WIDTH < One /\ HEIGHT < One
    /\ Vertices \subseteq {-One, 0, One} \X {-One, 0, One} \X {-One, 0, One}
    /\ \A a \in Angles : {a.sin, a.cos, a.neg_sin} \subseteq (-One)..One

(* The tables (sin_values.mif, cos_values.mif, neg_sin_values.mif) hold    *)
(* sine and cosine, rounded: the sum of their magnitudes is at least 1 in  *)
(* each of their 315 entries, and neg_sin is -sin up to the last bit.      *)
Abs(n) == IF n < 0 THEN -n ELSE n
ASSUME TablesAssumption ==
    \A a \in Angles : /\ Abs(a.sin) + Abs(a.cos) >= One
                      /\ Abs(a.neg_sin) + Abs(a.cos) >= One
                      /\ a.sin + a.neg_sin \in {-1, 0, 1}

VARIABLES vertex, angle,                  \* the inputs; they hold still meanwhile
          State,
          tempx, tempy, flipX, flipY, flipDivider, multx, multy,
          dividing, quotientx, quotienty, \* operands of the dividers, or Idle
          multiplying, productx, producty,
          newx, newy, DONE

inputs == <<vertex, angle>>
temps  == <<tempx, tempy, flipX, flipY, flipDivider, multx, multy>>
units  == <<dividing, quotientx, quotienty, multiplying, productx, producty>>
outs   == <<newx, newy, DONE>>
vars   == <<inputs, State, temps, units, outs>>

Idle == <<>>
M == 4 * One * One                                      \* 2^32
Wrap(n) == LET w == n % M IN IF w < M \div 2 THEN w ELSE w - M
aspect_ratio == (3 * One) \div 4
WholeWidth == WIDTH * One        \* a mutated form of width: not halved
width == (WIDTH * One) \div 2
height == (HEIGHT * One) \div 2
-----------------------------------------------------------------------------
(* The rotation: sums of words, shifted right as unsigned words are, with  *)
(* zeroes from the left.                                                   *)
Shifted(n) == (n % M) \div One
X == vertex[1]
Y == Shifted(vertex[2] * angle.cos + angle.sin * vertex[3])
Z == Shifted(vertex[3] * angle.cos + angle.neg_sin * vertex[2])
Zplusnothing == Z                 \* a mutated form of zplusthree
zplusthree == Wrap(Z + 3 * One)

(* The words of the dividers and multipliers are a sign and a magnitude.   *)
Magnitude(w) == w % (M \div 2)
SignedWord(negative, m) == (m % (M \div 2)) - (IF negative THEN M \div 2 ELSE 0)
Product(a, b) ==
    SignedWord((a < 0) # (b < 0), (Magnitude(a) * Magnitude(b)) \div One)
Quotient(a, b) ==                                       \* its last bit is 0
    SignedWord((a < 0) # (b < 0), 2 * ((Magnitude(a) * One) \div (2 * Magnitude(b))))
-----------------------------------------------------------------------------
Init ==
    /\ vertex \in Vertices /\ angle \in Angles
    /\ State = "WAIT"
    /\ tempx = 0 /\ tempy = 0 /\ multx = 0 /\ multy = 0
    /\ flipX = FALSE /\ flipY = FALSE /\ flipDivider = FALSE
    /\ dividing = Idle /\ quotientx = 0 /\ quotienty = 0
    /\ multiplying = Idle /\ productx = 0 /\ producty = 0
    /\ newx = 0 /\ newy = 0 /\ DONE = FALSE

(* START, with the vertex and the angle of the next frame.  WAIT goes to   *)
(* S1 by way of S0 with everything cleared, DONESTATE2 by way of S00,      *)
(* which clears it.                                                        *)
Start ==
    /\ State \in {"WAIT", "DONESTATE2"}
    /\ vertex' \in Vertices /\ angle' \in Angles
    /\ State' = IF State = "WAIT" THEN "S1" ELSE "S00"
    /\ DONE' = FALSE
    /\ UNCHANGED <<temps, units, newx, newy>>

S00 ==
    /\ State = "S00" /\ State' = "S1"
    /\ tempx' = 0 /\ tempy' = 0 /\ multx' = 0 /\ multy' = 0
    /\ flipX' = FALSE /\ flipY' = FALSE /\ flipDivider' = FALSE
    /\ newx' = 0 /\ newy' = 0
    /\ UNCHANGED <<inputs, units, DONE>>

S1 ==
    /\ State = "S1" /\ State' = "S2"
    /\ flipX' = (flipX \/ X < 0)
    /\ tempx' = IF X < 0 THEN Wrap(-X) ELSE X
    /\ multx' = aspect_ratio
    /\ UNCHANGED <<inputs, tempy, flipY, flipDivider, multy, units, outs>>

(* S2 and S15: Mstart.                                                     *)
Multiply(from, to) ==
    /\ State = from /\ State' = to
    /\ multiplying' = <<tempx, multx, tempy, multy>>
    /\ UNCHANGED <<inputs, temps, dividing, quotientx, quotienty,
                   productx, producty, outs>>

(* The multipliers end together.                                           *)
Multiplied ==
    /\ multiplying # Idle
    /\ multiplying' = Idle
    /\ productx' = Product(multiplying[1], multiplying[2])
    /\ producty' = Product(multiplying[3], multiplying[4])
    /\ UNCHANGED <<inputs, State, temps, dividing, quotientx, quotienty, outs>>

(* A mutated form of S3: the products are started again while they last. *)
S3Restarts ==
    /\ State = "S3" /\ State' = IF multiplying = Idle THEN "S4" ELSE "S2"
    /\ UNCHANGED <<inputs, temps, units, outs>>

(* S3 waits for the products; S4 loads x.                                  *)
S3 ==
    /\ State = "S3" /\ multiplying = Idle /\ State' = "S4"
    /\ UNCHANGED <<inputs, temps, units, outs>>

S4 ==
    /\ State = "S4" /\ State' = "S5"
    /\ tempx' = productx /\ tempy' = Y
    /\ UNCHANGED <<inputs, flipX, flipY, flipDivider, multx, multy, units, outs>>

(* S5, and S6, which is about z alone.                                     *)
S5 ==
    /\ State = "S5" /\ State' = "S7"
    /\ flipX' = FALSE
    /\ tempx' = IF flipX THEN Wrap(-tempx) ELSE tempx
    /\ UNCHANGED <<inputs, tempy, flipY, flipDivider, multx, multy, units, outs>>

(* Without a division, S11 finds the quotients of an earlier vertex.       *)
S7 ==
    /\ State = "S7"
    /\ State' = IF zplusthree = 0 THEN "S11" ELSE "S8"
    /\ UNCHANGED <<inputs, temps, units, outs>>

(* The divisor itself keeps its sign: zplusthree is a wire, and what S8    *)
(* assigns to it is gone in S9.                                            *)
S8 ==
    /\ State = "S8" /\ State' = "S9"
    /\ flipX' = (flipX \/ tempx < 0) /\ flipY' = (flipY \/ tempy < 0)
    /\ tempx' = IF tempx < 0 THEN Wrap(-tempx) ELSE tempx
    /\ tempy' = IF tempy < 0 THEN Wrap(-tempy) ELSE tempy
    /\ flipDivider' = (flipDivider \/ zplusthree < 0)
    /\ UNCHANGED <<inputs, multx, multy, units, outs>>

(* Dstart.                                                                 *)
S9 ==
    /\ State = "S9" /\ State' = "S10"
    /\ dividing' = <<tempx, tempy, zplusthree>>
    /\ UNCHANGED <<inputs, temps, quotientx, quotienty,
                   multiplying, productx, producty, outs>>

Divided ==
    /\ dividing # Idle
    /\ dividing' = Idle
    /\ quotientx' = Quotient(dividing[1], dividing[3])
    /\ quotienty' = Quotient(dividing[2], dividing[3])
    /\ UNCHANGED <<inputs, State, temps, multiplying, productx, producty, outs>>

S10 ==
    /\ State = "S10" /\ dividing = Idle /\ State' = "S11"
    /\ UNCHANGED <<inputs, temps, units, outs>>

S11 ==
    /\ State = "S11" /\ State' = "S12"
    /\ tempx' = quotientx /\ tempy' = quotienty
    /\ UNCHANGED <<inputs, flipX, flipY, flipDivider, multx, multy, units, outs>>

S12 ==
    /\ State = "S12" /\ State' = "S13"
    /\ tempx' = IF flipX /\ ~flipDivider THEN Wrap(-tempx) ELSE tempx
    /\ tempy' = IF flipY /\ ~flipDivider THEN Wrap(-tempy) ELSE tempy
    /\ flipX' = FALSE /\ flipY' = FALSE /\ flipDivider' = FALSE
    /\ UNCHANGED <<inputs, multx, multy, units, outs>>

S13 ==
    /\ State = "S13" /\ State' = "S14"
    /\ tempx' = Wrap(tempx + One) /\ tempy' = Wrap(tempy + One)
    /\ UNCHANGED <<inputs, flipX, flipY, flipDivider, multx, multy, units, outs>>

S14 ==
    /\ State = "S14" /\ State' = "S15"
    /\ multx' = width /\ multy' = height
    /\ flipX' = (flipX \/ tempx < 0) /\ flipY' = (flipY \/ tempy < 0)
    /\ tempx' = IF tempx < 0 THEN Wrap(-tempx) ELSE tempx
    /\ tempy' = IF tempy < 0 THEN Wrap(-tempy) ELSE tempy
    /\ UNCHANGED <<inputs, flipDivider, units, outs>>

S16 ==
    /\ State = "S16" /\ multiplying = Idle /\ State' = "S17"
    /\ tempx' = productx /\ tempy' = producty
    /\ UNCHANGED <<inputs, flipX, flipY, flipDivider, multx, multy, units, outs>>

S17 ==
    /\ State = "S17" /\ State' = "S18"
    /\ tempx' = IF flipX THEN Wrap(-tempx) ELSE tempx
    /\ tempy' = IF flipY THEN Wrap(-tempy) ELSE tempy
    /\ flipX' = FALSE /\ flipY' = FALSE
    /\ UNCHANGED <<inputs, flipDivider, multx, multy, units, outs>>

RoundsUpNever(w) == FALSE         \* a mutated form of RoundsUp

(* Half of one, bit 14, rounds up (S18); the bits below the point go (S19).*)
RoundsUp(w) == (w \div (One \div 2)) % 2 = 1
S18 ==
    /\ State = "S18" /\ State' = "S19"
    /\ tempx' = IF RoundsUp(tempx) THEN Wrap(tempx + One) ELSE tempx
    /\ tempy' = IF RoundsUp(tempy) THEN Wrap(tempy + One) ELSE tempy
    /\ UNCHANGED <<inputs, flipX, flipY, flipDivider, multx, multy, units, outs>>

S19 ==
    /\ State = "S19" /\ State' = "DONESTATE1"
    /\ tempx' = (tempx \div One) * One /\ tempy' = (tempy \div One) * One
    /\ UNCHANGED <<inputs, flipX, flipY, flipDivider, multx, multy, units, outs>>

DONESTATE1 ==
    /\ State = "DONESTATE1" /\ State' = "DONESTATE2"
    /\ newx' = tempx /\ newy' = tempy /\ DONE' = TRUE
    /\ UNCHANGED <<inputs, temps, units>>

Step == \/ S00 \/ S1 \/ Multiply("S2", "S3") \/ S3 \/ S4 \/ S5 \/ S7 \/ S8
        \/ S9 \/ S10 \/ S11 \/ S12 \/ S13 \/ S14 \/ Multiply("S15", "S16")
        \/ S16 \/ S17 \/ S18 \/ S19 \/ DONESTATE1

Next == Start \/ Step \/ Multiplied \/ Divided

(* CLOCK_50 never stops, and divisions and products end (DivisionEnds,     *)
(* MultiplicationEnds).                                                    *)
Spec == Init /\ [][Next]_vars
        /\ WF_vars(Step) /\ WF_vars(Multiplied) /\ WF_vars(Divided)
-----------------------------------------------------------------------------
(* Whether pixel w is the one nearest to size/2 * (c/z + 1), up to the     *)
(* 2/One that a quotient may lack and what the product makes of it.        *)
Distance(a, b) == IF a < b THEN b - a ELSE a - b
Nearest(w, c, size) ==
    LET z == zplusthree
    IN  Distance(2 * z * (w \div One), size * (c + z))
            <= z + (2 * z * (size + 2)) \div One

(* What projection delivers is the perspective picture of its inputs, "newx*)
(* will be (aspect_ratio * x) / z", "newy will be y / z"                   *)
(* (polygonRaster.sv:471-472), on the screen: through nine conversions of  *)
(* sign, two products and a quotient, the nearest pixel, also when the     *)
(* registers come from another vertex.                                     *)
Projected ==
    DONE => /\ Nearest(newx, (3 * X) \div 4, WIDTH)
            /\ Nearest(newy, Y, HEIGHT)

(* A vertex of the model lands on the screen at every angle: so the lines  *)
(* end (CoordsAssumption of LineRasterizer) and their pixels have an       *)
(* address in the frame buffer, 320 * y + x.                               *)
OnScreen == DONE => /\ newx \div One \in 0..WIDTH
                    /\ newy \div One \in 0..HEIGHT

(* The units are used only where they compute what is meant: a divisor is  *)
(* positive, so that S8 and S12 never need to do what they cannot do and   *)
(* S7 never skips the division; a quotient fits; a multiplicand is even    *)
(* and not negative (EvenProductExact of Multiplier).                      *)
OperandsInRange ==
    /\ State \in {"S7", "S8", "S9"} => zplusthree > 0
    /\ dividing # Idle =>
          \A k \in 1..2 : /\ dividing[k] >= 0
                         /\ dividing[k] < 2 * One * dividing[3]
    /\ multiplying # Idle =>
          \A k \in {1, 3} : multiplying[k] >= 0 /\ multiplying[k] % 2 = 0

(* Every vertex that is started is done, as PolygonRaster assumes.         *)
VertexProjected == (State = "S1") ~> DONE

(* "Rotation over X-Axis using fixed point math" (README.md:10).  It holds *)
(* only of vertices that have turned to positive y: of a negative sum the  *)
(* shift loses the sign, and the vertex is 4 units off.                    *)
RotatesAboutX ==
    LET y == (vertex[2] * angle.cos + angle.sin * vertex[3]) \div One
    IN  Y = y
=============================================================================
