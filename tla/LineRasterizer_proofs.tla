----------------------- MODULE LineRasterizer_proofs -----------------------
(***************************************************************************)
(* Proofs about LineRasterizer, for every register width M, FIFO depth and *)
(* set of endpoint coordinates that its assumptions admit.                 *)
(***************************************************************************)
EXTENDS LineRasterizer, TLAPS

USE MAssumption, DepthAssumption, CoordsAssumption

(* The registers a loop cycle leaves alone fix the line it works on.       *)
LEMMA SameLine ==
    ASSUME UNCHANGED setup
    PROVE  /\ MajorLo' = MajorLo /\ MajorHi' = MajorHi
           /\ MinorLo' = MinorLo /\ MinorHi' = MinorHi
           /\ MajorLen' = MajorLen /\ MinorLen' = MinorLen
           /\ MinorStart' = MinorStart
           /\ bigslope' = bigslope /\ negslope' = negslope
BY DEF setup, MajorLo, MajorHi, MinorLo, MinorHi, MajorLen, MinorLen, MinorStart

(* Once the setup is over the longer extent is the major one, and both     *)
(* extents are the distances between their ends.                           *)
LEMMA Geometry ==
    ASSUME TypeOK, SetupInv, state \notin {"T1", "T2", "T3", "T4"}
    PROVE  /\ MajorLo \in 0..(M - 2) /\ MajorHi \in MajorLo..(M - 2)
           /\ MinorLo \in 0..(M - 2) /\ MinorHi \in MinorLo..(M - 2)
           /\ MajorLen = MajorHi - MajorLo /\ MinorLen = MinorHi - MinorLo
           /\ MajorLen \in 0..(M - 2) /\ MinorLen \in 0..MajorLen
           /\ MinorStart \in {MinorLo, MinorHi}
BY DEF TypeOK, SetupInv, States, Reg, End, Least, Greatest, MajorLo, MajorHi,
       MinorLo, MinorHi, MajorLen, MinorLen, MinorStart

(* The rounding error, in integers: D and d are the extents, j the height  *)
(* reached k - 1 steps along, e the decision variable of state S2.         *)
LEMMA ErrorTerm ==
    ASSUME NEW D \in Nat, NEW d \in 0..D, NEW k \in Int, NEW j \in Int,
           D * (2 * j - 1) <= 2 * d * (k - 1),
           D > 0 => 2 * d * (k - 1) < D * (2 * j + 1)
    PROVE  LET e == 2 * d * k - D * (2 * j + 1) IN
           /\ e < 0 => /\ D * (2 * j - 1) <= 2 * d * k
                       /\ D > 0 => 2 * d * k < D * (2 * j + 1)
                       /\ e + 2 * d = 2 * d * (k + 1) - D * (2 * j + 1)
           /\ e >= 0 => /\ D * (2 * (j + 1) - 1) <= 2 * d * k
                        /\ D > 0 => 2 * d * k < D * (2 * (j + 1) + 1)
                        /\ e + 2 * d - 2 * D
                              = 2 * d * (k + 1) - D * (2 * (j + 1) + 1)
BY SMTT(30)

(* A rounded height does not exceed the minor extent within the line.      *)
LEMMA RoundedBound ==
    ASSUME NEW D \in Nat, D > 0, NEW d \in 0..D, NEW k \in 0..D, NEW j \in Int,
           D * (2 * j - 1) <= 2 * d * k,
           2 * d * k < D * (2 * j + 1)
    PROVE  j \in 0..d
<1>1. 2 * d * k <= 2 * d * D
  BY SMTT(30)
<1>2. D * (2 * j - 1) <= D * (2 * d)
  BY <1>1
<1>3. 2 * j - 1 <= 2 * d
  BY <1>2, SMTT(30)
<1>4. 0 <= 2 * d * k
  BY SMTT(30)
<1>5. 0 < D * (2 * j + 1)
  BY <1>4
<1>6. 0 < 2 * j + 1
  BY <1>5, SMTT(30)
<1> QED BY <1>3, <1>6

(* At the far end of the line the rounded height is the full one.          *)
LEMMA LastHeight ==
    ASSUME NEW D \in Nat, NEW d \in 0..D, NEW j \in 0..d,
           D > 0 => 2 * d * D < D * (2 * j + 1)
    PROVE  j = d
<1>1. CASE D = 0
  BY <1>1
<1>2. CASE D > 0
  <2>1. D * (2 * d) < D * (2 * j + 1)
    BY <1>2
  <2>2. 2 * d < 2 * j + 1
    BY <1>2, <2>1, SMTT(30)
  <2> QED BY <2>2
<1> QED BY <1>1, <1>2

LEMMA InitInv == Init => IndInv
<1> SUFFICES ASSUME Init PROVE IndInv
  OBVIOUS
<1>0. Len(<<>>) = 0 /\ <<>> \in Seq(Pixel)
  OBVIOUS
<1>1. TypeOK
  <2>1. fifo \in Seq(Pixel) /\ Len(fifo) <= Depth
    BY <1>0 DEF Init
  <2>2. q \in Pixel
    BY DEF Init, Pixel, Reg
  <2>3. p \in (-2 * M)..(2 * M)
    BY DEF Init
  <2>4. negslope \in BOOLEAN /\ bigslope \in BOOLEAN /\ is_done \in BOOLEAN /\ is_calculating \in BOOLEAN
    BY DEF Init
  <2> QED BY <2>1, <2>2, <2>3, <2>4 DEF Init, TypeOK, States, Reg, End
<1>2. SetupInv /\ FlagInv
  BY DEF Init, SetupInv, FlagInv, Least, Greatest
<1>3. LoopInv /\ FifoInv
  BY DEF Init, LoopInv, FifoInv, Setting
<1> QED BY <1>1, <1>2, <1>3 DEF IndInv

(* The setup cycles: the FIFO is empty and nothing of the loop is claimed. *)
LEMMA StartStep == IndInv /\ Start => IndInv'
<1> SUFFICES ASSUME IndInv, Start PROVE IndInv'
  OBVIOUS
<1>1. TypeOK'
  <2>1. x0' \in End /\ y0' \in End /\ x1' \in End /\ y1' \in End
    BY DEF Start, End
  <2>2. /\ negslope' \in BOOLEAN /\ bigslope' \in BOOLEAN
        /\ is_done' \in BOOLEAN /\ is_calculating' \in BOOLEAN
    BY DEF Start
  <2> QED BY <2>1, <2>2 DEF IndInv, Start, TypeOK, States, Reg, loop
<1>2. SetupInv' /\ FlagInv'
  BY DEF Start, SetupInv, FlagInv
<1>3. LoopInv' /\ FifoInv'
  BY DEF Start, LoopInv, FifoInv, Setting
<1> QED BY <1>1, <1>2, <1>3 DEF IndInv

LEMMA SetupStep == IndInv /\ (T1 \/ T2 \/ T3 \/ T4) => IndInv'
<1> SUFFICES ASSUME IndInv, T1 \/ T2 \/ T3 \/ T4 PROVE IndInv'
  OBVIOUS
<1> USE DEF IndInv
<1>1. TypeOK'
  <2>1. CASE T1
    BY <2>1 DEF T1, TypeOK, States, Reg, End, Least, Greatest, endpoints, loop, flags
  <2>2. CASE T2
    BY <2>2 DEF T2, TypeOK, States, Reg, End, Least, Greatest, endpoints, loop, flags
  <2>3. CASE T3
    <3>1. minX \in Reg /\ maxX \in Reg /\ minY \in Reg /\ maxY \in Reg
          /\ minX <= maxX /\ minY <= maxY
      BY <2>3 DEF T3, TypeOK, SetupInv, End, Reg, Least, Greatest
    <3>2. dx' \in Reg /\ dy' \in Reg
      BY <2>3, <3>1 DEF T3, Reg
    <3>3. negslope' \in BOOLEAN
      BY <2>3 DEF T3
    <3> QED BY <2>3, <3>2, <3>3 DEF T3, TypeOK, States, endpoints, loop, flags
  <2>4. CASE T4
    <3>1. bigslope' \in BOOLEAN
      BY <2>4 DEF T4
    <3> QED BY <2>4, <3>1 DEF T4, TypeOK, States, endpoints, loop, flags
  <2> QED BY <2>1, <2>2, <2>3, <2>4
<1>2. SetupInv'
  <2>1. CASE T1
    BY <2>1 DEF T1, SetupInv, endpoints
  <2>2. CASE T2
    BY <2>2 DEF T2, SetupInv, endpoints
  <2>3. CASE T3
    BY <2>3 DEF T3, SetupInv, endpoints
  <2>4. CASE T4
    BY <2>4 DEF T4, SetupInv, endpoints
  <2> QED BY <2>1, <2>2, <2>3, <2>4
<1>3. /\ state' \in Setting /\ fifo = <<>> /\ fifo' = fifo
      /\ state \notin {"clear_calc", "INITIAL"} /\ flags' = flags
  BY DEF T1, T2, T3, T4, FifoInv, Setting
<1>4. LoopInv' /\ FifoInv'
  BY <1>3 DEF LoopInv, FifoInv, Setting
<1>5. FlagInv'
  BY <1>3 DEF FlagInv, flags, Setting
<1> QED BY <1>1, <1>2, <1>4, <1>5

LEMMA BeginStep == IndInv /\ BEGIN => IndInv'
<1> SUFFICES ASSUME IndInv, BEGIN PROVE IndInv'
  OBVIOUS
<1> USE DEF IndInv
<1>1. UNCHANGED setup /\ UNCHANGED endpoints /\ UNCHANGED flags
      /\ fifo = <<>> /\ fifo' = fifo /\ q' = q /\ state = "BEGIN" /\ state' = "S1"
  BY DEF BEGIN, FifoInv, Setting
<1>2. /\ MajorLo \in 0..(M - 2) /\ MajorHi \in MajorLo..(M - 2)
      /\ MinorLo \in 0..(M - 2) /\ MinorHi \in MinorLo..(M - 2)
      /\ MajorLen = MajorHi - MajorLo /\ MinorLen = MinorHi - MinorLo
      /\ MajorLen \in 0..(M - 2) /\ MinorLen \in 0..MajorLen
      /\ MinorStart \in {MinorLo, MinorHi}
  BY <1>1, Geometry
<1>3. x' = MajorLo /\ y' = MinorStart /\ size' = 0 /\ p' = 2 * MinorLen - MajorLen
  BY DEF BEGIN
<1>4. TypeOK'
  <2>1. x' \in Reg /\ y' \in Reg /\ size' \in Reg /\ p' \in (-2 * M)..(2 * M)
    BY <1>2, <1>3 DEF Reg
  <2> QED BY <1>1, <2>1 DEF TypeOK, States, endpoints, setup, flags
<1>5. SetupInv' /\ FlagInv'
  BY <1>1 DEF SetupInv, FlagInv, endpoints, setup, flags
<1>6. LoopInv'
  <2>1. Steps(x)' = 0 /\ Climb(y)' = 0
    BY <1>1, <1>2, <1>3, SameLine DEF Steps, Climb
  <2>2. Rounded(Steps(x), Climb(y))'
    BY <1>1, <1>2, <2>1, SameLine DEF Rounded
  <2>3. p' = 2 * MinorLen * (0 + 1) - MajorLen * (2 * 0 + 1)
    BY <1>2, <1>3
  <2>4. Len(fifo') = 0
    BY <1>1
  <2> QED BY <1>1, <1>2, <1>3, <2>1, <2>2, <2>3, <2>4, SameLine DEF LoopInv
<1>7. FifoInv'
  BY <1>1 DEF FifoInv, Setting
<1> QED BY <1>4, <1>5, <1>6, <1>7

(* A pixel is written: it is the rounded one for its place, and neither    *)
(* the FIFO nor a 9-bit counter overflows.                                 *)
LEMMA PlotStep == IndInv /\ Plot => IndInv'
<1> SUFFICES ASSUME IndInv, Plot PROVE IndInv'
  OBVIOUS
<1> USE DEF IndInv
<1>1. /\ UNCHANGED setup /\ UNCHANGED endpoints /\ UNCHANGED flags
      /\ y' = y /\ p' = p /\ q' = q /\ state = "S1" /\ state' = "S2"
      /\ x <= MajorHi
  BY DEF Plot
<1>2. /\ MajorLo \in 0..(M - 2) /\ MajorHi \in MajorLo..(M - 2)
      /\ MinorLo \in 0..(M - 2) /\ MinorHi \in MinorLo..(M - 2)
      /\ MajorLen = MajorHi - MajorLo /\ MinorLen = MinorHi - MinorLo
      /\ MajorLen \in 0..(M - 2) /\ MinorLen \in 0..MajorLen
      /\ MinorStart \in {MinorLo, MinorHi}
  BY <1>1, Geometry
<1>3. /\ size = Len(fifo) /\ x = MajorLo + size
      /\ Climb(y) \in 0..MinorLen
      /\ Rounded(Steps(x), Climb(y))
      /\ p = 2 * MinorLen * (Steps(x) + 1) - MajorLen * (2 * Climb(y) + 1)
      /\ 2 * MinorLen - 2 * MajorLen <= p /\ p <= 2 * MinorLen
  BY <1>1 DEF LoopInv
<1>4. fifo \in Seq(Pixel) /\ x \in Reg /\ y \in Reg /\ size \in Nat
  BY DEF TypeOK, Reg
<1> DEFINE px == Coordinate(x, y)
<1>5. px \in Pixel /\ Major(px) = x /\ Minor(px) = y
  BY <1>4 DEF Coordinate, Major, Minor, Pixel
<1>6. Len(fifo) < Depth /\ x < M - 1 /\ size < M - 1
  <2>1. x <= M - 2
    BY <1>1, <1>2, <1>4 DEF Reg
  <2>2. size <= M - 2
    BY <1>2, <1>3, <1>4, <2>1 DEF Reg
  <2> QED BY <1>3, <1>4, <2>1, <2>2 DEF Reg
<1>7. fifo' = Append(fifo, px)
  BY <1>6 DEF Plot, Written
<1>8. x' = x + 1 /\ size' = size + 1
  BY <1>6 DEF Plot, Incr
<1>9. Len(fifo') = Len(fifo) + 1 /\ fifo' \in Seq(Pixel)
  BY <1>4, <1>5, <1>7
<1>10. TypeOK'
  <2>1. x' \in Reg /\ size' \in Reg
    BY <1>4, <1>6, <1>8 DEF Reg
  <2>2. Len(fifo') <= Depth
    BY <1>4, <1>6, <1>9
  <2> QED BY <1>1, <1>9, <2>1, <2>2 DEF TypeOK, States, endpoints, setup, flags
<1>11. SetupInv' /\ FlagInv'
  BY <1>1 DEF SetupInv, FlagInv, endpoints, setup, flags
<1>12. Steps(x)' = Steps(x) + 1 /\ Climb(y)' = Climb(y)
  BY <1>1, <1>2, <1>4, <1>8, SameLine DEF Steps, Climb, Reg
<1>13. Steps(x) \in Int
  BY <1>2, <1>4 DEF Steps, Reg
<1>14. LoopInv'
  <2>1. Rounded(Steps(x) - 1, Climb(y))'
    BY <1>1, <1>3, <1>12, <1>13, SameLine DEF Rounded
  <2>2. p' = 2 * MinorLen' * Steps(x)' - MajorLen' * (2 * Climb(y)' + 1)
    BY <1>1, <1>3, <1>12, SameLine
  <2>3. size' = Len(fifo)' /\ x' = MajorLo' + size' /\ x' > MajorLo' /\ x' <= MajorHi' + 1
    BY <1>1, <1>2, <1>3, <1>4, <1>8, <1>9, SameLine DEF Reg
  <2> QED BY <1>1, <1>3, <1>12, <2>1, <2>2, <2>3, SameLine DEF LoopInv
<1>15. FifoInv'
  <2> DEFINE claim(w, xx, len, i) ==
                 /\ Major(w) = xx + i - len - 1
                 /\ Major(w) \in MajorLo..MajorHi
                 /\ Climb(Minor(w)) \in 0..MinorLen
                 /\ Rounded(Steps(Major(w)), Climb(Minor(w)))
  <2>1. ASSUME NEW i \in 1..(Len(fifo) + 1)
        PROVE  claim(fifo'[i], x + 1, Len(fifo) + 1, i)
    <3>1. CASE i = Len(fifo) + 1
      <4>1. fifo'[i] = px
        BY <1>4, <1>7, <3>1
      <4>2. x \in MajorLo..MajorHi
        BY <1>1, <1>2, <1>3, <1>4 DEF Reg
      <4>3. x = (x + 1) + i - (Len(fifo) + 1) - 1
        BY <1>4, <3>1 DEF Reg
      <4> QED BY <1>3, <1>5, <4>1, <4>2, <4>3
    <3>2. CASE i # Len(fifo) + 1
      <4>1. i \in 1..Len(fifo) /\ fifo'[i] = fifo[i]
        BY <1>4, <1>7, <3>2
      <4>2. x + i - Len(fifo) - 1 = (x + 1) + i - (Len(fifo) + 1) - 1
        BY <1>4, <4>1 DEF Reg
      <4> QED BY <4>1, <4>2 DEF FifoInv
    <3> QED BY <3>1, <3>2
  <2>2. state' \notin Setting
    BY <1>1 DEF Setting
  <2> HIDE DEF px
  <2> QED BY <1>1, <1>8, <1>9, <2>1, <2>2, SameLine
          DEF FifoInv, Major, Minor, Steps, Climb, Rounded
<1> QED BY <1>10, <1>11, <1>14, <1>15

LEMMA FinishStep == IndInv /\ (Finish \/ DONE \/ clear_calc) => IndInv'
<1> SUFFICES ASSUME IndInv, Finish \/ DONE \/ clear_calc PROVE IndInv'
  OBVIOUS
<1> USE DEF IndInv
<1>1. UNCHANGED <<endpoints, setup, loop, fifo, q>>
  BY DEF Finish, DONE, clear_calc
<1>2. TypeOK'
  <2>1. is_done' \in BOOLEAN /\ is_calculating' \in BOOLEAN /\ state' \in States
    BY DEF Finish, DONE, clear_calc, TypeOK, States, flags
  <2> QED BY <1>1, <2>1 DEF TypeOK, endpoints, setup, loop
<1>3. SetupInv'
  BY <1>1 DEF SetupInv, Finish, DONE, clear_calc, endpoints, setup
<1>4. FlagInv'
  BY DEF FlagInv, Finish, DONE, clear_calc, flags
<1>5. /\ x' = x /\ fifo' = fifo /\ size' = size /\ UNCHANGED setup
      /\ state' \in {"DONE", "clear_calc", "INITIAL"}
      /\ state \in {"S1", "DONE", "clear_calc"}
  BY <1>1 DEF loop, Finish, DONE, clear_calc
<1>6. x = MajorHi + 1 /\ size = Len(fifo) /\ x = MajorLo + size
  <2>1. CASE Finish
    <3>1. MajorHi \in Int /\ x \in Int
      BY <2>1, Geometry DEF Finish, TypeOK, Reg
    <3>2. x > MajorHi /\ x <= MajorHi + 1 /\ size = Len(fifo) /\ x = MajorLo + size
      BY <2>1 DEF Finish, LoopInv
    <3> QED BY <3>1, <3>2
  <2>2. CASE DONE \/ clear_calc
    BY <2>2 DEF DONE, clear_calc, LoopInv
  <2> QED BY <2>1, <2>2
<1>7. LoopInv'
  BY <1>5, <1>6, SameLine DEF LoopInv
<1>8. FifoInv'
  BY <1>5, SameLine DEF FifoInv, Setting, Major, Minor, Steps, Climb, Rounded
<1> QED BY <1>2, <1>3, <1>4, <1>7, <1>8

(* The error term decides the next height, which is again the rounded one. *)
LEMMA S2Step == IndInv /\ S2 => IndInv'
<1> SUFFICES ASSUME IndInv, S2 PROVE IndInv'
  OBVIOUS
<1> USE DEF IndInv
<1>1. /\ UNCHANGED setup /\ UNCHANGED endpoints /\ UNCHANGED flags
      /\ x' = x /\ size' = size /\ fifo' = fifo /\ q' = q
      /\ state = "S2" /\ state' = "S1"
  BY DEF S2
<1>2. /\ MajorLo \in 0..(M - 2) /\ MajorHi \in MajorLo..(M - 2)
      /\ MinorLo \in 0..(M - 2) /\ MinorHi \in MinorLo..(M - 2)
      /\ MajorLen = MajorHi - MajorLo /\ MinorLen = MinorHi - MinorLo
      /\ MajorLen \in 0..(M - 2) /\ MinorLen \in 0..MajorLen
      /\ MinorStart \in {MinorLo, MinorHi}
  BY <1>1, Geometry
<1>3. /\ size = Len(fifo) /\ x = MajorLo + size
      /\ 2 * MinorLen - 2 * MajorLen <= p /\ p <= 2 * MinorLen
      /\ x <= MajorHi + 1 /\ x > MajorLo
      /\ Climb(y) \in 0..MinorLen
      /\ Rounded(Steps(x) - 1, Climb(y))
      /\ p = 2 * MinorLen * Steps(x) - MajorLen * (2 * Climb(y) + 1)
  BY <1>1 DEF LoopInv
<1>4. x \in Reg /\ y \in Reg /\ p \in Int
  BY DEF TypeOK
<1> DEFINE k == Steps(x)
           j == Climb(y)
<1>5. k \in Int /\ j \in Int
  BY <1>2, <1>3, <1>4 DEF Steps, Reg
<1>6. /\ MajorLen * (2 * j - 1) <= 2 * MinorLen * (k - 1)
      /\ MajorLen > 0 => 2 * MinorLen * (k - 1) < MajorLen * (2 * j + 1)
  BY <1>3 DEF Rounded
<1>7. LET e == 2 * MinorLen * k - MajorLen * (2 * j + 1) IN
      /\ e < 0 => /\ MajorLen * (2 * j - 1) <= 2 * MinorLen * k
                  /\ MajorLen > 0 => 2 * MinorLen * k < MajorLen * (2 * j + 1)
                  /\ e + 2 * MinorLen
                        = 2 * MinorLen * (k + 1) - MajorLen * (2 * j + 1)
      /\ e >= 0 => /\ MajorLen * (2 * (j + 1) - 1) <= 2 * MinorLen * k
                   /\ MajorLen > 0 => 2 * MinorLen * k < MajorLen * (2 * (j + 1) + 1)
                   /\ e + 2 * MinorLen - 2 * MajorLen
                        = 2 * MinorLen * (k + 1) - MajorLen * (2 * (j + 1) + 1)
  <2> HIDE DEF k, j
  <2> QED BY <1>2, <1>5, <1>6, ErrorTerm
<1>8. y' \in Reg
  BY <1>4 DEF S2, Incr, Decr, Reg
(* The error term keeps its range whichever way it goes.                   *)
<1>9. p' \in Int /\ 2 * MinorLen - 2 * MajorLen <= p' /\ p' <= 2 * MinorLen
  <2>1. MinorLen \in Int /\ MajorLen \in Int /\ 0 <= MinorLen /\ MinorLen <= MajorLen
    BY <1>2
  <2>2. 2 * MinorLen - 2 * MajorLen <= p /\ p <= 2 * MinorLen
    BY <1>3
  <2>3. CASE p < 0
    <3>1. p' = p + 2 * MinorLen
      BY <1>4, <2>3 DEF S2
    <3> QED BY <1>4, <2>1, <2>2, <2>3, <3>1
  <2>4. CASE p >= 0
    <3>1. p' = p + 2 * MinorLen - 2 * MajorLen
      BY <1>4, <2>4 DEF S2
    <3> QED BY <1>4, <2>1, <2>2, <2>4, <3>1
  <2> QED BY <1>4, <2>3, <2>4
<1>10. TypeOK'
  <2>1. p' \in (-2 * M)..(2 * M)
    BY <1>2, <1>9
  <2> QED BY <1>1, <1>8, <2>1 DEF TypeOK, States, endpoints, setup, flags
<1>11. SetupInv' /\ FlagInv'
  BY <1>1 DEF SetupInv, FlagInv, endpoints, setup, flags
<1>12. Steps(x)' = k
  BY <1>1, SameLine DEF Steps
<1>13. ASSUME x <= MajorHi
       PROVE  /\ Climb(y)' \in 0..MinorLen
              /\ MajorLen * (2 * Climb(y)' - 1) <= 2 * MinorLen * k
              /\ MajorLen > 0 => 2 * MinorLen * k < MajorLen * (2 * Climb(y)' + 1)
              /\ p' = 2 * MinorLen * (k + 1) - MajorLen * (2 * Climb(y)' + 1)
  <2>1. k \in 1..MajorLen /\ MajorLen > 0
    BY <1>2, <1>3, <1>4, <1>13, SMTT(30) DEF Steps, Reg
  <2>2. CASE p < 0
    <3>1. y' = y /\ p' = p + 2 * MinorLen
      BY <1>4, <2>2 DEF S2
    <3>2. Climb(y)' = j
      BY <1>1, <3>1, SameLine DEF Climb
    <3> QED BY <1>3, <1>7, <2>2, <3>1, <3>2
  <2>3. CASE p >= 0
    <3>1. y' = IF negslope THEN Decr(y) ELSE Incr(y)
      BY <1>4, <2>3 DEF S2
    <3>2. p' = p + 2 * MinorLen - 2 * MajorLen
      BY <1>4, <2>3 DEF S2
    <3>3. j + 1 \in 0..MinorLen
      <4> HIDE DEF k, j
      <4>1. /\ MajorLen * (2 * (j + 1) - 1) <= 2 * MinorLen * k
            /\ 2 * MinorLen * k < MajorLen * (2 * (j + 1) + 1)
        BY <1>3, <1>7, <2>1, <2>3 DEF k, j
      <4> QED BY <1>2, <1>5, <2>1, <4>1, RoundedBound
    (* The step of y stays between the ends of the minor axis: no wrap. *)
    <3>4. Climb(y)' = j + 1
      <4>1. CASE negslope
        <5>1. MinorStart = MinorHi /\ j = MinorHi - y
          BY <4>1 DEF MinorStart, Climb
        <5>2. y' = y - 1
          BY <1>2, <1>4, <3>1, <3>3, <4>1, <5>1 DEF Decr, Reg
        <5> QED BY <1>1, <1>2, <1>4, <4>1, <5>1, <5>2, SameLine DEF Climb, Reg
      <4>2. CASE ~negslope
        <5>1. MinorStart = MinorLo /\ j = y - MinorLo
          BY <4>2 DEF MinorStart, Climb
        <5>2. y' = y + 1
          BY <1>2, <1>4, <3>1, <3>3, <4>2, <5>1 DEF Incr, Reg
        <5> QED BY <1>1, <1>2, <1>4, <4>2, <5>1, <5>2, SameLine DEF Climb, Reg
      <4> QED BY <4>1, <4>2
    <3> HIDE DEF k, j
    <3>5. p = 2 * MinorLen * k - MajorLen * (2 * j + 1)
      BY <1>3 DEF k, j
    <3> QED BY <1>7, <2>1, <2>3, <3>2, <3>3, <3>4, <3>5
  <2> QED BY <1>4, <2>2, <2>3
<1>14. LoopInv'
  BY <1>1, <1>3, <1>9, <1>12, <1>13, SameLine DEF LoopInv, Rounded
<1>15. FifoInv'
  BY <1>1, SameLine DEF FifoInv, Setting, Major, Minor, Steps, Climb, Rounded
<1> QED BY <1>10, <1>11, <1>14, <1>15

(* A pop removes the oldest pixel; the others keep their places behind x.  *)
LEMMA ReadStep == IndInv /\ Read => IndInv'
<1> SUFFICES ASSUME IndInv, Read PROVE IndInv'
  OBVIOUS
<1> USE DEF IndInv
<1>1. /\ UNCHANGED setup /\ UNCHANGED endpoints /\ UNCHANGED flags /\ UNCHANGED loop
      /\ state = "INITIAL" /\ state' = state /\ x' = x
      /\ fifo # <<>> /\ fifo' = Tail(fifo) /\ q' = Head(fifo)
  BY DEF Read, loop
<1>2. fifo \in Seq(Pixel) /\ Len(fifo) <= Depth /\ x \in Int
  BY DEF TypeOK, Reg
<1>3. /\ fifo' \in Seq(Pixel) /\ Len(fifo') = Len(fifo) - 1 /\ Len(fifo) \in Nat
      /\ q' \in Pixel
      /\ \A i \in 1..Len(fifo') : fifo'[i] = fifo[i + 1]
  BY <1>1, <1>2
<1>4. TypeOK'
  <2>1. Len(fifo') <= Depth
    BY <1>2, <1>3
  <2> QED BY <1>1, <1>3, <2>1 DEF TypeOK, endpoints, setup, flags, loop
<1>5. SetupInv' /\ FlagInv'
  BY <1>1 DEF SetupInv, FlagInv, endpoints, setup, flags
<1>6. LoopInv'
  BY <1>1, SameLine DEF LoopInv
<1>7. FifoInv'
  <2> DEFINE claim(w, len, i) ==
                 /\ Major(w) = x + i - len - 1
                 /\ Major(w) \in MajorLo..MajorHi
                 /\ Climb(Minor(w)) \in 0..MinorLen
                 /\ Rounded(Steps(Major(w)), Climb(Minor(w)))
  <2>1. ASSUME NEW i \in 1..Len(fifo')
        PROVE  claim(fifo'[i], Len(fifo'), i)
    <3>1. i + 1 \in 1..Len(fifo) /\ fifo'[i] = fifo[i + 1]
      BY <1>3
    <3>2. x + (i + 1) - Len(fifo) - 1 = x + i - Len(fifo') - 1
      BY <1>2, <1>3
    <3> QED BY <3>1, <3>2 DEF FifoInv
  <2>2. state' \notin Setting
    BY <1>1 DEF Setting
  <2> QED BY <1>1, <2>1, <2>2, SameLine
          DEF FifoInv, Major, Minor, Steps, Climb, Rounded
<1> QED BY <1>4, <1>5, <1>6, <1>7

(* IndInv is inductive.                                                    *)
LEMMA NextInv == IndInv /\ [Next]_vars => IndInv'
<1> SUFFICES ASSUME IndInv, [Next]_vars PROVE IndInv'
  OBVIOUS
<1>1. CASE Start
  BY <1>1, StartStep
<1>2. CASE T1 \/ T2 \/ T3 \/ T4
  BY <1>2, SetupStep
<1>3. CASE BEGIN
  BY <1>3, BeginStep
<1>4. CASE Plot
  BY <1>4, PlotStep
<1>5. CASE Finish \/ DONE \/ clear_calc
  BY <1>5, FinishStep
<1>6. CASE S2
  BY <1>6, S2Step
<1>7. CASE Read
  BY <1>7, ReadStep
<1>8. CASE UNCHANGED vars
  BY <1>8 DEF vars, endpoints, setup, loop, flags, IndInv, TypeOK, SetupInv,
     LoopInv, FifoInv, FlagInv, MajorLo, MajorHi, MajorLen, MinorLo, MinorHi,
     MinorLen, MinorStart, Major, Minor, Steps, Climb, Rounded
<1> QED BY <1>1, <1>2, <1>3, <1>4, <1>5, <1>6, <1>7, <1>8 DEF Next, Calculate

(* The invariant of the line rasterizer: what the setup computed, the      *)
(* rounding error p stands for and what the FIFO holds, at every moment    *)
(* (linerasterize.sv, states INITIAL .. clear_calc).                       *)
THEOREM LineInvariant == Spec => []IndInv
<1> QED BY InitInv, NextInv, PTL DEF Spec

(* Type correctness: no 9-bit register wraps, p stays far inside 32 bits   *)
(* and the scfifo, whose overflow checking is off, is never written full.  *)
THEOREM LineTypeOK == Spec => []TypeOK
<1>1. IndInv => TypeOK
  BY DEF IndInv
<1> QED BY <1>1, LineInvariant, PTL

-----------------------------------------------------------------------------
(* While pixels are in the FIFO the setup is over and holds the line.      *)
LEMMA FifoGeometry ==
    ASSUME IndInv, fifo # <<>>
    PROVE  /\ state \notin {"T1", "T2", "T3", "T4"}
           /\ MajorLo \in 0..(M - 2) /\ MajorHi \in MajorLo..(M - 2)
           /\ MinorLo \in 0..(M - 2) /\ MinorHi \in MinorLo..(M - 2)
           /\ MajorLen = MajorHi - MajorLo /\ MinorLen = MinorHi - MinorLo
           /\ MajorLen \in 0..(M - 2) /\ MinorLen \in 0..MajorLen
           /\ MinorStart \in {MinorLo, MinorHi}
<1>1. state \notin {"T1", "T2", "T3", "T4"}
  BY DEF IndInv, FifoInv, Setting
<1> QED BY <1>1, Geometry DEF IndInv

(* A pixel of the FIFO in terms of its offsets k and j from the first one. *)
LEMMA FifoPixel ==
    ASSUME IndInv, NEW i \in 1..Len(fifo)
    PROVE  \E k \in 0..MajorLen, j \in 0..MinorLen :
              /\ fifo[i][1] = IF bigslope
                              THEN IF negslope THEN MinorHi - j ELSE MinorLo + j
                              ELSE MajorLo + k
              /\ fifo[i][2] = IF bigslope
                              THEN MajorLo + k
                              ELSE IF negslope THEN MinorHi - j ELSE MinorLo + j
              /\ k = x + i - Len(fifo) - 1 - MajorLo
              /\ MajorLen * (2 * j - 1) <= 2 * MinorLen * k
              /\ MajorLen > 0 => 2 * MinorLen * k < MajorLen * (2 * j + 1)
<1>1. fifo # <<>> /\ fifo \in Seq(Pixel) /\ fifo[i] \in Pixel
  BY DEF IndInv, TypeOK
<1>2. /\ MajorLo \in 0..(M - 2) /\ MajorHi \in MajorLo..(M - 2)
      /\ MinorLo \in 0..(M - 2) /\ MinorHi \in MinorLo..(M - 2)
      /\ MajorLen = MajorHi - MajorLo /\ MinorLen = MinorHi - MinorLo
  BY <1>1, FifoGeometry
<1> DEFINE a == Major(fifo[i])
           b == Minor(fifo[i])
           steps == Steps(a)
           climb == Climb(b)
<1>3. a \in Int /\ b \in Int
  BY <1>1 DEF Major, Minor, Pixel, Reg
<1>4. /\ a = x + i - Len(fifo) - 1 /\ a \in MajorLo..MajorHi
      /\ climb \in 0..MinorLen
      /\ MajorLen * (2 * climb - 1) <= 2 * MinorLen * steps
      /\ MajorLen > 0 => 2 * MinorLen * steps < MajorLen * (2 * climb + 1)
  BY DEF IndInv, FifoInv, Rounded
<1>5. steps \in 0..MajorLen /\ a = MajorLo + steps
  <2>1. a \in MajorLo..MajorHi
    BY <1>4
  <2>2. steps = a - MajorLo
    BY DEF Steps
  <2> HIDE DEF a, steps
  <2> QED BY <1>2, <1>3, <2>1, <2>2
<1>6. b = IF negslope THEN MinorHi - climb ELSE MinorLo + climb
  BY <1>2, <1>3 DEF Climb, MinorStart
<1>7. /\ fifo[i][1] = IF bigslope THEN b ELSE a
      /\ fifo[i][2] = IF bigslope THEN a ELSE b
  BY DEF Major, Minor
<1>8. steps = x + i - Len(fifo) - 1 - MajorLo
  <2>1. a = x + i - Len(fifo) - 1
    BY <1>4
  <2>2. steps = a - MajorLo
    BY DEF Steps
  <2>3. x \in Int /\ Len(fifo) \in Int /\ i \in Int /\ MajorLo \in Int
    BY <1>1, <1>2 DEF IndInv, TypeOK, Reg
  <2> HIDE DEF a, steps
  <2> QED BY <1>3, <2>1, <2>2, <2>3
<1>9. /\ fifo[i][1] = IF bigslope
                      THEN IF negslope THEN MinorHi - climb ELSE MinorLo + climb
                      ELSE MajorLo + steps
      /\ fifo[i][2] = IF bigslope
                      THEN MajorLo + steps
                      ELSE IF negslope THEN MinorHi - climb ELSE MinorLo + climb
  <2> HIDE DEF a, b, steps, climb
  <2> QED BY <1>5, <1>6, <1>7
<1>10. steps \in 0..MajorLen /\ climb \in 0..MinorLen
  BY <1>4, <1>5
<1> HIDE DEF a, b, steps, climb
<1> USE <1>10
<1> WITNESS steps \in 0..MajorLen, climb \in 0..MinorLen
<1> QED BY <1>4, <1>8, <1>9

(* The reference distance of rasterizeline.sv, in the same offsets.        *)
LEMMA CrossValue ==
    ASSUME IndInv, fifo # <<>>,
           NEW k \in 0..MajorLen, NEW j \in 0..MinorLen, NEW px,
           px[1] = IF bigslope THEN IF negslope THEN MinorHi - j ELSE MinorLo + j
                               ELSE MajorLo + k,
           px[2] = IF bigslope THEN MajorLo + k
                               ELSE IF negslope THEN MinorHi - j ELSE MinorLo + j
    PROVE  Contract!Cross(px, x0, y0, x1, y1)
              \in {MinorLen * k - MajorLen * j, MajorLen * j - MinorLen * k}
<1> DEFINE c == (px[1] - x0) * (y1 - y0) - (px[2] - y0) * (x1 - x0)
<1> SUFFICES c \in {MinorLen * k - MajorLen * j, MajorLen * j - MinorLen * k}
  BY DEF Contract!Cross
<1>1. state \notin {"T1", "T2", "T3", "T4"}
  BY FifoGeometry
<1>2. /\ minX = Least(x0, x1) /\ maxX = Greatest(x0, x1)
      /\ minY = Least(y0, y1) /\ maxY = Greatest(y0, y1)
      /\ dx = maxX - minX /\ dy = maxY - minY
      /\ negslope <=> (x0 < x1 /\ y0 > y1) \/ (x1 < x0 /\ y1 > y0)
      /\ bigslope <=> dy > dx
  BY <1>1 DEF IndInv, SetupInv
<1>3. x0 \in Int /\ x1 \in Int /\ y0 \in Int /\ y1 \in Int
  BY DEF IndInv, TypeOK, End
<1>4. MajorLen \in Nat /\ MinorLen \in Nat /\ k \in Int /\ j \in Int
  BY FifoGeometry
<1>5. CASE ~bigslope
  <2>0. /\ MajorLen = dx /\ MinorLen = dy /\ dy <= dx
        /\ px[1] = minX + k /\ px[2] = IF negslope THEN maxY - j ELSE minY + j
    BY <1>2, <1>3, <1>5 DEF MajorLo, MinorLo, MinorHi, MajorLen, MinorLen, Least, Greatest
  <2>1. CASE x0 <= x1 /\ y0 <= y1
    <3>1. /\ px[1] - x0 = k /\ y1 - y0 = MinorLen /\ px[2] - y0 = j /\ x1 - x0 = MajorLen
      BY <1>2, <1>3, <1>4, <2>0, <2>1 DEF Least, Greatest
    <3>2. c = k * MinorLen - j * MajorLen
      BY <3>1
    <3> HIDE DEF c
    <3> QED BY <1>4, <3>2
  <2>2. CASE x0 <= x1 /\ y0 > y1
    <3>1. /\ px[1] - x0 = k /\ y1 - y0 = -MinorLen /\ px[2] - y0 = -j /\ x1 - x0 = MajorLen
      BY <1>2, <1>3, <1>4, <2>0, <2>2 DEF Least, Greatest
    <3>2. c = k * (-MinorLen) - (-j) * MajorLen
      BY <3>1
    <3> HIDE DEF c
    <3> QED BY <1>4, <3>2
  <2>3. CASE x0 > x1 /\ y0 >= y1
    <3>1. /\ px[1] - x0 = k - MajorLen /\ y1 - y0 = -MinorLen /\ px[2] - y0 = j - MinorLen /\ x1 - x0 = -MajorLen
      BY <1>2, <1>3, <1>4, <2>0, <2>3 DEF Least, Greatest
    <3>2. c = (k - MajorLen) * (-MinorLen) - (j - MinorLen) * (-MajorLen)
      BY <3>1
    <3> HIDE DEF c
    <3> QED BY <1>4, <3>2
  <2>4. CASE x0 > x1 /\ y0 < y1
    <3>1. /\ px[1] - x0 = k - MajorLen /\ y1 - y0 = MinorLen /\ px[2] - y0 = MinorLen - j /\ x1 - x0 = -MajorLen
      BY <1>2, <1>3, <1>4, <2>0, <2>4 DEF Least, Greatest
    <3>2. c = (k - MajorLen) * MinorLen - (MinorLen - j) * (-MajorLen)
      BY <3>1
    <3> HIDE DEF c
    <3> QED BY <1>4, <3>2
  <2> QED BY <1>3, <2>1, <2>2, <2>3, <2>4
<1>6. CASE bigslope
  <2>0. /\ MajorLen = dy /\ MinorLen = dx /\ dy > dx
        /\ px[2] = minY + k /\ px[1] = IF negslope THEN maxX - j ELSE minX + j
    BY <1>2, <1>3, <1>6 DEF MajorLo, MinorLo, MinorHi, MajorLen, MinorLen, Least, Greatest
  <2>1. CASE y0 <= y1 /\ x0 <= x1
    <3>1. /\ px[2] - y0 = k /\ x1 - x0 = MinorLen /\ px[1] - x0 = j /\ y1 - y0 = MajorLen
      BY <1>2, <1>3, <1>4, <2>0, <2>1 DEF Least, Greatest
    <3>2. c = j * MajorLen - k * MinorLen
      BY <3>1
    <3> HIDE DEF c
    <3> QED BY <1>4, <3>2
  <2>2. CASE y0 <= y1 /\ x0 > x1
    <3>1. /\ px[2] - y0 = k /\ x1 - x0 = -MinorLen /\ px[1] - x0 = -j /\ y1 - y0 = MajorLen
      BY <1>2, <1>3, <1>4, <2>0, <2>2 DEF Least, Greatest
    <3>2. c = (-j) * MajorLen - k * (-MinorLen)
      BY <3>1
    <3> HIDE DEF c
    <3> QED BY <1>4, <3>2
  <2>3. CASE y0 > y1 /\ x0 >= x1
    <3>1. /\ px[2] - y0 = k - MajorLen /\ x1 - x0 = -MinorLen /\ px[1] - x0 = j - MinorLen /\ y1 - y0 = -MajorLen
      BY <1>2, <1>3, <1>4, <2>0, <2>3 DEF Least, Greatest
    <3>2. c = (j - MinorLen) * (-MajorLen) - (k - MajorLen) * (-MinorLen)
      BY <3>1
    <3> HIDE DEF c
    <3> QED BY <1>4, <3>2
  <2>4. CASE y0 > y1 /\ x0 < x1
    <3>1. /\ px[2] - y0 = k - MajorLen /\ x1 - x0 = MinorLen /\ px[1] - x0 = MinorLen - j /\ y1 - y0 = -MajorLen
      BY <1>2, <1>3, <1>4, <2>0, <2>4 DEF Least, Greatest
    <3>2. c = (MinorLen - j) * (-MajorLen) - (k - MajorLen) * MinorLen
      BY <3>1
    <3> HIDE DEF c
    <3> QED BY <1>4, <3>2
  <2> QED BY <1>3, <2>1, <2>2, <2>3, <2>4
<1> QED BY <1>5, <1>6

(* The longer of the two distances between the endpoints is MajorLen.      *)
LEMMA LongerAxis ==
    ASSUME IndInv, fifo # <<>>
    PROVE  MajorLen = Contract!Larger(Contract!Abs(x1 - x0), Contract!Abs(y1 - y0))
<1>1. /\ minX = Least(x0, x1) /\ maxX = Greatest(x0, x1)
      /\ minY = Least(y0, y1) /\ maxY = Greatest(y0, y1)
      /\ dx = maxX - minX /\ dy = maxY - minY
      /\ bigslope <=> dy > dx
  BY FifoGeometry DEF IndInv, SetupInv
<1>2. x0 \in Int /\ x1 \in Int /\ y0 \in Int /\ y1 \in Int
  BY DEF IndInv, TypeOK, End
<1>3. dx = Contract!Abs(x1 - x0) /\ dy = Contract!Abs(y1 - y0)
  BY <1>1, <1>2 DEF Least, Greatest, Contract!Abs
<1>4. dx \in Int /\ dy \in Int
  BY DEF IndInv, TypeOK, Reg
<1> QED BY <1>1, <1>3, <1>4 DEF MajorLen, Contract!Larger

(* The two ends of the drawn line are the two endpoints.                   *)
LEMMA Ends ==
    ASSUME IndInv, fifo # <<>>
    PROVE  {Coordinate(MajorLo, MinorStart), Coordinate(MajorHi, MinorEnd)}
              = {<<x0, y0>>, <<x1, y1>>}
<1>1. /\ minX = Least(x0, x1) /\ maxX = Greatest(x0, x1)
      /\ minY = Least(y0, y1) /\ maxY = Greatest(y0, y1)
      /\ dx = maxX - minX /\ dy = maxY - minY
      /\ negslope <=> (x0 < x1 /\ y0 > y1) \/ (x1 < x0 /\ y1 > y0)
      /\ bigslope <=> dy > dx
  BY FifoGeometry DEF IndInv, SetupInv
<1>2. x0 \in Int /\ x1 \in Int /\ y0 \in Int /\ y1 \in Int
  BY DEF IndInv, TypeOK, End
<1>3. CASE negslope
  <2>1. {<<minX, maxY>>, <<maxX, minY>>} = {<<x0, y0>>, <<x1, y1>>}
    BY <1>1, <1>2, <1>3 DEF Least, Greatest
  <2> QED BY <1>3, <2>1 DEF Coordinate, MajorLo, MajorHi, MinorStart, MinorEnd, MinorLo, MinorHi
<1>4. CASE ~negslope
  <2>1. {<<minX, minY>>, <<maxX, maxY>>} = {<<x0, y0>>, <<x1, y1>>}
    BY <1>1, <1>2, <1>4 DEF Least, Greatest
  <2> QED BY <1>4, <2>1 DEF Coordinate, MajorLo, MajorHi, MinorStart, MinorEnd, MinorLo, MinorHi
<1> QED BY <1>3, <1>4

(* The pixel next to x is the end of the line once x has passed MajorHi.   *)
LEMMA LastPixel ==
    ASSUME IndInv, fifo # <<>>, x = MajorHi + 1
    PROVE  fifo[Len(fifo)] = Coordinate(MajorHi, MinorEnd)
<1> DEFINE n == Len(fifo)
<1>1. n \in 1..n /\ fifo[n] \in Pixel
  BY DEF IndInv, TypeOK
<1>2. PICK k \in 0..MajorLen, j \in 0..MinorLen :
              /\ fifo[n][1] = IF bigslope
                              THEN IF negslope THEN MinorHi - j ELSE MinorLo + j
                              ELSE MajorLo + k
              /\ fifo[n][2] = IF bigslope
                              THEN MajorLo + k
                              ELSE IF negslope THEN MinorHi - j ELSE MinorLo + j
              /\ k = x + n - n - 1 - MajorLo
              /\ MajorLen * (2 * j - 1) <= 2 * MinorLen * k
              /\ MajorLen > 0 => 2 * MinorLen * k < MajorLen * (2 * j + 1)
  BY <1>1, FifoPixel
<1>3. /\ MajorLen \in Nat /\ MinorLen \in 0..MajorLen
      /\ MajorLo \in Int /\ MajorHi = MajorLo + MajorLen
      /\ MinorLo \in Int /\ MinorHi = MinorLo + MinorLen
  BY FifoGeometry
<1>4. k = MajorLen
  <2>1. k = x + n - n - 1 - MajorLo
    BY <1>2
  <2>2. x \in Int /\ n \in Int
    BY DEF IndInv, TypeOK, Reg
  <2> HIDE DEF n
  <2> QED BY <1>3, <2>1, <2>2
<1>5. j = MinorLen
  BY <1>2, <1>3, <1>4, LastHeight
<1>6. /\ fifo[n][1] = IF bigslope THEN MinorEnd ELSE MajorHi
      /\ fifo[n][2] = IF bigslope THEN MajorHi ELSE MinorEnd
  BY <1>2, <1>3, <1>4, <1>5 DEF MinorEnd
<1> QED BY <1>1, <1>6 DEF Coordinate, Pixel

(* Every pixel in the FIFO is within half a pixel of the line.             *)
LEMMA NearLine == IndInv => PixelsNearLine
<1> SUFFICES ASSUME IndInv, NEW i \in 1..Len(fifo)
             PROVE  Contract!NearLine(fifo[i], x0, y0, x1, y1)
  BY DEF PixelsNearLine
<1>1. fifo # <<>>
  BY DEF IndInv, TypeOK
<1>2. PICK k \in 0..MajorLen, j \in 0..MinorLen :
              /\ fifo[i][1] = IF bigslope
                              THEN IF negslope THEN MinorHi - j ELSE MinorLo + j
                              ELSE MajorLo + k
              /\ fifo[i][2] = IF bigslope
                              THEN MajorLo + k
                              ELSE IF negslope THEN MinorHi - j ELSE MinorLo + j
              /\ MajorLen * (2 * j - 1) <= 2 * MinorLen * k
              /\ MajorLen > 0 => 2 * MinorLen * k < MajorLen * (2 * j + 1)
  BY FifoPixel
<1> DEFINE c == Contract!Cross(fifo[i], x0, y0, x1, y1)
<1>3. c \in {MinorLen * k - MajorLen * j, MajorLen * j - MinorLen * k}
  BY <1>1, <1>2, CrossValue
<1>4. MajorLen \in Nat /\ MinorLen \in 0..MajorLen /\ k \in Int /\ j \in Int
  BY <1>1, FifoGeometry
<1>5. MajorLen = 0 => j = 0 /\ k = 0
  BY <1>4
<1>6. /\ 2 * (MinorLen * k - MajorLen * j) <= MajorLen
      /\ 2 * (MajorLen * j - MinorLen * k) <= MajorLen
  BY <1>2, <1>4, <1>5
<1>7. 2 * Contract!Abs(c) <= MajorLen
  <2> DEFINE r == MinorLen * k - MajorLen * j
  <2>1. r \in Int /\ MajorLen * j - MinorLen * k = -r
    BY <1>4
  <2>2. c \in {r, -r} /\ 2 * r <= MajorLen /\ 2 * (-r) <= MajorLen
    BY <1>3, <1>6, <2>1
  <2> HIDE DEF c, r
  <2> QED BY <2>1, <2>2 DEF Contract!Abs
<1>8. MajorLen = Contract!Larger(Contract!Abs(x1 - x0), Contract!Abs(y1 - y0))
  BY <1>1, LongerAxis
<1> QED BY <1>7, <1>8 DEF Contract!NearLine

(* The readiness test of polygonRaster is never early.                     *)
LEMMA ReadyComplete == IndInv => ReadyMeansComplete
<1> SUFFICES ASSUME IndInv, Ready
             PROVE  /\ state \in {"clear_calc", "INITIAL"}
                    /\ fifo # <<>> => fifo[Len(fifo)] \in {<<x0, y0>>, <<x1, y1>>}
  BY DEF ReadyMeansComplete
<1>1. state \in {"clear_calc", "INITIAL"}
  BY DEF IndInv, FlagInv, Ready
<1>2. ASSUME fifo # <<>> PROVE fifo[Len(fifo)] \in {<<x0, y0>>, <<x1, y1>>}
  <2>1. x = MajorHi + 1
    BY <1>1, <1>2 DEF IndInv, LoopInv
  <2> QED BY <1>2, <2>1, LastPixel, Ends
<1> QED BY <1>1, <1>2

(* Every pixel pushed lies within half a pixel of the line, for every      *)
(* slope, direction and length: the decision variable of S2 does not       *)
(* drift (linerasterize.sv, BEGIN, S1, S2).                                *)
THEOREM LinePixelsNearLine == Spec => []PixelsNearLine
<1> QED BY NearLine, LineInvariant, PTL

(* When the line looks ready to polygonRaster the line is complete, and    *)
(* the last pixel to be popped is one of its endpoints.                    *)
THEOREM LineReadyMeansComplete == Spec => []ReadyMeansComplete
<1> QED BY ReadyComplete, LineInvariant, PTL

-----------------------------------------------------------------------------
(* One step along the major axis moves the rounded height by at most one.  *)
LEMMA NextHeight ==
    ASSUME NEW D \in Nat, D > 0, NEW d \in 0..D, NEW k \in Int,
           NEW j \in Int, NEW h \in Int,
           D * (2 * j - 1) <= 2 * d * k, 2 * d * k < D * (2 * j + 1),
           D * (2 * h - 1) <= 2 * d * (k + 1), 2 * d * (k + 1) < D * (2 * h + 1)
    PROVE  h = j \/ h = j + 1
<1>1. D * (2 * h - 1) < D * (2 * j + 3)
  BY SMTT(30)
<1>2. D * (2 * j - 1) < D * (2 * h + 1)
  BY SMTT(30)
<1>3. 2 * h - 1 < 2 * j + 3
  BY <1>1, SMTT(30)
<1>4. 2 * j - 1 < 2 * h + 1
  BY <1>2, SMTT(30)
<1> QED BY <1>3, <1>4

(* The pixel at MajorLo is where the minor axis starts.                    *)
LEMMA FirstPixel ==
    ASSUME IndInv, fifo # <<>>, x = MajorLo + Len(fifo)
    PROVE  fifo[1] = Coordinate(MajorLo, MinorStart)
<1>1. 1 \in 1..Len(fifo) /\ fifo[1] \in Pixel
  BY DEF IndInv, TypeOK
<1>2. PICK k \in 0..MajorLen, j \in 0..MinorLen :
              /\ fifo[1][1] = IF bigslope
                              THEN IF negslope THEN MinorHi - j ELSE MinorLo + j
                              ELSE MajorLo + k
              /\ fifo[1][2] = IF bigslope
                              THEN MajorLo + k
                              ELSE IF negslope THEN MinorHi - j ELSE MinorLo + j
              /\ k = x + 1 - Len(fifo) - 1 - MajorLo
              /\ MajorLen * (2 * j - 1) <= 2 * MinorLen * k
  BY <1>1, FifoPixel
<1>3. /\ MajorLen \in Nat /\ MinorLen \in 0..MajorLen
      /\ MajorLo \in Int /\ MinorLo \in Int /\ MinorHi \in Int
  BY FifoGeometry
<1>4. k = 0
  <2>1. k = x + 1 - Len(fifo) - 1 - MajorLo
    BY <1>2
  <2>2. Len(fifo) \in Int
    BY DEF IndInv, TypeOK
  <2> QED BY <1>3, <2>1, <2>2
<1>5. j = 0
  <2>1. MajorLen * (2 * j - 1) <= 0
    BY <1>2, <1>3, <1>4
  <2>2. CASE MajorLen = 0
    BY <1>3, <2>2
  <2>3. CASE MajorLen > 0
    <3>1. 2 * j - 1 <= 0
      BY <1>3, <2>1, <2>3, SMTT(30)
    <3> QED BY <3>1
  <2> QED BY <1>3, <2>2, <2>3
<1>6. /\ fifo[1][1] = IF bigslope THEN MinorStart ELSE MajorLo
      /\ fifo[1][2] = IF bigslope THEN MajorLo ELSE MinorStart
  BY <1>2, <1>3, <1>4, <1>5 DEF MinorStart
<1> QED BY <1>1, <1>6 DEF Coordinate, Pixel

(* In state DONE the FIFO holds the whole line.                            *)
LEMMA WholeLine ==
    ASSUME IndInv, state = "DONE"
    PROVE  Contract!IsLine(fifo, x0, y0, x1, y1) /\ size = Len(fifo)
<1>1. size = Len(fifo) /\ x = MajorLo + size /\ x = MajorHi + 1
  BY DEF IndInv, LoopInv
<1>2. /\ MajorLo \in Int /\ MajorHi \in Int /\ MajorLen = MajorHi - MajorLo
      /\ MajorLen \in Nat
  BY Geometry DEF IndInv
<1>3. fifo \in Seq(Pixel) /\ Len(fifo) \in Nat
  BY DEF IndInv, TypeOK
<1>4. Len(fifo) = MajorLen + 1
  BY <1>1, <1>2, <1>3
<1>5. fifo # <<>>
  BY <1>2, <1>3, <1>4
<1>6. Len(fifo) = Contract!Larger(Contract!Abs(x1 - x0), Contract!Abs(y1 - y0)) + 1
  BY <1>4, <1>5, LongerAxis
<1>7. {fifo[1], fifo[Len(fifo)]} = {<<x0, y0>>, <<x1, y1>>}
  <2>1. fifo[1] = Coordinate(MajorLo, MinorStart)
    BY <1>1, <1>5, FirstPixel
  <2>2. fifo[Len(fifo)] = Coordinate(MajorHi, MinorEnd)
    BY <1>1, <1>5, LastPixel
  <2> QED BY <1>5, <2>1, <2>2, Ends
<1>8. \A i \in 1..Len(fifo) : Contract!NearLine(fifo[i], x0, y0, x1, y1)
  BY NearLine DEF PixelsNearLine
<1>9. ASSUME NEW i \in 1..(Len(fifo) - 1)
      PROVE  /\ Contract!Abs(fifo[i + 1][1] - fifo[i][1]) <= 1
             /\ Contract!Abs(fifo[i + 1][2] - fifo[i][2]) <= 1
  <2> DEFINE n == i + 1
  <2>1. i \in 1..Len(fifo) /\ n \in 1..Len(fifo) /\ MajorLen > 0
    BY <1>2, <1>3, <1>4
  <2>2. PICK k \in 0..MajorLen, j \in 0..MinorLen :
              /\ fifo[i][1] = IF bigslope
                              THEN IF negslope THEN MinorHi - j ELSE MinorLo + j
                              ELSE MajorLo + k
              /\ fifo[i][2] = IF bigslope
                              THEN MajorLo + k
                              ELSE IF negslope THEN MinorHi - j ELSE MinorLo + j
              /\ k = x + i - Len(fifo) - 1 - MajorLo
              /\ MajorLen * (2 * j - 1) <= 2 * MinorLen * k
              /\ MajorLen > 0 => 2 * MinorLen * k < MajorLen * (2 * j + 1)
    BY <2>1, FifoPixel
  <2>3. PICK kk \in 0..MajorLen, h \in 0..MinorLen :
              /\ fifo[n][1] = IF bigslope
                              THEN IF negslope THEN MinorHi - h ELSE MinorLo + h
                              ELSE MajorLo + kk
              /\ fifo[n][2] = IF bigslope
                              THEN MajorLo + kk
                              ELSE IF negslope THEN MinorHi - h ELSE MinorLo + h
              /\ kk = x + n - Len(fifo) - 1 - MajorLo
              /\ MajorLen * (2 * h - 1) <= 2 * MinorLen * kk
              /\ MajorLen > 0 => 2 * MinorLen * kk < MajorLen * (2 * h + 1)
    BY <2>1, FifoPixel
  <2>4. /\ MinorLen \in 0..MajorLen /\ MinorLo \in Int /\ MinorHi \in Int
        /\ k \in Int /\ kk \in Int /\ j \in Int /\ h \in Int
    BY <1>2, <1>5, FifoGeometry
  <2>5. kk = k + 1
    <3>1. k = x + i - Len(fifo) - 1 - MajorLo /\ kk = x + n - Len(fifo) - 1 - MajorLo
      BY <2>2, <2>3
    <3>2. x \in Int /\ i \in Int
      BY <1>1, <1>2
    <3> QED BY <1>2, <1>3, <3>1, <3>2
  <2>6. h = j \/ h = j + 1
    BY <1>2, <2>1, <2>2, <2>3, <2>4, <2>5, NextHeight
  <2>7. /\ fifo[n][1] - fifo[i][1] \in {-1, 0, 1}
        /\ fifo[n][2] - fifo[i][2] \in {-1, 0, 1}
    <3> HIDE DEF n
    <3>1. CASE bigslope
      <4>1. /\ fifo[i][1] = IF negslope THEN MinorHi - j ELSE MinorLo + j
            /\ fifo[n][1] = IF negslope THEN MinorHi - h ELSE MinorLo + h
            /\ fifo[i][2] = MajorLo + k /\ fifo[n][2] = MajorLo + kk
        BY <2>2, <2>3, <3>1
      <4> QED BY <1>2, <2>4, <2>5, <2>6, <4>1
    <3>2. CASE ~bigslope
      <4>1. /\ fifo[i][2] = IF negslope THEN MinorHi - j ELSE MinorLo + j
            /\ fifo[n][2] = IF negslope THEN MinorHi - h ELSE MinorLo + h
            /\ fifo[i][1] = MajorLo + k /\ fifo[n][1] = MajorLo + kk
        BY <2>2, <2>3, <3>2
      <4>2. fifo[n][1] - fifo[i][1] = 1
        BY <1>2, <2>4, <2>5, <4>1
      <4>3. fifo[n][2] - fifo[i][2] \in {-1, 0, 1}
        BY <2>4, <2>6, <4>1
      <4> QED BY <4>2, <4>3
    <3> QED BY <3>1, <3>2
  <2> HIDE DEF n
  <2>8. /\ Contract!Abs(fifo[n][1] - fifo[i][1]) <= 1
        /\ Contract!Abs(fifo[n][2] - fifo[i][2]) <= 1
    BY <2>7 DEF Contract!Abs
  <2> QED BY <2>8 DEF n
<1> QED BY <1>1, <1>6, <1>7, <1>8, <1>9 DEF Contract!IsLine

(* Every cycle of the line rasterizer is a step of its contract.           *)
LEMMA ContractStep == IndInv /\ [Next]_vars => [Contract!Next]_Contract!vars
<1> SUFFICES ASSUME IndInv, [Next]_vars PROVE [Contract!Next]_Contract!vars
  OBVIOUS
<1> USE DEF Contract!vars, Ready
<1>1. CASE Start
  <2>1. Ready
    BY <1>1 DEF Start, IndInv, FlagInv
  <2> QED BY <1>1, <2>1 DEF Start, Contract!Next, Contract!Start
<1>2. CASE T1 \/ T2 \/ T3 \/ T4 \/ BEGIN \/ Plot \/ Finish \/ S2
  <2>1. ~is_done /\ is_calculating
    BY <1>2 DEF IndInv, FlagInv, T1, T2, T3, T4, BEGIN, Plot, Finish, S2
  <2>2. UNCHANGED <<endpoints, flags, q>>
    BY <1>2 DEF T1, T2, T3, T4, BEGIN, Plot, Finish, S2
  <2> QED BY <2>1, <2>2 DEF endpoints, flags
<1>3. CASE DONE
  <2>1. ~is_done /\ is_calculating /\ state = "DONE"
    BY <1>3 DEF DONE, IndInv, FlagInv
  <2>2. Contract!IsLine(fifo, x0, y0, x1, y1) /\ size = Len(fifo)
    BY <2>1, WholeLine
  <2>3. is_done' /\ UNCHANGED <<endpoints, size, fifo, q>>
    BY <1>3 DEF DONE, loop
  <2>4. Contract!Finish
    BY <2>1, <2>2, <2>3 DEF Contract!Finish, endpoints
  <2> QED BY <2>4 DEF Contract!Next
<1>4. CASE clear_calc
  <2>1. is_done /\ UNCHANGED <<endpoints, size, fifo, q, is_done>>
    BY <1>4 DEF clear_calc, IndInv, FlagInv, loop
  <2> QED BY <2>1 DEF endpoints
<1>5. CASE Read
  <2>1. ~is_calculating /\ UNCHANGED <<endpoints, flags, size>>
    BY <1>5 DEF Read, IndInv, FlagInv, loop
  <2>2. Contract!Read
    BY <1>5, <2>1 DEF Read, Contract!Read, endpoints, flags
  <2> QED BY <2>2 DEF Contract!Next
<1>6. CASE UNCHANGED vars
  BY <1>6 DEF vars, endpoints, flags, loop
<1> QED BY <1>1, <1>2, <1>3, <1>4, <1>5, <1>6 DEF Next, Calculate

(* The rasterizer implements what polygonRaster assumes of it: a line that *)
(* looks ready is a whole line, counted by fifoSize and popped in order.   *)
THEOREM LineImplementsContract == Spec => ImplementsContract
<1>1. Init => Contract!Init
  BY DEF Init, Contract!Init, Ready
<1> QED BY <1>1, LineInvariant, ContractStep, PTL DEF Spec, ImplementsContract, Contract!Spec
=============================================================================
