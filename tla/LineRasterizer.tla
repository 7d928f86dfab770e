--------------------------- MODULE LineRasterizer ---------------------------
(***************************************************************************)
(* linerasterize.sv: the edge rasterizer.  Given the two endpoints of an   *)
(* edge it writes the pixels of the edge, in the order of the major axis,  *)
(* into its own scfifo (lineoutput.v), and polygonRaster.sv pops them      *)
(* later.  One action is one clock cycle of the state machine; a pop is a  *)
(* cycle in which readFIFO is high.                                        *)
(*                                                                         *)
(* Coordinates, x, y and size are 9-bit registers: arithmetic on them is   *)
(* modulo M (512 in the code).  p is 32 bits wide; that its value never    *)
(* leaves -2*M .. 2*M, so that p[31] is its sign, is part of TypeOK.       *)
(***************************************************************************)
EXTENDS Integers, Sequences

CONSTANTS M,       \* number of values of a coordinate register (2^9)
          Depth,   \* lpm_numwords of the scfifo (512)
          Coords   \* coordinates an endpoint may have

ASSUME MAssumption == M \in Nat /\ M > 1

(* A line has one pixel per value of its major coordinate, so a FIFO as    *)
(* deep as the largest such count can hold every line.                     *)
ASSUME DepthAssumption == Depth \in Nat /\ Depth >= M - 1

(* The largest register value is excluded: with maxX = M-1 the test        *)
(* x <= maxX of state S1 is true of every 9-bit x.  The projected vertices *)
(* stay far below it, see the README.                                      *)
ASSUME CoordsAssumption == Coords \subseteq 0..(M - 2)

VARIABLES x0, y0, x1, y1,            \* the endpoints, outputs of the projection
          state,                     \* State
          minX, maxX, minY, maxY, dx, dy, negslope, bigslope,
          x, y, size, p,             \* the Bresenham loop
          is_done, is_calculating,
          fifo,                      \* contents of lineoutput
          q                          \* its registered output, outputFIFO

endpoints == <<x0, y0, x1, y1>>
setup == <<minX, maxX, minY, maxY, dx, dy, negslope, bigslope>>
loop == <<x, y, size, p>>
flags == <<is_done, is_calculating>>
vars == <<endpoints, state, setup, loop, flags, fifo, q>>

Reg == 0..(M - 1)
End == 0..(M - 2)
Pixel == Reg \X Reg
States == {"INITIAL", "T1", "T2", "T3", "T4", "BEGIN", "S1", "S2", "DONE", "clear_calc"}

Incr(v) == IF v = M - 1 THEN 0 ELSE v + 1      \* v++ on nine bits
Decr(v) == IF v = 0 THEN M - 1 ELSE v - 1      \* v-- on nine bits
Least(a, b) == IF a < b THEN a ELSE b
Greatest(a, b) == IF a > b THEN a ELSE b

(* The loop runs along the major axis: Y when bigslope, X otherwise.       *)
MajorLo == IF bigslope THEN minY ELSE minX
MajorHi == IF bigslope THEN maxY ELSE maxX
MajorLen == IF bigslope THEN dy ELSE dx
MinorLen == IF bigslope THEN dx ELSE dy
MinorLo == IF bigslope THEN minX ELSE minY
MinorHi == IF bigslope THEN maxX ELSE maxY
MinorStart == IF negslope THEN MinorHi ELSE MinorLo
MinorEnd == IF negslope THEN MinorLo ELSE MinorHi

(* coordinateData: {x,y} or, on a steep line, {y,x}.                       *)
Coordinate(major, minor) == IF bigslope THEN <<minor, major>> ELSE <<major, minor>>

(* A write into the scfifo.  overflow_checking is OFF: a write to a full   *)
(* FIFO has no defined outcome, so it may be dropped, replace the oldest   *)
(* word or wrap the word counter.                                          *)
Written(f, v) == IF Len(f) < Depth
                 THEN {Append(f, v)}
                 ELSE {f, Append(Tail(f), v), <<v>>}

Init == /\ x0 = 0 /\ y0 = 0 /\ x1 = 0 /\ y1 = 0
        /\ state = "INITIAL"
        /\ minX = 0 /\ maxX = 0 /\ minY = 0 /\ maxY = 0 /\ dx = 0 /\ dy = 0
        /\ negslope = FALSE /\ bigslope = FALSE
        /\ x = 0 /\ y = 0 /\ size = 0 /\ p = 0
        /\ is_done = FALSE /\ is_calculating = FALSE
        /\ fifo = <<>>
        /\ q = <<0, 0>>
-----------------------------------------------------------------------------
(* Mutated forms of operators below, with which the properties at the end  *)
(* of this module do not hold.                                             *)

(* The start branch forgets is_done. *)
StartKeepsDone == /\ state = "INITIAL"
                  /\ fifo = <<>>
                  /\ x0' \in Coords /\ y0' \in Coords /\ x1' \in Coords /\ y1' \in Coords
                  /\ state' = "T1"
                  /\ minX' = 0 /\ maxX' = 0 /\ minY' = 0 /\ maxY' = 0 /\ dx' = 0 /\ dy' = 0
                  /\ negslope' = FALSE /\ bigslope' = FALSE
                  /\ is_done' = is_done /\ is_calculating' = TRUE
                  /\ UNCHANGED <<loop, fifo, q>>

(* T3 sees only one of the two falling directions. *)
T3OneDirection == /\ state = "T3"
                  /\ negslope' = (x0 < x1 /\ y0 > y1)
                  /\ dy' = maxY - minY
                  /\ dx' = maxX - minX
                  /\ state' = "T4"
                  /\ UNCHANGED <<endpoints, minX, maxX, minY, maxY, bigslope, loop, flags, fifo, q>>

(* BEGIN starts the error term without the half pixel. *)
BEGINNoHalf == /\ state = "BEGIN"
               /\ x' = MajorLo
               /\ y' = MinorStart
               /\ size' = 0
               /\ p' = 2 * MinorLen
               /\ state' = "S1"
               /\ UNCHANGED <<endpoints, setup, flags, fifo, q>>

(* S1 forgets to count the pixel it writes. *)
PlotUncounted == /\ state = "S1"
                 /\ x <= MajorHi
                 /\ fifo' \in Written(fifo, Coordinate(x, y))
                 /\ x' = Incr(x)
                 /\ state' = "S2"
                 /\ UNCHANGED <<endpoints, setup, y, size, p, flags, q>>

(* S1 tests x < max+1 in nine bits, and so never stops on the last column. *)
FinishNever == /\ state = "S1"
               /\ x > MajorHi
               /\ x' = MajorLo
               /\ UNCHANGED <<endpoints, state, setup, y, size, p, flags, fifo, q>>
-----------------------------------------------------------------------------
(* start: polygonRaster raises it when the projections of all vertices are *)
(* done and the line is idle and drained (PolygonRaster shows that); the   *)
(* endpoints then hold still until the next frame.                         *)
Start == /\ state = "INITIAL"
         /\ fifo = <<>>
         /\ x0' \in Coords /\ y0' \in Coords /\ x1' \in Coords /\ y1' \in Coords
         /\ state' = "T1"
         /\ minX' = 0 /\ maxX' = 0 /\ minY' = 0 /\ maxY' = 0 /\ dx' = 0 /\ dy' = 0
         /\ negslope' = FALSE /\ bigslope' = FALSE
         /\ is_done' = FALSE /\ is_calculating' = TRUE
         /\ UNCHANGED <<loop, fifo, q>>

T1 == /\ state = "T1"
      /\ minX' = Least(x0, x1)
      /\ maxX' = Greatest(x0, x1)
      /\ state' = "T2"
      /\ UNCHANGED <<endpoints, minY, maxY, dx, dy, negslope, bigslope, loop, flags, fifo, q>>

T2 == /\ state = "T2"
      /\ minY' = Least(y0, y1)
      /\ maxY' = Greatest(y0, y1)
      /\ state' = "T3"
      /\ UNCHANGED <<endpoints, minX, maxX, dx, dy, negslope, bigslope, loop, flags, fifo, q>>

T3 == /\ state = "T3"
      /\ negslope' = ((x0 < x1 /\ y0 > y1) \/ (x1 < x0 /\ y1 > y0))
      /\ dy' = maxY - minY
      /\ dx' = maxX - minX
      /\ state' = "T4"
      /\ UNCHANGED <<endpoints, minX, maxX, minY, maxY, bigslope, loop, flags, fifo, q>>

T4 == /\ state = "T4"
      /\ bigslope' = (dy > dx)
      /\ state' = "BEGIN"
      /\ UNCHANGED <<endpoints, minX, maxX, minY, maxY, dx, dy, negslope, loop, flags, fifo, q>>

BEGIN == /\ state = "BEGIN"
         /\ x' = MajorLo
         /\ y' = MinorStart
         /\ size' = 0
         /\ p' = 2 * MinorLen - MajorLen
         /\ state' = "S1"
         /\ UNCHANGED <<endpoints, setup, flags, fifo, q>>

(* S1, x within the line: write the pixel and step the major coordinate.   *)
Plot == /\ state = "S1"
        /\ x <= MajorHi
        /\ fifo' \in Written(fifo, Coordinate(x, y))
        /\ x' = Incr(x)
        /\ size' = Incr(size)
        /\ state' = "S2"
        /\ UNCHANGED <<endpoints, setup, y, p, flags, q>>

(* S1, x past the line.                                                    *)
Finish == /\ state = "S1"
          /\ x > MajorHi
          /\ state' = "DONE"
          /\ UNCHANGED <<endpoints, setup, loop, flags, fifo, q>>

(* S2: the decision variable chooses whether the minor coordinate steps.   *)
S2 == /\ state = "S2"
      /\ \/ /\ p < 0
            /\ p' = p + 2 * MinorLen
            /\ y' = y
         \/ /\ p >= 0
            /\ p' = p + 2 * MinorLen - 2 * MajorLen
            /\ y' = IF negslope THEN Decr(y) ELSE Incr(y)
      /\ state' = "S1"
      /\ UNCHANGED <<endpoints, setup, x, size, flags, fifo, q>>

DONE == /\ state = "DONE"
        /\ is_done' = TRUE
        /\ state' = "clear_calc"
        /\ UNCHANGED <<endpoints, setup, loop, is_calculating, fifo, q>>

clear_calc == /\ state = "clear_calc"
              /\ is_calculating' = FALSE
              /\ state' = "INITIAL"
              /\ UNCHANGED <<endpoints, setup, loop, is_done, fifo, q>>

(* readFIFO: the oldest word moves to the output register.                 *)
Read == /\ state = "INITIAL"
        /\ fifo # <<>>
        /\ q' = Head(fifo)
        /\ fifo' = Tail(fifo)
        /\ UNCHANGED <<endpoints, state, setup, loop, flags>>

Calculate == T1 \/ T2 \/ T3 \/ T4 \/ BEGIN \/ Plot \/ Finish \/ S2 \/ DONE \/ clear_calc

Next == Start \/ Calculate \/ Read

(* The clock never stops while a line is calculated.  Nothing obliges the  *)
(* reader to start or to pop.                                              *)
Spec == Init /\ [][Next]_vars /\ WF_vars(Calculate)
-----------------------------------------------------------------------------
(* Every register holds a value of its width; p needs no more than         *)
(* 2*M in either direction, far from the sign bit of its 32 bits.          *)
TypeOK == /\ x0 \in End /\ y0 \in End /\ x1 \in End /\ y1 \in End
          /\ state \in States
          /\ minX \in Reg /\ maxX \in Reg /\ minY \in Reg /\ maxY \in Reg
          /\ dx \in Reg /\ dy \in Reg
          /\ negslope \in BOOLEAN /\ bigslope \in BOOLEAN
          /\ x \in Reg /\ y \in Reg /\ size \in Reg
          /\ p \in (-2 * M)..(2 * M)
          /\ is_done \in BOOLEAN /\ is_calculating \in BOOLEAN
          /\ fifo \in Seq(Pixel) /\ Len(fifo) <= Depth
          /\ q \in Pixel

(* The test polygonRaster makes before it takes a line as finished         *)
(* (is_done | !is_calculating).                                            *)
Ready == is_done \/ ~is_calculating

Contract == INSTANCE LineContract
            WITH ready <- Ready,
                 fifoSize <- IF Ready THEN size ELSE 0,
                 pixels <- IF Ready THEN fifo ELSE <<>>

(* No pixel in the FIFO, at any moment, lies further than half a pixel     *)
(* from the ideal line between the two endpoints: the integer error term p *)
(* of states BEGIN and S2 accumulates no drift, for any slope or direction.*)
PixelsNearLine ==
    \A i \in 1..Len(fifo) : Contract!NearLine(fifo[i], x0, y0, x1, y1)

(* When the line looks ready to polygonRaster it is not being written any  *)
(* more, and the last pixel to be popped is an endpoint of this edge: no   *)
(* flag of the previous line survives into this one (linerasterize.sv,     *)
(* the start branch of the always_ff).                                     *)
ReadyMeansComplete ==
    Ready => /\ state \in {"clear_calc", "INITIAL"}
             /\ fifo # <<>> => fifo[Len(fifo)] \in {<<x0, y0>>, <<x1, y1>>}

(* The rasterizer keeps its promise to polygonRaster: its cycles are       *)
(* steps of LineContract, so that a line becomes ready with exactly its    *)
(* pixels in the FIFO and their number in fifoSize, and pops deliver them. *)
ImplementsContract == Contract!Spec

(* Every line that is started becomes ready: the x <= maxX test of S1      *)
(* eventually fails although x and y are modular.                          *)
LineFinishes == is_calculating ~> Ready
-----------------------------------------------------------------------------
(* The inductive invariant.  Steps and Climb measure a pixel from the      *)
(* first one: k steps along the major axis, j along the minor one.         *)
Major(px) == IF bigslope THEN px[2] ELSE px[1]
Minor(px) == IF bigslope THEN px[1] ELSE px[2]
Steps(major) == major - MajorLo
Climb(minor) == IF negslope THEN MinorStart - minor ELSE minor - MinorStart

(* j is k * MinorLen / MajorLen rounded to the nearest, halves upwards.    *)
Rounded(k, j) == /\ MajorLen * (2 * j - 1) <= 2 * MinorLen * k
                 /\ MajorLen > 0 => 2 * MinorLen * k < MajorLen * (2 * j + 1)

Setting == {"T1", "T2", "T3", "T4", "BEGIN"}

(* What each setup cycle has computed is right from then on.               *)
SetupInv ==
    /\ state # "T1" => minX = Least(x0, x1) /\ maxX = Greatest(x0, x1)
    /\ state \notin {"T1", "T2"} => minY = Least(y0, y1) /\ maxY = Greatest(y0, y1)
    /\ state \notin {"T1", "T2", "T3"} =>
           /\ dx = maxX - minX /\ dy = maxY - minY
           /\ negslope <=> (x0 < x1 /\ y0 > y1) \/ (x1 < x0 /\ y1 > y0)
    /\ state \notin {"T1", "T2", "T3", "T4"} => (bigslope <=> dy > dx)

(* The loop: x, size and the FIFO advance together, and p is the rounding  *)
(* error of the current y.                                                 *)
LoopInv ==
    /\ state \in {"S1", "S2", "DONE", "clear_calc"} => size = Len(fifo) /\ x = MajorLo + size
    /\ state \in {"S1", "S2"} => /\ 2 * MinorLen - 2 * MajorLen <= p /\ p <= 2 * MinorLen
                                /\ x <= MajorHi + 1
    /\ state = "S1" /\ x <= MajorHi =>
           /\ Climb(y) \in 0..MinorLen
           /\ Rounded(Steps(x), Climb(y))
           /\ p = 2 * MinorLen * (Steps(x) + 1) - MajorLen * (2 * Climb(y) + 1)
    /\ state = "S2" =>
           /\ x > MajorLo
           /\ Climb(y) \in 0..MinorLen
           /\ Rounded(Steps(x) - 1, Climb(y))
           /\ p = 2 * MinorLen * Steps(x) - MajorLen * (2 * Climb(y) + 1)
    /\ state \in {"DONE", "clear_calc"} \/ (state = "INITIAL" /\ fifo # <<>>)
           => x = MajorHi + 1

(* The FIFO holds the rounded pixels of the line, the last one next to x.  *)
FifoInv ==
    /\ state \in Setting => fifo = <<>>
    /\ \A i \in 1..Len(fifo) :
          /\ Major(fifo[i]) = x + i - Len(fifo) - 1
          /\ Major(fifo[i]) \in MajorLo..MajorHi
          /\ Climb(Minor(fifo[i])) \in 0..MinorLen
          /\ Rounded(Steps(Major(fifo[i])), Climb(Minor(fifo[i])))

FlagInv == /\ state \notin {"clear_calc", "INITIAL"} => ~is_done /\ is_calculating
           /\ state = "clear_calc" => is_done /\ is_calculating
           /\ state = "INITIAL" => ~is_calculating

IndInv == TypeOK /\ SetupInv /\ LoopInv /\ FifoInv /\ FlagInv
=============================================================================
