---------------------------- MODULE LineContract ----------------------------
(***************************************************************************)
(* What an edge rasterizer promises to polygonRaster.sv, and all that      *)
(* PolygonRaster assumes of it: once started it is not ready until all the *)
(* pixels of the edge are in its FIFO, fifoSize then counts them, and pops *)
(* deliver them in order.  How long it takes and which of the admissible   *)
(* lines it draws are left open.                                           *)
(***************************************************************************)
EXTENDS Integers, Sequences

VARIABLES x0, y0, x1, y1,   \* the endpoints of the edge
          ready,            \* is_done | !is_calculating, as polygonRaster tests it
          fifoSize,         \* number of pixels of the line, once ready
          pixels,           \* the pixels still to be popped, once ready
          q                 \* the pixel popped last

vars == <<x0, y0, x1, y1, ready, fifoSize, pixels, q>>

Abs(n) == IF n < 0 THEN -n ELSE n
Larger(a, b) == IF a > b THEN a ELSE b

(* rasterizeline.sv's `result': zero exactly on the line through the       *)
(* endpoints, and a measure of the distance from it elsewhere.             *)
Cross(px, a0, b0, a1, b1) == (px[1] - a0) * (b1 - b0) - (px[2] - b0) * (a1 - a0)

(* Within half a pixel of the line, measured along the minor axis.         *)
NearLine(px, a0, b0, a1, b1) ==
    2 * Abs(Cross(px, a0, b0, a1, b1)) <= Larger(Abs(a1 - a0), Abs(b1 - b0))

(* A rasterized line: from one endpoint to the other, one pixel for each   *)
(* step of the longer axis, no gap, nowhere further than half a pixel.     *)
IsLine(s, a0, b0, a1, b1) ==
    /\ Len(s) = Larger(Abs(a1 - a0), Abs(b1 - b0)) + 1
    /\ {s[1], s[Len(s)]} = {<<a0, b0>>, <<a1, b1>>}
    /\ \A i \in 1..Len(s) : NearLine(s[i], a0, b0, a1, b1)
    /\ \A i \in 1..(Len(s) - 1) : /\ Abs(s[i + 1][1] - s[i][1]) <= 1
                                  /\ Abs(s[i + 1][2] - s[i][2]) <= 1

Init == /\ x0 = 0 /\ y0 = 0 /\ x1 = 0 /\ y1 = 0
        /\ ready = TRUE
        /\ fifoSize = 0
        /\ pixels = <<>>
        /\ q = <<0, 0>>

Start == /\ ready
         /\ pixels = <<>>
         /\ ready' = FALSE
         /\ fifoSize' = 0
         /\ UNCHANGED <<pixels, q>>      \* the endpoints may take any value

Finish == /\ ~ready
          /\ ready' = TRUE
          /\ IsLine(pixels', x0, y0, x1, y1)
          /\ fifoSize' = Len(pixels')
          /\ UNCHANGED <<x0, y0, x1, y1, q>>

Read == /\ ready
        /\ pixels # <<>>
        /\ q' = Head(pixels)
        /\ pixels' = Tail(pixels)
        /\ UNCHANGED <<x0, y0, x1, y1, ready, fifoSize>>

Next == Start \/ Finish \/ Read

Spec == Init /\ [][Next]_vars
=============================================================================
