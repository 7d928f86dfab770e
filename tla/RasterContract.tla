--------------------------- MODULE RasterContract ---------------------------
(***************************************************************************)
(* What polygonRaster.sv promises to top.sv.  Each startRaster turns the   *)
(* scene by one angle.  When rasterDone comes, the pixels of exactly this  *)
(* angle are waiting; each read puts the next one on the coord bus for one *)
(* cycle, and bufferEmpty comes as the last one is taken off it.           *)
(***************************************************************************)
EXTENDS Integers, Sequences

CONSTANTS NUM_ANGLES,
          FramePixels,   \* FramePixels[a]: the pixels of the frame at angle a
          NoPixel        \* coord holds nothing that may be drawn

VARIABLES angle, rasterDone, bufferEmpty,
          pending,       \* pixels not read yet
          coord

vars == <<angle, rasterDone, bufferEmpty, pending, coord>>

Init == /\ angle = 0
        /\ rasterDone = FALSE /\ bufferEmpty = FALSE
        /\ pending = <<>>
        /\ coord = NoPixel

(* Only between frames: nothing of the previous one may be left.           *)
StartFrame == /\ pending = <<>> /\ coord = NoPixel
              /\ rasterDone = bufferEmpty
              /\ angle' = (angle + 1) % NUM_ANGLES
              /\ rasterDone' = FALSE /\ bufferEmpty' = FALSE
              /\ UNCHANGED <<pending, coord>>

FinishFrame == /\ ~rasterDone
               /\ rasterDone' = TRUE
               /\ pending' = FramePixels[angle]
               /\ UNCHANGED <<angle, bufferEmpty, coord>>

ReadPixel == /\ pending # <<>> /\ coord = NoPixel
             /\ coord' = Head(pending)
             /\ pending' = Tail(pending)
             /\ UNCHANGED <<angle, rasterDone, bufferEmpty>>

TakePixel == /\ coord # NoPixel
             /\ coord' = NoPixel
             /\ bufferEmpty' = (pending = <<>>)
             /\ UNCHANGED <<angle, rasterDone, pending>>

Next == StartFrame \/ FinishFrame \/ ReadPixel \/ TakePixel

Spec == Init /\ [][Next]_vars
=============================================================================
