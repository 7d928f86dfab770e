----------------------------- MODULE RenderLoop -----------------------------
(***************************************************************************)
(* The state machine of top.sv: it renders into buffer2 (INITIAL .. S1)    *)
(* and buffer1 (F25 .. S3) in turn.  For each it starts the rasterizer,    *)
(* clears the buffer meanwhile (CL1, CL2 and CL3, CL4), waits for the      *)
(* rasterizer, draws pixel by pixel until that is empty, and then holds    *)
(* DRAW_DONE until the display has switched buffers.                       *)
(*                                                                         *)
(* A step is one CLOCK_50 cycle; the registers of the other components it  *)
(* reads are parameters of its actions.  A frame buffer is the set of the  *)
(* addresses that are white (7); all others are black (0).                 *)
(***************************************************************************)
EXTENDS Integers

CONSTANT SCREEN_SIZE    \* words of a frame buffer: 76800 = 320 * 240

VARIABLES renderState,          \* State of top.sv
          memCounter,           \* the address to be cleared next
          buffer1, buffer2      \* contents of the frame buffers

renderVars == <<renderState, memCounter, buffer1, buffer2>>

Addresses == 0..(SCREEN_SIZE - 1)

(* buffer1 powers up with white_screen.mif, buffer2 with black_screen.mif. *)
RenderInit == /\ renderState = "WAIT2"
              /\ memCounter = 0
              /\ buffer1 = Addresses
              /\ buffer2 = {}

(* Combinational outputs.                                                  *)
startRaster == renderState \in {"INITIAL", "F25"}
readCoord == renderState \in {"S23", "F27"}
DRAW_DONE == renderState \in {"S1", "S3"}
BUFFER2_WR == renderState \in {"CL1", "START"}
BUFFER1_WR == renderState \in {"CL3", "S2"}

Go(from, to) == renderState = from /\ renderState' = to
-----------------------------------------------------------------------------
(* Mutated forms of actions below, for the properties of Gpu.              *)

(* The clear ends one address early. *)
CL2OneShort == /\ \/ Go("CL2", IF memCounter = SCREEN_SIZE - 1 THEN "WAIT1" ELSE "CL1")
                  \/ Go("CL4", IF memCounter = SCREEN_SIZE - 1 THEN "F26" ELSE "CL3")
               /\ UNCHANGED <<memCounter, buffer1, buffer2>>

(* The first pixel is taken for the last. *)
S24OnePixel(bufferEmpty) ==
    /\ Go("S24", "S1") \/ Go("F28", "S3")
    /\ UNCHANGED <<memCounter, buffer1, buffer2>>

(* The pixel is taken a cycle late, after the next read. *)
S24Late(bufferEmpty) ==
    /\ \/ Go("S24", IF bufferEmpty THEN "S1" ELSE "START")
       \/ Go("F28", IF bufferEmpty THEN "S3" ELSE "S2")
    /\ UNCHANGED <<memCounter, buffer1, buffer2>>
-----------------------------------------------------------------------------
(* Waiting for startRender[0].                                             *)
WAIT2(startRender) == /\ Go("WAIT2", IF startRender THEN "DUMB" ELSE "WAIT2")
                      /\ UNCHANGED <<memCounter, buffer1, buffer2>>

DUMB == /\ Go("DUMB", "INITIAL")
        /\ UNCHANGED <<memCounter, buffer1, buffer2>>

(* INITIAL and F25 raise startRaster.                                      *)
INITIAL == /\ Go("INITIAL", "CL1") \/ Go("F25", "CL3")
           /\ UNCHANGED <<memCounter, buffer1, buffer2>>

CL1 == /\ \/ Go("CL1", "CL2") /\ buffer2' = buffer2 \ {memCounter} /\ UNCHANGED buffer1
          \/ Go("CL3", "CL4") /\ buffer1' = buffer1 \ {memCounter} /\ UNCHANGED buffer2
       /\ memCounter' = memCounter + 1

CL2 == /\ \/ Go("CL2", IF memCounter = SCREEN_SIZE THEN "WAIT1" ELSE "CL1")
          \/ Go("CL4", IF memCounter = SCREEN_SIZE THEN "F26" ELSE "CL3")
       /\ UNCHANGED <<memCounter, buffer1, buffer2>>

WAIT1(rasterDone) == /\ \/ Go("WAIT1", IF rasterDone THEN "S23" ELSE "WAIT1")
                        \/ Go("F26", IF rasterDone THEN "F27" ELSE "F26")
                     /\ memCounter' = IF rasterDone THEN 0 ELSE memCounter
                     /\ UNCHANGED <<buffer1, buffer2>>

(* S23 and F27 raise readCoord; the pixel is on the coord bus one cycle    *)
(* later, and bufferEmpty is known two cycles later.                       *)
S23 == /\ Go("S23", "START") \/ Go("F27", "S2")
       /\ UNCHANGED <<memCounter, buffer1, buffer2>>

START(mem) == /\ \/ Go("START", "S24") /\ buffer2' = buffer2 \cup {mem} /\ UNCHANGED buffer1
                 \/ Go("S2", "F28") /\ buffer1' = buffer1 \cup {mem} /\ UNCHANGED buffer2
              /\ UNCHANGED memCounter

S24(bufferEmpty) == /\ \/ Go("S24", IF bufferEmpty THEN "S1" ELSE "S23")
                       \/ Go("F28", IF bufferEmpty THEN "S3" ELSE "F27")
                    /\ UNCHANGED <<memCounter, buffer1, buffer2>>

(* S1 and S3 hold DRAW_DONE until frame_switched.                          *)
S1(frame_switched) == /\ \/ Go("S1", IF frame_switched THEN "F25" ELSE "S1")
                         \/ Go("S3", IF frame_switched THEN "INITIAL" ELSE "S3")
                      /\ memCounter' = IF frame_switched THEN 0 ELSE memCounter
                      /\ UNCHANGED <<buffer1, buffer2>>

RenderCycle(startRender, rasterDone, mem, bufferEmpty, frame_switched) ==
    \/ WAIT2(startRender) \/ DUMB \/ INITIAL \/ CL1 \/ CL2 \/ WAIT1(rasterDone)
    \/ S23 \/ START(mem) \/ S24(bufferEmpty) \/ S1(frame_switched)
=============================================================================
