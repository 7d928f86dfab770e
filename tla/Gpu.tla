--------------------------------- MODULE Gpu ---------------------------------
(***************************************************************************)
(* The whole of top.sv: the render loop and polygonRaster in lockstep on   *)
(* CLOCK_50, the display on its own vertical sync, and the Nios program    *)
(* that sets startRender.                                                  *)
(*                                                                         *)
(* A cycle of CLOCK_50 is one step of both state machines, each on the     *)
(* registers and combinational outputs of the other before the step.  The  *)
(* vertical sync comes from VGA_CLK and samples DRAW_DONE without          *)
(* synchronization: it is interleaved at any moment, as early or late as   *)
(* it likes, except that SYNC_GAP cycles lie between two of them.          *)
(***************************************************************************)
EXTENDS PolygonRaster

CONSTANTS SCREEN_SIZE,
          SYNC_GAP     \* CLOCK_50 cycles from one vertical sync to the next, at least

ASSUME GpuAssumption == /\ SCREEN_SIZE \in Nat \ {0} /\ Screen \subseteq 0..(SCREEN_SIZE - 1)
                        /\ SYNC_GAP \in Nat \ {0}

VARIABLES renderState, memCounter, buffer1, buffer2,
          select, frame_switched,
          syncWait,           \* cycles until VGA_VS may fall again
          startRender         \* bit 0 of register 126, EXPORT_START

Render == INSTANCE RenderLoop
Output == INSTANCE OutputScreen

renderVars == <<renderState, memCounter, buffer1, buffer2>>
screenVars == <<select, frame_switched>>
gpuVars == <<rasterVars, renderVars, screenVars, syncWait, startRender>>

Init == RasterInit /\ Render!RenderInit /\ Output!ScreenInit
        /\ syncWait = 0 /\ startRender = FALSE

(* A cycle of CLOCK_50; mem, the address of the pixel, is coord.           *)
Tick == /\ RasterTick(Render!startRaster, Render!readCoord)
        /\ Render!RenderCycle(startRender, rasterDone, coord, bufferEmpty, frame_switched)
        /\ syncWait' = IF syncWait = 0 THEN 0 ELSE syncWait - 1
        /\ UNCHANGED <<screenVars, startRender>>

VSync == /\ syncWait = 0
         /\ Output!VSync(Render!DRAW_DONE)
         /\ syncWait' = SYNC_GAP
         /\ UNCHANGED <<rasterVars, renderVars, startRender>>

(* main.cpp clears the register when it begins and sets it when all        *)
(* triangles are written.                                                  *)
Host == /\ startRender' = ~startRender
        /\ UNCHANGED <<rasterVars, renderVars, screenVars, syncWait>>

Next == Tick \/ VSync \/ Host

Spec == Init /\ [][Next]_gpuVars

(* The clocks of the renderer and of the display never stop.               *)
FairSpec == Spec /\ WF_gpuVars(Tick) /\ WF_gpuVars(VSync) /\ ArithmeticEnds
-----------------------------------------------------------------------------
(* The picture of the scene at angle a.                                    *)
Image(a) == UNION {{LineOf[a][l][i] : i \in 1..Len(LineOf[a][l])} : l \in Lines}

PreviousAngle == (ANGLE_ADDRESS + NUM_ANGLES - 1) % NUM_ANGLES

Shown == IF select THEN buffer2 ELSE buffer1

(* When DRAW_DONE is raised the buffer just drawn holds the picture of the *)
(* current angle, each of its pixels and no other: nothing of an earlier   *)
(* frame is left by CL1..CL4, no pixel is lost or read twice between the   *)
(* two state machines (top.sv:232-246, polygonRaster.sv:242-266).          *)
FrameComplete == /\ renderState = "S1" => buffer2 = Image(ANGLE_ADDRESS)
                 /\ renderState = "S3" => buffer1 = Image(ANGLE_ADDRESS)

(* The two state machines, which share no handshake but readCoord and      *)
(* bufferEmpty, stay in step: top.sv reads only when polygonRaster waits   *)
(* in S5, and writes the pixel in the one cycle in which muxselect still   *)
(* points at the FIFO it was popped from (top.sv:232-240).                 *)
PixelTakenInTime == /\ Render!readCoord => rasterState = "S5"
                    /\ renderState \in {"START", "S2"} <=> rasterState = "S6"

(* What PolygonRaster assumes of its inputs is what top.sv does: a frame   *)
(* is started only when the previous one has been read to its end.         *)
DrivesRaster == [][RasterNext]_rasterVars

(* When the display switches, the buffer that appears holds one whole      *)
(* picture, of the current or of the previous angle, and never one that is *)
(* being cleared or drawn (output_screen.sv:36-42).                        *)
SwitchShowsWholeFrame ==
    [][select' # select => Shown' \in {Image(ANGLE_ADDRESS), Image(PreviousAngle)}]_gpuVars

(* Once rendering has started it never stops: the display switches again   *)
(* and again, and no finished frame waits for ever although frame_switched *)
(* is only a level (top.sv:249, 283).                                      *)
FramesKeepComing == /\ renderState # "WAIT2" ~> select
                    /\ renderState # "WAIT2" ~> ~select
                    /\ renderState = "S1" ~> renderState = "F25"
                    /\ renderState = "S3" ~> renderState = "INITIAL"

(* The comments of top.sv and output_screen.sv promise a double buffer:    *)
(* top.sv draws a buffer only after "VGA is done reading" it               *)
(* (top.sv:249 and 283), and so never writes the one that is shown.  It    *)
(* does: frame_switched keeps its 1 from one vertical sync to the next,    *)
(* and a frame that is finished in between does not wait.                  *)
DrawsHiddenBuffer == /\ Render!BUFFER1_WR => select
                     /\ Render!BUFFER2_WR => ~select
=============================================================================
