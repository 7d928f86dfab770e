---------------------------- MODULE OutputScreen ----------------------------
(***************************************************************************)
(* output_screen.sv: the double buffer of the display.  On each falling    *)
(* edge of the vertical sync it looks at DRAW_DONE and, if it is high,     *)
(* shows the other buffer; frame_switched tells top.sv what happened, and  *)
(* keeps its value until the next vertical sync.                           *)
(***************************************************************************)
VARIABLES select,          \* FALSE: buffer1 is shown, TRUE: buffer2
          frame_switched

screenVars == <<select, frame_switched>>

ScreenInit == select = FALSE /\ frame_switched = FALSE

(* Mutated forms of VSync, for the properties of Gpu: the buffers switch   *)
(* whether or not the picture is finished, and the switch is not reported. *)
VSyncAlways(DRAW_DONE) == /\ select' = ~select
                          /\ frame_switched' = DRAW_DONE

VSyncSilent(DRAW_DONE) == /\ select' = IF DRAW_DONE THEN ~select ELSE select
                          /\ frame_switched' = FALSE

VSync(DRAW_DONE) == /\ select' = IF DRAW_DONE THEN ~select ELSE select
                    /\ frame_switched' = DRAW_DONE
=============================================================================
