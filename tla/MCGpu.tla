-------------------------------- MODULE MCGpu --------------------------------
(* Gpu with one triangle, two or three angles and a screen of twelve       *)
(* addresses: clearing it may end before and after the rasterizer is done. *)
(* The edges share pixels, differ in length, and leave addresses (among    *)
(* them the first and the last) that are in one picture and not in the     *)
(* next.                                                                   *)
EXTENDS Gpu, TLC
MCScreen == 0..(SCREEN_SIZE - 1)
MCLineOf == [a \in Angles |->
    CASE a = 0 -> (0 :> <<0, 1>> @@ 1 :> <<1>>       @@ 2 :> <<1, 0>>)
      [] a = 1 -> (0 :> <<1>>    @@ 1 :> <<1, 11>>   @@ 2 :> <<11>>)
      [] a = 2 -> (0 :> <<6, 7>> @@ 1 :> <<7, 8, 9>> @@ 2 :> <<9>>)]
==============================================================================
