--------------------------- MODULE MCPolygonRaster ---------------------------
(* PolygonRaster with two triangles and three angles: the edges have one to *)
(* three pixels, so that the FIFOs differ in length from each other and    *)
(* from one frame to the next, and counter passes both its limits.         *)
EXTENDS PolygonRaster
MCScreen == 0..3
MCLineOf == [a \in Angles |->
    [l \in Lines |-> CASE (a + l) % 3 = 0 -> <<a, l % 4>>
                      [] (a + l) % 3 = 1 -> <<l % 4>>
                      [] (a + l) % 3 = 2 -> <<(a + l) % 4, l % 2, a>>]]
==============================================================================
