------------------------- MODULE MCLineRasterizer -------------------------
(* LineRasterizer on a screen of M = 8 coordinate values.  The endpoints   *)
(* differ by up to 4 in each direction, so that every octant, the          *)
(* horizontal, vertical and diagonal lines and the single point occur,     *)
(* with several steps of the error term on each side of zero.              *)
EXTENDS LineRasterizer
MCCoords == {0, 1, 3, 4}
===========================================================================
