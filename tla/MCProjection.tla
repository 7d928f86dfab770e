---------------------------- MODULE MCProjection ----------------------------
(* Projection with words of 24 bits instead of 32: the corners of the cube,  *)
(* the origin, where the vertices of unused registers are, and vertices of   *)
(* which the program has not written every coordinate.  The angles           *)
(* are every 18th entry of sin_values.mif, cos_values.mif and                *)
(* neg_sin_values.mif, in these words, and the entries where a sign turns.   *)
EXTENDS Projection

MCVertices == ({-One, One} \X {-One, One} \X {-One, One}) \cup
    {<<0, 0, 0>>, <<One, 0, 0>>, <<-One, 0, 0>>, <<One, -One, 0>>, <<0, -One, 0>>, <<0, 0, One>>}
MCAngles == {
    [sin |-> 0, cos |-> 2048, neg_sin |-> 0],
    [sin |-> 721, cos |-> 1916, neg_sin |-> -722],
    [sin |-> 1350, cos |-> 1539, neg_sin |-> -1351],
    [sin |-> 1806, cos |-> 965, neg_sin |-> -1807],
    [sin |-> 2030, cos |-> 267, neg_sin |-> -2031],
    [sin |-> 2047, cos |-> 22, neg_sin |-> -2048],
    [sin |-> 2047, cos |-> -19, neg_sin |-> -2048],
    [sin |-> 1994, cos |-> -466, neg_sin |-> -1995],
    [sin |-> 1702, cos |-> -1138, neg_sin |-> -1703],
    [sin |-> 1192, cos |-> -1665, neg_sin |-> -1193],
    [sin |-> 529, cos |-> -1979, neg_sin |-> -530],
    [sin |-> 3, cos |-> -2048, neg_sin |-> -4],
    [sin |-> -202, cos |-> -2038, neg_sin |-> 201],
    [sin |-> -907, cos |-> -1837, neg_sin |-> 906],
    [sin |-> -1496, cos |-> -1400, neg_sin |-> 1495],
    [sin |-> -1893, cos |-> -784, neg_sin |-> 1892],
    [sin |-> -2047, cos |-> -67, neg_sin |-> 2046],
    [sin |-> -2048, cos |-> -26, neg_sin |-> 2047],
    [sin |-> -2048, cos |-> 15, neg_sin |-> 2047],
    [sin |-> -1939, cos |-> 659, neg_sin |-> 1939],
    [sin |-> -1583, cos |-> 1299, neg_sin |-> 1582],
    [sin |-> -1024, cos |-> 1774, neg_sin |-> 1023],
    [sin |-> -333, cos |-> 2020, neg_sin |-> 332],
    [sin |-> -48, cos |-> 2047, neg_sin |-> 47]}
=============================================================================
