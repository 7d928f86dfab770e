--------------------------- MODULE MCNiosProgram ---------------------------
(* Hardware for two triangles; files with one, two and three, one without  *)
(* any and one with a line that does not fit the buffer.                   *)
EXTENDS NiosProgram

V(x, y, z) == [kind |-> "v", v |-> <<x, y, z>>]
F(a, b, c) == [kind |-> "f", v |-> <<a, b, c>>]
Comment == [kind |-> "other", v |-> <<>>]
Long    == [kind |-> "long", v |-> <<>>]

Corners == <<Comment, V(1, 0, 0), V(0, 1, 0), V(1, 1, 0), V(0, 0, 1)>>

MCFiles == {<<>>,
            Corners \o <<F(1, 2, 3)>>,
            Corners \o <<F(1, 2, 3), Comment, F(3, 1, 4)>>,
            <<V(1, 1, 1), V(0, 0, 0), F(2, 1, 2), V(0, 1, 1), F(3, 2, 1)>>,
            Corners \o <<F(4, 2, 3), F(2, 1, 4), F(1, 2, 1)>>,
            Corners \o <<F(1, 2, 3), Long, F(3, 2, 4)>>}
=============================================================================
