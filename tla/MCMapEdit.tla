------------------------------ MODULE MCMapEdit ------------------------------
(* MapEdit for TLC: polygons and split lines are those of MapGeo on a grid  *)
(* of four by three cells, with three rooms on one map and one on another.  *)
EXTENDS MapEdit, MapGeo

CONSTANTS m1, m2, n1, k1

EditorsAlike == Permutations(Editors)
Origin == 0
OneLine == {<<4, 0, 4, 6>>}
Cut(m, line) == SplitByLine(m, line)
Rect(a, b, c, d) == (a..b) \X (c..d)
Drawn ==
  (m1 :> <<NewRoom(1, n1, Rect(0, 1, 0, 2)), NewRoom(3, n1, Rect(2, 3, 0, 0)), NewRoom(4, n1, Rect(2, 3, 1, 2))>>)
    @@ (m2 :> <<NewRoom(1, n1, Rect(1, 3, 0, 1))>>)
Marked ==
  LET Carpet(n) == [kind |-> k1, num |-> n, redrawn |-> FALSE]
  IN  (m1 :> <<Carpet(0), Carpet(1)>>) @@ (m2 :> <<>>)
=============================================================================
