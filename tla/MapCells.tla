------------------------------- MODULE MapCells -------------------------------
(***************************************************************************)
(* Rooms as sets of cells of the occupancy grid: mapgeo's masks, what makes *)
(* two rooms adjacent, and the part of a mask that becomes a polygon.  A    *)
(* cell is <<column, row>>; row 0 is the top one.                          *)
(***************************************************************************)
EXTENDS Integers, FiniteSets

CONSTANTS Width, Height

ASSUME GridAssumption == Width \in Nat \ {0} /\ Height \in Nat \ {0}

Cells == (0..Width - 1) \X (0..Height - 1)
Masks == SUBSET Cells

Near(p) == {<<p[1] + 1, p[2]>>, <<p[1] - 1, p[2]>>, <<p[1], p[2] + 1>>, <<p[1], p[2] - 1>>}

Union(masks) == UNION {masks[i] : i \in DOMAIN masks}

\* Two rooms overlap or have cells side by side.
Adjacent(a, b) == \E p \in a : ({p} \cup Near(p)) \cap b # {}

\* graph of each room: the positions of the rooms adjacent to it.
BuildAdjacency(masks) ==
  [i \in DOMAIN masks |-> {j \in DOMAIN masks \ {i} : Adjacent(masks[i], masks[j])}]

\* The flood fill of m from p: what it has reached after n layers.
Component(m, p) ==
  LET reached[n \in Nat] ==
        IF n = 0 THEN {p}
        ELSE LET s == reached[n - 1] IN s \cup (m \cap UNION {Near(q) : q \in s})
  IN  reached[Cardinality(m)]

Components(m) == {Component(m, p) : p \in m}

\* The scan of the mask meets cells row by row.
RowMajor(p) == p[2] * Width + p[1]
MetFirst(c, d) == \E p \in c : \A q \in d : RowMajor(p) <= RowMajor(q)

\* Of components as large as any other, the scan keeps the first it met.
largestComponent(m) ==
  IF m = {} THEN {}
  ELSE CHOOSE c \in Components(m) : \A d \in Components(m) :
         \/ Cardinality(c) > Cardinality(d)
         \/ Cardinality(c) = Cardinality(d) /\ MetFirst(c, d)

\* A room without its holes: the cells no way leads from to the outside.
Filled(m) ==
  LET frame == ((-1)..Width) \X ((-1)..Height)
  IN  Cells \ Component(frame \ m, <<-1, -1>>)
=============================================================================
