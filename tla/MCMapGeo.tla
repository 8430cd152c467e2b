------------------------------ MODULE MCMapGeo ------------------------------
(* MapGeo for TLC: every set of cells of a small grid, drawn cell by cell,  *)
(* as the mask an edit turns into a polygon, and a bundle of split lines.  *)
EXTENDS MapGeo

VARIABLE area

Origin == -3
SplitLines == {<<a, b, c, d>> : a \in {-3, 1}, b \in {5, 8}, c \in {0, 5}, d \in {7, 13}}

Init == area = {}
Draw(p) == p \notin area /\ area' = area \cup {p}
Next == \E p \in Cells : Draw(p)
Spec == Init /\ [][Next]_area

\* Before simplification the polygon has every cell of the largest component
\* inside it and nothing but that component's holes besides, whatever pinches
\* and holes the boundary walk (traceLoops) has met.
OutlineEncloses ==
  LET room == largestComponent(area)
      inside == Rasterize(Outline(area))
  IN  room \subseteq inside /\ inside \subseteq Filled(room)

\* Simplification (eps 0.75 of a cell) moves a room by no more than its rim: a cell whose four
\* neighbours are in the room stays, and what is stored reaches no further than one cell
\* beyond the room, holes apart.
RoomKept ==
  LET room == largestComponent(area)
      stored == Redrawn(area)
  IN  /\ {p \in room : Near(p) \subseteq room} \subseteq stored
      /\ stored \subseteq Filled(room) \cup UNION {Near(p) : p \in room}

\* A room never vanishes in the edit, however thin it is.
RoomStays == area # {} => Redrawn(area) # {}

\* The two rooms of a split share no cell but next to the cut: a cell of one
\* half with no neighbour in the other half is not in the other's room.
SplitApart ==
  \A line \in SplitLines :
    LET half == SplitByLine(area, line)
        Deep(h, o) == {p \in h : Near(p) \cap o = {}}
    IN  /\ Deep(half[1], half[2]) \cap Redrawn(half[2]) = {}
        /\ Deep(half[2], half[1]) \cap Redrawn(half[1]) = {}
=============================================================================
