------------------------------- MODULE MapGeo -------------------------------
(***************************************************************************)
(* mapgeo: polygons to cells and back.  A room is kept as a polygon in     *)
(* world coordinates; every edit turns the polygons into cells, changes    *)
(* the cells and turns them back into a simplified outline.                *)
(*                                                                         *)
(* Coordinates are integers: the unit is half the resolution, so that the  *)
(* centre of a cell is a point too.  Go computes with float64; here the    *)
(* arithmetic is exact.                                                    *)
(***************************************************************************)
EXTENDS MapCells, SequencesExt

CONSTANTS OriginX, OriginY   \* the world coordinates of the grid's corner

ASSUME OriginAssumption == OriginX \in Int /\ OriginY \in Int

-----------------------------------------------------------------------------
(* Transform                                                               *)

PixelToWorldCenter(p) == <<OriginX + 2 * p[1] + 1, OriginY + 2 * (Height - p[2]) - 1>>
CornerToWorld(k) == <<OriginX + 2 * k[1], OriginY + 2 * (Height - k[2])>>

clamp(v, lo, hi) == IF v < lo THEN lo ELSE IF v > hi THEN hi ELSE v
Half(v) == v \div 2           \* math.Floor
HalfUp(v) == -((-v) \div 2)   \* math.Ceil

\* Columns and rows Rasterize looks at, for a polygon within lo and hi.
ColRange(lo, hi) == clamp(Half(lo - OriginX), 0, Width - 1)..clamp(HalfUp(hi - OriginX), 0, Width - 1)
RowRange(lo, hi) == clamp(Height - HalfUp(hi - OriginY), 0, Height - 1)
                      ..clamp(Height - Half(lo - OriginY), 0, Height - 1)

-----------------------------------------------------------------------------
(* Polygon to cells                                                        *)

\* The ray from q to the right crosses the side from b to a.
Crosses(q, a, b) ==
  /\ (a[2] > q[2]) # (b[2] > q[2])
  /\ LET left == (q[1] - a[1]) * (b[2] - a[2])
         right == (b[1] - a[1]) * (q[2] - a[2])
     IN  IF b[2] > a[2] THEN left < right ELSE left > right

pointInPoly(q, poly) ==
  LET n == Len(poly)
      crossed == {i \in 1..n : Crosses(q, poly[i], poly[IF i = 1 THEN n ELSE i - 1])}
  IN  n >= 3 /\ Cardinality(crossed) % 2 = 1

Rasterize(poly) ==
  IF Len(poly) < 3 THEN {}
  ELSE LET xs == {poly[i][1] : i \in DOMAIN poly}
           ys == {poly[i][2] : i \in DOMAIN poly}
       IN  {p \in ColRange(Min(xs), Max(xs)) \X RowRange(Min(ys), Max(ys)) :
              pointInPoly(PixelToWorldCenter(p), poly)}

\* Mutant of SplitByLine: cells on the line, or just next to it, go to both halves.
SplitByLineTwice(m, line) ==
  LET Cross(q) == (line[3] - line[1]) * (q[2] - line[2]) - (line[4] - line[2]) * (q[1] - line[1])
  IN  <<{p \in m : Cross(PixelToWorldCenter(p)) >= 0}, {p \in m : Cross(PixelToWorldCenter(p)) <= 1}>>

\* Left of the line and on it, right of it.
SplitByLine(m, line) ==
  LET Cross(q) == (line[3] - line[1]) * (q[2] - line[2]) - (line[4] - line[2]) * (q[1] - line[1])
      left == {p \in m : Cross(PixelToWorldCenter(p)) >= 0}
  IN  <<left, m \ left>>

-----------------------------------------------------------------------------
(* Cells to outline                                                        *)

\* The sides of cell p, numbered clockwise from the top one: the corner each begins at, with
\* the cell on the right hand, and the cell beyond it.
Corners(p) == LET c == p[1]  r == p[2] IN <<<<c, r>>, <<c + 1, r>>, <<c + 1, r + 1>>, <<c, r + 1>>>>
Beyond(p) == LET c == p[1]  r == p[2] IN <<<<c, r - 1>>, <<c + 1, r>>, <<c, r + 1>>, <<c - 1, r>>>>

\* A side is a cell and a number.
From(s) == Corners(s[1])[s[2]]
To(s) == Corners(s[1])[(s[2] % 4) + 1]

\* The sides that border on a cell outside comp, and the first in the order of the scan.
Sides(comp) == {s \in comp \X (1..4) : Beyond(s[1])[s[2]] \notin comp}
FirstSide(S) == CHOOSE s \in S : \A t \in S : 4 * RowMajor(s[1]) + s[2] <= 4 * RowMajor(t[1]) + t[2]

\* All sides in the order they are used: always the first unused one that leaves the corner
\* reached, else the first unused one.
Walk(sides) ==
  LET walk[n \in 0..Cardinality(sides)] ==
        IF n = 0 THEN <<>>
        ELSE LET before == walk[n - 1]
                 free == sides \ Range(before)
                 onward == {s \in free : before # <<>> /\ From(s) = To(Last(before))}
             IN  Append(before, FirstSide(IF onward # {} THEN onward ELSE free))
  IN  walk[Cardinality(sides)]

\* The loops of at least three corners, each at the position it begins in the walk: one ends
\* where the walk ends or goes on from another corner.
traceLoops(comp) ==
  LET walk == Walk(Sides(comp))
      Ends(j) == j \in {0, Len(walk)} \/ To(walk[j]) # From(walk[j + 1])
      last(i) == Min({j \in i..Len(walk) : Ends(j)})
  IN  [i \in {i \in DOMAIN walk : Ends(i - 1) /\ last(i) - i >= 2} |->
         [k \in 1..(last(i) - i + 1) |-> From(walk[i + k - 1])]]

Abs(n) == IF n < 0 THEN -n ELSE n

\* The sum of the first n values of f.
Total(f, n) == LET sum[k \in 0..n] == IF k = 0 THEN 0 ELSE sum[k - 1] + f[k] IN sum[n]

\* Twice the area a loop of corners encloses, with its sign.
cornerArea(loop) ==
  LET Term(a, b) == a[1] * b[2] - b[1] * a[2]
      n == Len(loop)
  IN  Total([i \in 1..n |-> Term(loop[i], loop[IF i = n THEN 1 ELSE i + 1])], n)

\* Mutant of OuterLoop: the loop traced last is taken.
LastLoop(loops) == loops[Max(DOMAIN loops)]

\* The first loop of the largest area.
OuterLoop(loops) ==
  LET Size(i) == Abs(cornerArea(loops[i]))
  IN  loops[Min({i \in DOMAIN loops : \A j \in DOMAIN loops : Size(j) <= Size(i)})]

-----------------------------------------------------------------------------
(* Simplification                                                          *)

SquareDist(p, a) == (p[1] - a[1]) * (p[1] - a[1]) + (p[2] - a[2]) * (p[2] - a[2])

\* perpDist squared as a fraction: numerator and denominator.  Between the
\* same a and b the denominator is the same, so numerators compare.
PerpNum(p, a, b) ==
  IF a = b THEN SquareDist(p, a)
  ELSE LET n == (b[2] - a[2]) * p[1] - (b[1] - a[1]) * p[2] + b[1] * a[2] - b[2] * a[1] IN n * n
PerpDen(a, b) == IF a = b THEN 1 ELSE SquareDist(a, b)

\* Mutant of AboveEps: twice the tolerance.
AboveDoubleEps(num, den) == num > 9 * den

\* The distance is above 0.75 of the resolution.
AboveEps(num, den) == 4 * num > 9 * den

\* The positions of the points kept between two of them.
douglasPeucker(pts, first, last) ==
  LET kept[ends \in (DOMAIN pts) \X (DOMAIN pts)] ==
        LET a == ends[1]
            b == ends[2]
            inner == (a + 1)..(b - 1)
            Num(i) == PerpNum(pts[i], pts[a], pts[b])
            far == Min({i \in inner : \A j \in inner : Num(j) <= Num(i)})
        IN  IF inner = {} \/ ~AboveEps(Num(far), PerpDen(pts[a], pts[b])) THEN {a, b}
            ELSE kept[<<a, far>>] \cup kept[<<far, b>>]
  IN  kept[<<first, last>>]

\* The ring is cut at its first point and at the point farthest from it.
simplifyClosed(ring) ==
  LET n == Len(ring)
      pts == Append(ring, ring[1])
      far == Min({i \in 2..n : \A j \in 2..n : SquareDist(ring[j], ring[1]) <= SquareDist(ring[i], ring[1])})
      kept == (1..n) \cap (douglasPeucker(pts, 1, far) \cup douglasPeucker(pts, far, n + 1))
      Nth(k) == CHOOSE i \in kept : Cardinality({j \in kept : j <= i}) = k
  IN  [k \in 1..Cardinality(kept) |-> ring[Nth(k)]]

\* The points of the outer loop; <<>> if there is no loop.
LoopPoints(loops) ==
  LET loop == OuterLoop(loops)
  IN  IF DOMAIN loops = {} THEN <<>> ELSE [i \in DOMAIN loop |-> CornerToWorld(loop[i])]

\* Mutant of Simplified: an outline left with fewer than three points is stored all the same.
AlwaysSimplified(pts) == IF pts = <<>> THEN <<>> ELSE simplifyClosed(pts)

\* The points simplification leaves, or all of them if it leaves fewer than three.
Simplified(pts) ==
  LET simp == simplifyClosed(pts)
  IN  IF pts = <<>> THEN <<>> ELSE IF Len(simp) < 3 THEN pts ELSE simp

\* The outline before and after simplification; <<>> of no cells.
Outline(m) == LoopPoints(traceLoops(largestComponent(m)))
Contour(m) == Simplified(Outline(m))

\* The cells of the room an edit stores for the cells it has collected.
Redrawn(m) == Rasterize(Contour(m))
=============================================================================
