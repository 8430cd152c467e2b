----------------------------- MODULE MapGeoProofs -----------------------------
(***************************************************************************)
(* Proofs about MapCells and MapGeo, for every grid and every origin.      *)
(*                                                                         *)
(* The flood fill finds the components of a mask; rasterizing a polygon    *)
(* finds the cells whose centres are inside it; and the outline Contour    *)
(* traces encloses the largest component and no more than its holes.  For  *)
(* the last, cornerArea and pointInPoly are both traced back to how often  *)
(* a closed trail of sides winds around a cell.                            *)
(***************************************************************************)
EXTENDS MCMapGeo, FiniteSetTheorems, SequenceTheorems, TLAPS

-----------------------------------------------------------------------------
(* Induction over a set of numbers.                                        *)

\* A nonempty set of natural numbers has a least member: of the intervals up to its
\* members one contains no other.
LEMMA Least ==
  ASSUME NEW T, T \subseteq Nat, T # {}
  PROVE  \E n \in T : \A m \in T : n <= m
<1> DEFINE R == StrictSubsetOrdering(Nat)
           X == {0..n : n \in T}
<1>1. X \subseteq FiniteSubsetsOf(Nat)
  <2> SUFFICES ASSUME NEW n \in T PROVE IsFiniteSet(0..n) /\ 0..n \subseteq Nat
    BY DEF FiniteSubsetsOf
  <2> QED
    BY FS_Interval
<1>2. IsWellFoundedOn(R, FiniteSubsetsOf(Nat))
  BY FS_StrictSubsetOrderingWellFounded
<1>3. X # {}
  OBVIOUS
<1> HIDE DEF X, R
<1>4. \E x \in X : \A y \in X : <<y, x>> \notin R
  BY <1>1, <1>2, <1>3, WFMin
<1> USE DEF X, R
<1>5. PICK n \in T : \A m \in T : <<0..m, 0..n>> \notin R
  BY <1>4
<1>6. ASSUME NEW m \in T, m < n
      PROVE  FALSE
  <2>1. 0..m \subseteq 0..n /\ n \in 0..n /\ n \notin 0..m /\ 0..n \subseteq Nat
    BY <1>6
  <2>2. <<0..m, 0..n>> \in R
    BY <2>1 DEF StrictSubsetOrdering
  <2> QED
    BY <1>5, <2>2
<1> QED
  BY <1>5, <1>6

\* A set with 0 and with the successor of each of its numbers has them all.
LEMMA Induct ==
  ASSUME NEW S, 0 \in S, \A n \in Nat : n \in S => n + 1 \in S
  PROVE  Nat \subseteq S
<1> DEFINE T == Nat \ S
<1> SUFFICES ASSUME T # {} PROVE FALSE
  OBVIOUS
<1>1. T \subseteq Nat
  OBVIOUS
<1>2. PICK n \in T : \A m \in T : n <= m
  <2> HIDE DEF T
  <2> QED
    BY <1>1, Least
<1>3. n # 0 /\ n - 1 \in Nat
  OBVIOUS
<1>4. n - 1 \in S
  BY <1>2, <1>3
<1> QED
  BY <1>3, <1>4

-----------------------------------------------------------------------------
(* Recursion on the natural numbers.                                       *)

\* f takes the step F from x on for ever.
Chain(x, F, f) == f[0] = x /\ \A n \in Nat : f[n + 1] = F[f[n]]

\* A step from S to S can be taken for ever: the beginnings of every length agree.
LEMMA Iterates ==
  ASSUME NEW S, NEW x \in S, NEW F \in [S -> S]
  PROVE  \E f \in [Nat -> S] : Chain(x, F, f)
<1> DEFINE Part(n, g) == g[0] = x /\ \A k \in 0..n : k # n => g[k + 1] = F[g[k]]
           Has(n) == \E g \in [0..n -> S] : Part(n, g)
           H == {n \in Nat : Has(n)}
           G(n) == CHOOSE g \in [0..n -> S] : Part(n, g)
           f == [n \in Nat |-> G(n)[n]]
<1>1. 0 \in H
  <2> DEFINE g == [k \in 0..0 |-> x]
  <2>1. g \in [0..0 -> S] /\ Part(0, g)
    OBVIOUS
  <2> HIDE DEF g, Part
  <2>2. Has(0)
    BY <2>1
  <2> QED
    BY <2>2
<1>2. ASSUME NEW n \in Nat, n \in H
      PROVE  n + 1 \in H
  <2>1. PICK g \in [0..n -> S] : Part(n, g)
    BY <1>2
  <2> DEFINE h == [k \in 0..(n + 1) |-> IF k = n + 1 THEN F[g[n]] ELSE g[k]]
  <2>2. h \in [0..(n + 1) -> S]
    <3> SUFFICES ASSUME NEW k \in 0..(n + 1) PROVE h[k] \in S
      OBVIOUS
    <3>1. g[n] \in S
      OBVIOUS
    <3>2. k = n + 1 \/ k \in 0..n
      OBVIOUS
    <3> QED
      BY <3>1, <3>2
  <2>3. h[0] = x
    BY <2>1
  <2>4. ASSUME NEW k \in 0..(n + 1), k # n + 1
        PROVE  h[k + 1] = F[h[k]]
    <3>1. k \in 0..n /\ k + 1 \in 0..(n + 1) /\ h[k] = g[k]
      BY <2>4
    <3>2. CASE k = n
      BY <3>1, <3>2
    <3>3. CASE k # n
      <4>1. g[k + 1] = F[g[k]] /\ k + 1 # n + 1
        BY <2>1, <3>1, <3>3
      <4> QED
        BY <3>1, <4>1
    <3> QED
      BY <3>2, <3>3
  <2> HIDE DEF h
  <2>5. Part(n + 1, h)
    BY <2>3, <2>4
  <2> HIDE DEF Part
  <2>6. Has(n + 1)
    BY <2>2, <2>5
  <2> QED
    BY <2>6
<1>3. ASSUME NEW n \in Nat
      PROVE  G(n) \in [0..n -> S] /\ Part(n, G(n))
  <2>1. n \in H
    <3> HIDE DEF H
    <3> QED
      BY <1>1, <1>2, Induct
  <2>2. \E g \in [0..n -> S] : Part(n, g)
    BY <2>1
  <2> HIDE DEF Part
  <2> QED
    BY <2>2
<1> HIDE DEF G
<1>4. ASSUME NEW n \in Nat
      PROVE  G(n + 1)[n] = G(n)[n]
  <2> DEFINE E == {k \in Nat : k <= n => G(n + 1)[k] = G(n)[k]}
  <2>1. 0 \in E
    BY <1>3
  <2>2. ASSUME NEW k \in Nat, k \in E
        PROVE  k + 1 \in E
    <3> SUFFICES ASSUME k + 1 <= n PROVE G(n + 1)[k + 1] = G(n)[k + 1]
      OBVIOUS
    <3>1. k \in 0..n /\ k # n /\ k \in 0..(n + 1) /\ k # n + 1
      OBVIOUS
    <3>2. G(n + 1)[k] = G(n)[k]
      BY <2>2, <3>1
    <3>3. Part(n, G(n)) /\ Part(n + 1, G(n + 1))
      BY <1>3
    <3> QED
      BY <3>1, <3>2, <3>3
  <2>3. n \in E
    <3> HIDE DEF E
    <3> QED
      BY <2>1, <2>2, Induct
  <2> QED
    BY <2>3
<1>5. f \in [Nat -> S] /\ f[0] = x
  BY <1>3
<1>6. ASSUME NEW n \in Nat
      PROVE  f[n + 1] = F[f[n]]
  <2>1. Part(n + 1, G(n + 1))
    BY <1>3
  <2>2. n \in 0..(n + 1) /\ n # n + 1
    OBVIOUS
  <2>3. G(n + 1)[n + 1] = F[G(n + 1)[n]]
    BY <2>1, <2>2
  <2>4. f[n + 1] = G(n + 1)[n + 1] /\ f[n] = G(n)[n]
    OBVIOUS
  <2> QED
    BY <1>4, <2>3, <2>4
<1> HIDE DEF f
<1> QED
  BY <1>5, <1>6 DEF Chain

-----------------------------------------------------------------------------
(* The flood fill.                                                         *)

\* s with its neighbours in m.
Grown(m, s) == s \cup (m \cap UNION {Near(q) : q \in s})

\* The layers of the fill of m from p.
Layers(m, p, r) ==
  /\ r \in [Nat -> SUBSET m]
  /\ r[0] = {p}
  /\ \A n \in Nat : r[n + 1] = Grown(m, r[n])

\* The fill is the layer with the number of the cells of m.
LEMMA ComponentIsLayer ==
  ASSUME NEW m, NEW p \in m
  PROVE  \E r : Layers(m, p, r) /\ Component(m, p) = r[Cardinality(m)]
<1> DEFINE F == [s \in SUBSET m |-> Grown(m, s)]
           Rec(g) == g = [n \in Nat |-> IF n = 0 THEN {p}
                                        ELSE LET s == g[n - 1] IN s \cup (m \cap UNION {Near(q) : q \in s})]
           r == CHOOSE g : Rec(g)
<1>1. F \in [SUBSET m -> SUBSET m] /\ {p} \in SUBSET m
  BY DEF Grown
<1>2. \A s \in SUBSET m : F[s] = Grown(m, s)
  OBVIOUS
<1> HIDE DEF F
<1>3. PICK f \in [Nat -> SUBSET m] : f[0] = {p} /\ \A n \in Nat : f[n + 1] = F[f[n]]
  <2>1. \E f \in [Nat -> SUBSET m] : Chain({p}, F, f)
    BY <1>1, Iterates
  <2> QED
    BY <2>1 DEF Chain
<1>4. ASSUME NEW n \in Nat, n # 0
      PROVE  f[n] = Grown(m, f[n - 1])
  <2>1. n - 1 \in Nat /\ (n - 1) + 1 = n
    BY <1>4
  <2>2. f[(n - 1) + 1] = F[f[n - 1]] /\ f[n - 1] \in SUBSET m
    BY <1>3, <2>1
  <2> QED
    BY <1>2, <2>1, <2>2
<1>5. Rec(f)
  <2> DEFINE b == [n \in Nat |-> IF n = 0 THEN {p}
                                 ELSE LET s == f[n - 1] IN s \cup (m \cap UNION {Near(q) : q \in s})]
  <2>1. \A n \in Nat : f[n] = b[n]
    BY <1>3, <1>4 DEF Grown
  <2>2. DOMAIN b = Nat /\ b = [n \in Nat |-> b[n]] /\ f = [n \in Nat |-> f[n]]
    OBVIOUS
  <2> HIDE DEF b
  <2>3. f = b
    BY <2>1, <2>2
  <2> QED
    BY <2>3 DEF b
<1>6. Rec(r)
  <2> HIDE DEF Rec
  <2> QED
    BY <1>5
<1>7. Component(m, p) = r[Cardinality(m)]
  BY DEF Component
<1> HIDE DEF r
<1>8. r[0] = {p}
  BY <1>6
<1>9. ASSUME NEW n \in Nat
      PROVE  r[n + 1] = Grown(m, r[n])
  <2>1. n + 1 \in Nat /\ n + 1 # 0 /\ (n + 1) - 1 = n
    OBVIOUS
  <2> QED
    BY <1>6, <2>1 DEF Grown
<1>10. r \in [Nat -> SUBSET m]
  <2> DEFINE T == {n \in Nat : r[n] \in SUBSET m}
  <2>1. 0 \in T /\ \A n \in Nat : n \in T => n + 1 \in T
    BY <1>8, <1>9 DEF Grown
  <2>2. Nat \subseteq T
    <3> HIDE DEF T
    <3> QED
      BY <2>1, Induct
  <2>3. \A n \in Nat : r[n] \in SUBSET m
    BY <2>2
  <2>4. r = [n \in Nat |-> r[n]]
    BY <1>6
  <2> QED
    BY <2>3, <2>4
<1>11. Layers(m, p, r)
  BY <1>8, <1>9, <1>10 DEF Layers
<1> QED
  BY <1>7, <1>11

\* No way leads out of s within m.
Whole(m, s) == \A q \in s : Near(q) \cap m \subseteq s

\* Every layer that adds nothing is the last one, and one that adds something has a cell
\* more: the layer with the number of the cells of m adds nothing.
LEMMA LastLayer ==
  ASSUME NEW m, IsFiniteSet(m), NEW p \in m, NEW r, Layers(m, p, r)
  PROVE  r[Cardinality(m) + 1] = r[Cardinality(m)]
<1> DEFINE Fixed(n) == r[n + 1] = r[n]
           T == {n \in Nat : Fixed(n) \/ Cardinality(r[n]) >= n + 1}
<1>1. /\ \A n \in Nat : r[n] \subseteq m
      /\ r[0] = {p}
      /\ \A n \in Nat : r[n + 1] = Grown(m, r[n])
  BY DEF Layers
<1>2. \A n \in Nat : IsFiniteSet(r[n]) /\ Cardinality(r[n]) \in Nat /\ Cardinality(r[n]) <= Cardinality(m)
  BY <1>1, FS_Subset, FS_CardinalityType
<1>3. 0 \in T
  <2>1. Cardinality({p}) = 1
    BY FS_Singleton
  <2> QED
    BY <1>1, <2>1
<1>4. ASSUME NEW n \in Nat, n \in T
      PROVE  n + 1 \in T
  <2>1. CASE Fixed(n)
    <3>1. r[(n + 1) + 1] = Grown(m, r[n + 1]) /\ r[n + 1] = Grown(m, r[n])
      BY <1>1
    <3>2. Fixed(n + 1)
      BY <2>1, <3>1
    <3> QED
      BY <3>2
  <2>2. CASE ~Fixed(n)
    <3>1. Cardinality(r[n]) >= n + 1
      BY <1>4, <2>2
    <3>2. r[n] \subseteq r[n + 1] /\ r[n] # r[n + 1]
      BY <1>1, <2>2 DEF Grown
    <3>3. Cardinality(r[n]) < Cardinality(r[n + 1])
      <4>1. IsFiniteSet(r[n + 1])
        BY <1>2
      <4>2. Cardinality(r[n]) <= Cardinality(r[n + 1]) /\ Cardinality(r[n]) # Cardinality(r[n + 1])
        BY <3>2, <4>1, FS_Subset
      <4> QED
        BY <1>2, <4>2
    <3>4. Cardinality(r[n + 1]) >= (n + 1) + 1
      BY <1>2, <3>1, <3>3
    <3> QED
      BY <3>4
  <2> QED
    BY <2>1, <2>2
<1>5. Nat \subseteq T
  <2> HIDE DEF T
  <2> QED
    BY <1>3, <1>4, Induct
<1>6. Cardinality(m) \in Nat
  BY FS_CardinalityType
<1>7. Cardinality(m) \in T
  BY <1>5, <1>6
<1> QED
  BY <1>2, <1>6, <1>7

\* The flood fill of a finite set from one of its cells, with as many layers as the set has
\* cells, stays in the set, has the cell it began with and leaves no neighbour out; and
\* it reaches nothing that could be left out.
THEOREM FillIsComplete ==
  ASSUME NEW m, IsFiniteSet(m), NEW p \in m
  PROVE  /\ p \in Component(m, p) /\ Component(m, p) \subseteq m
         /\ Whole(m, Component(m, p))
         /\ \A s : p \in s /\ Whole(m, s) => Component(m, p) \subseteq s
<1>1. PICK r : Layers(m, p, r) /\ Component(m, p) = r[Cardinality(m)]
  BY ComponentIsLayer
<1>2. /\ \A n \in Nat : r[n] \subseteq m
      /\ r[0] = {p}
      /\ \A n \in Nat : r[n + 1] = Grown(m, r[n])
  BY <1>1 DEF Layers
<1>3. Cardinality(m) \in Nat
  BY FS_CardinalityType
<1>4. p \in r[Cardinality(m)]
  <2> DEFINE T == {n \in Nat : p \in r[n]}
  <2>1. 0 \in T /\ \A n \in Nat : n \in T => n + 1 \in T
    BY <1>2 DEF Grown
  <2>2. Nat \subseteq T
    <3> HIDE DEF T
    <3> QED
      BY <2>1, Induct
  <2> QED
    BY <1>3, <2>2
<1>5. Whole(m, r[Cardinality(m)])
  <2>1. Grown(m, r[Cardinality(m)]) = r[Cardinality(m)]
    BY <1>1, <1>2, <1>3, LastLayer
  <2> QED
    BY <2>1 DEF Grown, Whole
<1>6. ASSUME NEW s, p \in s, Whole(m, s)
      PROVE  r[Cardinality(m)] \subseteq s
  <2> DEFINE T == {n \in Nat : r[n] \subseteq s}
  <2>1. 0 \in T
    BY <1>2, <1>6
  <2>2. ASSUME NEW n \in Nat, n \in T
        PROVE  n + 1 \in T
    <3>1. r[n] \subseteq s
      BY <2>2
    <3>2. Grown(m, r[n]) \subseteq s
      BY <1>6, <3>1 DEF Grown, Whole
    <3> QED
      BY <1>2, <3>2
  <2>3. Nat \subseteq T
    <3> HIDE DEF T
    <3> QED
      BY <2>1, <2>2, Induct
  <2> QED
    BY <1>3, <2>3
<1> QED
  BY <1>1, <1>2, <1>3, <1>4, <1>5, <1>6

\* Cells side by side are so both ways.
LEMMA NearSymmetric ==
  ASSUME NEW p \in Int \X Int, NEW q \in Int \X Int, q \in Near(p)
  PROVE  p \in Near(q)
<1>1. p[1] \in Int /\ p[2] \in Int /\ p = <<p[1], p[2]>>
  OBVIOUS
<1> QED
  BY <1>1 DEF Near

\* The fills of a set from two of its cells are the same or apart: it does not matter from
\* which of its cells a component is filled.
THEOREM ComponentsAreApart ==
  ASSUME NEW m \in SUBSET (Int \X Int), IsFiniteSet(m), NEW p \in m, NEW q \in m,
         Component(m, p) \cap Component(m, q) # {}
  PROVE  Component(m, p) = Component(m, q)
<1>1. ASSUME NEW a \in m, NEW b \in Component(m, a)
      PROVE  b \in m /\ Component(m, b) \subseteq Component(m, a)
  BY FillIsComplete
<1>2. ASSUME NEW a \in m, NEW b \in Component(m, a)
      PROVE  a \in Component(m, b)
  <2> DEFINE s == {x \in Component(m, a) : a \in Component(m, x)}
  <2>1. a \in s
    BY FillIsComplete
  <2>2. ASSUME NEW x \in s, NEW y \in Near(x) \cap m
        PROVE  y \in s
    <3>1. x \in m /\ x \in Component(m, a) /\ a \in Component(m, x)
      BY <1>1
    <3>2. y \in Component(m, a)
      BY <3>1, FillIsComplete DEF Whole
    <3>3. x \in Near(y)
      BY <3>1, NearSymmetric
    <3>4. x \in Component(m, y)
      <4>1. y \in Component(m, y) /\ Whole(m, Component(m, y))
        BY FillIsComplete
      <4> QED
        BY <3>1, <3>3, <4>1 DEF Whole
    <3>5. a \in Component(m, y)
      BY <1>1, <3>1, <3>4
    <3> QED
      BY <3>2, <3>5
  <2>3. Whole(m, s)
    <3> HIDE DEF s
    <3> QED
      BY <2>2 DEF Whole
  <2>4. Component(m, a) \subseteq s
    <3> HIDE DEF s
    <3> QED
      BY <2>1, <2>3, FillIsComplete
  <2> QED
    BY <2>4
<1>3. PICK x : x \in Component(m, p) /\ x \in Component(m, q)
  OBVIOUS
<1>4. x \in m /\ p \in Component(m, x) /\ q \in Component(m, x)
  BY <1>1, <1>2, <1>3
<1>5. Component(m, p) \subseteq Component(m, x) /\ Component(m, x) \subseteq Component(m, p)
  BY <1>1, <1>3, <1>4
<1>6. Component(m, q) \subseteq Component(m, x) /\ Component(m, x) \subseteq Component(m, q)
  BY <1>1, <1>3, <1>4
<1> QED
  BY <1>5, <1>6

-----------------------------------------------------------------------------
(* The part of a mask that becomes a polygon.                              *)

\* Masks are finite sets of pairs of numbers, which the scan numbers row by row.
LEMMA MaskFacts ==
  ASSUME NEW m \in Masks
  PROVE  /\ IsFiniteSet(m) /\ m \in SUBSET (Int \X Int)
         /\ \A p \in m : RowMajor(p) \in Nat
<1>1. IsFiniteSet(Cells)
  <2>1. IsFiniteSet(0..Width - 1) /\ IsFiniteSet(0..Height - 1)
    BY GridAssumption, FS_Interval
  <2> QED
    BY <2>1, FS_Product DEF Cells
<1>2. IsFiniteSet(m)
  BY <1>1, FS_Subset DEF Masks
<1>3. m \in SUBSET (Int \X Int)
  BY GridAssumption DEF Masks, Cells
<1>4. ASSUME NEW p \in m
      PROVE  RowMajor(p) \in Nat
  <2>1. p[1] \in Nat /\ p[2] \in Nat /\ Width \in Nat
    BY GridAssumption DEF Masks, Cells
  <2>2. p[2] * Width \in Nat
    BY <2>1
  <2> QED
    BY <2>1, <2>2 DEF RowMajor
<1> QED
  BY <1>2, <1>3, <1>4

\* The scan gives no two cells the same number.
LEMMA RowMajorDiffers ==
  ASSUME NEW p \in Cells, NEW q \in Cells, RowMajor(p) = RowMajor(q)
  PROVE  p = q
<1>1. /\ p[1] \in Nat /\ p[2] \in Nat /\ q[1] \in Nat /\ q[2] \in Nat
      /\ p[1] < Width /\ q[1] < Width /\ Width \in Nat
      /\ p = <<p[1], p[2]>> /\ q = <<q[1], q[2]>>
  BY GridAssumption DEF Cells
<1>2. ASSUME NEW a \in Nat, NEW b \in Nat, NEW x \in Nat, NEW y \in Nat, x < Width, y < Width,
             a * Width + x = b * Width + y
      PROVE  ~(a < b)
  <2> SUFFICES ASSUME a < b PROVE FALSE
    OBVIOUS
  <2>1. PICK c \in Nat : b = a + 1 + c
    <3>1. b - a - 1 \in Nat /\ b = a + 1 + (b - a - 1)
      OBVIOUS
    <3> QED
      BY <3>1
  <2>2. b * Width = a * Width + Width + c * Width
    BY <1>1, <2>1
  <2>3. c * Width \in Nat /\ a * Width \in Nat
    BY <1>1
  <2> QED
    BY <1>1, <1>2, <2>2, <2>3
<1>3. p[2] * Width + p[1] = q[2] * Width + q[1]
  BY DEF RowMajor
<1>4. ~(p[2] < q[2]) /\ ~(q[2] < p[2])
  BY <1>1, <1>2, <1>3
<1>5. p[2] = q[2]
  BY <1>1, <1>4
<1>6. p[2] * Width \in Nat
  BY <1>1
<1>7. p[1] = q[1]
  BY <1>1, <1>3, <1>5, <1>6
<1> QED
  BY <1>1, <1>5, <1>7

\* Before c the scan has met no component of its size or larger.
FirstLargest(m, c) ==
  \A d \in Components(m) :
    \/ Cardinality(c) > Cardinality(d)
    \/ Cardinality(c) = Cardinality(d) /\ MetFirst(c, d)

\* A component is the fill from any of its cells.
LEMMA ComponentOfCell ==
  ASSUME NEW m \in Masks, NEW c \in Components(m)
  PROVE  /\ c # {} /\ c \subseteq m /\ Whole(m, c)
         /\ IsFiniteSet(c) /\ Cardinality(c) \in Nat /\ Cardinality(c) <= Cardinality(m)
         /\ \A q \in c : c = Component(m, q)
<1>1. PICK p \in m : c = Component(m, p)
  BY DEF Components
<1>2. IsFiniteSet(m) /\ m \in SUBSET (Int \X Int)
  BY MaskFacts
<1>3. p \in c /\ c \subseteq m /\ Whole(m, c)
  BY <1>1, <1>2, FillIsComplete
<1>4. IsFiniteSet(c) /\ Cardinality(c) <= Cardinality(m)
  BY <1>2, <1>3, FS_Subset
<1>5. Cardinality(c) \in Nat
  BY <1>4, FS_CardinalityType
<1>6. ASSUME NEW q \in c
      PROVE  c = Component(m, q)
  <2>1. q \in m /\ q \in Component(m, q)
    BY <1>2, <1>3, FillIsComplete
  <2> QED
    BY <1>1, <1>2, <2>1, ComponentsAreApart
<1> QED
  BY <1>3, <1>4, <1>5, <1>6

\* A mask with cells has a component that is the first of the largest.
LEMMA FirstLargestExists ==
  ASSUME NEW m \in Masks, m # {}
  PROVE  \E c \in Components(m) : FirstLargest(m, c)
<1> DEFINE Size(p) == Cardinality(Component(m, p))
           D == {Cardinality(m) - Size(p) : p \in m}
<1>1. /\ IsFiniteSet(m) /\ Cardinality(m) \in Nat
      /\ \A p \in m : RowMajor(p) \in Nat
  BY MaskFacts, FS_CardinalityType
<1>2. ASSUME NEW p \in m
      PROVE  /\ Component(m, p) \in Components(m)
             /\ p \in Component(m, p)
             /\ Size(p) \in Nat /\ Size(p) <= Cardinality(m)
  <2>1. Component(m, p) \in Components(m)
    BY DEF Components
  <2> QED
    BY <1>1, <2>1, FillIsComplete, ComponentOfCell
<1>3. PICK a \in m : \A p \in m : Size(p) <= Size(a)
  <2>1. \A p \in m : Cardinality(m) - Size(p) \in Nat
    BY <1>1, <1>2
  <2>2. D \subseteq Nat /\ D # {}
    BY <2>1
  <2>3. PICK n \in D : \A k \in D : n <= k
    <3> HIDE DEF D
    <3> QED
      BY <2>2, Least
  <2>4. PICK a \in m : n = Cardinality(m) - Size(a)
    OBVIOUS
  <2>5. \A p \in m : Cardinality(m) - Size(a) <= Cardinality(m) - Size(p)
    BY <2>3, <2>4
  <2> HIDE DEF Size
  <2> QED
    BY <1>1, <1>2, <2>5
<1> DEFINE starts == {p \in m : Size(p) = Size(a)}
           R == {RowMajor(p) : p \in starts}
<1>4. PICK b \in starts : \A p \in starts : RowMajor(b) <= RowMajor(p)
  <2>1. R \subseteq Nat /\ R # {}
    BY <1>1
  <2>2. PICK n \in R : \A k \in R : n <= k
    <3> HIDE DEF R
    <3> QED
      BY <2>1, Least
  <2> QED
    BY <2>2
<1>5. b \in m /\ Size(b) = Size(a)
  OBVIOUS
<1>6. ASSUME NEW d \in Components(m)
      PROVE  \/ Size(b) > Cardinality(d)
             \/ Size(b) = Cardinality(d) /\ MetFirst(Component(m, b), d)
  <2>1. PICK p \in m : d = Component(m, p)
    BY DEF Components
  <2>2. Cardinality(d) = Size(p) /\ Size(p) <= Size(b)
    BY <1>3, <1>5, <2>1
  <2>3. ASSUME Size(p) = Size(b)
        PROVE  MetFirst(Component(m, b), d)
    <3>1. ASSUME NEW q \in d
          PROVE  RowMajor(b) <= RowMajor(q)
      <4>1. q \in m /\ d = Component(m, q)
        BY ComponentOfCell
      <4>2. q \in starts
        BY <1>5, <2>2, <2>3, <4>1
      <4> HIDE DEF starts
      <4> QED
        BY <1>4, <4>2
    <3>2. b \in Component(m, b)
      BY <1>2, <1>5
    <3> QED
      BY <3>1, <3>2 DEF MetFirst
  <2>4. Size(p) \in Nat /\ Size(b) \in Nat
    BY <1>2, <1>5
  <2> HIDE DEF Size
  <2> QED
    BY <2>2, <2>3, <2>4
<1>7. Component(m, b) \in Components(m) /\ FirstLargest(m, Component(m, b))
  BY <1>2, <1>5, <1>6 DEF FirstLargest
<1> QED
  BY <1>7

\* The scan keeps one component for every mask with cells: a whole one, no smaller than any
\* other, and no other component qualifies, so that which cells become the polygon does not
\* depend on where a fill began.
THEOREM LargestComponentIsUnique ==
  ASSUME NEW m \in Masks, m # {}
  PROVE  /\ largestComponent(m) \in Components(m)
         /\ largestComponent(m) # {} /\ largestComponent(m) \subseteq m /\ Whole(m, largestComponent(m))
         /\ \A d \in Components(m) : Cardinality(d) <= Cardinality(largestComponent(m))
         /\ \A c \in Components(m) : FirstLargest(m, c) => c = largestComponent(m)
<1> DEFINE l == largestComponent(m)
<1>1. l = CHOOSE c \in Components(m) : FirstLargest(m, c)
  BY DEF largestComponent, FirstLargest
<1>2. l \in Components(m) /\ FirstLargest(m, l)
  BY <1>1, FirstLargestExists
<1> HIDE DEF l
<1>3. l # {} /\ l \subseteq m /\ Whole(m, l)
  BY <1>2, ComponentOfCell
<1>4. ASSUME NEW d \in Components(m)
      PROVE  Cardinality(d) <= Cardinality(l)
  <2>1. Cardinality(d) \in Nat /\ Cardinality(l) \in Nat
    BY <1>2, ComponentOfCell
  <2> QED
    BY <1>2, <2>1 DEF FirstLargest
<1>5. ASSUME NEW c \in Components(m), FirstLargest(m, c)
      PROVE  c = l
  <2>1. Cardinality(c) \in Nat /\ Cardinality(l) \in Nat /\ c \subseteq m
    BY <1>2, ComponentOfCell
  <2>2. MetFirst(c, l) /\ MetFirst(l, c)
    BY <1>2, <1>5, <2>1 DEF FirstLargest
  <2>3. PICK p \in c : \A q \in l : RowMajor(p) <= RowMajor(q)
    BY <2>2 DEF MetFirst
  <2>4. PICK q \in l : \A x \in c : RowMajor(q) <= RowMajor(x)
    BY <2>2 DEF MetFirst
  <2>5. RowMajor(p) <= RowMajor(q) /\ RowMajor(q) <= RowMajor(p)
    BY <2>3, <2>4
  <2>6. RowMajor(p) \in Nat /\ RowMajor(q) \in Nat /\ p \in Cells /\ q \in Cells
    BY <1>3, <2>1, MaskFacts DEF Masks
  <2>7. p = q
    BY <2>5, <2>6, RowMajorDiffers
  <2>8. c = Component(m, p) /\ l = Component(m, p)
    BY <1>2, <2>7, ComponentOfCell
  <2> QED
    BY <2>8
<1> QED
  BY <1>2, <1>3, <1>4, <1>5 DEF l

-----------------------------------------------------------------------------
(* Sums.                                                                   *)

\* Induction up to a bound.
LEMMA UpTo ==
  ASSUME NEW n \in Nat, NEW S, 0 \in S, \A k \in 0..(n - 1) : k \in S => k + 1 \in S
  PROVE  \A k \in 0..n : k \in S
<1> DEFINE T == {k \in Nat : k <= n => k \in S}
<1>1. 0 \in T /\ \A k \in Nat : k \in T => k + 1 \in T
  OBVIOUS
<1>2. Nat \subseteq T
  <2> HIDE DEF T
  <2> QED
    BY <1>1, Induct
<1> QED
  BY <1>2

\* Total adds one value after the other.
LEMMA TotalRecurs ==
  ASSUME NEW n \in Nat, NEW f, \A k \in 1..n : f[k] \in Int
  PROVE  \E s \in [0..n -> Int] :
            s[0] = 0 /\ (\A k \in 0..(n - 1) : s[k + 1] = s[k] + f[k + 1]) /\ Total(f, n) = s[n]
<1> DEFINE S == Nat \X Int
           F == [x \in S |-> <<x[1] + 1, IF x[1] + 1 \in 1..n THEN x[2] + f[x[1] + 1] ELSE 0>>]
           Rec(h) == h = [k \in 0..n |-> IF k = 0 THEN 0 ELSE h[k - 1] + f[k]]
           s == CHOOSE h : Rec(h)
<1>1. F \in [S -> S] /\ <<0, 0>> \in S
  <2> SUFFICES ASSUME NEW x \in S PROVE F[x] \in S
    OBVIOUS
  <2> QED
    OBVIOUS
<1>2. PICK g \in [Nat -> S] : g[0] = <<0, 0>> /\ \A k \in Nat : g[k + 1] = F[g[k]]
  <2> HIDE DEF S, F
  <2>1. \E g \in [Nat -> S] : Chain(<<0, 0>>, F, g)
    BY <1>1, Iterates
  <2> QED
    BY <2>1 DEF Chain
<1>3. ASSUME NEW k \in Nat
      PROVE  g[k + 1][1] = g[k][1] + 1 /\ (k < n /\ g[k][1] = k => g[k + 1][2] = g[k][2] + f[k + 1])
  <2>1. g[k] \in S /\ g[k + 1] = F[g[k]]
    BY <1>2
  <2> QED
    BY <2>1
<1>4. \A k \in Nat : g[k][1] = k
  <2> DEFINE T == {k \in Nat : g[k][1] = k}
  <2>1. 0 \in T /\ \A k \in Nat : k \in T => k + 1 \in T
    BY <1>2, <1>3
  <2> HIDE DEF T
  <2>2. Nat \subseteq T
    BY <2>1, Induct
  <2> QED
    BY <2>2 DEF T
<1> DEFINE h == [k \in 0..n |-> g[k][2]]
<1>5. \A k \in 0..n : h[k] = IF k = 0 THEN 0 ELSE h[k - 1] + f[k]
  <2>0. h[0] = 0
    BY <1>2
  <2> SUFFICES ASSUME NEW k \in 0..n, k # 0 PROVE h[k] = h[k - 1] + f[k]
    <3> HIDE DEF h
    <3> QED
      BY <2>0
  <2>1. k - 1 \in Nat /\ k - 1 < n /\ (k - 1) + 1 = k /\ k - 1 \in 0..n
    OBVIOUS
  <2>2. g[k][2] = g[k - 1][2] + f[k]
    BY <1>3, <1>4, <2>1
  <2> QED
    BY <2>1, <2>2
<1>6. Rec(h)
  <2> DEFINE b == [k \in 0..n |-> IF k = 0 THEN 0 ELSE h[k - 1] + f[k]]
  <2>1. \A k \in 0..n : h[k] = b[k]
    BY <1>5
  <2>2. DOMAIN b = 0..n /\ b = [k \in 0..n |-> b[k]] /\ h = [k \in 0..n |-> h[k]]
    OBVIOUS
  <2> HIDE DEF b, h
  <2>3. h = b
    BY <2>1, <2>2
  <2> QED
    BY <2>3 DEF b
<1>7. Rec(s)
  <2> HIDE DEF Rec
  <2> QED
    BY <1>6
<1>8. Total(f, n) = s[n]
  BY DEF Total
<1> HIDE DEF s
<1>9. s[0] = 0 /\ \A k \in 0..(n - 1) : s[k + 1] = s[k] + f[k + 1]
  <2>1. ASSUME NEW k \in 0..(n - 1)
        PROVE  s[k + 1] = s[k] + f[k + 1]
    <3>1. k + 1 \in 0..n /\ k + 1 # 0 /\ (k + 1) - 1 = k
      OBVIOUS
    <3> QED
      BY <1>7, <3>1
  <2>2. 0 \in 0..n
    OBVIOUS
  <2> QED
    BY <1>7, <2>1, <2>2
<1>10. s \in [0..n -> Int]
  <2> DEFINE T == {k \in 0..n : s[k] \in Int}
  <2>1. 0 \in T /\ \A k \in 0..(n - 1) : k \in T => k + 1 \in T
    BY <1>9
  <2> HIDE DEF T
  <2>2. \A k \in 0..n : k \in T
    BY <2>1, UpTo
  <2>3. s = [k \in 0..n |-> s[k]]
    BY <1>7
  <2> QED
    BY <2>2, <2>3 DEF T
<1> QED
  BY <1>8, <1>9, <1>10

\* The sums of the first values of f, one longer than the other.
LEMMA TotalSteps ==
  ASSUME NEW n \in Nat, NEW f, \A k \in 1..n : f[k] \in Int
  PROVE  /\ Total(f, 0) = 0
         /\ \A k \in 0..(n - 1) : Total(f, k + 1) = Total(f, k) + f[k + 1]
         /\ \A k \in 0..n : Total(f, k) \in Int
<1>1. ASSUME NEW m \in 0..n
      PROVE  \E s \in [0..m -> Int] :
               s[0] = 0 /\ (\A k \in 0..(m - 1) : s[k + 1] = s[k] + f[k + 1]) /\ Total(f, m) = s[m]
  <2>1. m \in Nat /\ \A k \in 1..m : f[k] \in Int
    OBVIOUS
  <2> QED
    BY <2>1, TotalRecurs
<1>2. Total(f, 0) = 0
  BY <1>1
<1>3. ASSUME NEW k \in 0..(n - 1)
      PROVE  Total(f, k + 1) = Total(f, k) + f[k + 1]
  <2>0. k \in 0..n /\ k + 1 \in 0..n /\ k \in Nat /\ (k + 1) - 1 = k
    OBVIOUS
  <2>1. PICK s \in [0..k -> Int] :
          s[0] = 0 /\ (\A j \in 0..(k - 1) : s[j + 1] = s[j] + f[j + 1]) /\ Total(f, k) = s[k]
    BY <1>1, <2>0
  <2>2. PICK t \in [0..(k + 1) -> Int] :
          t[0] = 0 /\ (\A j \in 0..k : t[j + 1] = t[j] + f[j + 1]) /\ Total(f, k + 1) = t[k + 1]
    BY <1>1, <2>0
  <2> DEFINE T == {j \in 0..k : s[j] = t[j]}
  <2>3. 0 \in T /\ \A j \in 0..(k - 1) : j \in T => j + 1 \in T
    BY <2>1, <2>2
  <2> HIDE DEF T
  <2>4. \A j \in 0..k : j \in T
    BY <2>0, <2>3, UpTo
  <2>5. s[k] = t[k]
    BY <2>4 DEF T
  <2> QED
    BY <2>1, <2>2, <2>5
<1>4. \A k \in 0..n : Total(f, k) \in Int
  BY <1>1
<1> QED
  BY <1>2, <1>3, <1>4

\* The sum of sums.
LEMMA TotalAdds ==
  ASSUME NEW n \in Nat, NEW f, NEW g, NEW h,
         \A k \in 1..n : g[k] \in Int /\ h[k] \in Int /\ f[k] = g[k] + h[k]
  PROVE  Total(f, n) = Total(g, n) + Total(h, n)
<1>1. \A k \in 1..n : f[k] \in Int /\ g[k] \in Int /\ h[k] \in Int
  OBVIOUS
<1> DEFINE Steps(e) == /\ Total(e, 0) = 0
                       /\ \A k \in 0..(n - 1) : Total(e, k + 1) = Total(e, k) + e[k + 1]
                       /\ \A k \in 0..n : Total(e, k) \in Int
           T == {k \in 0..n : Total(f, k) = Total(g, k) + Total(h, k)}
<1>2. Steps(f) /\ Steps(g) /\ Steps(h)
  BY <1>1, TotalSteps
<1>3. 0 \in T
  BY <1>2
<1>4. ASSUME NEW k \in 0..(n - 1), k \in T
      PROVE  k + 1 \in T
  <2>1. k + 1 \in 1..n /\ k + 1 \in 0..n /\ k \in 0..n
    OBVIOUS
  <2> QED
    BY <1>1, <1>2, <1>4, <2>1
<1> HIDE DEF T
<1>5. \A k \in 0..n : k \in T
  BY <1>3, <1>4, UpTo
<1> QED
  BY <1>5 DEF T

\* A sum of differences along a ring is nothing.
LEMMA TotalOfRing ==
  ASSUME NEW n \in Nat \ {0}, NEW f, NEW g, \A k \in 1..n : g[k] \in Int,
         \A k \in 1..n : f[k] = g[IF k = n THEN 1 ELSE k + 1] - g[k]
  PROVE  Total(f, n) = 0
<1>1. \A k \in 1..n : f[k] \in Int
  <2> SUFFICES ASSUME NEW k \in 1..n PROVE f[k] \in Int
    OBVIOUS
  <2>1. (IF k = n THEN 1 ELSE k + 1) \in 1..n
    OBVIOUS
  <2> QED
    BY <2>1
<1> DEFINE T == {k \in 0..(n - 1) : Total(f, k) = g[k + 1] - g[1]}
<1>2. /\ Total(f, 0) = 0
      /\ \A k \in 0..(n - 1) : Total(f, k + 1) = Total(f, k) + f[k + 1]
      /\ \A k \in 0..n : Total(f, k) \in Int
  BY <1>1, TotalSteps
<1>3. 0 \in T
  BY <1>2
<1>4. ASSUME NEW k \in 0..((n - 1) - 1), k \in T
      PROVE  k + 1 \in T
  <2>1. k + 1 \in 1..n /\ k + 1 # n /\ k \in 0..(n - 1) /\ (k + 1) + 1 \in 1..n /\ k + 1 \in 0..(n - 1)
    OBVIOUS
  <2>2. f[k + 1] = g[(k + 1) + 1] - g[k + 1]
    BY <2>1
  <2>3. Total(f, k + 1) = g[(k + 1) + 1] - g[1]
    BY <1>2, <1>4, <2>1, <2>2
  <2> QED
    BY <2>1, <2>3
<1> HIDE DEF T
<1>5. \A k \in 0..(n - 1) : k \in T
  <2>1. n - 1 \in Nat
    OBVIOUS
  <2> QED
    BY <1>3, <1>4, <2>1, UpTo
<1>6. Total(f, n - 1) = g[n] - g[1] /\ f[n] = g[1] - g[n] /\ n - 1 \in 0..(n - 1) /\ n \in 1..n /\ 1 \in 1..n
  BY <1>5 DEF T
<1>7. Total(f, n) = Total(f, n - 1) + f[n]
  BY <1>2, <1>6
<1> QED
  BY <1>6, <1>7

\* A sum of one value.
LEMMA TotalOfOne ==
  ASSUME NEW n \in Nat, NEW f, NEW a \in 1..n, NEW v \in Int,
         \A k \in 1..n : f[k] = IF k = a THEN v ELSE 0
  PROVE  Total(f, n) = v
<1> DEFINE T == {k \in 0..n : Total(f, k) = IF k < a THEN 0 ELSE v}
<1>1. \A k \in 1..n : f[k] \in Int
  OBVIOUS
<1>2. /\ Total(f, 0) = 0
      /\ \A k \in 0..(n - 1) : Total(f, k + 1) = Total(f, k) + f[k + 1]
  BY <1>1, TotalSteps
<1>3. 0 \in T
  BY <1>2
<1>4. ASSUME NEW k \in 0..(n - 1), k \in T
      PROVE  k + 1 \in T
  <2>1. k + 1 \in 1..n /\ k + 1 \in 0..n /\ k \in 0..n
    OBVIOUS
  <2> QED
    BY <1>2, <1>4, <2>1
<1> HIDE DEF T
<1>5. \A k \in 0..n : k \in T
  BY <1>3, <1>4, UpTo
<1> QED
  BY <1>5 DEF T

\* A sum of nothings.
LEMMA TotalOfNone ==
  ASSUME NEW n \in Nat, NEW f, \A k \in 1..n : f[k] = 0
  PROVE  Total(f, n) = 0
<1> DEFINE T == {k \in 0..n : Total(f, k) = 0}
<1>1. \A k \in 1..n : f[k] \in Int
  OBVIOUS
<1>2. /\ Total(f, 0) = 0
      /\ \A k \in 0..(n - 1) : Total(f, k + 1) = Total(f, k) + f[k + 1]
  BY <1>1, TotalSteps
<1>3. 0 \in T /\ \A k \in 0..(n - 1) : k \in T => k + 1 \in T
  BY <1>2
<1> HIDE DEF T
<1>5. \A k \in 0..n : k \in T
  BY <1>3, UpTo
<1> QED
  BY <1>5 DEF T

\* Sums compare as their values do.
LEMMA TotalOrder ==
  ASSUME NEW n \in Nat, NEW f, NEW g,
         \A k \in 1..n : f[k] \in Int /\ g[k] \in Int /\ f[k] <= g[k]
  PROVE  /\ Total(f, n) <= Total(g, n)
         /\ (\E k \in 1..n : f[k] < g[k]) => Total(f, n) < Total(g, n)
<1> DEFINE Strict(k) == \E i \in 1..k : f[i] < g[i]
           T == {k \in 0..n : Total(f, k) <= Total(g, k) /\ (Strict(k) => Total(f, k) < Total(g, k))}
<1>1. (\A k \in 1..n : f[k] \in Int) /\ (\A k \in 1..n : g[k] \in Int)
  OBVIOUS
<1>2. /\ Total(f, 0) = 0
      /\ \A k \in 0..(n - 1) : Total(f, k + 1) = Total(f, k) + f[k + 1]
      /\ \A k \in 0..n : Total(f, k) \in Int
  BY <1>1, TotalSteps
<1>3. /\ Total(g, 0) = 0
      /\ \A k \in 0..(n - 1) : Total(g, k + 1) = Total(g, k) + g[k + 1]
      /\ \A k \in 0..n : Total(g, k) \in Int
  BY <1>1, TotalSteps
<1>4. 0 \in T
  BY <1>2, <1>3
<1>5. ASSUME NEW k \in 0..(n - 1), k \in T
      PROVE  k + 1 \in T
  <2>1. k + 1 \in 1..n /\ k + 1 \in 0..n /\ k \in 0..n /\ f[k + 1] <= g[k + 1]
        /\ f[k + 1] \in Int /\ g[k + 1] \in Int
    OBVIOUS
  <2>2. ASSUME Strict(k + 1)
        PROVE  Strict(k) \/ f[k + 1] < g[k + 1]
    <3>1. PICK i \in 1..(k + 1) : f[i] < g[i]
      BY <2>2
    <3>2. i \in 1..k \/ i = k + 1
      OBVIOUS
    <3> QED
      BY <3>1, <3>2
  <2>3. Total(f, k) <= Total(g, k) /\ (Strict(k) => Total(f, k) < Total(g, k))
    BY <1>5
  <2>4. /\ Total(f, k + 1) = Total(f, k) + f[k + 1] /\ Total(g, k + 1) = Total(g, k) + g[k + 1]
        /\ Total(f, k) \in Int /\ Total(g, k) \in Int
    BY <1>2, <1>3, <2>1
  <2> HIDE DEF Strict
  <2> QED
    BY <2>1, <2>2, <2>3, <2>4
<1> HIDE DEF T
<1>6. \A k \in 0..n : k \in T
  BY <1>4, <1>5, UpTo
<1>7. n \in T
  BY <1>6
<1> QED
  BY <1>7 DEF T

\* A sum of ones, minus ones and nothings is odd when the number of those that count is.
LEMMA TotalParity ==
  ASSUME NEW n \in Nat, NEW f, \A k \in 1..n : f[k] \in {0, 1, -1}
  PROVE  Cardinality({k \in 1..n : f[k] # 0}) \in Nat
         /\ \E z \in Int : Cardinality({k \in 1..n : f[k] # 0}) = Total(f, n) + 2 * z
<1> DEFINE C(k) == {i \in 1..k : f[i] # 0}
           T == {k \in 0..n : \E z \in Int : Cardinality(C(k)) = Total(f, k) + 2 * z}
<1>1. \A k \in 1..n : f[k] \in Int
  OBVIOUS
<1>2. /\ Total(f, 0) = 0
      /\ \A k \in 0..(n - 1) : Total(f, k + 1) = Total(f, k) + f[k + 1]
      /\ \A k \in 0..n : Total(f, k) \in Int
  BY <1>1, TotalSteps
<1>3. \A k \in Nat : IsFiniteSet(C(k)) /\ Cardinality(C(k)) \in Nat
  <2> SUFFICES ASSUME NEW k \in Nat PROVE IsFiniteSet(C(k)) /\ Cardinality(C(k)) \in Nat
    OBVIOUS
  <2>1. IsFiniteSet(1..k) /\ C(k) \subseteq 1..k
    BY FS_Interval
  <2> HIDE DEF C
  <2> QED
    BY <2>1, FS_Subset, FS_CardinalityType
<1>4. 0 \in T
  <2>1. C(0) = {}
    OBVIOUS
  <2>2. Cardinality(C(0)) = Total(f, 0) + 2 * 0
    BY <1>2, <2>1, FS_EmptySet
  <2> QED
    BY <2>2
<1>5. ASSUME NEW k \in 0..(n - 1), k \in T
      PROVE  k + 1 \in T
  <2>1. /\ k \in Nat /\ k + 1 \in 1..n /\ k + 1 \in 0..n /\ k \in 0..n /\ f[k + 1] \in {0, 1, -1}
        /\ Total(f, k + 1) = Total(f, k) + f[k + 1] /\ Total(f, k) \in Int
    BY <1>2
  <2>2. PICK z \in Int : Cardinality(C(k)) = Total(f, k) + 2 * z
    BY <1>5
  <2>3. CASE f[k + 1] = 0
    <3>1. C(k + 1) = C(k)
      BY <2>1, <2>3
    <3>2. Cardinality(C(k + 1)) = Total(f, k + 1) + 2 * z
      <4> HIDE DEF C, T
      <4> QED
        BY <2>1, <2>2, <2>3, <3>1
    <3> QED
      BY <2>1, <3>2
  <2>4. CASE f[k + 1] # 0
    <3>1. C(k + 1) = C(k) \cup {k + 1} /\ k + 1 \notin C(k)
      BY <2>1, <2>4
    <3>2. Cardinality(C(k + 1)) = Cardinality(C(k)) + 1
      <4> HIDE DEF C
      <4> QED
        BY <1>3, <2>1, <3>1, FS_AddElement
    <3>3. CASE f[k + 1] = 1
      <4>1. Cardinality(C(k + 1)) = Total(f, k + 1) + 2 * z
        <5> HIDE DEF C, T
        <5> QED
          BY <1>3, <2>1, <2>2, <3>2, <3>3
      <4> QED
        BY <2>1, <4>1
    <3>4. CASE f[k + 1] = -1
      <4>1. PICK y \in Int : y = z + 1
        OBVIOUS
      <4>2. Cardinality(C(k + 1)) = Total(f, k + 1) + 2 * y
        <5> HIDE DEF C, T
        <5> QED
          BY <1>3, <2>1, <2>2, <3>2, <3>4, <4>1
      <4> QED
        BY <2>1, <4>2
    <3> QED
      BY <2>1, <2>4, <3>3, <3>4
  <2> QED
    BY <2>3, <2>4
<1> HIDE DEF T
<1>6. \A k \in 0..n : k \in T
  BY <1>4, <1>5, UpTo
<1>7. n \in T
  BY <1>6
<1> QED
  BY <1>3, <1>7 DEF T

\* The sum is the same when the values move on by one along the ring.
LEMMA TotalTurned ==
  ASSUME NEW n \in Nat \ {0}, NEW f, NEW g, \A k \in 1..n : g[k] \in Int,
         \A k \in 1..n : f[k] = g[IF k = 1 THEN n ELSE k - 1]
  PROVE  Total(f, n) = Total(g, n)
<1> DEFINE d == [k \in 1..n |-> g[k] - f[k]]
<1>1. \A k \in 1..n : f[k] \in Int /\ g[k] \in Int
  <2> SUFFICES ASSUME NEW k \in 1..n PROVE f[k] \in Int
    OBVIOUS
  <2>1. (IF k = 1 THEN n ELSE k - 1) \in 1..n
    OBVIOUS
  <2> QED
    BY <2>1
<1>2. \A k \in 1..n : d[k] = f[IF k = n THEN 1 ELSE k + 1] - f[k]
  <2> SUFFICES ASSUME NEW k \in 1..n PROVE g[k] = f[IF k = n THEN 1 ELSE k + 1]
    OBVIOUS
  <2>1. CASE k = n
    BY <2>1
  <2>2. CASE k # n
    <3>1. k + 1 \in 1..n /\ k + 1 # 1 /\ (k + 1) - 1 = k
      BY <2>2
    <3> QED
      BY <2>2, <3>1
  <2> QED
    BY <2>1, <2>2
<1>3. \A k \in 1..n : d[k] \in Int /\ g[k] = f[k] + d[k]
  BY <1>1
<1> HIDE DEF d
<1>4. Total(d, n) = 0
  <2>1. \A k \in 1..n : f[k] \in Int
    BY <1>1
  <2> QED
    BY <1>2, <2>1, TotalOfRing
<1>5. Total(g, n) = Total(f, n) + Total(d, n)
  BY <1>1, <1>3, TotalAdds
<1>6. Total(f, n) \in Int
  <2>1. \A k \in 1..n : f[k] \in Int
    BY <1>1
  <2>2. n \in Nat /\ n \in 0..n
    OBVIOUS
  <2> QED
    BY <2>1, <2>2, TotalSteps
<1> QED
  BY <1>4, <1>5, <1>6

-----------------------------------------------------------------------------
(* Closed trails of sides, and how often they wind around a cell.          *)

AnySide == (Int \X Int) \X (1..4)

\* The four sides of a cell: where they begin and end and what is beyond.
LEMMA FourSides ==
  ASSUME NEW c \in Int, NEW r \in Int
  PROVE  /\ From(<<<<c, r>>, 1>>) = <<c, r>> /\ To(<<<<c, r>>, 1>>) = <<c + 1, r>>
         /\ From(<<<<c, r>>, 2>>) = <<c + 1, r>> /\ To(<<<<c, r>>, 2>>) = <<c + 1, r + 1>>
         /\ From(<<<<c, r>>, 3>>) = <<c + 1, r + 1>> /\ To(<<<<c, r>>, 3>>) = <<c, r + 1>>
         /\ From(<<<<c, r>>, 4>>) = <<c, r + 1>> /\ To(<<<<c, r>>, 4>>) = <<c, r>>
         /\ Beyond(<<c, r>>)[1] = <<c, r - 1>> /\ Beyond(<<c, r>>)[2] = <<c + 1, r>>
         /\ Beyond(<<c, r>>)[3] = <<c, r + 1>> /\ Beyond(<<c, r>>)[4] = <<c - 1, r>>
BY DEF From, To, Corners, Beyond

\* s is one of the sides of <<c, r>>.
SideOf(s, c, r) ==
  \/ s = <<<<c, r>>, 1>> /\ From(s) = <<c, r>> /\ To(s) = <<c + 1, r>>
  \/ s = <<<<c, r>>, 2>> /\ From(s) = <<c + 1, r>> /\ To(s) = <<c + 1, r + 1>>
  \/ s = <<<<c, r>>, 3>> /\ From(s) = <<c + 1, r + 1>> /\ To(s) = <<c, r + 1>>
  \/ s = <<<<c, r>>, 4>> /\ From(s) = <<c, r + 1>> /\ To(s) = <<c, r>>

\* Every side is one of the four of some cell.
LEMMA SideParts ==
  ASSUME NEW s \in AnySide
  PROVE  \E c \in Int, r \in Int : SideOf(s, c, r)
<1>1. s = <<s[1], s[2]>> /\ s[1] = <<s[1][1], s[1][2]>> /\ s[1][1] \in Int /\ s[1][2] \in Int /\ s[2] \in 1..4
  BY DEF AnySide
<1>2. s[2] = 1 \/ s[2] = 2 \/ s[2] = 3 \/ s[2] = 4
  BY <1>1
<1>3. PICK c \in Int, r \in Int : c = s[1][1] /\ r = s[1][2]
  BY <1>1
<1>4. s = <<<<c, r>>, s[2]>>
  BY <1>1, <1>3
<1>5. SideOf(s, c, r)
  <2>1. /\ From(<<<<c, r>>, 1>>) = <<c, r>> /\ To(<<<<c, r>>, 1>>) = <<c + 1, r>>
        /\ From(<<<<c, r>>, 2>>) = <<c + 1, r>> /\ To(<<<<c, r>>, 2>>) = <<c + 1, r + 1>>
        /\ From(<<<<c, r>>, 3>>) = <<c + 1, r + 1>> /\ To(<<<<c, r>>, 3>>) = <<c, r + 1>>
        /\ From(<<<<c, r>>, 4>>) = <<c, r + 1>> /\ To(<<<<c, r>>, 4>>) = <<c, r>>
    BY FourSides
  <2>2. s = <<<<c, r>>, 1>> \/ s = <<<<c, r>>, 2>> \/ s = <<<<c, r>>, 3>> \/ s = <<<<c, r>>, 4>>
    BY <1>2, <1>4
  <2> QED
    BY <2>1, <2>2 DEF SideOf
<1> QED
  BY <1>5

\* What side s adds to the number of times a trail winds around cell p: a side to the right of
\* it in its row counts, upwards against downwards.
Crossing(s, p) ==
  IF s[1][2] = p[2] /\ s[2] = 2 /\ s[1][1] >= p[1] THEN 1
  ELSE IF s[1][2] = p[2] /\ s[2] = 4 /\ s[1][1] > p[1] THEN -1 ELSE 0

Is(s, x) == IF s = x THEN 1 ELSE 0

Next1(i, n) == IF i = n THEN 1 ELSE i + 1

\* n sides, each leaving the corner the one before it leads to, the first one the corner the
\* last one leads to, and none of them twice.
Trail(L, n) ==
  /\ n \in Nat \ {0}
  /\ \A i \in 1..n : L[i] \in AnySide
  /\ \A i \in 1..n : To(L[i]) = From(L[Next1(i, n)])
  /\ \A i \in 1..n, j \in 1..n : L[i] = L[j] => i = j

Winding(L, n, p) == Total([i \in 1..n |-> Crossing(L[i], p)], n)
Used(L, n, x) == Total([i \in 1..n |-> Is(L[i], x)], n)

\* A trail uses a side once or never.
LEMMA UsedIsBit ==
  ASSUME NEW L, NEW n, Trail(L, n), NEW x
  PROVE  /\ (\E i \in 1..n : L[i] = x) => Used(L, n, x) = 1
         /\ (\A i \in 1..n : L[i] # x) => Used(L, n, x) = 0
         /\ Used(L, n, x) \in {0, 1}
<1> DEFINE f == [i \in 1..n |-> Is(L[i], x)]
<1>0. n \in Nat
  BY DEF Trail
<1>1. ASSUME NEW a \in 1..n, L[a] = x
      PROVE  Used(L, n, x) = 1
  <2>0. PICK v \in Int : v = 1
    OBVIOUS
  <2>1. \A k \in 1..n : f[k] = IF k = a THEN v ELSE 0
    BY <1>1, <2>0 DEF Trail, Is
  <2> HIDE DEF f
  <2>2. Total(f, n) = 1
    BY <1>0, <2>0, <2>1, TotalOfOne
  <2> QED
    BY <2>2 DEF f, Used
<1>2. ASSUME \A i \in 1..n : L[i] # x
      PROVE  Used(L, n, x) = 0
  <2>1. \A k \in 1..n : f[k] = 0
    BY <1>2 DEF Is
  <2> HIDE DEF f
  <2>2. Total(f, n) = 0
    BY <1>0, <2>1, TotalOfNone
  <2> QED
    BY <2>2 DEF f, Used
<1> QED
  BY <1>1, <1>2

\* How often a trail winds around a cell is a number.
LEMMA WindingType ==
  ASSUME NEW L, NEW n, Trail(L, n), NEW p
  PROVE  Winding(L, n, p) \in Int
<1> DEFINE f == [i \in 1..n |-> Crossing(L[i], p)]
<1>1. n \in Nat /\ n \in 0..n /\ \A k \in 1..n : f[k] \in Int
  BY DEF Trail, Crossing
<1> HIDE DEF f
<1>2. Total(f, n) \in Int
  BY <1>1, TotalSteps
<1> QED
  BY <1>2 DEF Winding, f

\* Two sides part a cell from the one to the right of it.
LEMMA WindingAcross ==
  ASSUME NEW L, NEW n, Trail(L, n), NEW c \in Int, NEW r \in Int
  PROVE  Winding(L, n, <<c, r>>) + Used(L, n, <<<<c + 1, r>>, 4>>)
           = Winding(L, n, <<c + 1, r>>) + Used(L, n, <<<<c, r>>, 2>>)
<1> DEFINE f == [i \in 1..n |-> Crossing(L[i], <<c, r>>)]
           g == [i \in 1..n |-> Is(L[i], <<<<c + 1, r>>, 4>>)]
           h == [i \in 1..n |-> Crossing(L[i], <<c + 1, r>>)]
           k == [i \in 1..n |-> Is(L[i], <<<<c, r>>, 2>>)]
           a == [i \in 1..n |-> f[i] + g[i]]
<1>0. n \in Nat
  BY DEF Trail
<1>1. ASSUME NEW i \in 1..n
      PROVE  /\ f[i] \in Int /\ g[i] \in Int /\ h[i] \in Int /\ k[i] \in Int
             /\ f[i] + g[i] = h[i] + k[i] /\ a[i] = f[i] + g[i]
  <2>1. L[i] \in AnySide
    BY DEF Trail
  <2>2. PICK x \in Int, y \in Int : SideOf(L[i], x, y)
    BY <2>1, SideParts
  <2> QED
    BY <2>2 DEF SideOf, Crossing, Is
<1> HIDE DEF f, g, h, k, a
<1>2. Total(a, n) = Total(f, n) + Total(g, n)
  BY <1>0, <1>1, TotalAdds
<1>3. Total(a, n) = Total(h, n) + Total(k, n)
  BY <1>0, <1>1, TotalAdds
<1> QED
  BY <1>2, <1>3 DEF f, g, h, k, Winding, Used

\* So do two from the one above it: a closed trail leaves the ray between them as often as it
\* comes to it.
LEMMA WindingAlong ==
  ASSUME NEW L, NEW n, Trail(L, n), NEW c \in Int, NEW r \in Int
  PROVE  Winding(L, n, <<c, r>>) + Used(L, n, <<<<c, r - 1>>, 3>>)
           = Winding(L, n, <<c, r - 1>>) + Used(L, n, <<<<c, r>>, 1>>)
<1> DEFINE f == [i \in 1..n |-> Crossing(L[i], <<c, r>>)]
           g == [i \in 1..n |-> Is(L[i], <<<<c, r - 1>>, 3>>)]
           h == [i \in 1..n |-> Crossing(L[i], <<c, r - 1>>)]
           k == [i \in 1..n |-> Is(L[i], <<<<c, r>>, 1>>)]
           On(q) == IF q[2] = r /\ q[1] > c THEN 1 ELSE 0
           o == [i \in 1..n |-> On(From(L[i]))]
           e == [i \in 1..n |-> o[Next1(i, n)] - o[i]]
           a == [i \in 1..n |-> f[i] + g[i]]
           b == [i \in 1..n |-> h[i] + k[i]]
<1>0. n \in Nat \ {0} /\ n \in Nat
  BY DEF Trail
<1>1. ASSUME NEW i \in 1..n
      PROVE  /\ f[i] \in Int /\ g[i] \in Int /\ h[i] \in Int /\ k[i] \in Int /\ o[i] \in Int /\ e[i] \in Int
             /\ a[i] \in Int /\ b[i] \in Int
             /\ a[i] = f[i] + g[i] /\ b[i] = h[i] + k[i] /\ b[i] = a[i] + e[i]
             /\ e[i] = o[IF i = n THEN 1 ELSE i + 1] - o[i]
  <2>1. L[i] \in AnySide /\ Next1(i, n) \in 1..n
    BY DEF Trail, Next1
  <2>2. PICK x \in Int, y \in Int : SideOf(L[i], x, y)
    BY <2>1, SideParts
  <2>4. o[Next1(i, n)] = On(To(L[i])) /\ o[i] = On(From(L[i]))
    BY <2>1 DEF Trail
  <2>5. f[i] = Crossing(L[i], <<c, r>>) /\ h[i] = Crossing(L[i], <<c, r - 1>>)
        /\ g[i] = Is(L[i], <<<<c, r - 1>>, 3>>) /\ k[i] = Is(L[i], <<<<c, r>>, 1>>)
        /\ a[i] = f[i] + g[i] /\ b[i] = h[i] + k[i] /\ e[i] = o[Next1(i, n)] - o[i]
    OBVIOUS
  <2> HIDE DEF f, g, h, k, o, e, a, b
  <2>6. f[i] \in Int /\ g[i] \in Int /\ h[i] \in Int /\ k[i] \in Int
    BY <2>5 DEF Crossing, Is
  <2>7. h[i] + k[i] = f[i] + g[i] + On(To(L[i])) - On(From(L[i]))
    <3>1. CASE L[i] = <<<<x, y>>, 1>> /\ From(L[i]) = <<x, y>> /\ To(L[i]) = <<x + 1, y>>
      BY <2>5, <3>1 DEF Crossing, Is
    <3>2. CASE L[i] = <<<<x, y>>, 2>> /\ From(L[i]) = <<x + 1, y>> /\ To(L[i]) = <<x + 1, y + 1>>
      BY <2>5, <3>2 DEF Crossing, Is
    <3>3. CASE L[i] = <<<<x, y>>, 3>> /\ From(L[i]) = <<x + 1, y + 1>> /\ To(L[i]) = <<x, y + 1>>
      BY <2>5, <3>3 DEF Crossing, Is
    <3>4. CASE L[i] = <<<<x, y>>, 4>> /\ From(L[i]) = <<x, y + 1>> /\ To(L[i]) = <<x, y>>
      BY <2>5, <3>4 DEF Crossing, Is
    <3> QED
      BY <2>2, <3>1, <3>2, <3>3, <3>4 DEF SideOf
  <2>8. On(To(L[i])) \in Int /\ On(From(L[i])) \in Int
    OBVIOUS
  <2>9. Next1(i, n) = IF i = n THEN 1 ELSE i + 1
    BY DEF Next1
  <2> HIDE DEF On
  <2> QED
    BY <2>4, <2>5, <2>6, <2>7, <2>8, <2>9
<1> HIDE DEF f, g, h, k, o, e, a, b
<1>2. Total(a, n) = Total(f, n) + Total(g, n) /\ Total(b, n) = Total(h, n) + Total(k, n)
  BY <1>0, <1>1, TotalAdds
<1>3. Total(b, n) = Total(a, n) + Total(e, n)
  BY <1>0, <1>1, TotalAdds
<1>4. Total(e, n) = 0
  BY <1>0, <1>1, TotalOfRing
<1>5. Total(a, n) \in Int
  <2>1. n \in 0..n
    BY <1>0
  <2> QED
    BY <1>0, <1>1, <2>1, TotalSteps
<1> QED
  BY <1>2, <1>3, <1>4, <1>5 DEF f, g, h, k, Winding, Used

\* Twice the area is twice what the sides going down and up add to it, by the column they are in.
Moment(s) == IF s[2] = 2 THEN s[1][1] + 1 ELSE IF s[2] = 4 THEN -(s[1][1]) ELSE 0

\* cornerArea adds up the moments of the sides: the horizontal ones add nothing.
LEMMA AreaIsMoment ==
  ASSUME NEW L, NEW n, Trail(L, n)
  PROVE  cornerArea([i \in 1..n |-> From(L[i])]) = 2 * Total([i \in 1..n |-> Moment(L[i])], n)
<1> DEFINE loop == [i \in 1..n |-> From(L[i])]
           Term(a, b) == a[1] * b[2] - b[1] * a[2]
           f == [i \in 1..n |-> Term(loop[i], loop[IF i = n THEN 1 ELSE i + 1])]
           m == [i \in 1..n |-> Moment(L[i])]
           mm == [i \in 1..n |-> m[i] + m[i]]
           o == [i \in 1..n |-> From(L[i])[1] * From(L[i])[2]]
           e == [i \in 1..n |-> o[Next1(i, n)] - o[i]]
<1>0. n \in Nat \ {0} /\ n \in Nat
  BY DEF Trail
<1>1. ASSUME NEW i \in 1..n
      PROVE  /\ f[i] \in Int /\ m[i] \in Int /\ mm[i] \in Int /\ e[i] \in Int /\ o[i] \in Int
             /\ mm[i] = m[i] + m[i] /\ mm[i] = f[i] + e[i]
             /\ e[i] = o[IF i = n THEN 1 ELSE i + 1] - o[i]
  <2>1. L[i] \in AnySide /\ Next1(i, n) \in 1..n
    BY DEF Trail, Next1
  <2>2. PICK x \in Int, y \in Int : SideOf(L[i], x, y)
    BY <2>1, SideParts
  <2>4. Next1(i, n) = IF i = n THEN 1 ELSE i + 1
    BY DEF Next1
  <2>5. loop[Next1(i, n)] = To(L[i]) /\ loop[i] = From(L[i])
        /\ o[Next1(i, n)] = To(L[i])[1] * To(L[i])[2] /\ o[i] = From(L[i])[1] * From(L[i])[2]
    BY <2>1 DEF Trail
  <2>6. f[i] = Term(From(L[i]), To(L[i])) /\ m[i] = Moment(L[i]) /\ mm[i] = m[i] + m[i]
        /\ e[i] = o[Next1(i, n)] - o[i]
    BY <2>4, <2>5
  <2> HIDE DEF f, m, mm, o, e, loop
  <2>7. PICK z \in Int : z = x * y
    OBVIOUS
  <2>8. (x + 1) * y = z + y /\ x * (y + 1) = z + x /\ (x + 1) * (y + 1) = z + x + y + 1
    BY <2>7
  <2>9. /\ Term(From(L[i]), To(L[i])) + To(L[i])[1] * To(L[i])[2] - From(L[i])[1] * From(L[i])[2]
             = Moment(L[i]) + Moment(L[i])
        /\ Term(From(L[i]), To(L[i])) \in Int /\ Moment(L[i]) \in Int
        /\ To(L[i])[1] * To(L[i])[2] \in Int /\ From(L[i])[1] * From(L[i])[2] \in Int
    <3>1. CASE L[i] = <<<<x, y>>, 1>> /\ From(L[i]) = <<x, y>> /\ To(L[i]) = <<x + 1, y>>
      BY <2>7, <2>8, <3>1 DEF Moment
    <3>2. CASE L[i] = <<<<x, y>>, 2>> /\ From(L[i]) = <<x + 1, y>> /\ To(L[i]) = <<x + 1, y + 1>>
      <4>1. Moment(L[i]) = x + 1
        BY <3>2 DEF Moment
      <4>2. Term(From(L[i]), To(L[i])) = (x + 1) * (y + 1) - (x + 1) * y
        BY <3>2
      <4>3. From(L[i])[1] * From(L[i])[2] = (x + 1) * y /\ To(L[i])[1] * To(L[i])[2] = (x + 1) * (y + 1)
        BY <3>2
      <4> HIDE DEF Term
      <4> QED
        BY <2>7, <2>8, <4>1, <4>2, <4>3
    <3>3. CASE L[i] = <<<<x, y>>, 3>> /\ From(L[i]) = <<x + 1, y + 1>> /\ To(L[i]) = <<x, y + 1>>
      BY <2>7, <2>8, <3>3 DEF Moment
    <3>4. CASE L[i] = <<<<x, y>>, 4>> /\ From(L[i]) = <<x, y + 1>> /\ To(L[i]) = <<x, y>>
      <4>1. Moment(L[i]) = -x
        BY <3>4 DEF Moment
      <4>2. Term(From(L[i]), To(L[i])) = x * y - x * (y + 1)
        BY <3>4
      <4>3. From(L[i])[1] * From(L[i])[2] = x * (y + 1) /\ To(L[i])[1] * To(L[i])[2] = x * y
        BY <3>4
      <4> HIDE DEF Term
      <4> QED
        BY <2>7, <2>8, <4>1, <4>2, <4>3
    <3> QED
      BY <2>2, <3>1, <3>2, <3>3, <3>4 DEF SideOf
  <2> HIDE DEF Term
  <2> QED
    BY <2>4, <2>5, <2>6, <2>9
<1>2. cornerArea(loop) = Total(f, n)
  <2>1. Len(loop) = n
    BY <1>0
  <2>2. cornerArea(loop)
          = Total([i \in 1..Len(loop) |-> Term(loop[i], loop[IF i = Len(loop) THEN 1 ELSE i + 1])], Len(loop))
    BY DEF cornerArea
  <2> HIDE DEF loop, Term
  <2> QED
    BY <2>1, <2>2
<1>3. m = [i \in 1..n |-> Moment(L[i])]
  OBVIOUS
<1> HIDE DEF f, m, mm, o, e
<1>4. Total(mm, n) = Total(m, n) + Total(m, n)
  BY <1>0, <1>1, TotalAdds
<1>5. Total(mm, n) = Total(f, n) + Total(e, n)
  BY <1>0, <1>1, TotalAdds
<1>6. Total(e, n) = 0
  BY <1>0, <1>1, TotalOfRing
<1>7. Total(f, n) \in Int /\ Total(m, n) \in Int
  <2>1. n \in 0..n
    BY <1>0
  <2> QED
    BY <1>0, <1>1, <2>1, TotalSteps
<1> QED
  BY <1>2, <1>3, <1>4, <1>5, <1>6, <1>7

-----------------------------------------------------------------------------
(* Sums over the cells.                                                    *)

\* A sum whose first values only count, all the same.
FirstOnes(f, n, a, v) == \A k \in 1..n : f[k] = IF k <= a THEN v ELSE 0

\* The same value in the first a places and nothing after them adds up to their product.
LEMMA TotalOfFirst ==
  ASSUME NEW n \in Nat, NEW f, NEW a \in 0..n, NEW v \in Int, FirstOnes(f, n, a, v)
  PROVE  Total(f, n) = a * v
<1> DEFINE T == {k \in 0..n : Total(f, k) = IF k <= a THEN k * v ELSE a * v}
<1>0. \A k \in 1..n : f[k] = IF k <= a THEN v ELSE 0
  BY DEF FirstOnes
<1>1. \A k \in 1..n : f[k] \in Int
  BY <1>0
<1>2. /\ Total(f, 0) = 0
      /\ \A k \in 0..(n - 1) : Total(f, k + 1) = Total(f, k) + f[k + 1]
  BY <1>1, TotalSteps
<1>3. 0 \in T
  BY <1>2
<1>4. ASSUME NEW k \in 0..(n - 1), k \in T
      PROVE  k + 1 \in T
  <2>1. k + 1 \in 1..n /\ k + 1 \in 0..n /\ k \in 0..n
    OBVIOUS
  <2>2. (k + 1) * v = k * v + v /\ k * v \in Int /\ a * v \in Int
    OBVIOUS
  <2>3. CASE k + 1 <= a
    <3>1. f[k + 1] = v /\ Total(f, k) = k * v
      BY <1>0, <1>4, <2>1, <2>3
    <3>2. Total(f, k + 1) = (k + 1) * v
      BY <1>2, <2>2, <3>1
    <3> QED
      BY <2>1, <2>3, <3>2
  <2>4. CASE ~(k + 1 <= a)
    <3>1. f[k + 1] = 0
      BY <1>0, <2>1, <2>4
    <3>2. Total(f, k) = a * v
      <4>1. CASE k <= a
        <5>1. k = a
          BY <2>4, <4>1
        <5> QED
          BY <1>4, <4>1, <5>1
      <4>2. CASE ~(k <= a)
        BY <1>4, <4>2
      <4> QED
        BY <4>1, <4>2
    <3>3. Total(f, k + 1) = a * v
      BY <1>2, <2>2, <3>1, <3>2
    <3> QED
      BY <2>1, <2>4, <3>3
  <2> QED
    BY <2>3, <2>4
<1> HIDE DEF T
<1>5. \A k \in 0..n : k \in T
  BY <1>3, <1>4, UpTo
<1>6. n \in T
  BY <1>5
<1>7. n <= a => n = a
  OBVIOUS
<1> QED
  BY <1>6, <1>7 DEF T

RowSum(F, r) == Total([c \in 1..Width |-> F[<<c - 1, r - 1>>]], Width)
CellSum(F) == Total([r \in 1..Height |-> RowSum(F, r)], Height)

\* Rows and columns count from one in a sum.
LEMMA CellNumbers ==
  ASSUME NEW r \in 1..Height, NEW c \in 1..Width
  PROVE  <<c - 1, r - 1>> \in Cells
<1>1. Width \in Nat /\ Height \in Nat
  BY GridAssumption
<1>2. c - 1 \in 0..Width - 1 /\ r - 1 \in 0..Height - 1
  BY <1>1
<1> QED
  BY <1>2 DEF Cells

\* The sum over a row is a number.
LEMMA RowSumType ==
  ASSUME NEW F, \A p \in Cells : F[p] \in Int, NEW r \in 1..Height
  PROVE  RowSum(F, r) \in Int
<1> DEFINE f == [c \in 1..Width |-> F[<<c - 1, r - 1>>]]
<1>1. Width \in Nat /\ Width \in 0..Width /\ \A k \in 1..Width : f[k] \in Int
  BY CellNumbers, GridAssumption
<1> HIDE DEF f
<1>2. Total(f, Width) \in Int
  BY <1>1, TotalSteps
<1> QED
  BY <1>2 DEF f, RowSum

\* The sum over all cells is a number.
LEMMA CellSumType ==
  ASSUME NEW F, \A p \in Cells : F[p] \in Int
  PROVE  CellSum(F) \in Int
<1> DEFINE f == [r \in 1..Height |-> RowSum(F, r)]
<1>1. Height \in Nat /\ Height \in 0..Height /\ \A k \in 1..Height : f[k] \in Int
  BY RowSumType, GridAssumption
<1> HIDE DEF f
<1>2. Total(f, Height) \in Int
  BY <1>1, TotalSteps
<1> QED
  BY <1>2 DEF f, CellSum

\* Sums over all cells add.
LEMMA CellSumAdds ==
  ASSUME NEW F, NEW G, NEW H, \A p \in Cells : G[p] \in Int /\ H[p] \in Int /\ F[p] = G[p] + H[p]
  PROVE  CellSum(F) = CellSum(G) + CellSum(H)
<1>1. ASSUME NEW r \in 1..Height
      PROVE  /\ RowSum(F, r) = RowSum(G, r) + RowSum(H, r)
             /\ RowSum(G, r) \in Int /\ RowSum(H, r) \in Int
  <2> DEFINE f == [c \in 1..Width |-> F[<<c - 1, r - 1>>]]
             g == [c \in 1..Width |-> G[<<c - 1, r - 1>>]]
             h == [c \in 1..Width |-> H[<<c - 1, r - 1>>]]
  <2>1. Width \in Nat /\ \A k \in 1..Width : g[k] \in Int /\ h[k] \in Int /\ f[k] = g[k] + h[k]
    BY CellNumbers, GridAssumption
  <2> HIDE DEF f, g, h
  <2>2. Total(f, Width) = Total(g, Width) + Total(h, Width)
    BY <2>1, TotalAdds
  <2>3. RowSum(F, r) = RowSum(G, r) + RowSum(H, r)
    BY <2>2 DEF f, g, h, RowSum
  <2> QED
    BY <2>3, RowSumType
<1> DEFINE f == [r \in 1..Height |-> RowSum(F, r)]
           g == [r \in 1..Height |-> RowSum(G, r)]
           h == [r \in 1..Height |-> RowSum(H, r)]
<1>2. Height \in Nat /\ \A k \in 1..Height : g[k] \in Int /\ h[k] \in Int /\ f[k] = g[k] + h[k]
  BY <1>1, GridAssumption
<1> HIDE DEF f, g, h
<1>3. Total(f, Height) = Total(g, Height) + Total(h, Height)
  BY <1>2, TotalAdds
<1> QED
  BY <1>3 DEF f, g, h, CellSum

\* They are ordered as what they sum is.
LEMMA CellSumOrder ==
  ASSUME NEW F, NEW G, \A p \in Cells : F[p] \in Int /\ G[p] \in Int /\ F[p] <= G[p]
  PROVE  /\ CellSum(F) <= CellSum(G)
         /\ (\E p \in Cells : F[p] < G[p]) => CellSum(F) < CellSum(G)
<1>0. Width \in Nat /\ Height \in Nat
  BY GridAssumption
<1>1. ASSUME NEW r \in 1..Height
      PROVE  /\ RowSum(F, r) \in Int /\ RowSum(G, r) \in Int
             /\ RowSum(F, r) <= RowSum(G, r)
             /\ (\E c \in 1..Width : F[<<c - 1, r - 1>>] < G[<<c - 1, r - 1>>]) => RowSum(F, r) < RowSum(G, r)
  <2> DEFINE f == [c \in 1..Width |-> F[<<c - 1, r - 1>>]]
             g == [c \in 1..Width |-> G[<<c - 1, r - 1>>]]
  <2>1. \A k \in 1..Width : f[k] \in Int /\ g[k] \in Int /\ f[k] <= g[k]
    BY CellNumbers
  <2>2. \A k \in 1..Width : f[k] = F[<<k - 1, r - 1>>] /\ g[k] = G[<<k - 1, r - 1>>]
    OBVIOUS
  <2> HIDE DEF f, g
  <2>3. /\ Total(f, Width) <= Total(g, Width)
        /\ (\E k \in 1..Width : f[k] < g[k]) => Total(f, Width) < Total(g, Width)
    BY <1>0, <2>1, TotalOrder
  <2>4. RowSum(F, r) = Total(f, Width) /\ RowSum(G, r) = Total(g, Width)
    BY DEF f, g, RowSum
  <2>5. RowSum(F, r) \in Int /\ RowSum(G, r) \in Int
    BY RowSumType
  <2> QED
    BY <2>2, <2>3, <2>4, <2>5
<1> DEFINE f == [r \in 1..Height |-> RowSum(F, r)]
           g == [r \in 1..Height |-> RowSum(G, r)]
<1>2. \A k \in 1..Height : f[k] \in Int /\ g[k] \in Int /\ f[k] <= g[k]
  BY <1>1
<1>3. \A k \in 1..Height : f[k] = RowSum(F, k) /\ g[k] = RowSum(G, k)
  OBVIOUS
<1>4. CellSum(F) = Total(f, Height) /\ CellSum(G) = Total(g, Height)
  BY DEF CellSum
<1> HIDE DEF f, g
<1>5. /\ Total(f, Height) <= Total(g, Height)
      /\ (\E k \in 1..Height : f[k] < g[k]) => Total(f, Height) < Total(g, Height)
  BY <1>0, <1>2, TotalOrder
<1>6. ASSUME NEW p \in Cells, F[p] < G[p]
      PROVE  \E k \in 1..Height : f[k] < g[k]
  <2>1. PICK c \in 1..Width, r \in 1..Height : p = <<c - 1, r - 1>>
    <3>1. p = <<p[1], p[2]>> /\ p[1] \in 0..Width - 1 /\ p[2] \in 0..Height - 1
      BY DEF Cells
    <3>2. PICK c \in Int, r \in Int : c = p[1] + 1 /\ r = p[2] + 1
      BY <3>1
    <3>3. c \in 1..Width /\ r \in 1..Height /\ c - 1 = p[1] /\ r - 1 = p[2]
      BY <1>0, <3>1, <3>2
    <3> QED
      BY <3>1, <3>3
  <2>2. RowSum(F, r) < RowSum(G, r)
    BY <1>1, <1>6, <2>1
  <2> QED
    BY <1>3, <2>2
<1> QED
  BY <1>4, <1>5, <1>6

\* A side going down counts for the cells of its row up to its own, one going up, against
\* them, for those before its own.
LEMMA CellSumOfCrossing ==
  ASSUME NEW s \in AnySide, s[1] \in Cells, NEW F, \A p \in Cells : F[p] = Crossing(s, p)
  PROVE  CellSum(F) = Moment(s)
<1>0. Width \in Nat /\ Height \in Nat
  BY GridAssumption
<1>1. PICK x \in Int, y \in Int : SideOf(s, x, y)
  BY SideParts
<1>2. s[1] = <<x, y>> /\ s[2] \in {1, 2, 3, 4}
  BY <1>1 DEF SideOf
<1>3. x \in 0..(Width - 1) /\ y \in 0..(Height - 1)
  BY <1>0, <1>2 DEF Cells
<1>4. PICK a \in Int, v \in Int :
        \/ s[2] = 2 /\ a = x + 1 /\ v = 1
        \/ s[2] = 4 /\ a = x /\ v = -1
        \/ s[2] \in {1, 3} /\ a = x /\ v = 0
  <2>1. x + 1 \in Int /\ x \in Int /\ 1 \in Int /\ -1 \in Int /\ 0 \in Int
    OBVIOUS
  <2> QED
    BY <1>2, <2>1
<1>5. a \in 0..Width /\ a * v = Moment(s)
  <2>1. a \in 0..Width
    BY <1>0, <1>3, <1>4
  <2>2. CASE s[2] = 2 /\ a = x + 1 /\ v = 1
    <3>1. Moment(s) = x + 1 /\ a * v = a
      BY <1>2, <2>2 DEF Moment
    <3> QED
      BY <2>1, <2>2, <3>1
  <2>3. CASE s[2] = 4 /\ a = x /\ v = -1
    <3>1. Moment(s) = -x /\ a * v = -a
      BY <1>2, <2>3 DEF Moment
    <3> QED
      BY <2>1, <2>3, <3>1
  <2>4. CASE s[2] \in {1, 3} /\ a = x /\ v = 0
    <3>1. Moment(s) = 0 /\ a * v = 0
      BY <1>2, <2>4 DEF Moment
    <3> QED
      BY <2>1, <2>4, <3>1
  <2> QED
    BY <1>4, <2>1, <2>2, <2>3, <2>4
<1>7. PICK w \in Int : w = a * v
  OBVIOUS
<1>6. ASSUME NEW r \in 1..Height
      PROVE  RowSum(F, r) = IF r = y + 1 THEN w ELSE 0
  <2> DEFINE f == [c \in 1..Width |-> F[<<c - 1, r - 1>>]]
  <2>1. ASSUME NEW k \in 1..Width
        PROVE  f[k] = IF r = y + 1 THEN (IF k <= a THEN v ELSE 0) ELSE 0
    <3>1. f[k] = Crossing(s, <<k - 1, r - 1>>)
      BY CellNumbers
    <3> HIDE DEF f
    <3>2. k \in Int /\ r \in Int
      OBVIOUS
    <3> QED
      BY <1>2, <1>4, <3>1, <3>2 DEF Crossing
  <2>2. RowSum(F, r) = Total(f, Width)
    BY DEF RowSum
  <2> HIDE DEF f
  <2>3. CASE r = y + 1
    <3>1. FirstOnes(f, Width, a, v)
      BY <2>1, <2>3 DEF FirstOnes
    <3>2. a \in 0..Width /\ v \in Int
      BY <1>5
    <3>3. Total(f, Width) = a * v
      BY <1>0, <3>1, <3>2, TotalOfFirst
    <3> QED
      BY <1>7, <2>2, <2>3, <3>3
  <2>4. CASE r # y + 1
    <3>1. \A k \in 1..Width : f[k] = 0
      BY <2>1, <2>4
    <3>2. Total(f, Width) = 0
      BY <1>0, <3>1, TotalOfNone
    <3> QED
      BY <2>2, <2>4, <3>2
  <2> QED
    BY <2>3, <2>4
<1> DEFINE g == [r \in 1..Height |-> RowSum(F, r)]
<1>8. PICK b \in 1..Height : b = y + 1
  BY <1>0, <1>3
<1>9. \A r \in 1..Height : g[r] = IF r = b THEN w ELSE 0
  BY <1>6, <1>8
<1>10. CellSum(F) = Total(g, Height)
  BY DEF CellSum
<1> HIDE DEF g
<1>11. Total(g, Height) = w
  BY <1>0, <1>9, TotalOfOne
<1> QED
  BY <1>5, <1>7, <1>10, <1>11

\* Nothing adds up to nothing.
LEMMA CellSumOfNone ==
  ASSUME NEW F, \A p \in Cells : F[p] = 0
  PROVE  CellSum(F) = 0
<1>0. Width \in Nat /\ Height \in Nat
  BY GridAssumption
<1>1. ASSUME NEW r \in 1..Height
      PROVE  RowSum(F, r) = 0
  <2> DEFINE f == [c \in 1..Width |-> F[<<c - 1, r - 1>>]]
  <2>1. \A k \in 1..Width : f[k] = 0
    BY CellNumbers
  <2> HIDE DEF f
  <2>2. Total(f, Width) = 0
    BY <1>0, <2>1, TotalOfNone
  <2> QED
    BY <2>2 DEF f, RowSum
<1> DEFINE g == [r \in 1..Height |-> RowSum(F, r)]
<1>2. \A r \in 1..Height : g[r] = 0
  BY <1>1
<1> HIDE DEF g
<1>3. Total(g, Height) = 0
  BY <1>0, <1>2, TotalOfNone
<1> QED
  BY <1>3 DEF g, CellSum

\* The area a closed trail encloses is how often it winds around the cells, all together.
LEMMA AreaIsWinding ==
  ASSUME NEW L, NEW n, Trail(L, n), \A i \in 1..n : L[i][1] \in Cells
  PROVE  cornerArea([i \in 1..n |-> From(L[i])]) = 2 * CellSum([p \in Cells |-> Winding(L, n, p)])
<1> DEFINE m == [i \in 1..n |-> Moment(L[i])]
           f(p) == [i \in 1..n |-> Crossing(L[i], p)]
           F(k) == [p \in Cells |-> Total(f(p), k)]
           T == {k \in 0..n : CellSum(F(k)) = Total(m, k)}
<1>0. n \in Nat /\ n \in 0..n
  BY DEF Trail
<1>1. ASSUME NEW i \in 1..n
      PROVE  L[i] \in AnySide /\ m[i] \in Int /\ m[i] = Moment(L[i])
  <2>1. L[i] \in AnySide
    BY DEF Trail
  <2>2. PICK x \in Int, y \in Int : SideOf(L[i], x, y)
    BY <2>1, SideParts
  <2>3. Moment(L[i]) \in Int
    BY <2>2 DEF SideOf, Moment
  <2> QED
    BY <2>1, <2>3
<1>2. /\ Total(m, 0) = 0
      /\ \A k \in 0..(n - 1) : Total(m, k + 1) = Total(m, k) + m[k + 1]
  <2> HIDE DEF m
  <2> QED
    BY <1>0, <1>1, TotalSteps
<1>3. ASSUME NEW p
      PROVE  /\ Total(f(p), 0) = 0
             /\ \A k \in 0..(n - 1) : Total(f(p), k + 1) = Total(f(p), k) + Crossing(L[k + 1], p)
             /\ \A k \in 0..n : Total(f(p), k) \in Int
  <2> DEFINE g == f(p)
  <2>1. \A i \in 1..n : g[i] \in Int /\ g[i] = Crossing(L[i], p)
    BY DEF Crossing
  <2> HIDE DEF g
  <2>2. /\ Total(g, 0) = 0
        /\ \A k \in 0..(n - 1) : Total(g, k + 1) = Total(g, k) + g[k + 1]
        /\ \A k \in 0..n : Total(g, k) \in Int
    BY <1>0, <2>1, TotalSteps
  <2>3. \A k \in 0..(n - 1) : g[k + 1] = Crossing(L[k + 1], p)
    BY <1>0, <2>1
  <2>4. /\ Total(g, 0) = 0
        /\ \A k \in 0..(n - 1) : Total(g, k + 1) = Total(g, k) + Crossing(L[k + 1], p)
        /\ \A k \in 0..n : Total(g, k) \in Int
    BY <2>2, <2>3
  <2> QED
    BY <2>4 DEF g
<1>4. 0 \in T
  <2>1. \A p \in Cells : F(0)[p] = 0
    BY <1>3
  <2>2. CellSum(F(0)) = 0
    <3> HIDE DEF F
    <3> QED
      BY <2>1, CellSumOfNone
  <2> HIDE DEF F, m
  <2> QED
    BY <1>0, <1>2, <2>2
<1>5. ASSUME NEW k \in 0..(n - 1), k \in T
      PROVE  k + 1 \in T
  <2> DEFINE H == [p \in Cells |-> Crossing(L[k + 1], p)]
  <2>1. k + 1 \in 1..n /\ k + 1 \in 0..n /\ k \in 0..n
    BY <1>0
  <2>2. \A p \in Cells : F(k)[p] \in Int /\ H[p] \in Int /\ F(k + 1)[p] = F(k)[p] + H[p]
    BY <1>3, <2>1 DEF Crossing
  <2>3. \A p \in Cells : H[p] = Crossing(L[k + 1], p)
    OBVIOUS
  <2>4. CellSum(F(k)) = Total(m, k)
    BY <1>5
  <2> HIDE DEF F, H, m
  <2>5. CellSum(F(k + 1)) = CellSum(F(k)) + CellSum(H)
    BY <2>2, CellSumAdds
  <2>6. CellSum(H) = Moment(L[k + 1])
    BY <1>1, <2>1, <2>3, CellSumOfCrossing
  <2>7. CellSum(F(k + 1)) = Total(m, k + 1)
    BY <1>1, <1>2, <2>1, <2>4, <2>5, <2>6
  <2> QED
    BY <2>1, <2>7
<1>6. n \in T
  <2> HIDE DEF T
  <2>1. \A k \in 0..n : k \in T
    BY <1>0, <1>4, <1>5, UpTo
  <2> QED
    BY <1>0, <2>1
<1>7. F(n) = [p \in Cells |-> Winding(L, n, p)]
  BY DEF Winding
<1>8. CellSum([p \in Cells |-> Winding(L, n, p)]) = Total([i \in 1..n |-> Moment(L[i])], n)
  BY <1>6, <1>7
<1> QED
  BY <1>8, AreaIsMoment

-----------------------------------------------------------------------------
(* Polygons to cells.                                                      *)

\* The least and the greatest of finitely many numbers.
Values(f, n) == {f[i] : i \in 1..n}

\* The values of a sequence of numbers have a least and a greatest among them.
LEMMA Extremes ==
  ASSUME NEW n \in Nat \ {0}, NEW f, \A i \in 1..n : f[i] \in Int
  PROVE  /\ Min(Values(f, n)) \in Int /\ \A i \in 1..n : Min(Values(f, n)) <= f[i]
         /\ Max(Values(f, n)) \in Int /\ \A i \in 1..n : f[i] <= Max(Values(f, n))
<1> DEFINE S == Values(f, n)
           T == {k \in 0..(n - 1) : /\ \E j \in 1..n : \A i \in 1..(k + 1) : f[j] <= f[i]
                                    /\ \E j \in 1..n : \A i \in 1..(k + 1) : f[i] <= f[j]}
<1>1. 0 \in T
  <2>1. 1 \in 1..n /\ 1..(0 + 1) = {1}
    OBVIOUS
  <2> QED
    BY <2>1
<1>2. ASSUME NEW k \in 0..((n - 1) - 1), k \in T
      PROVE  k + 1 \in T
  <2>1. (k + 1) + 1 \in 1..n /\ 1..((k + 1) + 1) = 1..(k + 1) \cup {(k + 1) + 1} /\ 1..(k + 1) \subseteq 1..n
        /\ k + 1 \in 0..(n - 1)
    OBVIOUS
  <2>2. PICK j \in 1..n : \A i \in 1..(k + 1) : f[j] <= f[i]
    BY <1>2
  <2>3. PICK l \in 1..n : \A i \in 1..(k + 1) : f[i] <= f[l]
    BY <1>2
  <2>4. \E x \in 1..n : \A i \in 1..((k + 1) + 1) : f[x] <= f[i]
    <3>1. CASE f[j] <= f[(k + 1) + 1]
      BY <2>1, <2>2, <3>1
    <3>2. CASE ~(f[j] <= f[(k + 1) + 1])
      BY <2>1, <2>2, <3>2
    <3> QED
      BY <3>1, <3>2
  <2>5. \E x \in 1..n : \A i \in 1..((k + 1) + 1) : f[i] <= f[x]
    <3>1. CASE f[(k + 1) + 1] <= f[l]
      BY <2>1, <2>3, <3>1
    <3>2. CASE ~(f[(k + 1) + 1] <= f[l])
      BY <2>1, <2>3, <3>2
    <3> QED
      BY <3>1, <3>2
  <2> QED
    BY <2>1, <2>4, <2>5
<1>3. n - 1 \in T
  <2> HIDE DEF T
  <2>1. n - 1 \in Nat /\ n - 1 \in 0..(n - 1)
    OBVIOUS
  <2> QED
    BY <1>1, <1>2, <2>1, UpTo
<1>4. (n - 1) + 1 = n
  OBVIOUS
<1>5. /\ \E j \in 1..n : \A i \in 1..n : f[j] <= f[i]
      /\ \E j \in 1..n : \A i \in 1..n : f[i] <= f[j]
  BY <1>3, <1>4
<1>6. (\E x \in S : \A y \in S : x <= y) /\ (\E x \in S : \A y \in S : x >= y)
  BY <1>5 DEF Values
<1>7. Min(S) \in S /\ \A y \in S : Min(S) <= y
  BY <1>6 DEF Min
<1>8. Max(S) \in S /\ \A y \in S : Max(S) >= y
  BY <1>6 DEF Max
<1> QED
  BY <1>7, <1>8 DEF Values

\* Products keep the order of their factors.
LEMMA Products ==
  ASSUME NEW x \in Int, NEW y \in Int, NEW z \in Int, x <= y
  PROVE  /\ z >= 0 => x * z <= y * z
         /\ z <= 0 => y * z <= x * z
<1>1. PICK d \in Nat : y = x + d
  <2>1. y - x \in Nat /\ y = x + (y - x)
    OBVIOUS
  <2> QED
    BY <2>1
<1>2. y * z = x * z + d * z
  BY <1>1
<1>3. z >= 0 => d * z >= 0
  OBVIOUS
<1>4. z <= 0 => d * z <= 0
  OBVIOUS
<1>5. x * z \in Int /\ d * z \in Int
  OBVIOUS
<1> QED
  BY <1>2, <1>3, <1>4, <1>5

Apart(q, a, b) == (a[2] > q[2]) # (b[2] > q[2])

\* The ray to the right crosses no side both of whose ends are to the left.
LEMMA CrossesLeft ==
  ASSUME NEW q \in Int \X Int, NEW a \in Int \X Int, NEW b \in Int \X Int, Crosses(q, a, b)
  PROVE  Apart(q, a, b) /\ (q[1] < a[1] \/ q[1] < b[1])
<1>1. Apart(q, a, b)
  BY DEF Crosses, Apart
<1>2. ASSUME q[1] >= a[1], q[1] >= b[1]
      PROVE  FALSE
  <2>1. PICK u \in Int, w \in Int, t \in Int, d \in Int :
          u = q[1] - a[1] /\ w = b[1] - a[1] /\ t = q[2] - a[2] /\ d = b[2] - a[2]
    OBVIOUS
  <2>2. u >= 0 /\ w <= u
    BY <1>2, <2>1
  <2>3. IF b[2] > a[2] THEN u * d < w * t ELSE u * d > w * t
    BY <2>1 DEF Crosses
  <2>4. u * d \in Int /\ w * t \in Int /\ u * t \in Int /\ u * d = d * u /\ u * t = t * u
    OBVIOUS
  <2>5. CASE b[2] > a[2]
    <3>1. t >= 0 /\ t <= d
      BY <1>1, <2>1, <2>5 DEF Apart
    <3>2. t * u <= d * u
      BY <2>2, <3>1, Products
    <3>3. w * t <= u * t
      BY <2>2, <3>1, Products
    <3> QED
      BY <2>3, <2>4, <2>5, <3>2, <3>3
  <2>6. CASE ~(b[2] > a[2])
    <3>1. t <= 0 /\ d <= t
      BY <1>1, <2>1, <2>6 DEF Apart
    <3>2. d * u <= t * u
      BY <2>2, <3>1, Products
    <3>3. u * t <= w * t
      BY <2>2, <3>1, Products
    <3> QED
      BY <2>3, <2>4, <2>6, <3>2, <3>3
  <2> QED
    BY <2>5, <2>6
<1> QED
  BY <1>1, <1>2

\* It crosses every side both of whose ends are to the right, one above it and one below.
LEMMA CrossesRight ==
  ASSUME NEW q \in Int \X Int, NEW a \in Int \X Int, NEW b \in Int \X Int, q[1] < a[1], q[1] < b[1],
         Apart(q, a, b)
  PROVE  Crosses(q, a, b)
<1>1. PICK u \in Int, w \in Int, t \in Int, d \in Int :
        u = q[1] - a[1] /\ w = b[1] - a[1] /\ t = q[2] - a[2] /\ d = b[2] - a[2]
  OBVIOUS
<1>2. u < 0 /\ u < w /\ u + 1 <= w /\ u <= 0 /\ u <= w
  BY <1>1
<1>3. u * d \in Int /\ w * t \in Int /\ u * t \in Int /\ u * d = d * u /\ u * t = t * u /\ (t + 1) * u = t * u + u
      /\ (u + 1) * t = u * t + t
  OBVIOUS
<1>4. CASE b[2] > a[2]
  <2>1. t >= 0 /\ t + 1 <= d
    BY <1>1, <1>4 DEF Apart
  <2>2. d * u <= (t + 1) * u
    BY <1>2, <2>1, Products
  <2>3. u * t <= w * t
    BY <1>2, <2>1, Products
  <2>4. u * d < w * t
    BY <1>2, <1>3, <2>2, <2>3
  <2> QED
    BY <1>1, <1>4, <2>4 DEF Crosses, Apart
<1>5. CASE ~(b[2] > a[2])
  <2>1. t < 0 /\ t <= 0 /\ d <= t
    BY <1>1, <1>5 DEF Apart
  <2>2. t * u <= d * u
    BY <1>2, <2>1, Products
  <2>3. w * t <= (u + 1) * t
    BY <1>2, <2>1, Products
  <2>4. u * d > w * t
    BY <1>3, <2>1, <2>2, <2>3
  <2> QED
    BY <1>1, <1>5, <2>4 DEF Crosses, Apart
<1> QED
  BY <1>4, <1>5

Before1(i, n) == IF i = 1 THEN n ELSE i - 1

\* Rasterize rounds the ends of a range outwards.
LEMMA HalfBelow ==
  ASSUME NEW v \in Int, NEW k \in Int, v <= 2 * k + 1
  PROVE  Half(v) \in Int /\ Half(v) <= k
BY DEF Half

\* And upwards.
LEMMA HalfUpAbove ==
  ASSUME NEW v \in Int, NEW k \in Int, v >= 2 * k
  PROVE  HalfUp(v) \in Int /\ HalfUp(v) >= k
BY DEF HalfUp

\* What lies between two ends and on the grid lies between the clamped ends.
LEMMA Clamped ==
  ASSUME NEW m \in Nat \ {0}, NEW c \in 0..m - 1, NEW u \in Int, NEW v \in Int, u <= c, v >= c
  PROVE  c \in clamp(u, 0, m - 1)..clamp(v, 0, m - 1)
BY DEF clamp

\* A point to the left of all corners is outside: as many sides cross its row downwards as
\* upwards.
LEMMA LeftIsOutside ==
  ASSUME NEW n \in Nat \ {0}, NEW poly \in [1..n -> Int \X Int], NEW q \in Int \X Int,
         \A i \in 1..n : q[1] < poly[i][1]
  PROVE  Cardinality({i \in 1..n : Crosses(q, poly[i], poly[Before1(i, n)])}) % 2 = 0
<1> DEFINE g == [i \in 1..n |-> IF poly[i][2] > q[2] THEN 1 ELSE 0]
           h == [i \in 1..n |-> g[Before1(i, n)]]
           f == [i \in 1..n |-> h[i] - g[i]]
           crossed == {i \in 1..n : Crosses(q, poly[i], poly[Before1(i, n)])}
<1>0. n \in Nat
  OBVIOUS
<1>1. ASSUME NEW i \in 1..n
      PROVE  /\ Before1(i, n) \in 1..n /\ Before1(i, n) = IF i = 1 THEN n ELSE i - 1
             /\ g[i] \in {0, 1} /\ h[i] = g[Before1(i, n)] /\ h[i] \in {0, 1} /\ f[i] = h[i] - g[i]
             /\ i \in crossed <=> f[i] # 0
  <2>1. Before1(i, n) \in 1..n /\ Before1(i, n) = IF i = 1 THEN n ELSE i - 1
    BY DEF Before1
  <2>2. g[i] \in {0, 1} /\ h[i] = g[Before1(i, n)] /\ h[i] \in {0, 1} /\ f[i] = h[i] - g[i]
    BY <2>1
  <2>3. i \in crossed <=> Apart(q, poly[i], poly[Before1(i, n)])
    <3>1. poly[i] \in Int \X Int /\ poly[Before1(i, n)] \in Int \X Int
          /\ q[1] < poly[i][1] /\ q[1] < poly[Before1(i, n)][1]
      BY <2>1
    <3> QED
      BY <3>1, CrossesLeft, CrossesRight
  <2>4. f[i] # 0 <=> Apart(q, poly[i], poly[Before1(i, n)])
    <3>1. g[i] = IF poly[i][2] > q[2] THEN 1 ELSE 0
      OBVIOUS
    <3>2. h[i] = IF poly[Before1(i, n)][2] > q[2] THEN 1 ELSE 0
      BY <2>1
    <3>3. f[i] # 0 <=> g[i] # h[i]
      BY <2>2
    <3> HIDE DEF f, g, h
    <3>4. g[i] # h[i] <=> ((poly[i][2] > q[2]) # (poly[Before1(i, n)][2] > q[2]))
      BY ONLY <3>1, <3>2
    <3>5. Apart(q, poly[i], poly[Before1(i, n)]) <=> ((poly[i][2] > q[2]) # (poly[Before1(i, n)][2] > q[2]))
      BY ONLY DEF Apart
    <3> QED
      BY ONLY <3>3, <3>4, <3>5
  <2> HIDE DEF crossed, f, g, h
  <2> QED
    BY <2>1, <2>2, <2>3, <2>4
<1>2. crossed = {i \in 1..n : f[i] # 0}
  <2> HIDE DEF f
  <2> QED
    BY <1>1
<1> HIDE DEF f, g, h, crossed
<1>3. /\ \A i \in 1..n : g[i] \in Int
      /\ \A i \in 1..n : f[i] \in Int
      /\ \A i \in 1..n : f[i] \in {0, 1, -1}
      /\ \A i \in 1..n : f[i] \in Int /\ g[i] \in Int /\ h[i] = f[i] + g[i]
      /\ \A i \in 1..n : h[i] = g[IF i = 1 THEN n ELSE i - 1]
  <2> SUFFICES ASSUME NEW i \in 1..n
               PROVE  /\ g[i] \in Int /\ f[i] \in Int /\ f[i] \in {0, 1, -1} /\ h[i] = f[i] + g[i]
                      /\ h[i] = g[IF i = 1 THEN n ELSE i - 1]
    OBVIOUS
  <2>1. h[i] = g[IF i = 1 THEN n ELSE i - 1]
    BY <1>1
  <2>2. g[i] \in {0, 1} /\ h[i] \in {0, 1} /\ f[i] = h[i] - g[i]
    BY <1>1
  <2>3. PICK x \in {0, 1}, y \in {0, 1} : x = g[i] /\ y = h[i] /\ f[i] = y - x
    BY <2>2
  <2>4. x \in Int /\ y - x \in Int /\ y - x \in {0, 1, -1} /\ y = (y - x) + x
    OBVIOUS
  <2> QED
    BY <2>1, <2>3, <2>4
<1>4. Total(h, n) = Total(g, n)
  BY <1>3, TotalTurned
<1>5. Total(h, n) = Total(f, n) + Total(g, n)
  BY <1>0, <1>3, TotalAdds
<1>6. Total(f, n) \in Int /\ Total(g, n) \in Int
  <2>1. n \in 0..n
    OBVIOUS
  <2> QED
    BY <1>0, <1>3, <2>1, TotalSteps
<1>7. \E z \in Int : Cardinality({i \in 1..n : f[i] # 0}) = Total(f, n) + 2 * z
  BY <1>0, <1>3, TotalParity
<1>8. Total(f, n) = 0
  BY <1>4, <1>5, <1>6
<1>9. PICK z \in Int : Cardinality({i \in 1..n : f[i] # 0}) = Total(f, n) + 2 * z
  BY <1>7
<1>10. Cardinality(crossed) = 2 * z
  BY <1>2, <1>8, <1>9
<1> QED
  BY <1>10 DEF crossed

\* Rasterize looks at the cells within the bounds of the polygon only, to the cell, and never
\* beyond the grid: it loses no cell whose centre is inside.
THEOREM RasterizeIsExact ==
  ASSUME NEW poly \in Seq(Int \X Int), Len(poly) >= 3
  PROVE  Rasterize(poly) = {p \in Cells : pointInPoly(PixelToWorldCenter(p), poly)}
<1> DEFINE n == Len(poly)
           xs == {poly[i][1] : i \in DOMAIN poly}
           ys == {poly[i][2] : i \in DOMAIN poly}
           box == ColRange(Min(xs), Max(xs)) \X RowRange(Min(ys), Max(ys))
<1>1. n \in Nat \ {0} /\ poly \in [1..n -> Int \X Int] /\ DOMAIN poly = 1..n
  OBVIOUS
<1>2. Rasterize(poly) = {p \in box : pointInPoly(PixelToWorldCenter(p), poly)}
  BY DEF Rasterize
<1> HIDE DEF n
<1>3. /\ \A i \in 1..n : Min(xs) <= poly[i][1] /\ poly[i][1] <= Max(xs)
      /\ Min(xs) \in Int /\ Max(xs) \in Int
  <2> DEFINE f == [i \in 1..n |-> poly[i][1]]
  <2>1. \A i \in 1..n : f[i] \in Int /\ f[i] = poly[i][1]
    BY <1>1
  <2>2. xs = Values(f, n)
    BY <1>1 DEF Values
  <2> HIDE DEF f, xs
  <2>3. /\ Min(xs) \in Int /\ \A i \in 1..n : Min(xs) <= f[i]
        /\ Max(xs) \in Int /\ \A i \in 1..n : f[i] <= Max(xs)
    BY <1>1, <2>1, <2>2, Extremes
  <2> QED
    BY <2>1, <2>3
<1>4. /\ \A i \in 1..n : Min(ys) <= poly[i][2] /\ poly[i][2] <= Max(ys)
      /\ Min(ys) \in Int /\ Max(ys) \in Int
  <2> DEFINE f == [i \in 1..n |-> poly[i][2]]
  <2>1. \A i \in 1..n : f[i] \in Int /\ f[i] = poly[i][2]
    BY <1>1
  <2>2. ys = Values(f, n)
    BY <1>1 DEF Values
  <2> HIDE DEF f, ys
  <2>3. /\ Min(ys) \in Int /\ \A i \in 1..n : Min(ys) <= f[i]
        /\ Max(ys) \in Int /\ \A i \in 1..n : f[i] <= Max(ys)
    BY <1>1, <2>1, <2>2, Extremes
  <2> QED
    BY <2>1, <2>3
<1>5. PICK x0 \in Int, x1 \in Int, y0 \in Int, y1 \in Int :
        x0 = Min(xs) /\ x1 = Max(xs) /\ y0 = Min(ys) /\ y1 = Max(ys)
  BY <1>3, <1>4
<1> HIDE DEF xs, ys
<1>6. OriginX \in Int /\ OriginY \in Int /\ Width \in Nat \ {0} /\ Height \in Nat \ {0}
  BY OriginAssumption, GridAssumption
<1>7. box \subseteq Cells
  <2>1. ColRange(x0, x1) \subseteq 0..Width - 1 /\ RowRange(y0, y1) \subseteq 0..Height - 1
    BY <1>6 DEF ColRange, RowRange, clamp, Half, HalfUp
  <2> QED
    BY <1>5, <2>1 DEF Cells
<1>8. ASSUME NEW p \in Cells, pointInPoly(PixelToWorldCenter(p), poly)
      PROVE  p \in box
  <2>1. PICK c \in Int, r \in Int : p = <<c, r>> /\ c \in 0..Width - 1 /\ r \in 0..Height - 1
    BY <1>6 DEF Cells
  <2>0. PixelToWorldCenter(p) = <<OriginX + 2 * c + 1, OriginY + 2 * (Height - r) - 1>>
    BY <2>1 DEF PixelToWorldCenter
  <2>2. PICK q : q = PixelToWorldCenter(p) /\ q \in Int \X Int
                 /\ q[1] = OriginX + 2 * c + 1 /\ q[2] = OriginY + 2 * (Height - r) - 1
    <3>1. OriginX + 2 * c + 1 \in Int /\ OriginY + 2 * (Height - r) - 1 \in Int
      BY <1>6
    <3>2. PICK x \in Int, y \in Int : x = OriginX + 2 * c + 1 /\ y = OriginY + 2 * (Height - r) - 1
      BY <3>1
    <3>3. PixelToWorldCenter(p) = <<x, y>>
      BY <2>0, <3>2
    <3>4. <<x, y>> \in Int \X Int /\ <<x, y>>[1] = x /\ <<x, y>>[2] = y
      OBVIOUS
    <3>5. PICK q : q = PixelToWorldCenter(p)
      OBVIOUS
    <3>6. q \in Int \X Int /\ q[1] = x /\ q[2] = y
      BY <3>3, <3>4, <3>5
    <3> QED
      BY <3>2, <3>5, <3>6
  <2> DEFINE crossed == {i \in 1..n : Crosses(q, poly[i], poly[IF i = 1 THEN n ELSE i - 1])}
  <2>3. Cardinality(crossed) % 2 = 1
    BY <1>8, <2>2 DEF pointInPoly, n
  <2>4. crossed = {i \in 1..n : Crosses(q, poly[i], poly[Before1(i, n)])}
    BY DEF Before1
  <2>5. PICK i \in 1..n : Crosses(q, poly[i], poly[Before1(i, n)])
    <3>1. crossed # {}
      <4> SUFFICES ASSUME crossed = {} PROVE FALSE
        OBVIOUS
      <4>1. Cardinality(crossed) = 0
        BY FS_EmptySet
      <4> HIDE DEF crossed
      <4> QED
        BY <2>3, <4>1
    <3> QED
      BY <2>4, <3>1
  <2>6. Before1(i, n) \in 1..n /\ poly[i] \in Int \X Int /\ poly[Before1(i, n)] \in Int \X Int
    BY <1>1 DEF Before1
  <2>7. Apart(q, poly[i], poly[Before1(i, n)]) /\ (q[1] < poly[i][1] \/ q[1] < poly[Before1(i, n)][1])
    BY <2>2, <2>5, <2>6, CrossesLeft
  <2>8. y0 <= q[2] /\ q[2] < y1 /\ q[1] < x1
    <3>1. PICK j \in 1..n : j = Before1(i, n)
      BY <2>6
    <3>2. /\ q[1] \in Int /\ q[2] \in Int
          /\ poly[i][1] \in Int /\ poly[i][2] \in Int /\ poly[j][1] \in Int /\ poly[j][2] \in Int
      BY <2>2, <2>6, <3>1
    <3>3. /\ poly[i][1] <= x1 /\ poly[j][1] <= x1 /\ y0 <= poly[i][2] /\ y0 <= poly[j][2]
          /\ poly[i][2] <= y1 /\ poly[j][2] <= y1
      BY <1>3, <1>4, <1>5
    <3>4. \/ poly[i][2] > q[2] /\ ~(poly[j][2] > q[2])
          \/ poly[j][2] > q[2] /\ ~(poly[i][2] > q[2])
      BY <2>7, <3>1 DEF Apart
    <3>5. q[1] < poly[i][1] \/ q[1] < poly[j][1]
      BY <2>7, <3>1
    <3>6. PICK a1 \in Int, a2 \in Int, b1 \in Int, b2 \in Int, q1 \in Int, q2 \in Int :
            /\ a1 = poly[i][1] /\ a2 = poly[i][2] /\ b1 = poly[j][1] /\ b2 = poly[j][2]
            /\ q1 = q[1] /\ q2 = q[2]
      BY <3>2
    <3>7. /\ a1 <= x1 /\ b1 <= x1 /\ y0 <= a2 /\ y0 <= b2 /\ a2 <= y1 /\ b2 <= y1
          /\ (a2 > q2 /\ ~(b2 > q2)) \/ (b2 > q2 /\ ~(a2 > q2))
          /\ q1 < a1 \/ q1 < b1
      BY <3>3, <3>4, <3>5, <3>6
    <3>8. y0 <= q2 /\ q2 < y1 /\ q1 < x1
      BY <3>7
    <3> QED
      BY <3>6, <3>8
  <2>9. x0 <= q[1]
    <3>1. ~(\A k \in 1..n : q[1] < poly[k][1])
      <4> HIDE DEF crossed
      <4>1. Cardinality(crossed) % 2 # 0
        BY <2>3
      <4> QED
        BY <1>1, <2>2, <2>4, <4>1, LeftIsOutside
    <3>2. PICK k \in 1..n : ~(q[1] < poly[k][1])
      BY <3>1
    <3>3. PICK x \in Int, u \in Int : x = poly[k][1] /\ u = q[1] /\ x0 <= x
      <4>1. poly[k][1] \in Int
        BY <1>1
      <4>2. x0 <= poly[k][1]
        BY <1>3, <1>5
      <4>3. q[1] \in Int
        BY <2>2
      <4> QED
        BY <4>1, <4>2, <4>3
    <3>4. ~(u < x) /\ x0 <= x
      BY <3>2, <3>3
    <3>5. x0 <= u
      BY ONLY <3>4, x0 \in Int, x \in Int, u \in Int
    <3> QED
      BY <3>3, <3>5
  <2>10. c \in ColRange(x0, x1)
    <3>1. x0 - OriginX \in Int /\ x0 - OriginX <= 2 * c + 1 /\ x1 - OriginX \in Int /\ x1 - OriginX >= 2 * c
      BY <1>6, <2>2, <2>8, <2>9
    <3>2. Half(x0 - OriginX) \in Int /\ Half(x0 - OriginX) <= c
      BY <3>1, HalfBelow
    <3>3. HalfUp(x1 - OriginX) \in Int /\ HalfUp(x1 - OriginX) >= c
      BY <3>1, HalfUpAbove
    <3> QED
      BY <1>6, <2>1, <3>2, <3>3, Clamped DEF ColRange
  <2>11. r \in RowRange(y0, y1)
    <3>0. PICK k \in Int : k = Height - r
      BY <1>6
    <3>1. /\ y0 - OriginY \in Int /\ y0 - OriginY <= 2 * k + 1
          /\ y1 - OriginY \in Int /\ y1 - OriginY >= 2 * k
      BY <1>6, <2>2, <2>8, <3>0
    <3>2. Half(y0 - OriginY) \in Int /\ Half(y0 - OriginY) <= k
      BY <3>1, HalfBelow
    <3>3. HalfUp(y1 - OriginY) \in Int /\ HalfUp(y1 - OriginY) >= k
      BY <3>1, HalfUpAbove
    <3>4. PICK u \in Int, v \in Int : u = Half(y0 - OriginY) /\ v = HalfUp(y1 - OriginY)
      BY <3>2, <3>3
    <3>5. u <= k /\ v >= k /\ k = Height - r /\ Height \in Int
      BY <1>6, <3>0, <3>2, <3>3, <3>4
    <3>6. Height - u \in Int /\ Height - v \in Int /\ Height - u >= r /\ Height - v <= r
      BY ONLY <3>5, r \in Int, k \in Int, u \in Int, v \in Int
    <3>7. r \in clamp(Height - v, 0, Height - 1)..clamp(Height - u, 0, Height - 1)
      BY <1>6, <2>1, <3>6, Clamped
    <3> QED
      BY <3>4, <3>7 DEF RowRange
  <2> QED
    BY <1>5, <2>1, <2>10, <2>11
<1> HIDE DEF box
<1> QED
  BY <1>2, <1>7, <1>8

-----------------------------------------------------------------------------
(* The polygon of a closed trail.                                          *)

\* The ends of a side are on different sides of the ray's row: one is above, the other is not.
LEMMA ApartCases ==
  ASSUME NEW q, NEW a, NEW b
  PROVE  Apart(q, a, b) <=> \/ a[2] > q[2] /\ ~(b[2] > q[2])
                            \/ b[2] > q[2] /\ ~(a[2] > q[2])
BY DEF Apart

\* The ray from the centre of a cell crosses the sides that count.
LEMMA CrossesIsCrossing ==
  ASSUME NEW s \in AnySide, NEW p \in Int \X Int
  PROVE  Crosses(PixelToWorldCenter(p), CornerToWorld(To(s)), CornerToWorld(From(s))) <=> Crossing(s, p) # 0
<1>1. PICK x \in Int, y \in Int : SideOf(s, x, y)
  BY SideParts
<1>2. PICK c \in Int, r \in Int : p = <<c, r>>
  OBVIOUS
<1>3. OriginX \in Int /\ OriginY \in Int /\ Height \in Int
  BY OriginAssumption, GridAssumption
<1> DEFINE q == PixelToWorldCenter(p)
           W(u, v) == CornerToWorld(<<u, v>>)
           Parted(v, b) == (v <= r /\ ~(b <= r)) \/ (b <= r /\ ~(v <= r))
<1>4. /\ q[1] = OriginX + 2 * c + 1 /\ q[2] = OriginY + 2 * (Height - r) - 1
      /\ q \in Int \X Int
  BY <1>2, <1>3 DEF PixelToWorldCenter
<1>5. ASSUME NEW u \in Int, NEW v \in Int
      PROVE  /\ W(u, v) \in Int \X Int
             /\ W(u, v)[1] = OriginX + 2 * u /\ W(u, v)[2] = OriginY + 2 * (Height - v)
             /\ q[1] < W(u, v)[1] <=> c < u
             /\ W(u, v)[2] > q[2] <=> v <= r
  <2>1. /\ W(u, v) \in Int \X Int
        /\ W(u, v)[1] = OriginX + 2 * u /\ W(u, v)[2] = OriginY + 2 * (Height - v)
    BY <1>3 DEF CornerToWorld
  <2> HIDE DEF q, W
  <2> QED
    BY <1>3, <1>4, <2>1
<1> HIDE DEF q, W
<1>6. ASSUME NEW u \in Int, NEW v \in Int, NEW a \in Int, NEW b \in Int
      PROVE  Crosses(q, W(u, v), W(a, b)) => Parted(v, b) /\ (c < u \/ c < a)
  <2>1. W(u, v) \in Int \X Int /\ W(a, b) \in Int \X Int
    BY <1>5
  <2>2. Crosses(q, W(u, v), W(a, b)) =>
          Apart(q, W(u, v), W(a, b)) /\ (q[1] < W(u, v)[1] \/ q[1] < W(a, b)[1])
    BY <1>4, <2>1, CrossesLeft
  <2>3. Apart(q, W(u, v), W(a, b)) <=> \/ W(u, v)[2] > q[2] /\ ~(W(a, b)[2] > q[2])
                                       \/ W(a, b)[2] > q[2] /\ ~(W(u, v)[2] > q[2])
    BY ApartCases
  <2> QED
    BY <1>5, <2>2, <2>3
<1>7. ASSUME NEW u \in Int, NEW v \in Int, NEW b \in Int, Parted(v, b), c < u
      PROVE  Crosses(q, W(u, v), W(u, b))
  <2>1. /\ W(u, v) \in Int \X Int /\ W(u, b) \in Int \X Int
        /\ q[1] < W(u, v)[1] /\ q[1] < W(u, b)[1]
        /\ Apart(q, W(u, v), W(u, b))
    BY <1>5, <1>7, ApartCases
  <2> QED
    BY <1>4, <2>1, CrossesRight
<1>8. x + 1 \in Int /\ y + 1 \in Int
  OBVIOUS
<1>9. CASE s = <<<<x, y>>, 1>> /\ From(s) = <<x, y>> /\ To(s) = <<x + 1, y>>
  <2>1. ~Crosses(q, W(x + 1, y), W(x, y))
    BY <1>6, <1>8
  <2>2. Crossing(s, p) = 0
    BY <1>9 DEF Crossing
  <2> QED
    BY <1>9, <2>1, <2>2 DEF q, W
<1>10. CASE s = <<<<x, y>>, 2>> /\ From(s) = <<x + 1, y>> /\ To(s) = <<x + 1, y + 1>>
  <2>1. Crosses(q, W(x + 1, y + 1), W(x + 1, y)) <=> y = r /\ c < x + 1
    <3>1. Parted(y + 1, y) <=> y = r
      OBVIOUS
    <3> QED
      BY <1>6, <1>7, <1>8, <3>1
  <2>2. Crossing(s, p) # 0 <=> y = r /\ c < x + 1
    BY <1>2, <1>10 DEF Crossing
  <2> QED
    BY <1>10, <2>1, <2>2 DEF q, W
<1>11. CASE s = <<<<x, y>>, 3>> /\ From(s) = <<x + 1, y + 1>> /\ To(s) = <<x, y + 1>>
  <2>1. ~Crosses(q, W(x, y + 1), W(x + 1, y + 1))
    BY <1>6, <1>8
  <2>2. Crossing(s, p) = 0
    BY <1>11 DEF Crossing
  <2> QED
    BY <1>11, <2>1, <2>2 DEF q, W
<1>12. CASE s = <<<<x, y>>, 4>> /\ From(s) = <<x, y + 1>> /\ To(s) = <<x, y>>
  <2>1. Crosses(q, W(x, y), W(x, y + 1)) <=> y = r /\ c < x
    <3>1. Parted(y, y + 1) <=> y = r
      OBVIOUS
    <3> QED
      BY <1>6, <1>7, <1>8, <3>1
  <2>2. Crossing(s, p) # 0 <=> y = r /\ c < x
    BY <1>2, <1>12 DEF Crossing
  <2> QED
    BY <1>12, <2>1, <2>2 DEF q, W
<1> QED
  BY <1>1, <1>9, <1>10, <1>11, <1>12 DEF SideOf

PolygonOf(L, n) == [i \in 1..n |-> CornerToWorld(From(L[i]))]

\* A point is inside a polygon whose sides cross the ray from it once more in one direction, and
\* outside if as often in both.
LEMMA InsideIsTotal ==
  ASSUME NEW n \in Nat, n >= 3, NEW q, NEW poly, Len(poly) = n, NEW g,
         \A i \in 1..n : g[i] \in {0, 1, -1},
         \A i \in 1..n : Crosses(q, poly[Next1(i, n)], poly[i]) <=> g[i] # 0,
         Total(g, n) \in {0, 1}
  PROVE  pointInPoly(q, poly) <=> Total(g, n) = 1
<1> DEFINE f == [i \in 1..n |-> g[IF i = 1 THEN n ELSE i - 1]]
           crossed == {i \in 1..n : Crosses(q, poly[i], poly[IF i = 1 THEN n ELSE i - 1])}
<1>2. pointInPoly(q, poly) <=> Cardinality(crossed) % 2 = 1
  BY DEF pointInPoly
<1>3. ASSUME NEW i \in 1..n
      PROVE  /\ g[i] \in Int
             /\ f[i] = g[IF i = 1 THEN n ELSE i - 1] /\ f[i] \in {0, 1, -1}
             /\ Crosses(q, poly[i], poly[IF i = 1 THEN n ELSE i - 1]) <=> f[i] # 0
  <2>1. PICK j \in 1..n : j = IF i = 1 THEN n ELSE i - 1
    OBVIOUS
  <2>2. Next1(j, n) = i
    BY <2>1 DEF Next1
  <2>3. f[i] = g[j]
    BY <2>1
  <2>4. g[i] \in Int
    OBVIOUS
  <2> HIDE DEF f
  <2> QED
    BY <2>1, <2>2, <2>3, <2>4
<1>5. crossed = {i \in 1..n : f[i] # 0}
  <2> HIDE DEF f
  <2> QED
    BY <1>3
<1> HIDE DEF f, crossed
<1>6. Total(f, n) = Total(g, n)
  <2>1. \A k \in 1..n : g[k] \in Int
    BY <1>3
  <2>2. \A k \in 1..n : f[k] = g[IF k = 1 THEN n ELSE k - 1]
    BY <1>3
  <2> QED
    BY <2>1, <2>2, TotalTurned
<1>7. \E z \in Int : Cardinality({i \in 1..n : f[i] # 0}) = Total(f, n) + 2 * z
  <2>1. \A i \in 1..n : f[i] \in {0, 1, -1}
    BY <1>3
  <2> QED
    BY <2>1, TotalParity
<1>8. PICK z \in Int : Cardinality({i \in 1..n : f[i] # 0}) = Total(f, n) + 2 * z
  BY <1>7
<1>9. Cardinality(crossed) = Total(g, n) + 2 * z
  BY <1>5, <1>6, <1>8
<1>11. CASE Total(g, n) = 0
  <2>1. Cardinality(crossed) = 2 * z
    BY <1>9, <1>11
  <2>2. Cardinality(crossed) % 2 = 0
    BY <2>1
  <2> QED
    BY <1>2, <1>11, <2>2
<1>12. CASE Total(g, n) = 1
  <2>1. Cardinality(crossed) = 1 + 2 * z
    BY <1>9, <1>12
  <2>2. Cardinality(crossed) % 2 = 1
    BY <2>1
  <2> QED
    BY <1>2, <1>12, <2>2
<1> QED
  BY <1>11, <1>12

\* The cells inside the polygon of a trail that winds around them once at most are those it
\* winds around.
LEMMA InsideIsWinding ==
  ASSUME NEW L, NEW n, Trail(L, n), n >= 3, NEW p \in Int \X Int, Winding(L, n, p) \in {0, 1}
  PROVE  pointInPoly(PixelToWorldCenter(p), PolygonOf(L, n)) <=> Winding(L, n, p) = 1
<1> DEFINE poly == PolygonOf(L, n)
           q == PixelToWorldCenter(p)
           g == [i \in 1..n |-> Crossing(L[i], p)]
<1>0. n \in Nat
  BY DEF Trail
<1>1. Len(poly) = n
  BY <1>0 DEF PolygonOf
<1>2. ASSUME NEW i \in 1..n
      PROVE  /\ g[i] \in {0, 1, -1}
             /\ Crosses(q, poly[Next1(i, n)], poly[i]) <=> g[i] # 0
  <2>1. Next1(i, n) \in 1..n
    BY <1>0 DEF Next1
  <2>2. To(L[i]) = From(L[Next1(i, n)]) /\ L[i] \in AnySide
    BY DEF Trail
  <2>3. poly[Next1(i, n)] = CornerToWorld(To(L[i])) /\ poly[i] = CornerToWorld(From(L[i]))
    BY <2>1, <2>2 DEF PolygonOf
  <2>4. g[i] = Crossing(L[i], p) /\ g[i] \in {0, 1, -1}
    BY DEF Crossing
  <2> HIDE DEF g, poly, q
  <2>5. Crosses(q, poly[Next1(i, n)], poly[i]) <=> g[i] # 0
    BY <2>2, <2>3, <2>4, CrossesIsCrossing DEF q
  <2> QED
    BY <2>4, <2>5
<1>3. Winding(L, n, p) = Total(g, n)
  BY DEF Winding
<1> HIDE DEF g, poly, q
<1>4. pointInPoly(q, poly) <=> Total(g, n) = 1
  BY <1>0, <1>1, <1>2, <1>3, InsideIsTotal
<1> QED
  BY <1>3, <1>4 DEF poly, q

-----------------------------------------------------------------------------
(* Closed trails along the boundary of a room.                             *)

\* A closed trail of sides between R and what is outside it.
Boundary(R, L, n) == Trail(L, n) /\ \A i \in 1..n : L[i] \in Sides(R)

\* A side of a cell is on the boundary of a room if the cell is in it and the one beyond is not.
LEMMA SidesOf ==
  ASSUME NEW R \in Masks, NEW c \in Int, NEW r \in Int
  PROVE  /\ <<<<c, r>>, 1>> \in Sides(R) <=> <<c, r>> \in R /\ <<c, r - 1>> \notin R
         /\ <<<<c, r>>, 2>> \in Sides(R) <=> <<c, r>> \in R /\ <<c + 1, r>> \notin R
         /\ <<<<c, r>>, 3>> \in Sides(R) <=> <<c, r>> \in R /\ <<c, r + 1>> \notin R
         /\ <<<<c, r>>, 4>> \in Sides(R) <=> <<c, r>> \in R /\ <<c - 1, r>> \notin R
<1>1. ASSUME NEW d \in 1..4
      PROVE  <<<<c, r>>, d>> \in Sides(R) <=> <<c, r>> \in R /\ Beyond(<<c, r>>)[d] \notin R
  BY DEF Sides
<1>2. /\ Beyond(<<c, r>>)[1] = <<c, r - 1>> /\ Beyond(<<c, r>>)[2] = <<c + 1, r>>
      /\ Beyond(<<c, r>>)[3] = <<c, r + 1>> /\ Beyond(<<c, r>>)[4] = <<c - 1, r>>
  BY FourSides
<1>3. 1 \in 1..4 /\ 2 \in 1..4 /\ 3 \in 1..4 /\ 4 \in 1..4
  OBVIOUS
<1> QED
  BY <1>1, <1>2, <1>3

\* Boundary sides belong to cells of the room.
LEMMA SidesType ==
  ASSUME NEW R \in Masks, NEW s \in Sides(R)
  PROVE  s \in AnySide /\ s[1] \in R /\ s[1] \in Cells
BY GridAssumption DEF Sides, AnySide, Masks, Cells

\* A boundary trail uses no other side.
LEMMA UnusedSide ==
  ASSUME NEW R \in Masks, NEW L, NEW n, Boundary(R, L, n), NEW x, x \notin Sides(R)
  PROVE  Used(L, n, x) = 0
<1>1. Trail(L, n) /\ \A i \in 1..n : L[i] # x
  BY DEF Boundary
<1> QED
  BY <1>1, UsedIsBit

Parts(R, L, n, p, a, q, b) ==
  /\ (p \in R <=> q \in R) => Winding(L, n, p) = Winding(L, n, q)
  /\ p \in R /\ q \notin R => Winding(L, n, p) = Winding(L, n, q) + Used(L, n, a)
  /\ p \notin R /\ q \in R => Winding(L, n, q) = Winding(L, n, p) + Used(L, n, b)

\* Only a side that is on the trail parts a cell from the one to the right of it,
LEMMA WindingRight ==
  ASSUME NEW R \in Masks, NEW L, NEW n, Boundary(R, L, n), NEW c \in Int, NEW r \in Int
  PROVE  Parts(R, L, n, <<c, r>>, <<<<c, r>>, 2>>, <<c + 1, r>>, <<<<c + 1, r>>, 4>>)
<1> DEFINE p == <<c, r>>
           q == <<c + 1, r>>
<1>1. Trail(L, n)
  BY DEF Boundary
<1>2. c + 1 \in Int /\ (c + 1) - 1 = c
  OBVIOUS
<1>3. /\ <<p, 2>> \in Sides(R) <=> p \in R /\ q \notin R
      /\ <<q, 4>> \in Sides(R) <=> q \in R /\ p \notin R
  BY <1>2, SidesOf
<1>4. Winding(L, n, p) + Used(L, n, <<q, 4>>) = Winding(L, n, q) + Used(L, n, <<p, 2>>)
  BY <1>1, WindingAcross
<1>5. Winding(L, n, p) \in Int /\ Winding(L, n, q) \in Int
  BY <1>1, WindingType
<1>6. Used(L, n, <<q, 4>>) \in {0, 1} /\ Used(L, n, <<p, 2>>) \in {0, 1}
  BY <1>1, UsedIsBit
<1>7. /\ ~(p \in R /\ q \notin R) => Used(L, n, <<p, 2>>) = 0
      /\ ~(q \in R /\ p \notin R) => Used(L, n, <<q, 4>>) = 0
  BY <1>3, UnusedSide
<1> HIDE DEF p, q
<1>8. PICK a \in Int, b \in Int, u \in Int, v \in Int :
        a = Winding(L, n, p) /\ b = Winding(L, n, q) /\ u = Used(L, n, <<q, 4>>) /\ v = Used(L, n, <<p, 2>>)
  BY <1>5, <1>6
<1>9. /\ (p \in R <=> q \in R) => a = b
      /\ p \in R /\ q \notin R => a = b + v
      /\ p \notin R /\ q \in R => b = a + u
  BY <1>4, <1>7, <1>8
<1> QED
  BY <1>8, <1>9 DEF p, q, Parts

\* or from the one above it.
LEMMA WindingAbove ==
  ASSUME NEW R \in Masks, NEW L, NEW n, Boundary(R, L, n), NEW c \in Int, NEW r \in Int
  PROVE  Parts(R, L, n, <<c, r>>, <<<<c, r>>, 1>>, <<c, r - 1>>, <<<<c, r - 1>>, 3>>)
<1> DEFINE p == <<c, r>>
           q == <<c, r - 1>>
<1>1. Trail(L, n)
  BY DEF Boundary
<1>2. r - 1 \in Int /\ (r - 1) + 1 = r
  OBVIOUS
<1>3. /\ <<p, 1>> \in Sides(R) <=> p \in R /\ q \notin R
      /\ <<q, 3>> \in Sides(R) <=> q \in R /\ p \notin R
  <2>1. <<p, 1>> \in Sides(R) <=> p \in R /\ q \notin R
    BY SidesOf
  <2>2. PICK u \in Int : u = r - 1
    BY <1>2
  <2>3. <<<<c, u>>, 3>> \in Sides(R) <=> <<c, u>> \in R /\ <<c, u + 1>> \notin R
    BY SidesOf
  <2>4. u + 1 = r
    BY <2>2
  <2> QED
    BY <2>1, <2>2, <2>3, <2>4
<1>4. Winding(L, n, p) + Used(L, n, <<q, 3>>) = Winding(L, n, q) + Used(L, n, <<p, 1>>)
  BY <1>1, WindingAlong
<1>5. Winding(L, n, p) \in Int /\ Winding(L, n, q) \in Int
  BY <1>1, WindingType
<1>6. Used(L, n, <<q, 3>>) \in {0, 1} /\ Used(L, n, <<p, 1>>) \in {0, 1}
  BY <1>1, UsedIsBit
<1>7. /\ ~(p \in R /\ q \notin R) => Used(L, n, <<p, 1>>) = 0
      /\ ~(q \in R /\ p \notin R) => Used(L, n, <<q, 3>>) = 0
  BY <1>3, UnusedSide
<1> HIDE DEF p, q
<1>8. PICK a \in Int, b \in Int, u \in Int, v \in Int :
        a = Winding(L, n, p) /\ b = Winding(L, n, q) /\ u = Used(L, n, <<q, 3>>) /\ v = Used(L, n, <<p, 1>>)
  BY <1>5, <1>6
<1>9. /\ (p \in R <=> q \in R) => a = b
      /\ p \in R /\ q \notin R => a = b + v
      /\ p \notin R /\ q \in R => b = a + u
  BY <1>4, <1>7, <1>8
<1> QED
  BY <1>8, <1>9 DEF p, q, Parts

\* Cells side by side, both in the room or both outside it, are wound around equally often.
LEMMA WindingNear ==
  ASSUME NEW R \in Masks, NEW L, NEW n, Boundary(R, L, n),
         NEW p \in Int \X Int, NEW q \in Near(p), p \in R <=> q \in R
  PROVE  Winding(L, n, p) = Winding(L, n, q)
<1>1. PICK c \in Int, r \in Int : p = <<c, r>>
  OBVIOUS
<1>2. c - 1 \in Int /\ c + 1 \in Int /\ r - 1 \in Int /\ r + 1 \in Int /\ (c - 1) + 1 = c /\ (r + 1) - 1 = r
  OBVIOUS
<1>3. q = <<c + 1, r>> \/ q = <<c - 1, r>> \/ q = <<c, r + 1>> \/ q = <<c, r - 1>>
  BY <1>1 DEF Near
<1>4. CASE q = <<c + 1, r>>
  <2>1. Parts(R, L, n, <<c, r>>, <<<<c, r>>, 2>>, <<c + 1, r>>, <<<<c + 1, r>>, 4>>)
    BY WindingRight
  <2> QED
    BY <1>1, <1>4, <2>1 DEF Parts
<1>5. CASE q = <<c - 1, r>>
  <2>1. PICK u \in Int : u = c - 1 /\ u + 1 = c
    BY <1>2
  <2>2. Parts(R, L, n, <<u, r>>, <<<<u, r>>, 2>>, <<u + 1, r>>, <<<<u + 1, r>>, 4>>)
    BY WindingRight
  <2> QED
    BY <1>1, <1>5, <2>1, <2>2 DEF Parts
<1>6. CASE q = <<c, r + 1>>
  <2>1. PICK u \in Int : u = r + 1 /\ u - 1 = r
    BY <1>2
  <2>2. Parts(R, L, n, <<c, u>>, <<<<c, u>>, 1>>, <<c, u - 1>>, <<<<c, u - 1>>, 3>>)
    BY WindingAbove
  <2> QED
    BY <1>1, <1>6, <2>1, <2>2 DEF Parts
<1>7. CASE q = <<c, r - 1>>
  <2>1. Parts(R, L, n, <<c, r>>, <<<<c, r>>, 1>>, <<c, r - 1>>, <<<<c, r - 1>>, 3>>)
    BY WindingAbove
  <2> QED
    BY <1>1, <1>7, <2>1 DEF Parts
<1> QED
  BY <1>3, <1>4, <1>5, <1>6, <1>7

\* Whatever has a cell of R and every neighbour in R of its cells is R.
Together(R) == \A S \in SUBSET R : S # {} /\ Whole(R, S) => S = R

\* A boundary trail winds around all cells of a room equally often.
LEMMA WindingOfRoom ==
  ASSUME NEW R \in Masks, Together(R), NEW L, NEW n, Boundary(R, L, n), NEW p \in R, NEW q \in R
  PROVE  Winding(L, n, q) = Winding(L, n, p)
<1> DEFINE S == {x \in R : Winding(L, n, x) = Winding(L, n, p)}
<1>1. S \in SUBSET R /\ S # {}
  OBVIOUS
<1>2. ASSUME NEW x \in S, NEW y \in Near(x) \cap R
      PROVE  y \in S
  <2>1. x \in Int \X Int
    BY MaskFacts
  <2>2. Winding(L, n, x) = Winding(L, n, y)
    BY <2>1, WindingNear
  <2> QED
    BY <2>2
<1>3. Whole(R, S)
  <2> HIDE DEF S
  <2> QED
    BY <1>2 DEF Whole
<1>4. S = R
  <2> HIDE DEF S
  <2> QED
    BY <1>1, <1>3 DEF Together
<1> QED
  BY <1>4

\* Cells in rows without a room cell, and those past the last column, are not wound around.
LEMMA WindingFarOff ==
  ASSUME NEW R \in Masks, NEW L, NEW n, Boundary(R, L, n), NEW c \in Int, NEW r \in Int,
         c >= Width \/ \A x \in R : x[2] # r
  PROVE  Winding(L, n, <<c, r>>) = 0
<1> DEFINE f == [i \in 1..n |-> Crossing(L[i], <<c, r>>)]
<1>1. n \in Nat
  BY DEF Boundary, Trail
<1>2. ASSUME NEW i \in 1..n
      PROVE  f[i] = 0
  <2>1. L[i][1] \in R /\ L[i][1] \in Cells
    BY SidesType DEF Boundary
  <2>2. L[i][1][1] \in Int /\ L[i][1][1] < Width /\ Width \in Int
    BY <2>1, GridAssumption DEF Cells
  <2> QED
    BY <2>1, <2>2 DEF Crossing
<1> HIDE DEF f
<1>3. Total(f, n) = 0
  BY <1>1, <1>2, TotalOfNone
<1> QED
  BY <1>3 DEF f, Winding

\* What is not part of the room with its holes filled is not wound around.
LEMMA WindingOutside ==
  ASSUME NEW R \in Masks, NEW L, NEW n, Boundary(R, L, n), NEW p \in Cells, p \notin Filled(R)
  PROVE  Winding(L, n, p) = 0
<1> DEFINE frame == ((-1)..Width) \X ((-1)..Height)
           m == frame \ R
           S == {x \in m : Winding(L, n, x) = 0}
           o == <<-1, -1>>
<1>0. Width \in Nat /\ Height \in Nat
  BY GridAssumption
<1>1. IsFiniteSet(m)
  <2>1. -1 \in Int /\ Width \in Int /\ Height \in Int
    BY <1>0
  <2>2. IsFiniteSet((-1)..Width) /\ IsFiniteSet((-1)..Height)
    BY <2>1, FS_Interval
  <2>3. IsFiniteSet(frame)
    BY <2>2, FS_Product
  <2> HIDE DEF frame
  <2> QED
    BY <2>3, FS_Subset
<1>2. \A x \in R : x[2] # -1
  BY <1>0 DEF Masks, Cells
<1>3. o \in m /\ o \in S
  <2>1. o \in m
    BY <1>0, <1>2
  <2>2. Winding(L, n, o) = 0
    <3>1. -1 \in Int
      OBVIOUS
    <3> QED
      BY <1>2, <3>1, WindingFarOff
  <2> QED
    BY <2>1, <2>2
<1>4. ASSUME NEW x \in S, NEW y \in Near(x) \cap m
      PROVE  y \in S
  <2>1. x \in Int \X Int /\ x \notin R /\ y \notin R /\ y \in m
    BY <1>0
  <2>2. Winding(L, n, x) = Winding(L, n, y)
    BY <2>1, WindingNear
  <2> QED
    BY <2>1, <2>2
<1>5. Whole(m, S)
  <2> HIDE DEF S, m
  <2> QED
    BY <1>4 DEF Whole
<1>6. p \in Component(m, o)
  BY DEF Filled
<1>7. p \in S
  <2> HIDE DEF S, m, o
  <2> QED
    BY <1>1, <1>3, <1>5, <1>6, FillIsComplete
<1> QED
  BY <1>7

-----------------------------------------------------------------------------
(* One trail of the boundary winds around the room, and it is the largest. *)

\* The largest component is such a room.
LEMMA RoomIsTogether ==
  ASSUME NEW m \in Masks, m # {}
  PROVE  largestComponent(m) \in Masks /\ largestComponent(m) # {} /\ Together(largestComponent(m))
<1>1. PICK R : R = largestComponent(m)
  OBVIOUS
<1>2. R \in Components(m) /\ R # {} /\ R \subseteq m /\ Whole(m, R)
  BY <1>1, LargestComponentIsUnique
<1>3. \A q \in R : R = Component(m, q)
  BY <1>2, ComponentOfCell
<1>4. ASSUME NEW S \in SUBSET R, S # {}, Whole(R, S)
      PROVE  S = R
  <2>1. PICK q \in S : TRUE
    BY <1>4
  <2>2. Whole(m, S)
    BY <1>2, <1>4 DEF Whole
  <2>3. IsFiniteSet(m) /\ q \in m /\ R = Component(m, q)
    BY <1>2, <1>3, MaskFacts
  <2>4. R \subseteq S
    BY <2>2, <2>3, FillIsComplete
  <2> QED
    BY <2>4
<1>5. R \in Masks
  BY <1>2 DEF Masks
<1> QED
  BY <1>1, <1>2, <1>4, <1>5 DEF Together

\* A cell of the first row the room has cells in.
Top(R, p) == p \in R /\ \A q \in R : p[2] <= q[2]

\* Every room has a top cell.
LEMMA TopExists ==
  ASSUME NEW R \in Masks, R # {}
  PROVE  \E p : Top(R, p)
<1> DEFINE T == {q[2] : q \in R}
<1>1. T \subseteq Nat
  BY GridAssumption DEF Masks, Cells
<1>2. T # {}
  OBVIOUS
<1>3. PICK n \in T : \A k \in T : n <= k
  <2> HIDE DEF T
  <2> QED
    BY <1>1, <1>2, Least
<1>4. PICK p \in R : n = p[2]
  OBVIOUS
<1> QED
  BY <1>3, <1>4 DEF Top

\* The side above it is the one that tells whether a trail winds around the room.
LEMMA TopSide ==
  ASSUME NEW R \in Masks, NEW p, Top(R, p)
  PROVE  /\ <<p, 1>> \in Sides(R)
         /\ \A L, n : Boundary(R, L, n) => Winding(L, n, p) = Used(L, n, <<p, 1>>)
<1>1. p \in R /\ p \in Cells /\ \A q \in R : q[2] \in Int /\ p[2] <= q[2]
  BY GridAssumption DEF Top, Masks, Cells
<1>2. PICK c \in Int, r \in Int : p = <<c, r>>
  BY <1>1 DEF Cells
<1>3. PICK u \in Int : u = r - 1
  OBVIOUS
<1>4. (\A q \in R : q[2] # u) /\ <<c, u>> \notin R
  BY <1>1, <1>2, <1>3
<1>5. <<p, 1>> \in Sides(R)
  BY <1>1, <1>2, <1>3, <1>4, SidesOf
<1>6. ASSUME NEW L, NEW n, Boundary(R, L, n)
      PROVE  Winding(L, n, p) = Used(L, n, <<p, 1>>)
  <2>1. Winding(L, n, <<c, u>>) = 0
    BY <1>4, <1>6, WindingFarOff
  <2>2. Parts(R, L, n, <<c, r>>, <<<<c, r>>, 1>>, <<c, r - 1>>, <<<<c, r - 1>>, 3>>)
    BY <1>6, WindingAbove
  <2>3. Used(L, n, <<p, 1>>) \in {0, 1}
    BY <1>6, UsedIsBit DEF Boundary
  <2> QED
    BY <1>1, <1>2, <1>3, <1>4, <2>1, <2>2, <2>3 DEF Parts
<1> QED
  BY <1>5, <1>6

\* Going left from beyond the last column.
LEMMA FromTheRight ==
  ASSUME NEW S, \A c \in Int : c >= Width => c \in S, \A c \in Int : c + 1 \in S => c \in S
  PROVE  \A c \in Int : c \in S
<1> DEFINE T == {d \in Nat : Width - d \in S}
<1>0. Width \in Nat
  BY GridAssumption
<1>1. 0 \in T
  BY <1>0
<1>2. ASSUME NEW d \in Nat, d \in T
      PROVE  d + 1 \in T
  <2>1. PICK c \in Int : c = Width - (d + 1) /\ c + 1 = Width - d
    BY <1>0
  <2>2. c + 1 \in S
    BY <1>2, <2>1
  <2> QED
    BY <2>1, <2>2
<1>3. Nat \subseteq T
  <2> HIDE DEF T
  <2> QED
    BY <1>1, <1>2, Induct
<1>4. ASSUME NEW c \in Int, ~(c >= Width)
      PROVE  c \in S
  <2>1. PICK d \in Nat : d = Width - c
    BY <1>0, <1>4
  <2>2. d \in T /\ Width - d = c
    BY <1>0, <1>3, <2>1
  <2> QED
    BY <2>2
<1> QED
  BY <1>4

\* A boundary trail that winds around every cell of the room k times.
Around(R, L, n, k) == Boundary(R, L, n) /\ \A p \in R : Winding(L, n, p) = k

\* Such a trail winds around no cell more often, nor more than once less.
LEMMA WindingRange ==
  ASSUME NEW R \in Masks, NEW L, NEW n, NEW k \in {0, 1}, Around(R, L, n, k), NEW p \in Int \X Int
  PROVE  Winding(L, n, p) \in {k - 1, k}
<1>1. PICK x \in Int, r \in Int : p = <<x, r>>
  OBVIOUS
<1> DEFINE S == {c \in Int : Winding(L, n, <<c, r>>) \in {k - 1, k}}
<1>2. Boundary(R, L, n) /\ Trail(L, n)
  BY DEF Around, Boundary
<1>3. ASSUME NEW c \in Int, c >= Width
      PROVE  c \in S
  <2>1. Winding(L, n, <<c, r>>) = 0
    BY <1>2, <1>3, WindingFarOff
  <2> QED
    BY <2>1
<1>4. ASSUME NEW c \in Int, c + 1 \in S
      PROVE  c \in S
  <2>1. PICK a, b : a = <<c, r>> /\ b = <<c + 1, r>>
    OBVIOUS
  <2>2. Parts(R, L, n, a, <<a, 2>>, b, <<b, 4>>)
    BY <1>2, <2>1, WindingRight
  <2>3. Used(L, n, <<b, 4>>) \in {0, 1}
    BY <1>2, UsedIsBit
  <2>4. /\ a \in R => Winding(L, n, a) = k
        /\ b \in R => Winding(L, n, b) = k
        /\ Winding(L, n, b) \in {k - 1, k}
        /\ Winding(L, n, a) \in Int
    BY <1>2, <1>4, <2>1, WindingType DEF Around
  <2>5. Winding(L, n, a) \in {k - 1, k}
    BY <2>2, <2>3, <2>4 DEF Parts
  <2> QED
    BY <2>1, <2>5
<1>5. \A c \in Int : c \in S
  <2> HIDE DEF S
  <2> QED
    BY <1>3, <1>4, FromTheRight
<1> QED
  BY <1>1, <1>5

\* Wherever a trail around a hole winds, so does the trail around the room.
LEMMA WindingsTogether ==
  ASSUME NEW R \in Masks, NEW L, NEW n, Around(R, L, n, 1), NEW M, NEW l, Around(R, M, l, 0),
         \A i \in 1..n, j \in 1..l : L[i] # M[j], NEW p \in Int \X Int
  PROVE  Winding(L, n, p) + Winding(M, l, p) >= 0
<1>1. PICK x \in Int, r \in Int : p = <<x, r>>
  OBVIOUS
<1> DEFINE S == {c \in Int : Winding(L, n, <<c, r>>) + Winding(M, l, <<c, r>>) >= 0}
<1>2. Boundary(R, L, n) /\ Trail(L, n) /\ Boundary(R, M, l) /\ Trail(M, l)
  BY DEF Around, Boundary
<1>3. ASSUME NEW c \in Int, c >= Width
      PROVE  c \in S
  <2>1. Winding(L, n, <<c, r>>) = 0 /\ Winding(M, l, <<c, r>>) = 0
    BY <1>2, <1>3, WindingFarOff
  <2> QED
    BY <2>1
<1>4. ASSUME NEW c \in Int, c + 1 \in S
      PROVE  c \in S
  <2>1. PICK a, b : a = <<c, r>> /\ b = <<c + 1, r>>
    OBVIOUS
  <2>2. Parts(R, L, n, a, <<a, 2>>, b, <<b, 4>>) /\ Parts(R, M, l, a, <<a, 2>>, b, <<b, 4>>)
    BY <1>2, <2>1, WindingRight
  <2>3. PICK u \in {0, 1}, v \in {0, 1} : u = Used(L, n, <<b, 4>>) /\ v = Used(M, l, <<b, 4>>)
    BY <1>2, UsedIsBit
  <2>4. u = 0 \/ v = 0
    <3>1. (\A i \in 1..n : L[i] # <<b, 4>>) \/ (\A j \in 1..l : M[j] # <<b, 4>>)
      OBVIOUS
    <3> QED
      BY <1>2, <2>3, <3>1, UsedIsBit
  <2>5. /\ a \in R => Winding(L, n, a) = 1 /\ Winding(M, l, a) = 0
        /\ b \in R => Winding(L, n, b) = 1 /\ Winding(M, l, b) = 0
        /\ Winding(L, n, b) + Winding(M, l, b) >= 0
        /\ Winding(L, n, a) \in Int /\ Winding(M, l, a) \in Int
        /\ Winding(L, n, b) \in Int /\ Winding(M, l, b) \in Int
    BY <1>2, <1>4, <2>1, WindingType DEF Around
  <2>6. PICK wa \in Int, wb \in Int, xa \in Int, xb \in Int :
          /\ wa = Winding(L, n, a) /\ wb = Winding(L, n, b)
          /\ xa = Winding(M, l, a) /\ xb = Winding(M, l, b)
    BY <2>5
  <2>7. /\ (a \in R <=> b \in R) => wa = wb
        /\ a \notin R /\ b \in R => wb = wa + u
    BY <2>2, <2>3, <2>6 DEF Parts
  <2>8. /\ (a \in R <=> b \in R) => xa = xb
        /\ a \notin R /\ b \in R => xb = xa + v
    BY <2>2, <2>3, <2>6 DEF Parts
  <2>9. wa + xa >= 0
    BY <2>3, <2>4, <2>5, <2>6, <2>7, <2>8
  <2> QED
    BY <2>1, <2>6, <2>9
<1>5. \A c \in Int : c \in S
  <2> HIDE DEF S
  <2> QED
    BY <1>3, <1>4, FromTheRight
<1> QED
  BY <1>1, <1>5

\* The trail around the room encloses more than any trail around a hole.
LEMMA AreaLarger ==
  ASSUME NEW R \in Masks, R # {}, NEW L, NEW n, Around(R, L, n, 1), NEW M, NEW l, Around(R, M, l, 0),
         \A i \in 1..n, j \in 1..l : L[i] # M[j]
  PROVE  Abs(cornerArea([i \in 1..l |-> From(M[i])])) < Abs(cornerArea([i \in 1..n |-> From(L[i])]))
<1> DEFINE f == [p \in Cells |-> Winding(L, n, p)]
           g == [p \in Cells |-> Winding(M, l, p)]
           h == [p \in Cells |-> f[p] + g[p]]
           z == [p \in Cells |-> 0]
<1>1. Boundary(R, L, n) /\ Trail(L, n) /\ Boundary(R, M, l) /\ Trail(M, l)
  BY DEF Around, Boundary
<1>2. ASSUME NEW p \in Cells
      PROVE  /\ f[p] \in Int /\ g[p] \in Int /\ h[p] \in Int /\ z[p] \in Int /\ z[p] = 0
             /\ h[p] = f[p] + g[p] /\ g[p] <= z[p] /\ z[p] <= h[p]
             /\ p \in R => z[p] < h[p]
  <2>1. p \in Int \X Int
    BY GridAssumption DEF Cells
  <2>2. PICK o \in {0, 1} : o = 0
    OBVIOUS
  <2>3. Winding(M, l, p) \in {o - 1, o}
    BY <2>1, <2>2, WindingRange
  <2>4. Winding(L, n, p) \in Int /\ Winding(L, n, p) + Winding(M, l, p) >= 0
    BY <1>1, <2>1, WindingType, WindingsTogether
  <2>5. p \in R => Winding(L, n, p) = 1 /\ Winding(M, l, p) = 0
    BY DEF Around
  <2> QED
    BY <2>2, <2>3, <2>4, <2>5
<1>3. \E p \in Cells : p \in R
  BY DEF Masks
<1>4. cornerArea([i \in 1..n |-> From(L[i])]) = 2 * CellSum(f)
  <2>1. \A i \in 1..n : L[i][1] \in Cells
    BY <1>1, SidesType DEF Boundary
  <2> QED
    BY <1>1, <2>1, AreaIsWinding
<1>5. cornerArea([i \in 1..l |-> From(M[i])]) = 2 * CellSum(g)
  <2>1. \A i \in 1..l : M[i][1] \in Cells
    BY <1>1, SidesType DEF Boundary
  <2> QED
    BY <1>1, <2>1, AreaIsWinding
<1> HIDE DEF f, g, h, z
<1>6. CellSum(f) \in Int /\ CellSum(g) \in Int /\ CellSum(h) \in Int
  <2>1. (\A p \in Cells : f[p] \in Int) /\ (\A p \in Cells : g[p] \in Int) /\ (\A p \in Cells : h[p] \in Int)
    BY <1>2
  <2> QED
    BY <2>1, CellSumType
<1>7. CellSum(h) = CellSum(f) + CellSum(g)
  <2>1. \A p \in Cells : f[p] \in Int /\ g[p] \in Int /\ h[p] = f[p] + g[p]
    BY <1>2
  <2> QED
    BY <2>1, CellSumAdds
<1>8. CellSum(z) = 0
  BY <1>2, CellSumOfNone
<1>9. CellSum(g) <= CellSum(z)
  <2>1. \A p \in Cells : g[p] \in Int /\ z[p] \in Int /\ g[p] <= z[p]
    BY <1>2
  <2> QED
    BY <2>1, CellSumOrder
<1>10. CellSum(z) < CellSum(h)
  <2>1. \A p \in Cells : z[p] \in Int /\ h[p] \in Int /\ z[p] <= h[p]
    BY <1>2
  <2>2. \E p \in Cells : z[p] < h[p]
    BY <1>2, <1>3
  <2> QED
    BY <2>1, <2>2, CellSumOrder
<1> QED
  BY <1>4, <1>5, <1>6, <1>7, <1>8, <1>9, <1>10 DEF Abs

-----------------------------------------------------------------------------
(* The walk along the sides.                                               *)

\* A room has finitely many boundary sides.
LEMMA SidesFinite ==
  ASSUME NEW R \in Masks
  PROVE  IsFiniteSet(Sides(R)) /\ Cardinality(Sides(R)) \in Nat
<1>1. IsFiniteSet(R)
  BY MaskFacts
<1>2. IsFiniteSet(1..4)
  <2>1. 1 \in Int /\ 4 \in Int
    OBVIOUS
  <2> QED
    BY <2>1, FS_Interval
<1>3. IsFiniteSet(R \X (1..4))
  BY <1>1, <1>2, FS_Product
<1>4. Sides(R) \in SUBSET (R \X (1..4))
  BY DEF Sides
<1>5. IsFiniteSet(Sides(R))
  BY <1>3, <1>4, FS_Subset
<1> QED
  BY <1>5, FS_CardinalityType

\* The scan finds a first one among any of them.
LEMMA FirstSideIs ==
  ASSUME NEW R \in Masks, NEW X \in SUBSET Sides(R), X # {}
  PROVE  FirstSide(X) \in X
<1> DEFINE T == {4 * RowMajor(s[1]) + s[2] : s \in X}
<1>1. ASSUME NEW s \in X
      PROVE  4 * RowMajor(s[1]) + s[2] \in Nat
  <2>1. s[1] \in R /\ s[2] \in 1..4
    BY DEF Sides
  <2>2. RowMajor(s[1]) \in Nat
    BY <2>1, MaskFacts
  <2> QED
    BY <2>1, <2>2
<1>2. T \subseteq Nat /\ T # {}
  BY <1>1
<1>3. PICK n \in T : \A k \in T : n <= k
  <2> HIDE DEF T
  <2> QED
    BY <1>2, Least
<1>4. \E s \in X : \A t \in X : 4 * RowMajor(s[1]) + s[2] <= 4 * RowMajor(t[1]) + t[2]
  BY <1>3
<1> QED
  BY <1>4 DEF FirstSide

\* The walk b and the side it goes on by.
Further(S, b) ==
  LET free == S \ Range(b)
      onward == {s \in free : b # <<>> /\ From(s) = To(Last(b))}
  IN  Append(b, FirstSide(IF onward # {} THEN onward ELSE free))

\* A walk over some of the sides, none of them twice.
Partial(S, b) ==
  /\ b \in Seq(S)
  /\ IsFiniteSet(Range(b)) /\ Cardinality(Range(b)) = Len(b)
  /\ \A i \in 1..Len(b), j \in 1..Len(b) : b[i] = b[j] => i = j

\* s is unused, and if an unused side leaves the corner reached, so does s.
Onward(S, b, s) ==
  /\ s \in S \ Range(b)
  /\ b # <<>> /\ (\E t \in S \ Range(b) : From(t) = To(Last(b))) => From(s) = To(Last(b))

\* While there are unused sides the walk goes on by one of them.
LEMMA FurtherGoes ==
  ASSUME NEW R \in Masks, NEW b, Partial(Sides(R), b), Len(b) < Cardinality(Sides(R))
  PROVE  /\ \E s : Onward(Sides(R), b, s) /\ Further(Sides(R), b) = Append(b, s)
         /\ Partial(Sides(R), Further(Sides(R), b))
         /\ Len(Further(Sides(R), b)) = Len(b) + 1
<1> DEFINE S == Sides(R)
           free == S \ Range(b)
           onward == {s \in free : b # <<>> /\ From(s) = To(Last(b))}
           X == IF onward # {} THEN onward ELSE free
           s == FirstSide(X)
<1>1. b \in Seq(S) /\ Len(b) \in Nat /\ IsFiniteSet(Range(b)) /\ Cardinality(Range(b)) = Len(b)
      /\ \A i \in 1..Len(b), j \in 1..Len(b) : b[i] = b[j] => i = j
  BY DEF Partial
<1>2. IsFiniteSet(S) /\ Cardinality(S) \in Nat
  BY SidesFinite
<1>3. Range(b) \in SUBSET S
  BY <1>1 DEF Range
<1>4. free # {}
  <2>1. Range(b) # S
    BY <1>1, <1>2
  <2> QED
    BY <1>3, <2>1
<1>5. X \in SUBSET S /\ X # {}
  BY <1>4
<1>6. s \in X
  <2> HIDE DEF X
  <2> QED
    BY <1>5, FirstSideIs
<1>7. Further(S, b) = Append(b, s)
  BY DEF Further
<1>8. Onward(S, b, s)
  <2> HIDE DEF s
  <2>1. s \in free
    BY <1>6
  <2>2. (\E t \in S \ Range(b) : From(t) = To(Last(b))) /\ b # <<>> => From(s) = To(Last(b))
    BY <1>6
  <2> QED
    BY <2>1, <2>2 DEF Onward
<1> HIDE DEF s
<1>9. PICK c : c = Append(b, s)
  OBVIOUS
<1>10. s \in S /\ s \notin Range(b)
  BY <1>8 DEF Onward
<1>11. c \in Seq(S) /\ Len(c) = Len(b) + 1 /\ c[Len(b) + 1] = s /\ \A i \in 1..Len(b) : c[i] = b[i]
  BY <1>1, <1>9, <1>10
<1>12. Range(c) = Range(b) \cup {s}
  <2>1. DOMAIN c = 1..(Len(b) + 1) /\ DOMAIN b = 1..Len(b)
    BY <1>1, <1>11
  <2>2. 1..(Len(b) + 1) = 1..Len(b) \cup {Len(b) + 1}
    BY <1>1
  <2> QED
    BY <1>11, <2>1, <2>2 DEF Range
<1>13. IsFiniteSet(Range(c)) /\ Cardinality(Range(c)) = Len(b) + 1
  BY <1>1, <1>10, <1>12, FS_AddElement
<1>14. ASSUME NEW i \in 1..Len(c), NEW j \in 1..Len(c), c[i] = c[j]
       PROVE  i = j
  <2>1. \A k \in 1..Len(b) : c[k] # s
    BY <1>1, <1>10, <1>11 DEF Range
  <2>2. (i \in 1..Len(b) \/ i = Len(b) + 1) /\ (j \in 1..Len(b) \/ j = Len(b) + 1)
    BY <1>1, <1>11
  <2> QED
    BY <1>1, <1>11, <1>14, <2>1, <2>2
<1>15. Partial(S, c)
  BY <1>11, <1>13, <1>14 DEF Partial
<1> QED
  BY <1>7, <1>8, <1>9, <1>11, <1>15

\* All parts of the walk, from none of the sides to all of them.
Grows(S, f) == f[0] = <<>> /\ \A k \in 0..(Cardinality(S) - 1) : f[k + 1] = Further(S, f[k])

\* Walk is what going on from nothing leads to.
LEMMA WalkGrows ==
  ASSUME NEW R \in Masks
  PROVE  \E f : Grows(Sides(R), f) /\ Walk(Sides(R)) = f[Cardinality(Sides(R))]
<1> DEFINE S == Sides(R)
           N == Cardinality(S)
           Q == {b \in Seq(S) : Partial(S, b) /\ Len(b) <= N}
           F == [b \in Q |-> IF Len(b) < N THEN Further(S, b) ELSE b]
           Rec(h) == h = [n \in 0..N |->
                            IF n = 0 THEN <<>>
                            ELSE LET before == h[n - 1]
                                     free == S \ Range(before)
                                     onward == {s \in free : before # <<>> /\ From(s) = To(Last(before))}
                                 IN  Append(before, FirstSide(IF onward # {} THEN onward ELSE free))]
           Rec2(h) == h = [n \in 0..N |-> IF n = 0 THEN <<>> ELSE Further(S, h[n - 1])]
           w == CHOOSE h : Rec(h)
<1>0. N \in Nat
  BY SidesFinite
<1>1. <<>> \in Q
  <2>1. Range(<<>>) = {}
    BY DEF Range
  <2>2. IsFiniteSet({}) /\ Cardinality({}) = 0
    BY FS_EmptySet
  <2> QED
    BY <1>0, <2>1, <2>2 DEF Partial
<1>2. F \in [Q -> Q]
  <2> SUFFICES ASSUME NEW b \in Q PROVE F[b] \in Q
    OBVIOUS
  <2>1. CASE Len(b) < N
    <3>1. Partial(S, b) /\ b \in Seq(S) /\ Len(b) \in Nat
      OBVIOUS
    <3>2. Partial(S, Further(S, b)) /\ Len(Further(S, b)) = Len(b) + 1
      BY <2>1, <3>1, FurtherGoes
    <3>3. Further(S, b) \in Q
      <4>1. Further(S, b) \in Seq(S)
        BY <3>2 DEF Partial
      <4>2. Len(b) + 1 <= N
        <5> HIDE DEF N
        <5> QED
          BY <1>0, <2>1, <3>1
      <4> QED
        BY <3>2, <4>1, <4>2
    <3>4. F[b] = Further(S, b)
      BY <2>1
    <3> QED
      BY <3>3, <3>4
  <2>2. CASE ~(Len(b) < N)
    BY <2>2
  <2> QED
    BY <2>1, <2>2
<1>3. PICK g \in [Nat -> Q] : g[0] = <<>> /\ \A k \in Nat : g[k + 1] = F[g[k]]
  <2> HIDE DEF Q, F
  <2>1. \E g \in [Nat -> Q] : Chain(<<>>, F, g)
    BY <1>1, <1>2, Iterates
  <2> QED
    BY <2>1 DEF Chain
<1>4. ASSUME NEW k \in Nat, k < N, Len(g[k]) = k
      PROVE  g[k + 1] = Further(S, g[k]) /\ Len(g[k + 1]) = k + 1
  <2>1. g[k] \in Q /\ g[k + 1] = F[g[k]]
    BY <1>3
  <2>2. g[k + 1] = Further(S, g[k]) /\ Partial(S, g[k])
    BY <1>4, <2>1
  <2>3. Len(Further(S, g[k])) = Len(g[k]) + 1
    BY <1>4, <2>2, FurtherGoes
  <2> QED
    BY <1>4, <2>2, <2>3
<1>5. \A k \in 0..N : Len(g[k]) = k
  <2> DEFINE T == {k \in 0..N : Len(g[k]) = k}
  <2>1. 0 \in T
    BY <1>0, <1>3
  <2>2. ASSUME NEW k \in 0..(N - 1), k \in T
        PROVE  k + 1 \in T
    <3>1. k \in Nat /\ k < N /\ Len(g[k]) = k /\ k + 1 \in 0..N
      <4> HIDE DEF N
      <4> QED
        BY <1>0, <2>2
    <3>2. Len(g[k + 1]) = k + 1
      BY <1>4, <3>1
    <3> QED
      BY <3>1, <3>2
  <2>3. \A k \in 0..N : k \in T
    <3> HIDE DEF T, N
    <3> QED
      BY <1>0, <2>1, <2>2, UpTo
  <2> QED
    BY <2>3
<1> DEFINE h == [n \in 0..N |-> g[n]]
<1>6. Rec2(h)
  <2> DEFINE e == [n \in 0..N |-> IF n = 0 THEN <<>> ELSE Further(S, h[n - 1])]
  <2>1. ASSUME NEW n \in 0..N
        PROVE  h[n] = e[n]
    <3>1. CASE n = 0
      BY <1>3, <3>1
    <3>2. CASE n # 0
      <4>1. PICK k \in Nat : k = n - 1 /\ k < N /\ k \in 0..N /\ k + 1 = n
        <5> HIDE DEF N
        <5> QED
          BY <1>0, <3>2
      <4>2. g[k + 1] = Further(S, g[k])
        BY <1>4, <1>5, <4>1
      <4>3. h[n - 1] = g[k] /\ h[n] = g[k + 1]
        BY <4>1
      <4> QED
        BY <3>2, <4>2, <4>3
    <3> QED
      BY <3>1, <3>2
  <2>2. e = [k \in 0..N |-> e[k]] /\ h = [k \in 0..N |-> h[k]]
    OBVIOUS
  <2> HIDE DEF e, h
  <2>3. h = e
    BY <2>1, <2>2
  <2> QED
    BY <2>3 DEF e
<1>7. ASSUME NEW x
      PROVE  Rec(x) <=> Rec2(x)
  BY DEF Further
<1>8. Rec(w)
  <2> HIDE DEF Rec, Rec2
  <2> QED
    BY <1>6, <1>7
<1>9. Rec2(w)
  <2> HIDE DEF Rec, Rec2, w
  <2> QED
    BY <1>7, <1>8
<1>10. Walk(S) = w[N]
  BY DEF Walk
<1> HIDE DEF w
<1>11. w[0] = <<>> /\ \A k \in 0..(N - 1) : w[k + 1] = Further(S, w[k])
  <2>1. ASSUME NEW k \in 0..(N - 1)
        PROVE  w[k + 1] = Further(S, w[k])
    <3>1. k + 1 \in 0..N /\ k + 1 # 0 /\ (k + 1) - 1 = k
      BY <1>0
    <3> HIDE DEF N
    <3> QED
      BY <1>9, <3>1
  <2>2. 0 \in 0..N
    BY <1>0
  <2> QED
    BY <1>9, <2>1, <2>2
<1>12. Grows(S, w)
  BY <1>11 DEF Grows
<1> QED
  BY <1>10, <1>12

\* A walk takes every side once, and goes on from the corner it has reached while it can.
Walks(S, w) ==
  /\ w \in Seq(S)
  /\ \A i \in 1..Len(w), j \in 1..Len(w) : w[i] = w[j] => i = j
  /\ \A s \in S : \E i \in 1..Len(w) : w[i] = s
  /\ \A k \in 1..(Len(w) - 1) :
        (\E t \in S : From(t) = To(w[k]) /\ \A i \in 1..k : w[i] # t) => From(w[k + 1]) = To(w[k])

\* It is a walk over all boundary sides.
LEMMA WalkIsAWalk ==
  ASSUME NEW R \in Masks
  PROVE  Walks(Sides(R), Walk(Sides(R)))
<1>0. PICK S : S = Sides(R)
  OBVIOUS
<1>1. PICK N \in Nat : S = Sides(R) /\ N = Cardinality(S) /\ IsFiniteSet(S)
  BY <1>0, SidesFinite
<1>2. PICK f : Grows(S, f) /\ Walk(S) = f[N]
  BY <1>1, WalkGrows
<1>3. f[0] = <<>> /\ \A k \in 0..(N - 1) : f[k + 1] = Further(S, f[k])
  BY <1>1, <1>2 DEF Grows
<1> DEFINE T == {k \in 0..N : Partial(S, f[k]) /\ Len(f[k]) = k}
<1>4. 0 \in T
  <2>0. <<>> \in Seq(S) /\ Len(<<>>) = 0
    BY EmptySeq
  <2>1. PICK e : e = f[0] /\ e \in Seq(S) /\ Len(e) = 0
    BY <1>3, <2>0
  <2>2. DOMAIN e = {}
    BY <2>1
  <2>3. Range(e) = {}
    BY <2>2 DEF Range
  <2>4. IsFiniteSet(Range(e)) /\ Cardinality(Range(e)) = 0
    BY <2>3, FS_EmptySet
  <2>5. Partial(S, e)
    BY <2>1, <2>4 DEF Partial
  <2> QED
    BY <2>1, <2>5
<1>5. ASSUME NEW k \in 0..(N - 1), k \in T
      PROVE  /\ k + 1 \in T
             /\ \E s : Onward(S, f[k], s) /\ f[k + 1] = Append(f[k], s)
  <2>1. Partial(S, f[k]) /\ Len(f[k]) < N /\ Len(f[k]) = k
    BY <1>5
  <2>2. f[k + 1] = Further(S, f[k])
    BY <1>3
  <2>3. /\ \E s : Onward(S, f[k], s) /\ Further(S, f[k]) = Append(f[k], s)
        /\ Partial(S, Further(S, f[k]))
        /\ Len(Further(S, f[k])) = Len(f[k]) + 1
    BY <1>1, <2>1, FurtherGoes
  <2>4. k + 1 \in 0..N
    OBVIOUS
  <2> QED
    BY <2>1, <2>2, <2>3, <2>4
<1>6. \A k \in 0..N : k \in T
  <2>1. \A k \in 0..(N - 1) : k \in T => k + 1 \in T
    BY <1>5
  <2> HIDE DEF T
  <2> QED
    BY <1>4, <2>1, UpTo
<1>7. ASSUME NEW k \in 0..N
      PROVE  /\ f[k] \in Seq(S) /\ Len(f[k]) = k
             /\ \A i \in 1..k, j \in 1..k : f[k][i] = f[k][j] => i = j
             /\ IsFiniteSet(Range(f[k])) /\ Cardinality(Range(f[k])) = k
  BY <1>6 DEF Partial
<1>8. ASSUME NEW k \in 0..(N - 1)
      PROVE  \E s : Onward(S, f[k], s) /\ f[k + 1] = Append(f[k], s)
  <2>1. k \in T
    BY <1>6
  <2> QED
    BY <1>5, <2>1
<1> HIDE DEF T
<1> DEFINE Agree(m) == \A k \in 0..m : \A j \in 1..k : f[m][j] = f[k][j]
           P == {m \in 0..N : Agree(m)}
<1>9. 0 \in P
  OBVIOUS
<1>10. ASSUME NEW m \in 0..(N - 1), m \in P
       PROVE  m + 1 \in P
  <2>1. PICK s : Onward(S, f[m], s) /\ f[m + 1] = Append(f[m], s)
    BY <1>8
  <2>2. s \in S
    BY <2>1 DEF Onward
  <2>3. m \in 0..N /\ m + 1 \in 0..N
    OBVIOUS
  <2>4. f[m] \in Seq(S) /\ Len(f[m]) = m
    BY <1>7, <2>3
  <2>5. \A j \in 1..m : f[m + 1][j] = f[m][j]
    BY <2>1, <2>2, <2>4
  <2>6. ASSUME NEW k \in 0..(m + 1), NEW j \in 1..k
        PROVE  f[m + 1][j] = f[k][j]
    <3>1. CASE k = m + 1
      BY <3>1
    <3>2. CASE k # m + 1
      <4>1. k \in 0..m /\ j \in 1..m
        BY <3>2
      <4>2. f[m][j] = f[k][j]
        BY <1>10, <4>1
      <4> QED
        BY <2>5, <4>1, <4>2
    <3> QED
      BY <3>1, <3>2
  <2> QED
    BY <2>3, <2>6
<1>11. \A m \in 0..N : m \in P
  <2> HIDE DEF P
  <2> QED
    BY <1>9, <1>10, UpTo
<1>12. PICK w : w = f[N]
  OBVIOUS
<1>13. \A k \in 0..N : \A j \in 1..k : w[j] = f[k][j]
  <2>1. N \in P
    BY <1>11
  <2> QED
    BY <1>12, <2>1
<1> HIDE DEF P, Agree
<1>14. w \in Seq(S) /\ Len(w) = N /\ \A i \in 1..N, j \in 1..N : w[i] = w[j] => i = j
  BY <1>7, <1>12
<1>15. ASSUME NEW s \in S
       PROVE  \E i \in 1..N : w[i] = s
  <2>1. IsFiniteSet(Range(w)) /\ Cardinality(Range(w)) = Cardinality(S)
    BY <1>1, <1>7, <1>12
  <2>2. DOMAIN w = 1..N
    BY <1>14
  <2>3. Range(w) \in SUBSET S
    BY <1>14, <2>2 DEF Range
  <2>4. Range(w) = S
    BY <1>1, <2>1, <2>3, FS_Subset
  <2> QED
    BY <2>2, <2>4 DEF Range
<1>16. ASSUME NEW k \in 1..(N - 1), NEW t \in S, From(t) = To(w[k]), \A i \in 1..k : w[i] # t
       PROVE  From(w[k + 1]) = To(w[k])
  <2>1. k \in 0..(N - 1) /\ k \in 0..N /\ k + 1 \in 0..N /\ k \in 1..k /\ k + 1 \in 1..(k + 1)
    OBVIOUS
  <2>2. PICK s : Onward(S, f[k], s) /\ f[k + 1] = Append(f[k], s)
    BY <1>8, <2>1
  <2>3. f[k] \in Seq(S) /\ Len(f[k]) = k /\ DOMAIN f[k] = 1..k /\ f[k] # <<>>
    BY <1>7, <2>1
  <2>4. Last(f[k]) = w[k]
    BY <1>13, <2>1, <2>3 DEF Last
  <2>5. t \notin Range(f[k])
    BY <1>13, <1>16, <2>1, <2>3 DEF Range
  <2>6. From(s) = To(w[k])
    BY <1>16, <2>2, <2>3, <2>4, <2>5 DEF Onward
  <2>7. s \in S
    BY <2>2 DEF Onward
  <2>8. f[k + 1][k + 1] = s
    BY <2>2, <2>3, <2>7
  <2>9. w[k + 1] = f[k + 1][k + 1]
    BY <1>13, <2>1
  <2> QED
    BY <2>6, <2>8, <2>9
<1>17. Walks(S, w)
  BY <1>14, <1>15, <1>16 DEF Walks
<1> QED
  BY <1>1, <1>2, <1>12, <1>17

-----------------------------------------------------------------------------
(* As many sides of a room leave a corner as lead to it.                   *)

Balanced(S, k) ==
  \/ \A s \in S : To(s) # k
  \/ \E a \in S : \E b : From(a) = k /\ \A s \in S : To(s) = k => s = b
  \/ \E a \in S, c \in S : \E b, d :
        a # c /\ From(a) = k /\ From(c) = k /\ \A s \in S : To(s) = k => s = b \/ s = d

\* Of the four cells around a corner, as many are left clockwise as are entered.
LEMMA CornersBalance ==
  ASSUME NEW R \in Masks, NEW k \in Int \X Int
  PROVE  Balanced(Sides(R), k)
<1>1. PICK x \in Int, y \in Int : k = <<x, y>>
  OBVIOUS
<1>2. PICK u \in Int, v \in Int : u = x - 1 /\ v = y - 1 /\ u + 1 = x /\ v + 1 = y
  OBVIOUS
<1>3. PICK S : S = Sides(R)
  OBVIOUS
<1>4. PICK i1, i2, i3, i4 :
        i1 = <<<<u, y>>, 1>> /\ i2 = <<<<u, v>>, 2>> /\ i3 = <<<<x, v>>, 3>> /\ i4 = <<<<x, y>>, 4>>
  OBVIOUS
<1>5. PICK o1, o2, o3, o4 :
        o1 = <<<<x, y>>, 1>> /\ o2 = <<<<u, y>>, 2>> /\ o3 = <<<<u, v>>, 3>> /\ o4 = <<<<x, v>>, 4>>
  OBVIOUS
<1>6. ASSUME NEW s \in S, To(s) = k
      PROVE  s = i1 \/ s = i2 \/ s = i3 \/ s = i4
  <2>1. s \in AnySide
    BY <1>3, SidesType
  <2>2. PICK c \in Int, r \in Int : SideOf(s, c, r)
    BY <2>1, SideParts
  <2>3. CASE s = <<<<c, r>>, 1>> /\ To(s) = <<c + 1, r>>
    <3>1. c = u /\ r = y
      BY <1>1, <1>2, <1>6, <2>3
    <3> QED
      BY <1>4, <2>3, <3>1
  <2>4. CASE s = <<<<c, r>>, 2>> /\ To(s) = <<c + 1, r + 1>>
    <3>1. c = u /\ r = v
      BY <1>1, <1>2, <1>6, <2>4
    <3> QED
      BY <1>4, <2>4, <3>1
  <2>5. CASE s = <<<<c, r>>, 3>> /\ To(s) = <<c, r + 1>>
    <3>1. c = x /\ r = v
      BY <1>1, <1>2, <1>6, <2>5
    <3> QED
      BY <1>4, <2>5, <3>1
  <2>6. CASE s = <<<<c, r>>, 4>> /\ To(s) = <<c, r>>
    <3>1. c = x /\ r = y
      BY <1>1, <1>6, <2>6
    <3> QED
      BY <1>4, <2>6, <3>1
  <2> QED
    BY <2>2, <2>3, <2>4, <2>5, <2>6 DEF SideOf
<1>7. From(o1) = k /\ From(o2) = k /\ From(o3) = k /\ From(o4) = k
  <2>1. From(<<<<x, y>>, 1>>) = <<x, y>> /\ From(<<<<u, y>>, 2>>) = <<u + 1, y>>
        /\ From(<<<<u, v>>, 3>>) = <<u + 1, v + 1>> /\ From(<<<<x, v>>, 4>>) = <<x, v + 1>>
    BY FourSides
  <2> QED
    BY <1>1, <1>2, <1>5, <2>1
<1>8. o1 # o3 /\ o2 # o4
  BY <1>5
<1>9. PICK nw, ne, sw, se : nw = <<u, v>> /\ ne = <<x, v>> /\ sw = <<u, y>> /\ se = <<x, y>>
  OBVIOUS
<1>10. /\ i4 \in S <=> se \in R /\ sw \notin R
       /\ o1 \in S <=> se \in R /\ ne \notin R
  BY <1>2, <1>3, <1>4, <1>5, <1>9, SidesOf
<1>11. /\ i1 \in S <=> sw \in R /\ nw \notin R
       /\ o2 \in S <=> sw \in R /\ se \notin R
  <2>1. <<<<u, y>>, 1>> \in Sides(R) <=> <<u, y>> \in R /\ <<u, y - 1>> \notin R
    BY SidesOf
  <2>2. <<<<u, y>>, 2>> \in Sides(R) <=> <<u, y>> \in R /\ <<u + 1, y>> \notin R
    BY SidesOf
  <2> QED
    BY <1>2, <1>3, <1>4, <1>5, <1>9, <2>1, <2>2
<1>12. /\ i2 \in S <=> nw \in R /\ ne \notin R
       /\ o3 \in S <=> nw \in R /\ sw \notin R
  <2>1. <<<<u, v>>, 2>> \in Sides(R) <=> <<u, v>> \in R /\ <<u + 1, v>> \notin R
    BY SidesOf
  <2>2. <<<<u, v>>, 3>> \in Sides(R) <=> <<u, v>> \in R /\ <<u, v + 1>> \notin R
    BY SidesOf
  <2> QED
    BY <1>2, <1>3, <1>4, <1>5, <1>9, <2>1, <2>2
<1>13. /\ i3 \in S <=> ne \in R /\ se \notin R
       /\ o4 \in S <=> ne \in R /\ nw \notin R
  <2>1. <<<<x, v>>, 3>> \in Sides(R) <=> <<x, v>> \in R /\ <<x, v + 1>> \notin R
    BY SidesOf
  <2>2. <<<<x, v>>, 4>> \in Sides(R) <=> <<x, v>> \in R /\ <<x - 1, v>> \notin R
    BY SidesOf
  <2> QED
    BY <1>2, <1>3, <1>4, <1>5, <1>9, <2>1, <2>2
<1>14. \/ i1 \notin S /\ i2 \notin S /\ i3 \notin S /\ i4 \notin S
       \/ i1 \notin S /\ i3 \notin S /\ o1 \in S /\ o3 \in S
       \/ i2 \notin S /\ i4 \notin S /\ o2 \in S /\ o4 \in S
       \/ /\ o1 \in S \/ o2 \in S \/ o3 \in S \/ o4 \in S
          /\ \/ i2 \notin S /\ i3 \notin S /\ i4 \notin S
             \/ i1 \notin S /\ i3 \notin S /\ i4 \notin S
             \/ i1 \notin S /\ i2 \notin S /\ i4 \notin S
             \/ i1 \notin S /\ i2 \notin S /\ i3 \notin S
  BY <1>10, <1>11, <1>12, <1>13
<1>15. CASE i1 \notin S /\ i2 \notin S /\ i3 \notin S /\ i4 \notin S
  BY <1>3, <1>6, <1>15 DEF Balanced
<1>16. CASE i1 \notin S /\ i3 \notin S /\ o1 \in S /\ o3 \in S
  BY <1>3, <1>6, <1>7, <1>8, <1>16 DEF Balanced
<1>17. CASE i2 \notin S /\ i4 \notin S /\ o2 \in S /\ o4 \in S
  BY <1>3, <1>6, <1>7, <1>8, <1>17 DEF Balanced
<1>18. CASE /\ o1 \in S \/ o2 \in S \/ o3 \in S \/ o4 \in S
            /\ \/ i2 \notin S /\ i3 \notin S /\ i4 \notin S
               \/ i1 \notin S /\ i3 \notin S /\ i4 \notin S
               \/ i1 \notin S /\ i2 \notin S /\ i4 \notin S
               \/ i1 \notin S /\ i2 \notin S /\ i3 \notin S
  <2>1. \E a \in S : From(a) = k
    BY <1>7, <1>18
  <2>2. \E b : \A s \in S : To(s) = k => s = b
    BY <1>6, <1>18
  <2> QED
    BY <1>3, <2>1, <2>2 DEF Balanced
<1> QED
  BY <1>14, <1>15, <1>16, <1>17, <1>18

-----------------------------------------------------------------------------
(* The walk consists of closed runs.                                       *)

\* A run ends where the walk does or goes on from another corner.
EndsAt(w, j) == j \in {0, Len(w)} \/ To(w[j]) # From(w[j + 1])
StartsAt(w, i) == i \in 1..Len(w) /\ EndsAt(w, i - 1)
LastOf(w, i) == Min({j \in i..Len(w) : EndsAt(w, j)})

\* Min of a set of natural numbers is its least member.
LEMMA MinIs ==
  ASSUME NEW T, T \subseteq Nat, T # {}
  PROVE  Min(T) \in T /\ \A k \in T : Min(T) <= k
<1>1. \E n \in T : \A k \in T : n <= k
  BY Least
<1> QED
  BY <1>1 DEF Min

\* LastOf is the first end from a position on.
LEMMA LastOfRun ==
  ASSUME NEW w, Len(w) \in Nat, NEW i \in 1..Len(w)
  PROVE  /\ LastOf(w, i) \in i..Len(w) /\ EndsAt(w, LastOf(w, i))
         /\ \A j \in i..(LastOf(w, i) - 1) : ~EndsAt(w, j)
<1> DEFINE T == {j \in i..Len(w) : EndsAt(w, j)}
<1>1. T \subseteq Nat
  OBVIOUS
<1>2. Len(w) \in T
  BY DEF EndsAt
<1>3. LastOf(w, i) = Min(T)
  BY DEF LastOf
<1>4. Min(T) \in T /\ \A k \in T : Min(T) <= k
  <2> HIDE DEF T
  <2> QED
    BY <1>1, <1>2, MinIs
<1>5. PICK l : l = Min(T) /\ l \in T /\ \A k \in T : l <= k
  BY <1>4
<1>6. ASSUME NEW j \in i..(l - 1)
      PROVE  ~EndsAt(w, j)
  <2>1. l \in Nat /\ l <= Len(w)
    BY <1>5
  <2>2. j \in i..Len(w) /\ ~(l <= j)
    BY <2>1
  <2>3. j \notin T
    BY <1>5, <2>2
  <2> QED
    BY <2>2, <2>3
<1> QED
  BY <1>3, <1>5, <1>6

\* Where the corner that side t leaves was reached.
Pred(w, t) == IF EndsAt(w, t - 1) THEN LastOf(w, t) ELSE t - 1

\* No corner a side leaves was reached by the same side as another.
LEMMA PredsDiffer ==
  ASSUME NEW w, Len(w) \in Nat, NEW t \in 1..Len(w), NEW u \in 1..Len(w), Pred(w, t) = Pred(w, u)
  PROVE  t = u
<1>1. ASSUME NEW a \in 1..Len(w), NEW b \in 1..Len(w), a < b
      PROVE  Pred(w, a) # Pred(w, b)
  <2>1. /\ LastOf(w, a) \in a..Len(w) /\ EndsAt(w, LastOf(w, a))
        /\ \A j \in a..(LastOf(w, a) - 1) : ~EndsAt(w, j)
    BY LastOfRun
  <2>2. LastOf(w, b) \in b..Len(w) /\ EndsAt(w, LastOf(w, b))
    BY LastOfRun
  <2>3. CASE EndsAt(w, b - 1)
    <3>1. LastOf(w, a) <= b - 1
      <4>1. b - 1 \in a..Len(w)
        BY <1>1
      <4> QED
        BY <2>1, <2>3, <4>1
    <3>2. Pred(w, a) <= b - 1
      BY <1>1, <3>1 DEF Pred
    <3>3. Pred(w, b) = LastOf(w, b)
      BY <2>3 DEF Pred
    <3>4. Pred(w, a) \in Int
      BY <2>1 DEF Pred
    <3> QED
      BY <2>2, <3>2, <3>3, <3>4
  <2>4. CASE ~EndsAt(w, b - 1)
    <3>1. Pred(w, b) = b - 1
      BY <2>4 DEF Pred
    <3>2. LastOf(w, a) # b - 1
      BY <2>1, <2>4
    <3>3. a - 1 # b - 1
      BY <1>1
    <3> QED
      BY <3>1, <3>2, <3>3 DEF Pred
  <2> QED
    BY <2>3, <2>4
<1> QED
  BY <1>1

\* Sides begin and end at corners.
LEMMA SideCorners ==
  ASSUME NEW s \in AnySide
  PROVE  From(s) \in Int \X Int /\ To(s) \in Int \X Int
<1>1. PICK c \in Int, r \in Int : SideOf(s, c, r)
  BY SideParts
<1> QED
  BY <1>1 DEF SideOf

\* A run ends at the corner it started from: at any other corner some side that leaves it is unused.
LEMMA RunsClose ==
  ASSUME NEW R \in Masks, NEW w, Walks(Sides(R), w), NEW i, StartsAt(w, i)
  PROVE  To(w[LastOf(w, i)]) = From(w[i])
<1> DEFINE S == Sides(R)
           N == Len(w)
           Open == {t \in 1..N : StartsAt(w, t) /\ To(w[LastOf(w, t)]) # From(w[t])}
<1>1. /\ w \in Seq(S) /\ N \in Nat
      /\ \A t \in 1..N : w[t] \in S
      /\ \A t \in 1..N, u \in 1..N : w[t] = w[u] => t = u
      /\ \A s \in S : \E t \in 1..N : w[t] = s
      /\ \A k \in 1..(N - 1) :
           (\E t \in S : From(t) = To(w[k]) /\ \A u \in 1..k : w[u] # t) => From(w[k + 1]) = To(w[k])
  BY DEF Walks
<1>2. SUFFICES ASSUME Open # {} PROVE FALSE
  BY DEF StartsAt
<1>3. PICK o \in Open : \A t \in Open : o <= t
  <2>1. Open \subseteq Nat
    BY <1>1
  <2> HIDE DEF Open
  <2> QED
    BY <1>2, <2>1, Least
<1>4. o \in 1..N /\ EndsAt(w, o - 1) /\ To(w[LastOf(w, o)]) # From(w[o])
  BY <1>3 DEF StartsAt
<1>5. ASSUME NEW t \in 1..N
      PROVE  /\ LastOf(w, t) \in t..N /\ EndsAt(w, LastOf(w, t))
             /\ \A j \in t..(LastOf(w, t) - 1) : ~EndsAt(w, j)
  BY <1>1, LastOfRun
<1>6. PICK j \in o..N : j = LastOf(w, o) /\ EndsAt(w, j) /\ \A t \in o..(j - 1) : ~EndsAt(w, t)
  BY <1>4, <1>5
<1>7. PICK k \in Int \X Int : k = To(w[j])
  <2>1. w[j] \in AnySide
    BY <1>1, <1>4, <1>6, SidesType
  <2> QED
    BY <2>1, SideCorners
<1>8. ASSUME NEW t \in 1..j, From(w[t]) = k
      PROVE  Pred(w, t) \in 1..N /\ Pred(w, t) # j /\ To(w[Pred(w, t)]) = k
  <2>1. t \in 1..N /\ t \in Int /\ o \in Int /\ j \in Int
    BY <1>1, <1>4, <1>6
  <2>2. CASE EndsAt(w, t - 1)
    <3>1. Pred(w, t) = LastOf(w, t)
      BY <2>2 DEF Pred
    <3>2. t # o
      BY <1>4, <1>6, <1>7, <1>8
    <3>3. ~(t > o)
      <4>1. SUFFICES ASSUME t > o PROVE FALSE
        OBVIOUS
      <4>2. t - 1 \in o..(j - 1)
        BY <2>1, <4>1
      <4> QED
        BY <1>6, <2>2, <4>2
    <3>4. t < o
      BY <2>1, <3>2, <3>3
    <3>5. t \notin Open
      BY <1>3, <2>1, <3>4
    <3>6. To(w[LastOf(w, t)]) = From(w[t])
      BY <2>1, <2>2, <3>5 DEF StartsAt
    <3>7. LastOf(w, t) <= o - 1
      <4>1. o - 1 \in t..N
        BY <1>1, <1>4, <2>1, <3>4
      <4>2. LastOf(w, t) \in Int
        BY <1>5, <2>1
      <4> QED
        BY <1>4, <1>5, <2>1, <4>1, <4>2
    <3>8. LastOf(w, t) \in 1..N
      BY <1>1, <1>5, <2>1
    <3> QED
      BY <1>6, <1>8, <2>1, <3>1, <3>6, <3>7, <3>8
  <2>3. CASE ~EndsAt(w, t - 1)
    <3>1. Pred(w, t) = t - 1 /\ (t - 1) + 1 = t
      BY <2>1, <2>3 DEF Pred
    <3>2. t - 1 # 0 /\ To(w[t - 1]) = From(w[t])
      BY <2>3, <3>1 DEF EndsAt
    <3>3. t - 1 \in 1..N /\ t - 1 # j
      BY <1>1, <2>1, <3>2
    <3> QED
      BY <1>8, <3>1, <3>2, <3>3
  <2> QED
    BY <2>2, <2>3
<1>9. j \in 1..N
  BY <1>4, <1>6
<1>10. \E s \in S : From(s) = k /\ \A t \in 1..j : w[t] # s
  <2>1. SUFFICES ASSUME \A s \in S : From(s) = k => \E t \in 1..j : w[t] = s
                 PROVE  FALSE
    OBVIOUS
  <2>2. Balanced(S, k)
    BY CornersBalance
  <2> HIDE DEF S, N
  <2>3. CASE \A s \in S : To(s) # k
    BY <1>1, <1>7, <1>9, <2>3
  <2>4. CASE \E a \in S : \E b : From(a) = k /\ \A s \in S : To(s) = k => s = b
    <3>0. PICK a \in S : \E b : From(a) = k /\ \A s \in S : To(s) = k => s = b
      BY <2>4
    <3>1. PICK b : From(a) = k /\ \A s \in S : To(s) = k => s = b
      BY <3>0
    <3>2. PICK t \in 1..j : w[t] = a
      BY <2>1, <3>1
    <3>3. Pred(w, t) \in 1..N /\ Pred(w, t) # j /\ To(w[Pred(w, t)]) = k
      BY <1>8, <3>1, <3>2
    <3>4. w[Pred(w, t)] = b /\ w[j] = b
      BY <1>1, <1>7, <1>9, <3>1, <3>3
    <3> QED
      BY <1>1, <1>9, <3>3, <3>4
  <2>5. CASE \E a \in S, c \in S : \E b, d :
               a # c /\ From(a) = k /\ From(c) = k /\ \A s \in S : To(s) = k => s = b \/ s = d
    <3>0. PICK a \in S, c \in S : \E b, d :
               a # c /\ From(a) = k /\ From(c) = k /\ \A s \in S : To(s) = k => s = b \/ s = d
      BY <2>5
    <3>1. PICK b, d : a # c /\ From(a) = k /\ From(c) = k /\ \A s \in S : To(s) = k => s = b \/ s = d
      BY <3>0
    <3>2. PICK t \in 1..j, u \in 1..j : w[t] = a /\ w[u] = c
      BY <2>1, <3>1
    <3>3. PICK p \in 1..N : p = Pred(w, t) /\ p # j /\ To(w[p]) = k
      BY <1>8, <3>1, <3>2
    <3>4. PICK q \in 1..N : q = Pred(w, u) /\ q # j /\ To(w[q]) = k
      BY <1>8, <3>1, <3>2
    <3>5. p # q
      <4>0. t # u
        BY <3>1, <3>2
      <4>1. t \in 1..N /\ u \in 1..N /\ t # u
        BY ONLY <1>1, <1>9, <4>0, t \in 1..j, u \in 1..j
      <4> QED
        BY <1>1, <3>3, <3>4, <4>1, PredsDiffer DEF N
    <3>6. (w[p] = b \/ w[p] = d) /\ (w[q] = b \/ w[q] = d) /\ (w[j] = b \/ w[j] = d)
      BY <1>1, <1>7, <1>9, <3>1, <3>3, <3>4
    <3>7. w[p] # w[q] /\ w[p] # w[j] /\ w[q] # w[j]
      BY <1>1, <1>9, <3>3, <3>4, <3>5
    <3> QED
      BY <3>6, <3>7
  <2> QED
    BY <2>2, <2>3, <2>4, <2>5 DEF Balanced
<1>11. CASE j = N
  BY <1>1, <1>10, <1>11
<1>12. CASE j # N
  <2>1. j \in 1..(N - 1) /\ j # 0
    BY <1>1, <1>9, <1>12
  <2>2. From(w[j + 1]) = To(w[j])
    BY <1>1, <1>7, <1>10, <2>1
  <2> QED
    BY <1>6, <1>12, <2>1, <2>2 DEF EndsAt
<1> QED
  BY <1>11, <1>12

RunOf(w, i) == [k \in 1..(LastOf(w, i) - i + 1) |-> w[i + k - 1]]

\* So every run is a closed trail along the boundary.
LEMMA RunIsBoundary ==
  ASSUME NEW R \in Masks, NEW w, Walks(Sides(R), w), NEW i, StartsAt(w, i)
  PROVE  Boundary(R, RunOf(w, i), LastOf(w, i) - i + 1)
<1>1. /\ w \in Seq(Sides(R)) /\ Len(w) \in Nat
      /\ \A t \in 1..Len(w) : w[t] \in Sides(R)
      /\ \A t \in 1..Len(w), u \in 1..Len(w) : w[t] = w[u] => t = u
  BY DEF Walks
<1>2. i \in 1..Len(w)
  BY DEF StartsAt
<1>3. PICK l \in i..Len(w) : l = LastOf(w, i) /\ \A j \in i..(l - 1) : ~EndsAt(w, j)
  BY <1>1, <1>2, LastOfRun
<1>4. PICK n \in Nat \ {0} : n = l - i + 1
  BY <1>2, <1>3
<1>5. To(w[l]) = From(w[i])
  BY <1>3, RunsClose
<1>6. PICK L : L = RunOf(w, i)
  OBVIOUS
<1>7. ASSUME NEW k \in 1..n
      PROVE  L[k] = w[i + k - 1] /\ i + k - 1 \in i..l /\ i + k - 1 \in 1..Len(w)
  <2>1. L = [a \in 1..n |-> w[i + a - 1]]
    BY <1>3, <1>4, <1>6 DEF RunOf
  <2>2. L[k] = w[i + k - 1]
    BY <2>1
  <2> QED
    BY <1>1, <1>2, <1>3, <1>4, <2>2
<1>8. ASSUME NEW k \in 1..n
      PROVE  L[k] \in AnySide /\ L[k] \in Sides(R)
  BY <1>1, <1>7, SidesType
<1>9. ASSUME NEW k \in 1..n, NEW m \in 1..n, L[k] = L[m]
      PROVE  k = m
  <2>1. i + k - 1 = i + m - 1
    BY <1>1, <1>7, <1>9
  <2> QED
    BY <1>2, <2>1
<1>10. ASSUME NEW k \in 1..n
       PROVE  To(L[k]) = From(L[Next1(k, n)])
  <2>1. CASE k = n
    <3>1. i + k - 1 = l /\ 1 \in 1..n /\ i + 1 - 1 = i
      BY <1>2, <1>3, <1>4, <2>1
    <3>2. L[k] = w[l] /\ L[1] = w[i]
      BY <1>7, <3>1
    <3> QED
      BY <1>5, <2>1, <3>2 DEF Next1
  <2>2. CASE k # n
    <3>1. k + 1 \in 1..n /\ i + (k + 1) - 1 = (i + k - 1) + 1 /\ i + k - 1 \in i..(l - 1)
      BY <1>2, <1>3, <1>4, <2>2
    <3>2. ~EndsAt(w, i + k - 1)
      BY <1>3, <3>1
    <3>3. To(w[i + k - 1]) = From(w[(i + k - 1) + 1])
      BY <3>2 DEF EndsAt
    <3>4. L[k] = w[i + k - 1] /\ L[k + 1] = w[i + (k + 1) - 1]
      BY <1>7, <3>1
    <3> QED
      BY <2>2, <3>1, <3>3, <3>4 DEF Next1
  <2> QED
    BY <2>1, <2>2
<1>11. Trail(L, n)
  BY <1>8, <1>9, <1>10 DEF Trail
<1>12. Boundary(R, L, n)
  BY <1>8, <1>11 DEF Boundary
<1> QED
  BY <1>3, <1>4, <1>6, <1>12

\* Every position is in a run, and the runs from different positions share no side.
LEMMA RunOfPosition ==
  ASSUME NEW w, Len(w) \in Nat, NEW t \in 1..Len(w)
  PROVE  \E i : StartsAt(w, i) /\ t \in i..LastOf(w, i)
<1> DEFINE T == {t - i : i \in {a \in 1..t : StartsAt(w, a)}}
<1>1. T \subseteq Nat
  OBVIOUS
<1>2. t - 1 \in T
  <2>1. StartsAt(w, 1)
    BY DEF StartsAt, EndsAt
  <2> QED
    BY <2>1
<1>3. PICK d \in T : \A k \in T : d <= k
  <2> HIDE DEF T
  <2> QED
    BY <1>1, <1>2, Least
<1>4. PICK i \in 1..t : d = t - i /\ StartsAt(w, i)
  BY <1>3
<1>5. i \in 1..Len(w)
  OBVIOUS
<1>6. LastOf(w, i) \in i..Len(w) /\ EndsAt(w, LastOf(w, i))
  BY <1>5, LastOfRun
<1>7. LastOf(w, i) >= t
  <2>1. SUFFICES ASSUME LastOf(w, i) < t PROVE FALSE
    BY <1>6
  <2>2. PICK a : a = LastOf(w, i) + 1 /\ a - 1 = LastOf(w, i) /\ a \in 1..t /\ a > i
    BY <1>6, <2>1
  <2>3. StartsAt(w, a)
    BY <1>6, <2>2 DEF StartsAt
  <2>4. t - a \in T
    BY <2>2, <2>3
  <2>5. d <= t - a
    BY <1>3, <2>4
  <2> QED
    BY <1>4, <2>2, <2>5
<1> QED
  BY <1>4, <1>6, <1>7

\* Different runs share no side.
LEMMA RunsApart ==
  ASSUME NEW S, NEW w, Walks(S, w), NEW i, StartsAt(w, i), NEW j, StartsAt(w, j), i # j,
         NEW t \in i..LastOf(w, i), NEW u \in j..LastOf(w, j)
  PROVE  w[t] # w[u]
<1>1. /\ w \in Seq(S) /\ Len(w) \in Nat
      /\ \A a \in 1..Len(w), b \in 1..Len(w) : w[a] = w[b] => a = b
  BY DEF Walks
<1>2. i \in 1..Len(w) /\ j \in 1..Len(w) /\ EndsAt(w, i - 1) /\ EndsAt(w, j - 1)
  BY DEF StartsAt
<1>3. /\ LastOf(w, i) \in i..Len(w) /\ (\A a \in i..(LastOf(w, i) - 1) : ~EndsAt(w, a))
      /\ LastOf(w, j) \in j..Len(w) /\ (\A a \in j..(LastOf(w, j) - 1) : ~EndsAt(w, a))
  BY <1>1, <1>2, LastOfRun
<1>4. CASE i < j
  <2>1. LastOf(w, i) <= j - 1
    BY <1>2, <1>3, <1>4
  <2> QED
    BY <1>1, <1>2, <1>3, <2>1
<1>5. CASE j < i
  <2>1. LastOf(w, j) <= i - 1
    BY <1>2, <1>3, <1>5
  <2> QED
    BY <1>1, <1>2, <1>3, <2>1
<1> QED
  BY <1>2, <1>4, <1>5

\* A boundary trail has at least three sides: two would lie between the same two cells.
LEMMA ThreeSides ==
  ASSUME NEW R \in Masks, NEW L, NEW n, Boundary(R, L, n)
  PROVE  n >= 3
<1>1. n \in Nat \ {0} /\ Trail(L, n)
  BY DEF Boundary, Trail
<1>2. ASSUME NEW s \in AnySide
      PROVE  From(s) # To(s)
  <2>1. PICK c \in Int, r \in Int : SideOf(s, c, r)
    BY SideParts
  <2> QED
    BY <2>1 DEF SideOf
<1>3. n # 1
  <2>1. SUFFICES ASSUME n = 1 PROVE FALSE
    OBVIOUS
  <2>2. L[1] \in AnySide /\ To(L[1]) = From(L[1])
    BY <1>1, <2>1 DEF Trail, Next1
  <2> QED
    BY <1>2, <2>2
<1>4. n # 2
  <2>1. SUFFICES ASSUME n = 2 PROVE FALSE
    OBVIOUS
  <2>2. 1 \in 1..n /\ 2 \in 1..n /\ Next1(1, n) = 2 /\ Next1(2, n) = 1
    BY <2>1 DEF Next1
  <2>3. PICK s \in Sides(R), t \in Sides(R) : s = L[1] /\ t = L[2] /\ To(s) = From(t) /\ To(t) = From(s)
    BY <1>1, <2>2 DEF Trail, Boundary
  <2>4. s \in AnySide /\ t \in AnySide
    BY SidesType
  <2>5. PICK c \in Int, r \in Int : SideOf(s, c, r)
    BY <2>4, SideParts
  <2>6. PICK d \in Int, e \in Int : SideOf(t, d, e)
    BY <2>4, SideParts
  <2>7. CASE s = <<<<c, r>>, 1>> /\ From(s) = <<c, r>> /\ To(s) = <<c + 1, r>>
    <3>1. PICK u \in Int : u = r - 1
      OBVIOUS
    <3>2. t = <<<<c, u>>, 3>>
      BY <2>3, <2>6, <2>7, <3>1 DEF SideOf
    <3>3. <<c, u>> \in R
      BY <3>2, SidesOf
    <3>4. <<c, r - 1>> \notin R
      BY <2>7, SidesOf
    <3> QED
      BY <3>1, <3>3, <3>4
  <2>8. CASE s = <<<<c, r>>, 2>> /\ From(s) = <<c + 1, r>> /\ To(s) = <<c + 1, r + 1>>
    <3>1. PICK u \in Int : u = c + 1
      OBVIOUS
    <3>2. t = <<<<u, r>>, 4>>
      BY <2>3, <2>6, <2>8, <3>1 DEF SideOf
    <3>3. <<u, r>> \in R
      BY <3>2, SidesOf
    <3>4. <<c + 1, r>> \notin R
      BY <2>8, SidesOf
    <3> QED
      BY <3>1, <3>3, <3>4
  <2>9. CASE s = <<<<c, r>>, 3>> /\ From(s) = <<c + 1, r + 1>> /\ To(s) = <<c, r + 1>>
    <3>1. PICK u \in Int : u = r + 1
      OBVIOUS
    <3>2. t = <<<<c, u>>, 1>>
      BY <2>3, <2>6, <2>9, <3>1 DEF SideOf
    <3>3. <<c, u>> \in R
      BY <3>2, SidesOf
    <3>4. <<c, r + 1>> \notin R
      BY <2>9, SidesOf
    <3> QED
      BY <3>1, <3>3, <3>4
  <2>10. CASE s = <<<<c, r>>, 4>> /\ From(s) = <<c, r + 1>> /\ To(s) = <<c, r>>
    <3>1. PICK u \in Int : u = c - 1
      OBVIOUS
    <3>2. t = <<<<u, r>>, 2>>
      BY <2>3, <2>6, <2>10, <3>1 DEF SideOf
    <3>3. <<u, r>> \in R
      BY <3>2, SidesOf
    <3>4. <<c - 1, r>> \notin R
      BY <2>10, SidesOf
    <3> QED
      BY <3>1, <3>3, <3>4
  <2> QED
    BY <2>5, <2>7, <2>8, <2>9, <2>10 DEF SideOf
<1> QED
  BY <1>1, <1>3, <1>4

-----------------------------------------------------------------------------
(* The outline of a mask.                                                  *)

\* The area of a boundary trail is a number.
LEMMA AreaType ==
  ASSUME NEW R \in Masks, NEW L, NEW n, Boundary(R, L, n)
  PROVE  Abs(cornerArea([i \in 1..n |-> From(L[i])])) \in Int
<1> DEFINE f == [p \in Cells |-> Winding(L, n, p)]
<1>1. Trail(L, n) /\ \A i \in 1..n : L[i][1] \in Cells
  BY SidesType DEF Boundary
<1>2. \A p \in Cells : f[p] \in Int
  BY <1>1, WindingType
<1>3. cornerArea([i \in 1..n |-> From(L[i])]) = 2 * CellSum(f)
  BY <1>1, AreaIsWinding
<1> HIDE DEF f
<1>4. CellSum(f) \in Int
  BY <1>2, CellSumType
<1> QED
  BY <1>3, <1>4 DEF Abs

LoopOf(w, i) == [k \in 1..(LastOf(w, i) - i + 1) |-> From(RunOf(w, i)[k])]

\* The loops traced are the corners of the runs of the walk.
LEMMA LoopsAreRuns ==
  ASSUME NEW R \in Masks, NEW w, w = Walk(Sides(R))
  PROVE  /\ DOMAIN traceLoops(R) = {i \in 1..Len(w) : StartsAt(w, i) /\ LastOf(w, i) - i >= 2}
         /\ \A i \in DOMAIN traceLoops(R) : traceLoops(R)[i] = LoopOf(w, i)
<1> DEFINE Ends(j) == j \in {0, Len(w)} \/ To(w[j]) # From(w[j + 1])
           last(i) == Min({j \in i..Len(w) : Ends(j)})
           D == {i \in DOMAIN w : Ends(i - 1) /\ last(i) - i >= 2}
           loops == [i \in D |-> [k \in 1..(last(i) - i + 1) |-> From(w[i + k - 1])]]
<1>1. traceLoops(R) = loops
  BY DEF traceLoops
<1>2. Walks(Sides(R), w)
  BY WalkIsAWalk
<1>3. DOMAIN w = 1..Len(w)
  BY <1>2 DEF Walks
<1>4. \A j : Ends(j) <=> EndsAt(w, j)
  BY DEF EndsAt
<1>5. ASSUME NEW i
      PROVE  last(i) = LastOf(w, i)
  <2>1. {j \in i..Len(w) : Ends(j)} = {j \in i..Len(w) : EndsAt(w, j)}
    <3> HIDE DEF Ends
    <3> QED
      BY <1>4
  <2> HIDE DEF Ends
  <2> QED
    BY <2>1 DEF LastOf
<1> HIDE DEF Ends, last
<1>6. D = {i \in 1..Len(w) : StartsAt(w, i) /\ LastOf(w, i) - i >= 2}
  BY <1>3, <1>4, <1>5 DEF StartsAt
<1>7. ASSUME NEW i \in D
      PROVE  loops[i] = LoopOf(w, i)
  <2>1. loops[i] = [k \in 1..(LastOf(w, i) - i + 1) |-> From(w[i + k - 1])]
    BY <1>5
  <2>2. \A k \in 1..(LastOf(w, i) - i + 1) : RunOf(w, i)[k] = w[i + k - 1]
    BY DEF RunOf
  <2> QED
    BY <2>1, <2>2 DEF LoopOf
<1>8. DOMAIN loops = D /\ \A i \in D : loops[i] = LoopOf(w, i)
  BY <1>7
<1> HIDE DEF D, loops
<1> QED
  BY <1>1, <1>6, <1>8

\* The run that has the side above a top cell is the one trail around the room, and the others
\* are around its holes.
LEMMA RunsAround ==
  ASSUME NEW R \in Masks, Together(R), NEW p, Top(R, p), NEW w, Walks(Sides(R), w), NEW t \in 1..Len(w),
         w[t] = <<p, 1>>, NEW i, StartsAt(w, i)
  PROVE  /\ t \in i..LastOf(w, i) => Around(R, RunOf(w, i), LastOf(w, i) - i + 1, 1)
         /\ t \notin i..LastOf(w, i) => Around(R, RunOf(w, i), LastOf(w, i) - i + 1, 0)
<1>1. PICK L, n : L = RunOf(w, i) /\ n = LastOf(w, i) - i + 1
  OBVIOUS
<1>2. Boundary(R, L, n) /\ Trail(L, n)
  BY <1>1, RunIsBoundary DEF Boundary
<1>3. Winding(L, n, p) = Used(L, n, <<p, 1>>)
  BY <1>2, TopSide
<1>4. p \in R
  BY DEF Top
<1>5. \A q \in R : Winding(L, n, q) = Winding(L, n, p)
  BY <1>2, <1>4, WindingOfRoom
<1>6. /\ Len(w) \in Nat /\ i \in 1..Len(w) /\ LastOf(w, i) \in i..Len(w)
      /\ \A a \in 1..Len(w), b \in 1..Len(w) : w[a] = w[b] => a = b
  <2>1. Len(w) \in Nat /\ i \in 1..Len(w)
    BY DEF Walks, StartsAt
  <2> QED
    BY <2>1, LastOfRun DEF Walks
<1>7. ASSUME NEW k \in 1..n
      PROVE  L[k] = w[i + k - 1] /\ i + k - 1 \in i..LastOf(w, i) /\ i + k - 1 \in 1..Len(w)
  BY <1>1, <1>6 DEF RunOf
<1>8. CASE t \in i..LastOf(w, i)
  <2>1. PICK k : k = t - i + 1 /\ k \in 1..n /\ i + k - 1 = t
    BY <1>1, <1>6, <1>8
  <2>2. L[k] = <<p, 1>>
    BY <1>7, <2>1
  <2>3. Used(L, n, <<p, 1>>) = 1
    BY <1>2, <2>1, <2>2, UsedIsBit
  <2> QED
    BY <1>1, <1>2, <1>3, <1>5, <1>8, <2>3 DEF Around
<1>9. CASE t \notin i..LastOf(w, i)
  <2>1. \A k \in 1..n : L[k] # <<p, 1>>
    BY <1>6, <1>7, <1>9
  <2>2. Used(L, n, <<p, 1>>) = 0
    BY <1>2, <2>1, UsedIsBit
  <2> QED
    BY <1>1, <1>2, <1>3, <1>5, <1>9, <2>2 DEF Around
<1> QED
  BY <1>8, <1>9

\* OuterLoop takes the trail around the room.
LEMMA OuterRun ==
  ASSUME NEW R \in Masks, R # {}, Together(R)
  PROVE  \E L, n : /\ Around(R, L, n, 1)
                   /\ DOMAIN traceLoops(R) # {}
                   /\ OuterLoop(traceLoops(R)) = [k \in 1..n |-> From(L[k])]
<1>1. PICK p : Top(R, p)
  BY TopExists
<1>2. PICK w : w = Walk(Sides(R)) /\ Walks(Sides(R), w)
  BY WalkIsAWalk
<1>3. Len(w) \in Nat
  BY <1>2 DEF Walks
<1>4. PICK t \in 1..Len(w) : w[t] = <<p, 1>>
  <2>1. <<p, 1>> \in Sides(R)
    BY <1>1, TopSide
  <2> QED
    BY <1>2, <2>1 DEF Walks
<1>5. PICK o : StartsAt(w, o) /\ t \in o..LastOf(w, o)
  BY <1>3, RunOfPosition
<1> DEFINE N(i) == LastOf(w, i) - i + 1
           Size(i) == Abs(cornerArea([k \in 1..N(i) |-> From(RunOf(w, i)[k])]))
<1>6. PICK loops, D : /\ loops = traceLoops(R) /\ D = DOMAIN loops
                      /\ D = {i \in 1..Len(w) : StartsAt(w, i) /\ LastOf(w, i) - i >= 2}
                      /\ \A i \in D : loops[i] = LoopOf(w, i)
  <2>1. PICK loops : loops = traceLoops(R)
    OBVIOUS
  <2>2. PICK D : D = DOMAIN loops
    OBVIOUS
  <2>3. D = {i \in 1..Len(w) : StartsAt(w, i) /\ LastOf(w, i) - i >= 2}
    BY <1>2, <2>1, <2>2, LoopsAreRuns
  <2>4. \A i \in D : loops[i] = LoopOf(w, i)
    BY <1>2, <2>1, <2>2, LoopsAreRuns
  <2> QED
    BY <2>1, <2>2, <2>3, <2>4
<1>7. Around(R, RunOf(w, o), N(o), 1)
  BY <1>1, <1>2, <1>4, <1>5, RunsAround
<1>8. o \in D
  <2>1. N(o) >= 3
    BY <1>7, ThreeSides DEF Around
  <2>2. o \in 1..Len(w)
    BY <1>5 DEF StartsAt
  <2>3. LastOf(w, o) \in Int
    BY <1>3, <2>2, LastOfRun
  <2>4. LastOf(w, o) - o >= 2
    BY <2>1, <2>2, <2>3
  <2> QED
    BY <1>5, <1>6, <2>2, <2>4
<1>9. ASSUME NEW i \in D, i # o
      PROVE  Size(i) < Size(o)
  <2>1. StartsAt(w, i) /\ i \in 1..Len(w) /\ o \in 1..Len(w)
    BY <1>6, <1>8
  <2>2. LastOf(w, i) \in i..Len(w) /\ LastOf(w, o) \in o..Len(w)
    BY <1>3, <2>1, LastOfRun
  <2>3. t \notin i..LastOf(w, i)
    BY <1>2, <1>5, <1>9, <2>1, RunsApart
  <2>4. Around(R, RunOf(w, i), N(i), 0)
    BY <1>1, <1>2, <1>4, <2>1, <2>3, RunsAround
  <2>5. ASSUME NEW a \in 1..N(o), NEW b \in 1..N(i)
        PROVE  RunOf(w, o)[a] # RunOf(w, i)[b]
    <3>1. RunOf(w, o)[a] = w[o + a - 1] /\ o + a - 1 \in o..LastOf(w, o)
      BY <2>1, <2>2 DEF RunOf
    <3>2. RunOf(w, i)[b] = w[i + b - 1] /\ i + b - 1 \in i..LastOf(w, i)
      BY <2>1, <2>2 DEF RunOf
    <3> QED
      BY <1>2, <1>5, <1>9, <2>1, <3>1, <3>2, RunsApart
  <2> HIDE DEF N
  <2> QED
    BY <1>7, <2>4, <2>5, AreaLarger
<1>10. ASSUME NEW i \in D
       PROVE  Size(i) \in Int
  <2>1. Boundary(R, RunOf(w, i), N(i))
    BY <1>2, <1>6, RunIsBoundary
  <2> HIDE DEF N
  <2> QED
    BY <2>1, AreaType
<1> DEFINE Best == {i \in D : \A j \in D : Size(j) <= Size(i)}
<1>11. OuterLoop(loops) = loops[Min(Best)]
  <2> DEFINE Other(i) == Abs(cornerArea(loops[i]))
  <2>1. OuterLoop(loops) = loops[Min({i \in D : \A j \in D : Other(j) <= Other(i)})]
    BY <1>6 DEF OuterLoop
  <2>2. \A i \in D : Other(i) = Size(i)
    BY <1>6 DEF LoopOf
  <2> HIDE DEF Other, Size
  <2>3. {i \in D : \A j \in D : Other(j) <= Other(i)} = Best
    BY <2>2
  <2> QED
    BY <2>1, <2>3
<1> HIDE DEF Size
<1>12. Best = {o}
  BY <1>8, <1>9, <1>10
<1> HIDE DEF Best
<1>13. Min(Best) = o
  <2>1. o \in Nat
    BY <1>6, <1>8
  <2>2. {o} \subseteq Nat /\ {o} # {}
    BY <2>1
  <2>3. Min({o}) \in {o}
    BY <2>2, MinIs
  <2> QED
    BY <1>12, <2>3
<1>14. OuterLoop(loops) = [k \in 1..N(o) |-> From(RunOf(w, o)[k])]
  BY <1>6, <1>8, <1>11, <1>13 DEF LoopOf
<1> QED
  BY <1>6, <1>7, <1>8, <1>14

\* No cells have no outline.
LEMMA OutlineOfNone ==
  ASSUME NEW m \in Masks, m = {}
  PROVE  largestComponent(m) = {} /\ Outline(m) = <<>>
<1>1. PICK R : R = largestComponent(m)
  OBVIOUS
<1>2. R = {} /\ R \in Masks
  BY <1>1 DEF largestComponent, Masks
<1>3. Sides(R) = {}
  BY <1>2 DEF Sides
<1>4. PICK w : w = Walk(Sides(R)) /\ w \in Seq(Sides(R)) /\ \A i \in 1..Len(w) : w[i] \in Sides(R)
  BY <1>2, WalkIsAWalk DEF Walks
<1>5. Len(w) \in Nat /\ \A i \in 1..Len(w) : FALSE
  BY <1>3, <1>4
<1>6. DOMAIN traceLoops(R) = {}
  BY <1>2, <1>4, <1>5, LoopsAreRuns
<1>7. Outline(m) = <<>>
  BY <1>1, <1>6 DEF Outline, LoopPoints
<1> QED
  BY <1>1, <1>2, <1>7

\* The outline of a mask is the polygon of the trail around its largest component.
LEMMA OutlineOfRoom ==
  ASSUME NEW m \in Masks, m # {}, NEW R, R = largestComponent(m)
  PROVE  /\ R \in Masks /\ R # {} /\ Together(R)
         /\ \E L, n : /\ Around(R, L, n, 1) /\ n >= 3
                     /\ Outline(m) = PolygonOf(L, n)
                     /\ Outline(m) \in Seq(Int \X Int) /\ Len(Outline(m)) >= 3
<1>1. R = largestComponent(m)
  OBVIOUS
<1>2. R \in Masks /\ R # {} /\ Together(R)
  BY <1>1, RoomIsTogether
<1>3. PICK L, n : /\ Around(R, L, n, 1)
                  /\ DOMAIN traceLoops(R) # {}
                  /\ OuterLoop(traceLoops(R)) = [k \in 1..n |-> From(L[k])]
  BY <1>2, OuterRun
<1>4. Boundary(R, L, n) /\ Trail(L, n) /\ n \in Nat /\ \A i \in 1..n : L[i] \in AnySide
  BY <1>3 DEF Around, Boundary, Trail
<1>5. n >= 3
  BY <1>2, <1>4, ThreeSides
<1>6. PICK poly : poly = PolygonOf(L, n)
  OBVIOUS
<1>7. Outline(m) = poly
  <2>1. PICK loop : loop = OuterLoop(traceLoops(R)) /\ loop = [k \in 1..n |-> From(L[k])]
    BY <1>3
  <2>2. Outline(m) = [i \in DOMAIN loop |-> CornerToWorld(loop[i])]
    BY <1>1, <1>3, <2>1 DEF Outline, LoopPoints
  <2>3. DOMAIN loop = 1..n /\ \A i \in 1..n : loop[i] = From(L[i])
    BY <2>1
  <2> QED
    BY <1>6, <2>2, <2>3 DEF PolygonOf
<1>8. poly \in Seq(Int \X Int) /\ Len(poly) >= 3
  <2>1. \A i \in 1..n : CornerToWorld(From(L[i])) \in Int \X Int
    <3>1. ASSUME NEW i \in 1..n
          PROVE  CornerToWorld(From(L[i])) \in Int \X Int
      <4>1. From(L[i]) \in Int \X Int
        BY <1>4, SideCorners
      <4>2. OriginX \in Int /\ OriginY \in Int /\ Height \in Int
        BY OriginAssumption, GridAssumption
      <4> QED
        BY <4>1, <4>2 DEF CornerToWorld
    <3> QED
      BY <3>1
  <2>2. poly = [i \in 1..n |-> CornerToWorld(From(L[i]))]
    BY <1>6 DEF PolygonOf
  <2>3. DOMAIN poly = 1..n /\ \A i \in 1..n : poly[i] \in Int \X Int
    BY <2>1, <2>2
  <2>4. poly \in [1..n -> Int \X Int]
    BY <2>1, <2>2
  <2> QED
    BY <1>4, <1>5, <2>4
<1> QED
  BY <1>2, <1>3, <1>5, <1>6, <1>7, <1>8

\* What an outline has inside it: every cell of the largest component, and nothing else but
\* that component's holes.
THEOREM OutlineIsExact ==
  ASSUME NEW m \in Masks
  PROVE  /\ largestComponent(m) \subseteq Rasterize(Outline(m))
         /\ Rasterize(Outline(m)) \subseteq Filled(largestComponent(m))
<1>1. PICK R : R = largestComponent(m)
  OBVIOUS
<1>2. CASE m = {}
  <2>1. R = {} /\ Outline(m) = <<>>
    BY <1>1, <1>2, OutlineOfNone
  <2>2. Rasterize(Outline(m)) = {}
    BY <2>1 DEF Rasterize
  <2> QED
    BY <1>1, <2>1, <2>2
<1>3. CASE m # {}
  <2>1. R \in Masks /\ R # {} /\ Together(R)
    BY <1>1, <1>3, OutlineOfRoom
  <2>2. PICK L, n : /\ Around(R, L, n, 1) /\ n >= 3
                    /\ Outline(m) = PolygonOf(L, n)
                    /\ Outline(m) \in Seq(Int \X Int) /\ Len(Outline(m)) >= 3
    BY <1>1, <1>3, OutlineOfRoom
  <2>3. Boundary(R, L, n) /\ Trail(L, n)
    BY <2>2 DEF Around, Boundary
  <2>5. PICK poly : poly = PolygonOf(L, n) /\ poly = Outline(m)
    BY <2>2
  <2>7. poly \in Seq(Int \X Int) /\ Len(poly) >= 3
    BY <2>2, <2>5
  <2>8. ASSUME NEW q \in Cells
        PROVE  /\ q \in Rasterize(poly) <=> Winding(L, n, q) = 1
               /\ q \notin Filled(R) => Winding(L, n, q) = 0
    <3>1. q \in Int \X Int
      BY GridAssumption DEF Cells
    <3>2. PICK k \in {0, 1} : k = 1
      OBVIOUS
    <3>3. Winding(L, n, q) \in {k - 1, k}
      BY <2>1, <2>2, <3>1, <3>2, WindingRange
    <3>4. Winding(L, n, q) \in {0, 1}
      BY <3>2, <3>3
    <3>5. pointInPoly(PixelToWorldCenter(q), poly) <=> Winding(L, n, q) = 1
      BY <2>2, <2>3, <2>5, <3>1, <3>4, InsideIsWinding
    <3>6. Rasterize(poly) = {c \in Cells : pointInPoly(PixelToWorldCenter(c), poly)}
      BY <2>7, RasterizeIsExact
    <3>7. q \notin Filled(R) => Winding(L, n, q) = 0
      BY <2>1, <2>3, WindingOutside
    <3> QED
      BY <3>5, <3>6, <3>7
  <2>9. R \subseteq Rasterize(poly)
    <3>1. \A q \in R : q \in Cells /\ Winding(L, n, q) = 1
      BY <2>1, <2>2 DEF Around, Masks
    <3> QED
      BY <2>8, <3>1
  <2>10. Rasterize(poly) \subseteq Filled(R)
    <3>1. Rasterize(poly) \subseteq Cells
      BY <2>7, RasterizeIsExact
    <3> QED
      BY <2>8, <3>1
  <2> QED
    BY <1>1, <2>5, <2>9, <2>10
<1> QED
  BY <1>2, <1>3

-----------------------------------------------------------------------------
(* What an edit stores.                                                    *)

\* The members of a finite set of numbers, counted from the least one.
LEMMA NthExists ==
  ASSUME NEW T, T \subseteq Nat, IsFiniteSet(T), NEW k \in 1..Cardinality(T)
  PROVE  \E i \in T : Cardinality({j \in T : j <= i}) = k
<1> DEFINE n == Cardinality(T)
           Below(i) == {j \in T : j <= i}
           g == [i \in T |-> Cardinality(Below(i))]
<1>1. n \in Nat
  BY FS_CardinalityType
<1>2. ASSUME NEW i \in T
      PROVE  IsFiniteSet(Below(i)) /\ Cardinality(Below(i)) \in 1..n
  <2>1. Below(i) \in SUBSET T /\ i \in Below(i)
    OBVIOUS
  <2> HIDE DEF Below
  <2>2. IsFiniteSet(Below(i)) /\ Cardinality(Below(i)) <= n
    BY <2>1, FS_Subset
  <2>3. Cardinality(Below(i)) \in Nat /\ Cardinality(Below(i)) # 0
    BY <2>1, <2>2, FS_CardinalityType, FS_EmptySet
  <2> QED
    BY <1>1, <2>2, <2>3
<1>3. ASSUME NEW i \in T, NEW j \in T, Cardinality(Below(i)) = Cardinality(Below(j))
      PROVE  i = j
  <2>1. ASSUME NEW a \in T, NEW b \in T, a < b
        PROVE  Cardinality(Below(a)) # Cardinality(Below(b))
    <3>1. Below(a) \in SUBSET Below(b) /\ b \in Below(b) /\ b \notin Below(a)
      <4>1. a \in Nat /\ b \in Nat /\ \A x \in T : x \in Nat
        OBVIOUS
      <4>2. \A x \in T : x <= a => x <= b
        BY <2>1, <4>1
      <4>3. Below(a) \in SUBSET Below(b)
        BY <4>2
      <4>4. b <= b /\ ~(b <= a)
        BY <2>1, <4>1
      <4> QED
        BY <4>3, <4>4
    <3>2. IsFiniteSet(Below(b))
      BY <1>2
    <3> HIDE DEF Below
    <3> QED
      BY <3>1, <3>2, FS_Subset
  <2> HIDE DEF Below
  <2>2. i < j \/ i = j \/ j < i
    OBVIOUS
  <2> QED
    BY <1>3, <2>1, <2>2
<1>4. g \in [T -> 1..n] /\ \A i \in T : g[i] = Cardinality(Below(i))
  BY <1>2
<1>5. IsFiniteSet(1..n) /\ Cardinality(1..n) = n
  BY <1>1, FS_Interval
<1> HIDE DEF Below, g, n
<1>6. g \in Injection(T, 1..n)
  BY <1>3, <1>4 DEF Injection, IsInjective
<1>7. Cardinality(T) = n
  BY DEF n
<1>8. g \in Surjection(T, 1..n)
  BY <1>5, <1>6, <1>7, FS_Injection
<1>9. \E i \in T : g[i] = k
  BY <1>7, <1>8 DEF Surjection
<1> QED
  BY <1>4, <1>9 DEF Below

\* Simplification keeps some of the corners.
LEMMA SimplifiedIsPart ==
  ASSUME NEW P, NEW ring \in Seq(P)
  PROVE  simplifyClosed(ring) \in Seq(P)
<1> DEFINE n == Len(ring)
           pts == Append(ring, ring[1])
           far == Min({i \in 2..n : \A j \in 2..n : SquareDist(ring[j], ring[1]) <= SquareDist(ring[i], ring[1])})
           kept == (1..n) \cap (douglasPeucker(pts, 1, far) \cup douglasPeucker(pts, far, n + 1))
           Nth(k) == CHOOSE i \in kept : Cardinality({j \in kept : j <= i}) = k
           c == Cardinality(kept)
<1>1. simplifyClosed(ring) = [k \in 1..c |-> ring[Nth(k)]]
  BY DEF simplifyClosed
<1>2. n \in Nat /\ kept \in SUBSET (1..n) /\ \A i \in 1..n : ring[i] \in P
  OBVIOUS
<1>3. IsFiniteSet(kept) /\ kept \subseteq Nat
  <2>1. 1 \in Int /\ n \in Int
    BY <1>2
  <2>2. IsFiniteSet(1..n)
    BY <2>1, FS_Interval
  <2>3. 1..n \subseteq Nat
    BY <1>2
  <2> HIDE DEF kept, n
  <2>4. IsFiniteSet(kept)
    BY <1>2, <2>2, FS_Subset
  <2> QED
    BY <1>2, <2>3, <2>4
<1> HIDE DEF kept, n
<1>4. c \in Nat
  BY <1>3, FS_CardinalityType
<1>5. ASSUME NEW k \in 1..c
      PROVE  Nth(k) \in kept
  <2>1. \E i \in kept : Cardinality({j \in kept : j <= i}) = k
    BY <1>3, NthExists
  <2> QED
    BY <2>1
<1>6. ASSUME NEW k \in 1..c
      PROVE  ring[Nth(k)] \in P
  <2> HIDE DEF Nth
  <2> QED
    BY <1>2, <1>5
<1> HIDE DEF Nth, c
<1>7. [k \in 1..c |-> ring[Nth(k)]] \in [1..c -> P]
  BY <1>6
<1>8. [k \in 1..c |-> ring[Nth(k)]] \in Seq(P)
  BY <1>4, <1>7
<1> QED
  BY <1>1, <1>8

\* What an edit stores for the cells it has collected are cells of the grid: those whose centre
\* is in the simplified outline.
THEOREM RedrawnIsAMask ==
  ASSUME NEW m \in Masks
  PROVE  /\ Redrawn(m) \in Masks
         /\ m = {} => Redrawn(m) = {}
         /\ m # {} => Redrawn(m) = {p \in Cells : pointInPoly(PixelToWorldCenter(p), Contour(m))}
<1>1. CASE m = {}
  <2>1. Outline(m) = <<>>
    BY <1>1, OutlineOfNone
  <2>2. Contour(m) = <<>>
    BY <2>1 DEF Contour, Simplified
  <2>3. Redrawn(m) = {}
    BY <2>2 DEF Redrawn, Rasterize
  <2> QED
    BY <1>1, <2>3 DEF Masks
<1>2. CASE m # {}
  <2>1. Outline(m) \in Seq(Int \X Int) /\ Len(Outline(m)) >= 3
    BY <1>2, OutlineOfRoom
  <2>2. simplifyClosed(Outline(m)) \in Seq(Int \X Int)
    BY <2>1, SimplifiedIsPart
  <2>3. PICK pts, simp : pts = Outline(m) /\ simp = simplifyClosed(pts)
    OBVIOUS
  <2>4. pts # <<>>
    BY <2>1, <2>3
  <2>5. Contour(m) = IF Len(simp) < 3 THEN pts ELSE simp
    BY <2>3, <2>4 DEF Contour, Simplified
  <2>6. Len(simp) \in Nat
    BY <2>2, <2>3
  <2>7. Contour(m) \in Seq(Int \X Int) /\ Len(Contour(m)) >= 3
    BY <2>1, <2>2, <2>3, <2>5, <2>6
  <2>8. Redrawn(m) = {p \in Cells : pointInPoly(PixelToWorldCenter(p), Contour(m))}
    BY <2>7, RasterizeIsExact DEF Redrawn
  <2> QED
    BY <1>2, <2>8 DEF Masks
<1> QED
  BY <1>1, <1>2

\* A split line sends every cell of a mask to one of the halves.
THEOREM HalvesAreMasks ==
  ASSUME NEW m \in Masks, NEW line
  PROVE  /\ SplitByLine(m, line)[1] \in Masks /\ SplitByLine(m, line)[2] \in Masks
         /\ SplitByLine(m, line)[1] \cup SplitByLine(m, line)[2] = m
         /\ SplitByLine(m, line)[1] \cap SplitByLine(m, line)[2] = {}
BY DEF SplitByLine, Masks

-----------------------------------------------------------------------------
(* Sides and chords seen from a cell.                                      *)

\* Where a corner is from the centre of p, in half cells: to the right, below.
Ahead(k, p) == 2 * k[1] - (2 * p[1] + 1)
Under(k, p) == 2 * k[2] - (2 * p[2] + 1)

RightBelow(k, p) == IF Ahead(k, p) > 0 /\ Under(k, p) > 0 THEN 1 ELSE 0
RightAbove(k, p) == IF Ahead(k, p) > 0 /\ Under(k, p) < 0 THEN 1 ELSE 0
Lower(k, p) == IF Under(k, p) > 0 THEN 1 ELSE 0

\* A side in the column, or the row, of p: above or below it, to its left or right.
InColumn(s, p) == Ahead(From(s), p) + Ahead(To(s), p) = 0
InRow(s, p) == Under(From(s), p) + Under(To(s), p) = 0

\* The crossing of a side counts the same from any direction, but for where the side begins and ends.
LEMMA SideDown ==
  ASSUME NEW s \in AnySide, NEW p \in Int \X Int, ~(InColumn(s, p) /\ Under(From(s), p) > 0)
  PROVE  Crossing(s, p) = RightBelow(To(s), p) - RightBelow(From(s), p)
<1>1. PICK x \in Int, y \in Int : SideOf(s, x, y)
  BY SideParts
<1>2. PICK c \in Int, r \in Int : p = <<c, r>>
  OBVIOUS
<1> QED
  BY <1>1, <1>2 DEF SideOf, Crossing, RightBelow, InColumn, Ahead, Under

\* The same for the ray upwards.
LEMMA SideUp ==
  ASSUME NEW s \in AnySide, NEW p \in Int \X Int, ~(InColumn(s, p) /\ Under(From(s), p) < 0)
  PROVE  Crossing(s, p) = RightAbove(From(s), p) - RightAbove(To(s), p)
<1>1. PICK x \in Int, y \in Int : SideOf(s, x, y)
  BY SideParts
<1>2. PICK c \in Int, r \in Int : p = <<c, r>>
  OBVIOUS
<1> QED
  BY <1>1, <1>2 DEF SideOf, Crossing, RightAbove, InColumn, Ahead, Under

\* For the ray to the left, where a corner to the right counts for the row it ends.
LEMMA SideLeft ==
  ASSUME NEW s \in AnySide, NEW p \in Int \X Int, ~(InRow(s, p) /\ Ahead(From(s), p) < 0)
  PROVE  Crossing(s, p) = Lower(To(s), p) - Lower(From(s), p)
<1>1. PICK x \in Int, y \in Int : SideOf(s, x, y)
  BY SideParts
<1>2. PICK c \in Int, r \in Int : p = <<c, r>>
  OBVIOUS
<1> QED
  BY <1>1, <1>2 DEF SideOf, Crossing, Lower, InRow, Ahead, Under

\* For the ray to the right, along which Crossing counts.
LEMMA SideRight ==
  ASSUME NEW s \in AnySide, NEW p \in Int \X Int, ~(InRow(s, p) /\ Ahead(From(s), p) > 0)
  PROVE  Crossing(s, p) = 0
<1>1. PICK x \in Int, y \in Int : SideOf(s, x, y)
  BY SideParts
<1>2. PICK c \in Int, r \in Int : p = <<c, r>>
  OBVIOUS
<1> QED
  BY <1>1, <1>2 DEF SideOf, Crossing, InRow, Ahead, Under

\* On which side of the line from a to b the centre of p is: positive to the left of it, looking down.
Turn(a, b, p) == Ahead(a, p) * Under(b, p) - Ahead(b, p) * Under(a, p)

\* A chord crosses the ray to the right of p downwards, upwards or not at all.
ChordCrossing(a, b, p) ==
  IF Under(a, p) < 0 /\ Under(b, p) > 0 /\ Turn(a, b, p) > 0 THEN 1
  ELSE IF Under(b, p) < 0 /\ Under(a, p) > 0 /\ Turn(a, b, p) < 0 THEN -1 ELSE 0

\* The sign of a product.
LEMMA Signs ==
  ASSUME NEW x \in Int, NEW y \in Int
  PROVE  /\ x > 0 /\ y > 0 => x * y > 0
         /\ x < 0 /\ y < 0 => x * y > 0
         /\ x > 0 /\ y < 0 => x * y < 0
         /\ x < 0 /\ y > 0 => x * y < 0
OBVIOUS

\* What the line passes on one side of p says of the ends.
LEMMA TurnSigns ==
  ASSUME NEW a \in Int \X Int, NEW b \in Int \X Int, NEW p \in Int \X Int
  PROVE  /\ Ahead(a, p) \in Int /\ Under(a, p) \in Int /\ Ahead(b, p) \in Int /\ Under(b, p) \in Int
         /\ Ahead(a, p) # 0 /\ Under(a, p) # 0 /\ Ahead(b, p) # 0 /\ Under(b, p) # 0
         /\ Turn(a, b, p) \in Int
         /\ Ahead(a, p) < 0 /\ Under(b, p) > 0 /\ Ahead(b, p) > 0 /\ Under(a, p) > 0 => Turn(a, b, p) < 0
         /\ Ahead(a, p) < 0 /\ Under(b, p) > 0 /\ Ahead(b, p) < 0 /\ Under(a, p) < 0 => Turn(a, b, p) < 0
         /\ Ahead(a, p) > 0 /\ Under(b, p) < 0 /\ Ahead(b, p) > 0 /\ Under(a, p) > 0 => Turn(a, b, p) < 0
         /\ Ahead(a, p) > 0 /\ Under(b, p) < 0 /\ Ahead(b, p) < 0 /\ Under(a, p) < 0 => Turn(a, b, p) < 0
         /\ Ahead(a, p) > 0 /\ Under(b, p) > 0 /\ Ahead(b, p) < 0 /\ Under(a, p) > 0 => Turn(a, b, p) > 0
         /\ Ahead(a, p) > 0 /\ Under(b, p) > 0 /\ Ahead(b, p) > 0 /\ Under(a, p) < 0 => Turn(a, b, p) > 0
         /\ Ahead(a, p) < 0 /\ Under(b, p) < 0 /\ Ahead(b, p) > 0 /\ Under(a, p) < 0 => Turn(a, b, p) > 0
         /\ Ahead(a, p) < 0 /\ Under(b, p) < 0 /\ Ahead(b, p) < 0 /\ Under(a, p) > 0 => Turn(a, b, p) > 0
<1>1. /\ Ahead(a, p) \in Int /\ Under(a, p) \in Int /\ Ahead(b, p) \in Int /\ Under(b, p) \in Int
      /\ Ahead(a, p) # 0 /\ Under(a, p) # 0 /\ Ahead(b, p) # 0 /\ Under(b, p) # 0
  BY DEF Ahead, Under
<1>2. PICK s \in Int : s = Ahead(a, p) * Under(b, p)
  BY <1>1
<1>3. PICK t \in Int : t = Ahead(b, p) * Under(a, p)
  BY <1>1
<1>4. Turn(a, b, p) = s - t
  BY <1>2, <1>3 DEF Turn
<1>5. /\ Ahead(a, p) > 0 /\ Under(b, p) > 0 => s > 0
      /\ Ahead(a, p) < 0 /\ Under(b, p) < 0 => s > 0
      /\ Ahead(a, p) > 0 /\ Under(b, p) < 0 => s < 0
      /\ Ahead(a, p) < 0 /\ Under(b, p) > 0 => s < 0
  BY <1>1, <1>2, Signs
<1>6. /\ Ahead(b, p) > 0 /\ Under(a, p) > 0 => t > 0
      /\ Ahead(b, p) < 0 /\ Under(a, p) < 0 => t > 0
      /\ Ahead(b, p) > 0 /\ Under(a, p) < 0 => t < 0
      /\ Ahead(b, p) < 0 /\ Under(a, p) > 0 => t < 0
  BY <1>1, <1>3, Signs
<1> QED
  BY <1>1, <1>4, <1>5, <1>6

\* p is beyond the line on the way down from a to b, and so on: the ray that way meets no chord.
ClearDown(a, b, p) ==
  \/ b[1] > a[1] /\ (Turn(a, b, p) > 0 \/ (Turn(a, b, p) = 0 /\ b[2] < a[2]))
  \/ b[1] < a[1] /\ (Turn(a, b, p) < 0 \/ (Turn(a, b, p) = 0 /\ b[2] > a[2]))
ClearUp(a, b, p) ==
  \/ b[1] > a[1] /\ (Turn(a, b, p) < 0 \/ (Turn(a, b, p) = 0 /\ b[2] > a[2]))
  \/ b[1] < a[1] /\ (Turn(a, b, p) > 0 \/ (Turn(a, b, p) = 0 /\ b[2] < a[2]))
ClearLeft(a, b, p) == (b[2] > a[2] /\ Turn(a, b, p) > 0) \/ (b[2] < a[2] /\ Turn(a, b, p) < 0)
ClearRight(a, b, p) == (b[2] > a[2] /\ Turn(a, b, p) <= 0) \/ (b[2] < a[2] /\ Turn(a, b, p) >= 0)

\* A chord with its ends as they should be for the ray downwards crosses like its corners say.
LEMMA ChordDown ==
  ASSUME NEW a \in Int \X Int, NEW b \in Int \X Int, NEW p \in Int \X Int, ClearDown(a, b, p)
  PROVE  ChordCrossing(a, b, p) = RightBelow(b, p) - RightBelow(a, p)
<1>1. /\ b[1] > a[1] <=> Ahead(b, p) > Ahead(a, p)
      /\ b[1] < a[1] <=> Ahead(b, p) < Ahead(a, p)
      /\ b[2] > a[2] <=> Under(b, p) > Under(a, p)
      /\ b[2] < a[2] <=> Under(b, p) < Under(a, p)
  BY DEF Ahead, Under
<1> QED
  BY <1>1, TurnSigns DEF ClearDown, ChordCrossing, RightBelow

\* The same for the ray upwards.
LEMMA ChordUp ==
  ASSUME NEW a \in Int \X Int, NEW b \in Int \X Int, NEW p \in Int \X Int, ClearUp(a, b, p)
  PROVE  ChordCrossing(a, b, p) = RightAbove(a, p) - RightAbove(b, p)
<1>1. /\ b[1] > a[1] <=> Ahead(b, p) > Ahead(a, p)
      /\ b[1] < a[1] <=> Ahead(b, p) < Ahead(a, p)
      /\ b[2] > a[2] <=> Under(b, p) > Under(a, p)
      /\ b[2] < a[2] <=> Under(b, p) < Under(a, p)
  BY DEF Ahead, Under
<1> QED
  BY <1>1, TurnSigns DEF ClearUp, ChordCrossing, RightAbove

\* The same for the ray to the left.
LEMMA ChordLeft ==
  ASSUME NEW a \in Int \X Int, NEW b \in Int \X Int, NEW p \in Int \X Int, ClearLeft(a, b, p)
  PROVE  ChordCrossing(a, b, p) = Lower(b, p) - Lower(a, p)
<1>1. /\ b[2] > a[2] <=> Under(b, p) > Under(a, p)
      /\ b[2] < a[2] <=> Under(b, p) < Under(a, p)
  BY DEF Under
<1> QED
  BY <1>1, TurnSigns DEF ClearLeft, ChordCrossing, Lower

\* The same for the ray to the right.
LEMMA ChordRight ==
  ASSUME NEW a \in Int \X Int, NEW b \in Int \X Int, NEW p \in Int \X Int, ClearRight(a, b, p)
  PROVE  ChordCrossing(a, b, p) = 0
<1>1. /\ b[2] > a[2] <=> Under(b, p) > Under(a, p)
      /\ b[2] < a[2] <=> Under(b, p) < Under(a, p)
  BY DEF Under
<1> QED
  BY <1>1, TurnSigns DEF ClearRight, ChordCrossing

-----------------------------------------------------------------------------
(* A chord that stays close to the sides it stands for.                    *)

\* Sixteen times the square distance of k from the line is Off squared by the square length of the
\* chord: k is within three quarters of a cell of the line.
Off(a, b, k) == 4 * ((b[1] - a[1]) * (k[2] - a[2]) - (b[2] - a[2]) * (k[1] - a[1]))
Close(a, b, k) ==
  Off(a, b, k) * Off(a, b, k) <= 9 * ((b[1] - a[1]) * (b[1] - a[1]) + (b[2] - a[2]) * (b[2] - a[2]))

\* The distance from the chord, seen from the centre of a cell.
LEMMA OffFromCell ==
  ASSUME NEW a \in Int \X Int, NEW b \in Int \X Int, NEW k \in Int \X Int, NEW p \in Int \X Int
  PROVE  /\ Off(a, b, k) \in Int
         /\ Off(a, b, k) = 2 * ((b[1] - a[1]) * Under(k, p)) - 2 * ((b[2] - a[2]) * Ahead(k, p)) + Turn(a, b, p)
<1>1. PICK a1 \in Int, a2 \in Int : a = <<a1, a2>>
  OBVIOUS
<1>2. PICK b1 \in Int, b2 \in Int : b = <<b1, b2>>
  OBVIOUS
<1>3. PICK k1 \in Int, k2 \in Int : k = <<k1, k2>>
  OBVIOUS
<1>4. PICK c \in Int, r \in Int : p = <<c, r>>
  OBVIOUS
<1>5. 4 * ((b1 - a1) * (k2 - a2) - (b2 - a2) * (k1 - a1)) =
        2 * ((b1 - a1) * (2 * k2 - (2 * r + 1))) - 2 * ((b2 - a2) * (2 * k1 - (2 * c + 1)))
          + ((2 * a1 - (2 * c + 1)) * (2 * b2 - (2 * r + 1)) - (2 * b1 - (2 * c + 1)) * (2 * a2 - (2 * r + 1)))
  OBVIOUS
<1> QED
  BY <1>1, <1>2, <1>3, <1>4, <1>5 DEF Off, Under, Ahead, Turn

\* What is six half cells from a line that rises by no more than it goes on is not close to it.
LEMMA TooFar ==
  ASSUME NEW f \in Int, NEW x \in Int, NEW y \in Int, NEW z \in Int, z > 0, x = z \/ x = -z,
         -z <= y, y <= z, f >= 6 * z \/ f <= -(6 * z)
  PROVE  f * f > 9 * (x * x + y * y) /\ f * f > 9 * (y * y + x * x)
<1>1. x * x = z * z /\ x * x \in Int /\ z * z \in Int /\ y * y \in Int /\ f * f \in Int
  OBVIOUS
<1>2. z * z > 0
  BY Signs
<1>3. y * y <= z * z
  <2>1. ASSUME NEW w \in Int, 0 <= w, w <= z
        PROVE  w * w <= z * z
    <3>1. w * w <= z * w
      BY <2>1, Products
    <3>2. w * z <= z * z
      BY <2>1, Products
    <3>3. z * w = w * z /\ w * w \in Int /\ w * z \in Int
      BY <2>1
    <3> QED
      BY <1>1, <3>1, <3>2, <3>3
  <2>2. CASE y >= 0
    BY <2>1, <2>2
  <2>3. CASE y < 0
    <3>1. (-y) \in Int /\ 0 <= -y /\ -y <= z /\ (-y) * (-y) = y * y
      BY <2>3
    <3> QED
      BY <2>1, <3>1
  <2> QED
    BY <2>2, <2>3
<1>4. f * f >= 36 * (z * z)
  <2>1. ASSUME NEW w \in Int, w >= 6 * z
        PROVE  w * w >= 36 * (z * z)
    <3>1. (6 * z) * w <= w * w
      BY <2>1, Products
    <3>2. (6 * z) * (6 * z) <= w * (6 * z)
      BY <2>1, Products
    <3>3. (6 * z) * w = w * (6 * z) /\ (6 * z) * (6 * z) = 36 * (z * z) /\ w * w \in Int /\ w * (6 * z) \in Int
      BY <2>1
    <3> QED
      BY <1>1, <3>1, <3>2, <3>3
  <2>2. CASE f >= 6 * z
    BY <2>1, <2>2
  <2>3. CASE f <= -(6 * z)
    <3>1. (-f) \in Int /\ -f >= 6 * z /\ (-f) * (-f) = f * f
      BY <2>3
    <3> QED
      BY <2>1, <3>1
  <2> QED
    BY <2>2, <2>3
<1> QED
  BY <1>1, <1>2, <1>3, <1>4

\* The sides in the column of a cell that are not its own, and those in its row.
LEMMA ColumnCorners ==
  ASSUME NEW s \in AnySide, NEW p \in Int \X Int, InColumn(s, p), Under(From(s), p) \notin {1, -1}
  PROVE  /\ Under(To(s), p) = Under(From(s), p) /\ Under(From(s), p) \in Int
         /\ Under(From(s), p) >= 3 \/ Under(From(s), p) <= -3
         /\ \/ Ahead(From(s), p) = 1 /\ Ahead(To(s), p) = -1
            \/ Ahead(From(s), p) = -1 /\ Ahead(To(s), p) = 1
<1>1. PICK x \in Int, y \in Int : SideOf(s, x, y)
  BY SideParts
<1>2. PICK c \in Int, r \in Int : p = <<c, r>>
  OBVIOUS
<1>3. CASE s = <<<<x, y>>, 1>> /\ From(s) = <<x, y>> /\ To(s) = <<x + 1, y>>
  BY <1>2, <1>3 DEF InColumn, Ahead, Under
<1>4. CASE s = <<<<x, y>>, 2>> /\ From(s) = <<x + 1, y>> /\ To(s) = <<x + 1, y + 1>>
  BY <1>2, <1>4 DEF InColumn, Ahead, Under
<1>5. CASE s = <<<<x, y>>, 3>> /\ From(s) = <<x + 1, y + 1>> /\ To(s) = <<x, y + 1>>
  BY <1>2, <1>5 DEF InColumn, Ahead, Under
<1>6. CASE s = <<<<x, y>>, 4>> /\ From(s) = <<x, y + 1>> /\ To(s) = <<x, y>>
  BY <1>2, <1>6 DEF InColumn, Ahead, Under
<1> QED
  BY <1>1, <1>3, <1>4, <1>5, <1>6 DEF SideOf

\* The same for a side in the row of p.
LEMMA RowCorners ==
  ASSUME NEW s \in AnySide, NEW p \in Int \X Int, InRow(s, p), Ahead(From(s), p) \notin {1, -1}
  PROVE  /\ Ahead(To(s), p) = Ahead(From(s), p) /\ Ahead(From(s), p) \in Int
         /\ Ahead(From(s), p) >= 3 \/ Ahead(From(s), p) <= -3
         /\ \/ Under(From(s), p) = 1 /\ Under(To(s), p) = -1
            \/ Under(From(s), p) = -1 /\ Under(To(s), p) = 1
<1>1. PICK x \in Int, y \in Int : SideOf(s, x, y)
  BY SideParts
<1>2. PICK c \in Int, r \in Int : p = <<c, r>>
  OBVIOUS
<1>3. CASE s = <<<<x, y>>, 1>> /\ From(s) = <<x, y>> /\ To(s) = <<x + 1, y>>
  BY <1>2, <1>3 DEF InRow, Ahead, Under
<1>4. CASE s = <<<<x, y>>, 2>> /\ From(s) = <<x + 1, y>> /\ To(s) = <<x + 1, y + 1>>
  BY <1>2, <1>4 DEF InRow, Ahead, Under
<1>5. CASE s = <<<<x, y>>, 3>> /\ From(s) = <<x + 1, y + 1>> /\ To(s) = <<x, y + 1>>
  BY <1>2, <1>5 DEF InRow, Ahead, Under
<1>6. CASE s = <<<<x, y>>, 4>> /\ From(s) = <<x, y + 1>> /\ To(s) = <<x, y>>
  BY <1>2, <1>6 DEF InRow, Ahead, Under
<1> QED
  BY <1>1, <1>3, <1>4, <1>5, <1>6 DEF SideOf

\* Beyond a flat chord and the cell's own side no other side is close to the chord.
LEMMA ColumnClear ==
  ASSUME NEW a \in Int \X Int, NEW b \in Int \X Int, NEW p \in Int \X Int, NEW s \in AnySide,
         NEW z \in Int, z > 0, b[1] - a[1] = z \/ b[1] - a[1] = -z, -z <= b[2] - a[2], b[2] - a[2] <= z,
         InColumn(s, p), Under(From(s), p) \notin {1, -1}, Close(a, b, From(s)), Close(a, b, To(s))
  PROVE  /\ ClearDown(a, b, p) => ~(Under(From(s), p) > 0)
         /\ ClearUp(a, b, p) => ~(Under(From(s), p) < 0)
<1>1. PICK v \in Int : v = Under(From(s), p) /\ v = Under(To(s), p) /\ (v >= 3 \/ v <= -3)
  BY ColumnCorners
<1>2. PICK k \in Int \X Int, l \in Int \X Int : /\ Close(a, b, k) /\ Under(k, p) = v /\ Ahead(k, p) = 1
                                                /\ Close(a, b, l) /\ Under(l, p) = v /\ Ahead(l, p) = -1
  BY <1>1, ColumnCorners, SideCorners
<1>3. PICK x \in Int, y \in Int : x = b[1] - a[1] /\ y = b[2] - a[2]
  OBVIOUS
<1>4. PICK t \in Int : t = Turn(a, b, p)
  BY TurnSigns
<1>5. PICK w \in Int : w = x * v
  OBVIOUS
<1>6. /\ Off(a, b, k) = 2 * w - 2 * y + t /\ Off(a, b, k) \in Int
      /\ Off(a, b, l) = 2 * w + 2 * y + t /\ Off(a, b, l) \in Int
  <2>1. /\ Off(a, b, k) = 2 * (x * v) - 2 * (y * 1) + t /\ Off(a, b, k) \in Int
        /\ Off(a, b, l) = 2 * (x * v) - 2 * (y * (-1)) + t /\ Off(a, b, l) \in Int
    BY <1>2, <1>3, <1>4, OffFromCell
  <2> QED
    BY <1>5, <2>1
<1>7. /\ ~(Off(a, b, k) >= 6 * z \/ Off(a, b, k) <= -(6 * z))
      /\ ~(Off(a, b, l) >= 6 * z \/ Off(a, b, l) <= -(6 * z))
  <2>1. ASSUME NEW f \in Int, f * f <= 9 * (x * x + y * y), f >= 6 * z \/ f <= -(6 * z)
        PROVE  FALSE
    <3>1. f * f > 9 * (x * x + y * y)
      BY <1>3, <2>1, TooFar
    <3>2. f * f \in Int /\ x * x \in Int /\ y * y \in Int
      BY <2>1
    <3> QED
      BY <2>1, <3>1, <3>2
  <2>2. /\ Off(a, b, k) * Off(a, b, k) <= 9 * (x * x + y * y)
        /\ Off(a, b, l) * Off(a, b, l) <= 9 * (x * x + y * y)
    BY <1>2, <1>3 DEF Close
  <2> QED
    BY <1>6, <2>1, <2>2
<1>8. /\ x = z /\ v >= 3 => w >= 3 * z
      /\ x = z /\ v <= -3 => w <= -(3 * z)
      /\ x = -z /\ v >= 3 => w <= -(3 * z)
      /\ x = -z /\ v <= -3 => w >= 3 * z
  <2>1. v * z \in Int
    OBVIOUS
  <2>2. v >= 3 => 3 * z <= v * z
    BY Products
  <2>3. v <= -3 => v * z <= (-3) * z
    BY Products
  <2>4. x = z => w = v * z
    BY <1>5
  <2>5. x = -z => w = -(v * z)
    BY <1>5
  <2> QED
    BY <2>1, <2>2, <2>3, <2>4, <2>5
<1>9. ClearDown(a, b, p) => (x = z /\ t >= 0) \/ (x = -z /\ t <= 0)
  BY <1>3, <1>4 DEF ClearDown
<1>10. ClearUp(a, b, p) => (x = z /\ t <= 0) \/ (x = -z /\ t >= 0)
  BY <1>3, <1>4 DEF ClearUp
<1>11. -z <= y /\ y <= z
  BY <1>3
<1> QED
  BY <1>1, <1>6, <1>7, <1>8, <1>9, <1>10, <1>11

\* Beyond a steep chord likewise.
LEMMA RowClear ==
  ASSUME NEW a \in Int \X Int, NEW b \in Int \X Int, NEW p \in Int \X Int, NEW s \in AnySide,
         NEW z \in Int, z > 0, b[2] - a[2] = z \/ b[2] - a[2] = -z, -z <= b[1] - a[1], b[1] - a[1] <= z,
         InRow(s, p), Ahead(From(s), p) \notin {1, -1}, Close(a, b, From(s)), Close(a, b, To(s))
  PROVE  /\ ClearRight(a, b, p) => ~(Ahead(From(s), p) > 0)
         /\ ClearLeft(a, b, p) => ~(Ahead(From(s), p) < 0)
<1>1. PICK u \in Int : u = Ahead(From(s), p) /\ u = Ahead(To(s), p) /\ (u >= 3 \/ u <= -3)
  BY RowCorners
<1>2. PICK k \in Int \X Int, l \in Int \X Int : /\ Close(a, b, k) /\ Ahead(k, p) = u /\ Under(k, p) = 1
                                                /\ Close(a, b, l) /\ Ahead(l, p) = u /\ Under(l, p) = -1
  BY <1>1, RowCorners, SideCorners
<1>3. PICK x \in Int, y \in Int : x = b[1] - a[1] /\ y = b[2] - a[2]
  OBVIOUS
<1>4. PICK t \in Int : t = Turn(a, b, p)
  BY TurnSigns
<1>5. PICK w \in Int : w = y * u
  OBVIOUS
<1>6. /\ Off(a, b, k) = 2 * x - 2 * w + t /\ Off(a, b, k) \in Int
      /\ Off(a, b, l) = -(2 * x) - 2 * w + t /\ Off(a, b, l) \in Int
  <2>1. /\ Off(a, b, k) = 2 * (x * 1) - 2 * (y * u) + t /\ Off(a, b, k) \in Int
        /\ Off(a, b, l) = 2 * (x * (-1)) - 2 * (y * u) + t /\ Off(a, b, l) \in Int
    BY <1>2, <1>3, <1>4, OffFromCell
  <2> QED
    BY <1>5, <2>1
<1>7. /\ ~(Off(a, b, k) >= 6 * z \/ Off(a, b, k) <= -(6 * z))
      /\ ~(Off(a, b, l) >= 6 * z \/ Off(a, b, l) <= -(6 * z))
  <2>1. ASSUME NEW f \in Int, f * f <= 9 * (x * x + y * y), f >= 6 * z \/ f <= -(6 * z)
        PROVE  FALSE
    <3>1. f * f > 9 * (x * x + y * y)
      BY <1>3, <2>1, TooFar
    <3>2. f * f \in Int /\ x * x \in Int /\ y * y \in Int
      BY <2>1
    <3> QED
      BY <2>1, <3>1, <3>2
  <2>2. /\ Off(a, b, k) * Off(a, b, k) <= 9 * (x * x + y * y)
        /\ Off(a, b, l) * Off(a, b, l) <= 9 * (x * x + y * y)
    BY <1>2, <1>3 DEF Close
  <2> QED
    BY <1>6, <2>1, <2>2
<1>8. /\ y = z /\ u >= 3 => w >= 3 * z
      /\ y = z /\ u <= -3 => w <= -(3 * z)
      /\ y = -z /\ u >= 3 => w <= -(3 * z)
      /\ y = -z /\ u <= -3 => w >= 3 * z
  <2>1. u * z \in Int
    OBVIOUS
  <2>2. u >= 3 => 3 * z <= u * z
    BY Products
  <2>3. u <= -3 => u * z <= (-3) * z
    BY Products
  <2>4. y = z => w = u * z
    BY <1>5
  <2>5. y = -z => w = -(u * z)
    BY <1>5
  <2> QED
    BY <2>1, <2>2, <2>3, <2>4, <2>5
<1>9. ClearRight(a, b, p) => (y = z /\ t <= 0) \/ (y = -z /\ t >= 0)
  BY <1>3, <1>4 DEF ClearRight
<1>10. ClearLeft(a, b, p) => (y = z /\ t >= 0) \/ (y = -z /\ t <= 0)
  BY <1>3, <1>4 DEF ClearLeft
<1>11. -z <= x /\ x <= z
  BY <1>3
<1> QED
  BY <1>1, <1>6, <1>7, <1>8, <1>9, <1>10, <1>11

\* The corners of a trail, the first one again at its end.
Corner(L, n, k) == From(L[IF k = n + 1 THEN 1 ELSE k])

\* A side of a trail leads from one corner to the next.
LEMMA CornerAfter ==
  ASSUME NEW L, NEW n, Trail(L, n), NEW k \in 1..n
  PROVE  /\ Corner(L, n, k) = From(L[k]) /\ Corner(L, n, k + 1) = To(L[k])
         /\ Corner(L, n, k) \in Int \X Int /\ Corner(L, n, k + 1) \in Int \X Int
<1>1. n \in Nat \ {0} /\ L[k] \in AnySide /\ To(L[k]) = From(L[Next1(k, n)])
  BY DEF Trail
<1>2. Corner(L, n, k) = From(L[k])
  BY <1>1 DEF Corner
<1>3. Next1(k, n) = IF k + 1 = n + 1 THEN 1 ELSE k + 1
  BY <1>1 DEF Next1
<1>4. Corner(L, n, k + 1) = To(L[k])
  BY <1>1, <1>3 DEF Corner
<1> QED
  BY <1>1, <1>2, <1>4, SideCorners

\* f is what h grows by in each step from i to j.
Growth(f, h, i, j) == (\A k \in i..j : h[k] \in Int) /\ \A k \in i..(j - 1) : f[k] = h[k + 1] - h[k]

\* What is the difference of a quantity at the ends of each step adds up to that at both ends.
LEMMA TotalTelescopes ==
  ASSUME NEW n \in Nat, NEW f, \A k \in 1..n : f[k] \in Int, NEW i \in 1..n, NEW j \in (i + 1)..(n + 1),
         NEW h, Growth(f, h, i, j)
  PROVE  Total(f, j - 1) - Total(f, i - 1) = h[j] - h[i]
<1> DEFINE m == j - i
           T == {l \in 0..m : Total(f, (i + l) - 1) - Total(f, i - 1) = h[i + l] - h[i]}
<1>1. m \in Nat /\ i + m = j
  OBVIOUS
<1>2. \A k \in 0..n : Total(f, k) \in Int
  BY TotalSteps
<1>3. 0 \in T
  <2>1. i + 0 = i /\ i - 1 \in 0..n /\ i \in i..j
    OBVIOUS
  <2>2. Total(f, i - 1) \in Int /\ h[i] \in Int
    BY <1>2, <2>1 DEF Growth
  <2> QED
    BY <1>1, <2>1, <2>2
<1>4. ASSUME NEW l \in 0..(m - 1), l \in T
      PROVE  l + 1 \in T
  <2>1. PICK k \in Int : k = i + l /\ k \in i..(j - 1) /\ k \in i..j /\ k + 1 \in i..j /\ k \in 1..n
                         /\ k - 1 \in 0..(n - 1) /\ k \in 0..n /\ (k - 1) + 1 = k /\ i + (l + 1) = k + 1
                         /\ (i + (l + 1)) - 1 = k /\ i - 1 \in 0..n /\ l + 1 \in 0..m /\ k - 1 \in 0..n /\ i \in i..j
    BY <1>4
  <2>2. Total(f, k) = Total(f, k - 1) + f[k]
    BY <2>1, TotalSteps
  <2>3. f[k] = h[k + 1] - h[k]
    BY <2>1 DEF Growth
  <2>4. Total(f, k - 1) - Total(f, i - 1) = h[k] - h[i]
    BY <1>4, <2>1
  <2>5. Total(f, k) \in Int /\ Total(f, k - 1) \in Int /\ Total(f, i - 1) \in Int
    BY <1>2, <2>1
  <2>6. h[k] \in Int /\ h[k + 1] \in Int /\ h[i] \in Int
    BY <2>1 DEF Growth
  <2>7. Total(f, k) - Total(f, i - 1) = h[k + 1] - h[i]
    BY <2>2, <2>3, <2>4, <2>5, <2>6
  <2> QED
    BY <2>1, <2>7
<1>5. \A l \in 0..m : l \in T
  <2> HIDE DEF T, m
  <2> QED
    BY <1>1, <1>3, <1>4, UpTo
<1>6. m \in T
  BY <1>1, <1>5
<1> QED
  BY <1>1, <1>6

\* A side of the cell p itself, its own or that of the cell beyond.
OwnSide(s, p) ==
  \/ InColumn(s, p) /\ Under(From(s), p) \in {1, -1}
  \/ InRow(s, p) /\ Ahead(From(s), p) \in {1, -1}

\* The line of a level chord misses every centre.
LEMMA LevelTurn ==
  ASSUME NEW a \in Int \X Int, NEW b \in Int \X Int, NEW p \in Int \X Int, a[2] = b[2], a[1] # b[1]
  PROVE  Turn(a, b, p) # 0
<1>1. PICK v \in Int : v = Under(a, p) /\ v = Under(b, p) /\ (v > 0 \/ v < 0)
  BY DEF Under
<1>2. PICK u \in Int, w \in Int : u = Ahead(a, p) /\ w = Ahead(b, p) /\ (u - w > 0 \/ u - w < 0)
  BY DEF Ahead
<1>3. PICK x \in Int : x = u - w
  OBVIOUS
<1>4. Turn(a, b, p) = u * v - w * v
  BY <1>1, <1>2 DEF Turn
<1>5. u * v - w * v = x * v
  BY <1>3
<1>6. x * v # 0
  BY <1>1, <1>2, <1>3, Signs
<1> QED
  BY <1>4, <1>5, <1>6

\* The piece of a trail between two of its corners stays close to the chord between them, and has
\* no side of p.
Hugs(L, n, i, j) == \A k \in i..j : Close(Corner(L, n, i), Corner(L, n, j), Corner(L, n, k))
Avoids(L, i, j, p) == \A k \in i..(j - 1) : ~OwnSide(L[k], p)

\* The sides of a piece of a trail that stays close to the chord between its ends cross the ray to
\* the right of p as the chord does, if p has none of them as its own.
LEMMA PieceCrossing ==
  ASSUME NEW L, NEW n, Trail(L, n), NEW p \in Int \X Int, NEW i \in 1..n, NEW j \in (i + 1)..(n + 1),
         NEW a, a = Corner(L, n, i), NEW b, b = Corner(L, n, j), a # b,
         Hugs(L, n, i, j), Avoids(L, i, j, p), NEW f, f = [k \in 1..n |-> Crossing(L[k], p)]
  PROVE  Total(f, j - 1) - Total(f, i - 1) = ChordCrossing(a, b, p)
<1>0. n \in Nat \ {0} /\ n \in Nat
  BY DEF Trail
<1>1. \A k \in 1..n : f[k] \in Int
  BY DEF Crossing
<1>2. ASSUME NEW k \in i..j
      PROVE  Corner(L, n, k) \in Int \X Int
  <2>1. CASE k <= n
    <3>1. k \in 1..n
      BY <1>0, <2>1
    <3> QED
      BY <3>1, CornerAfter
  <2>2. CASE ~(k <= n)
    <3>1. k = n + 1 /\ n \in 1..n
      BY <1>0, <2>2
    <3> QED
      BY <3>1, CornerAfter
  <2> QED
    BY <2>1, <2>2
<1>3. i \in i..j /\ j \in i..j
  BY <1>0
<1>4. a \in Int \X Int /\ b \in Int \X Int
  BY <1>2, <1>3
<1>5. ASSUME NEW k \in i..(j - 1)
      PROVE  /\ k \in 1..n /\ k \in i..j /\ k + 1 \in i..j /\ L[k] \in AnySide
             /\ From(L[k]) = Corner(L, n, k) /\ To(L[k]) = Corner(L, n, k + 1)
             /\ Close(a, b, From(L[k])) /\ Close(a, b, To(L[k]))
             /\ ~OwnSide(L[k], p) /\ f[k] = Crossing(L[k], p)
  <2>1. k \in 1..n /\ k \in i..j /\ k + 1 \in i..j
    BY <1>0
  <2>2. From(L[k]) = Corner(L, n, k) /\ To(L[k]) = Corner(L, n, k + 1)
    BY <2>1, CornerAfter
  <2>3. Close(a, b, Corner(L, n, k)) /\ Close(a, b, Corner(L, n, k + 1)) /\ ~OwnSide(L[k], p)
    BY <2>1 DEF Hugs, Avoids
  <2> QED
    BY <2>1, <2>2, <2>3 DEF Trail
<1>6. ASSUME NEW h, Growth(f, h, i, j)
      PROVE  Total(f, j - 1) - Total(f, i - 1) = h[j] - h[i]
  BY ONLY <1>0, i \in 1..n, j \in (i + 1)..(n + 1), <1>1, <1>6, TotalTelescopes
<1>7. PICK x \in Int, y \in Int : x = b[1] - a[1] /\ y = b[2] - a[2]
  BY <1>4
<1>8. x # 0 \/ y # 0
  BY <1>4, <1>7
<1>9. PICK t \in Int : t = Turn(a, b, p)
  BY <1>4, TurnSigns
<1>10. ASSUME NEW z \in Int, z > 0, x = z \/ x = -z, -z <= y, y <= z
       PROVE  Total(f, j - 1) - Total(f, i - 1) = ChordCrossing(a, b, p)
  <2>1. ASSUME NEW k \in i..(j - 1)
        PROVE  /\ ClearDown(a, b, p) => ~(InColumn(L[k], p) /\ Under(From(L[k]), p) > 0)
               /\ ClearUp(a, b, p) => ~(InColumn(L[k], p) /\ Under(From(L[k]), p) < 0)
    <3>1. CASE InColumn(L[k], p)
      <4>1. Under(From(L[k]), p) \notin {1, -1}
        BY <1>5, <3>1 DEF OwnSide
      <4> QED
        BY <1>4, <1>5, <1>7, <1>10, <3>1, <4>1, ColumnClear
    <3> QED
      BY <3>1
  <2>2. CASE ClearDown(a, b, p)
    <3> DEFINE h == [k \in i..j |-> RightBelow(Corner(L, n, k), p)]
    <3>1. \A k \in i..j : h[k] \in Int
      BY DEF RightBelow
    <3>2. ASSUME NEW k \in i..(j - 1)
          PROVE  f[k] = h[k + 1] - h[k]
      <4>1. Crossing(L[k], p) = RightBelow(To(L[k]), p) - RightBelow(From(L[k]), p)
        BY <1>5, <2>1, <2>2, SideDown
      <4>2. h[k] = RightBelow(From(L[k]), p) /\ h[k + 1] = RightBelow(To(L[k]), p)
        BY <1>5
      <4> QED
        BY <1>5, <4>1, <4>2
    <3>3. h[i] = RightBelow(a, p) /\ h[j] = RightBelow(b, p)
      BY <1>3
    <3> HIDE DEF h
    <3>4. Growth(f, h, i, j)
      BY <3>1, <3>2 DEF Growth
    <3>5. Total(f, j - 1) - Total(f, i - 1) = h[j] - h[i]
      BY <1>6, <3>4
    <3> QED
      BY <1>4, <2>2, <3>3, <3>5, ChordDown
  <2>3. CASE ClearUp(a, b, p)
    <3> DEFINE h == [k \in i..j |-> 0 - RightAbove(Corner(L, n, k), p)]
    <3>0. \A k \in i..j : RightAbove(Corner(L, n, k), p) \in Int
      BY DEF RightAbove
    <3>1. \A k \in i..j : h[k] \in Int
      BY <3>0
    <3>2. ASSUME NEW k \in i..(j - 1)
          PROVE  f[k] = h[k + 1] - h[k]
      <4>1. Crossing(L[k], p) = RightAbove(From(L[k]), p) - RightAbove(To(L[k]), p)
        BY <1>5, <2>1, <2>3, SideUp
      <4>2. h[k] = 0 - RightAbove(From(L[k]), p) /\ h[k + 1] = 0 - RightAbove(To(L[k]), p)
        BY <1>5
      <4>3. RightAbove(From(L[k]), p) \in Int /\ RightAbove(To(L[k]), p) \in Int
        BY <1>5, <3>0
      <4> HIDE DEF h
      <4> QED
        BY <1>5, <4>1, <4>2, <4>3
    <3>3. h[i] = 0 - RightAbove(a, p) /\ h[j] = 0 - RightAbove(b, p)
      BY <1>3
    <3>4. RightAbove(a, p) \in Int /\ RightAbove(b, p) \in Int
      BY <1>3, <3>0
    <3> HIDE DEF h
    <3>5. ChordCrossing(a, b, p) = RightAbove(a, p) - RightAbove(b, p)
      BY <1>4, <2>3, ChordUp
    <3>6. Total(f, j - 1) - Total(f, i - 1) = h[j] - h[i]
      <4>1. Growth(f, h, i, j)
        BY <3>1, <3>2 DEF Growth
      <4> QED
        BY <1>6, <4>1
    <3> QED
      BY <3>3, <3>4, <3>5, <3>6
  <2>4. ClearDown(a, b, p) \/ ClearUp(a, b, p)
    <3>1. t = 0 => y # 0
      <4>1. y = 0 => a[2] = b[2] /\ a[1] # b[1]
        BY <1>4, <1>7, <1>8
      <4> QED
        BY <1>4, <1>9, <4>1, LevelTurn
    <3>2. PICK a1 \in Int, a2 \in Int, b1 \in Int, b2 \in Int :
            a1 = a[1] /\ a2 = a[2] /\ b1 = b[1] /\ b2 = b[2]
      BY <1>4
    <3>3. x = b1 - a1 /\ y = b2 - a2
      BY <1>7, <3>2
    <3>4. /\ b1 > a1 \/ b1 < a1
          /\ t = 0 => b2 < a2 \/ b2 > a2
          /\ t > 0 \/ t < 0 \/ t = 0
      BY <1>10, <3>1, <3>3
    <3> QED
      BY <1>9, <3>2, <3>4 DEF ClearDown, ClearUp
  <2> QED
    BY <2>2, <2>3, <2>4
<1>11. ASSUME NEW z \in Int, z > 0, y = z \/ y = -z, -z <= x, x <= z
       PROVE  Total(f, j - 1) - Total(f, i - 1) = ChordCrossing(a, b, p)
  <2>1. ASSUME NEW k \in i..(j - 1)
        PROVE  /\ ClearRight(a, b, p) => ~(InRow(L[k], p) /\ Ahead(From(L[k]), p) > 0)
               /\ ClearLeft(a, b, p) => ~(InRow(L[k], p) /\ Ahead(From(L[k]), p) < 0)
    <3>1. CASE InRow(L[k], p)
      <4>1. Ahead(From(L[k]), p) \notin {1, -1}
        BY <1>5, <3>1 DEF OwnSide
      <4> QED
        BY <1>4, <1>5, <1>7, <1>11, <3>1, <4>1, RowClear
    <3> QED
      BY <3>1
  <2>2. CASE ClearLeft(a, b, p)
    <3> DEFINE h == [k \in i..j |-> Lower(Corner(L, n, k), p)]
    <3>1. \A k \in i..j : h[k] \in Int
      BY DEF Lower
    <3>2. ASSUME NEW k \in i..(j - 1)
          PROVE  f[k] = h[k + 1] - h[k]
      <4>1. Crossing(L[k], p) = Lower(To(L[k]), p) - Lower(From(L[k]), p)
        BY <1>5, <2>1, <2>2, SideLeft
      <4>2. h[k] = Lower(From(L[k]), p) /\ h[k + 1] = Lower(To(L[k]), p)
        BY <1>5
      <4> QED
        BY <1>5, <4>1, <4>2
    <3>3. h[i] = Lower(a, p) /\ h[j] = Lower(b, p)
      BY <1>3
    <3> HIDE DEF h
    <3>4. Growth(f, h, i, j)
      BY <3>1, <3>2 DEF Growth
    <3>5. Total(f, j - 1) - Total(f, i - 1) = h[j] - h[i]
      BY <1>6, <3>4
    <3> QED
      BY <1>4, <2>2, <3>3, <3>5, ChordLeft
  <2>3. CASE ClearRight(a, b, p)
    <3> DEFINE h == [k \in i..j |-> 0]
    <3>2. ASSUME NEW k \in i..(j - 1)
          PROVE  f[k] = h[k + 1] - h[k]
      <4>1. Crossing(L[k], p) = 0
        BY <1>5, <2>1, <2>3, SideRight
      <4> QED
        BY <1>5, <4>1
    <3>3. (\A k \in i..j : h[k] \in Int) /\ h[i] = 0 /\ h[j] = 0
      BY <1>3
    <3> HIDE DEF h
    <3>4. Growth(f, h, i, j)
      BY <3>2, <3>3 DEF Growth
    <3>5. Total(f, j - 1) - Total(f, i - 1) = h[j] - h[i]
      BY <1>6, <3>4
    <3> QED
      BY <1>4, <2>3, <3>3, <3>5, ChordRight
  <2>4. ClearLeft(a, b, p) \/ ClearRight(a, b, p)
    <3>2. PICK a1 \in Int, a2 \in Int, b1 \in Int, b2 \in Int :
            a1 = a[1] /\ a2 = a[2] /\ b1 = b[1] /\ b2 = b[2]
      BY <1>4
    <3>3. x = b1 - a1 /\ y = b2 - a2
      BY <1>7, <3>2
    <3>4. /\ b2 > a2 \/ b2 < a2
          /\ t > 0 \/ t <= 0
          /\ t < 0 \/ t >= 0
      BY <1>11, <3>3
    <3> QED
      BY <1>9, <3>2, <3>4 DEF ClearLeft, ClearRight
  <2> QED
    BY <2>2, <2>3, <2>4
<1>12. PICK X \in Int, Y \in Int : /\ X >= 0 /\ (x = X \/ x = -X)
                                   /\ Y >= 0 /\ (y = Y \/ y = -Y)
  <2>1. \E X \in Int : X >= 0 /\ (x = X \/ x = -X)
    <3>1. CASE x >= 0
      BY <3>1
    <3>2. CASE ~(x >= 0)
      <4>1. -x \in Int /\ -x >= 0 /\ x = -(-x)
        BY <3>2
      <4> QED
        BY <4>1
    <3> QED
      BY <3>1, <3>2
  <2>2. \E Y \in Int : Y >= 0 /\ (y = Y \/ y = -Y)
    <3>1. CASE y >= 0
      BY <3>1
    <3>2. CASE ~(y >= 0)
      <4>1. -y \in Int /\ -y >= 0 /\ y = -(-y)
        BY <3>2
      <4> QED
        BY <4>1
    <3> QED
      BY <3>1, <3>2
  <2> QED
    BY <2>1, <2>2
<1>13. CASE Y <= X
  <2>1. X > 0 /\ -X <= y /\ y <= X
    BY <1>8, <1>12, <1>13
  <2> QED
    BY <1>10, <1>12, <2>1
<1>14. CASE ~(Y <= X)
  <2>1. Y > 0 /\ -Y <= x /\ x <= Y
    BY <1>12, <1>14
  <2> QED
    BY <1>11, <1>12, <2>1
<1> QED
  BY <1>13, <1>14

-----------------------------------------------------------------------------
(* Simplification keeps the corners that are not close.                    *)

\* A step of douglasPeucker between two positions: the one farthest off, whether it is close, and
\* what is kept, given what is kept between closer ones.
Inner(a, b) == (a + 1)..(b - 1)
NumAt(pts, a, b, i) == PerpNum(pts[i], pts[a], pts[b])
FarOf(pts, a, b) == Min({i \in Inner(a, b) : \A j \in Inner(a, b) : NumAt(pts, a, b, j) <= NumAt(pts, a, b, i)})
Flat(pts, a, b) ==
  Inner(a, b) = {} \/ ~AboveEps(NumAt(pts, a, b, FarOf(pts, a, b)), PerpDen(pts[a], pts[b]))
Kept(pts, h, a, b) ==
  IF Flat(pts, a, b) THEN {a, b} ELSE h[<<a, FarOf(pts, a, b)>>] \cup h[<<FarOf(pts, a, b), b>>]

\* A position between two others.
LEMMA InnerIs ==
  ASSUME NEW a \in Nat, NEW b \in Nat, NEW f \in Inner(a, b)
  PROVE  f \in Nat /\ a < f /\ f < b
BY DEF Inner

\* Positions between two of a sequence are positions of it.
LEMMA InnerIn ==
  ASSUME NEW n \in Nat, NEW a \in 1..n, NEW b \in 1..n
  PROVE  Inner(a, b) \subseteq 1..n
BY DEF Inner

\* Distances are numbers.
LEMMA PerpType ==
  ASSUME NEW k \in Int \X Int, NEW a \in Int \X Int, NEW b \in Int \X Int
  PROVE  PerpNum(k, a, b) \in Int /\ PerpDen(a, b) \in Int
BY DEF PerpNum, PerpDen, SquareDist

\* Some value of finitely many integers is not exceeded.
LEMMA Largest ==
  ASSUME NEW n \in Nat \ {0}, NEW f, \A k \in 1..n : f[k] \in Int
  PROVE  \E i \in 1..n : \A j \in 1..n : f[j] <= f[i]
<1>1. PICK x \in Int : x = Max(Values(f, n)) /\ \A i \in 1..n : f[i] <= x
  BY Extremes
<1> DEFINE T == {d \in Nat : \E i \in 1..n : d = x - f[i]}
<1>2. ASSUME NEW i \in 1..n
      PROVE  x - f[i] \in T
  <2>1. PICK y \in Int : y = f[i] /\ y <= x
    BY <1>1
  <2>2. x - y \in Nat /\ x - y = x - f[i]
    BY <2>1
  <2> QED
    BY <2>1, <2>2
<1>3. T # {} /\ T \subseteq Nat
  BY <1>2
<1>4. PICK d \in T : \A e \in T : d <= e
  <2> HIDE DEF T
  <2> QED
    BY <1>3, Least
<1>5. PICK i \in 1..n : d = x - f[i]
  BY <1>4
<1>6. ASSUME NEW j \in 1..n
      PROVE  f[j] <= f[i]
  <2>1. PICK y \in Int, z \in Int : y = f[i] /\ z = f[j]
    OBVIOUS
  <2>2. d <= x - f[j]
    BY <1>2, <1>4
  <2>3. x - y <= x - z
    BY <1>5, <2>1, <2>2
  <2> QED
    BY <2>1, <2>3
<1> QED
  BY <1>6

Numbers(pts, a, b) == \A i \in Inner(a, b) : NumAt(pts, a, b, i) \in Int

\* Between two positions there is one farthest off.
LEMMA FarIs ==
  ASSUME NEW pts, NEW a \in Nat, NEW b \in Nat, Inner(a, b) # {}, Numbers(pts, a, b)
  PROVE  /\ FarOf(pts, a, b) \in Inner(a, b)
         /\ \A j \in Inner(a, b) : NumAt(pts, a, b, j) <= NumAt(pts, a, b, FarOf(pts, a, b))
<1>1. PICK n \in Int : n = b - a - 1
  OBVIOUS
<1>2. n \in Nat \ {0}
  <2>1. PICK i \in Int : i \in Inner(a, b)
    BY DEF Inner
  <2> QED
    BY <1>1, <2>1 DEF Inner
<1>3. \A i \in Inner(a, b) : i \in Int /\ i - a \in 1..n /\ a + (i - a) = i
  BY <1>1, <1>2 DEF Inner
<1>4. \A k \in 1..n : a + k \in Inner(a, b)
  BY <1>1, <1>2 DEF Inner
<1> DEFINE f == [k \in 1..n |-> NumAt(pts, a, b, a + k)]
<1>6. \A k \in 1..n : f[k] \in Int /\ f[k] = NumAt(pts, a, b, a + k)
  BY <1>4 DEF Numbers
<1> HIDE DEF f
<1>9. PICK k \in 1..n : \A j \in 1..n : f[j] <= f[k]
  BY <1>2, <1>6, Largest
<1>10. ASSUME NEW j \in Inner(a, b)
       PROVE  NumAt(pts, a, b, j) <= NumAt(pts, a, b, a + k)
  <2>1. PICK l \in 1..n : l = j - a /\ a + l = j
    BY <1>3
  <2>2. f[l] = NumAt(pts, a, b, j) /\ f[k] = NumAt(pts, a, b, a + k) /\ f[l] <= f[k]
    BY <1>6, <1>9, <2>1
  <2> QED
    BY <2>2
<1> DEFINE S == {i \in Inner(a, b) : \A j \in Inner(a, b) : NumAt(pts, a, b, j) <= NumAt(pts, a, b, i)}
<1>11. S # {} /\ S \subseteq Nat
  BY <1>4, <1>10 DEF Inner
<1>13. Min(S) \in S
  <2> HIDE DEF S
  <2> QED
    BY <1>11, MinIs
<1> QED
  BY <1>13 DEF FarOf

\* The recursion on pairs of positions gives the function it describes.
LEMMA Positions ==
  ASSUME NEW pts \in Seq(Int \X Int), NEW a \in DOMAIN pts, NEW b \in DOMAIN pts
  PROVE  /\ DOMAIN pts = 1..Len(pts) /\ Len(pts) \in Nat /\ a \in Nat /\ b \in Nat
         /\ a >= 1 /\ b <= Len(pts) /\ b - a <= Len(pts)
         /\ Inner(a, b) \subseteq DOMAIN pts /\ Numbers(pts, a, b)
<1>1. DOMAIN pts = 1..Len(pts) /\ Len(pts) \in Nat
  OBVIOUS
<1>0. PICK n \in Nat : n = Len(pts) /\ DOMAIN pts = 1..n
  BY <1>1
<1>2. a \in 1..n /\ b \in 1..n
  BY <1>0
<1>6. a \in Nat /\ b \in Nat /\ a >= 1 /\ b <= n /\ b - a <= n
  BY <1>2
<1>3. Inner(a, b) \subseteq 1..n
  BY <1>2, <1>6, InnerIn
<1>4. \A k \in DOMAIN pts : pts[k] \in Int \X Int
  OBVIOUS
<1>5. \A k \in Inner(a, b) : NumAt(pts, a, b, k) \in Int
  BY <1>0, <1>2, <1>3, <1>4, PerpType DEF NumAt
<1> QED
  BY <1>0, <1>6, <1>3, <1>5 DEF Numbers

\* What is kept between positions that are flat.
LEMMA KeptFlat ==
  ASSUME NEW pts, NEW h, NEW a, NEW b, Flat(pts, a, b)
  PROVE  Kept(pts, h, a, b) = {a, b}
BY DEF Kept

\* What is kept between positions that are not flat.
LEMMA KeptSplit ==
  ASSUME NEW pts, NEW h, NEW a, NEW b, ~Flat(pts, a, b)
  PROVE  Kept(pts, h, a, b) = h[<<a, FarOf(pts, a, b)>>] \cup h[<<FarOf(pts, a, b), b>>]
BY DEF Kept

KeptStep(pts, h) ==
  [ends \in (DOMAIN pts) \X (DOMAIN pts) |->
     LET a == ends[1]
         b == ends[2]
         inner == (a + 1)..(b - 1)
         Num(i) == PerpNum(pts[i], pts[a], pts[b])
         far == Min({i \in inner : \A j \in inner : Num(j) <= Num(i)})
     IN  IF inner = {} \/ ~AboveEps(Num(far), PerpDen(pts[a], pts[b])) THEN {a, b}
         ELSE h[<<a, far>>] \cup h[<<far, b>>]]

KeptAll(pts) == CHOOSE kept : kept = KeptStep(pts, kept)

\* douglasPeucker looks its function up.
LEMMA KeptIs ==
  ASSUME NEW pts, NEW first, NEW last
  PROVE  douglasPeucker(pts, first, last) = KeptAll(pts)[<<first, last>>]
BY DEF douglasPeucker, KeptStep, KeptAll

\* A step of that function in terms of Kept.
LEMMA StepIs ==
  ASSUME NEW pts, NEW h
  PROVE  KeptStep(pts, h) = [e \in (DOMAIN pts) \X (DOMAIN pts) |-> Kept(pts, h, e[1], e[2])]
BY DEF KeptStep, Kept, Flat, FarOf, NumAt, Inner

\* A solution of the recursion in douglasPeucker.
Solves(pts, h) == \A a \in DOMAIN pts, b \in DOMAIN pts : h[<<a, b>>] = Kept(pts, h, a, b)

\* douglasPeucker satisfies its recursion.
LEMMA KeptRecurs ==
  ASSUME NEW pts \in Seq(Int \X Int), NEW first, NEW last
  PROVE  \E h : /\ Solves(pts, h)
                /\ douglasPeucker(pts, first, last) = h[<<first, last>>]
<1> DEFINE w == KeptAll(pts)
<1>16. douglasPeucker(pts, first, last) = w[<<first, last>>]
  BY KeptIs
<1> DEFINE D == DOMAIN pts
           P == (DOMAIN pts) \X (DOMAIN pts)
           S == [P -> SUBSET D]
           Step(h) == [e \in P |-> Kept(pts, h, e[1], e[2])]
           F == [h \in S |-> Step(h)]
           Rec(h) == h = KeptStep(pts, h)
<1>1. D = 1..Len(pts) /\ Len(pts) \in Nat
  OBVIOUS
<1>18. \A a \in D, b \in D : <<a, b>> \in P
  OBVIOUS
<1>19. \A e \in P : \E a \in D, b \in D : e = <<a, b>>
  OBVIOUS
<1>2. ASSUME NEW a \in D, NEW b \in D, ~Flat(pts, a, b)
      PROVE  \E f \in D : f = FarOf(pts, a, b) /\ a < f /\ f < b
  <2>1. a \in Nat /\ b \in Nat /\ Numbers(pts, a, b) /\ Inner(a, b) \subseteq D
    BY Positions
  <2>2. Inner(a, b) # {}
    BY <1>2 DEF Flat
  <2>3. FarOf(pts, a, b) \in Inner(a, b)
    BY <2>1, <2>2, FarIs
  <2>4. \E f \in Int : f = FarOf(pts, a, b) /\ a < f /\ f < b
    BY <2>1, <2>3, InnerIs
  <2> QED
    BY <2>1, <2>3, <2>4
<1> HIDE DEF D, P
<1>3. ASSUME NEW h \in S
      PROVE  Step(h) \in S
  <2>1. ASSUME NEW e \in P
        PROVE  Kept(pts, h, e[1], e[2]) \in SUBSET D
    <3>1. PICK a \in D, b \in D : e = <<a, b>>
      BY <1>19
    <3>2. CASE Flat(pts, a, b)
      BY <3>1, <3>2 DEF Kept
    <3>3. CASE ~Flat(pts, a, b)
      <4>1. PICK f \in D : f = FarOf(pts, a, b)
        BY <1>2, <3>3
      <4>2. <<a, f>> \in P /\ <<f, b>> \in P
        BY <1>18
      <4>3. h[<<a, f>>] \in SUBSET D /\ h[<<f, b>>] \in SUBSET D
        BY <4>2
      <4> QED
        BY <3>1, <3>3, <4>1, <4>3 DEF Kept
    <3> QED
      BY <3>2, <3>3
  <2> QED
    BY <2>1
<1>4. F \in [S -> S]
  BY <1>3
<1>5. [e \in P |-> {}] \in S
  OBVIOUS
<1>6. PICK g : g \in [Nat -> S] /\ \A k \in Nat : g[k + 1] = F[g[k]]
  <2> HIDE DEF S, F
  <2>1. PICK z \in S : z = [e \in P |-> {}]
    BY <1>5
  <2>2. \E g \in [Nat -> S] : Chain(z, F, g)
    BY <1>4, Iterates
  <2> QED
    BY <2>2 DEF Chain
<1>7. ASSUME NEW k \in Nat, NEW a \in D, NEW b \in D
      PROVE  g[k + 1][<<a, b>>] = Kept(pts, g[k], a, b)
  <2>1. g[k] \in S /\ g[k + 1] = Step(g[k])
    BY <1>6
  <2>2. <<a, b>> \in P /\ <<a, b>>[1] = a /\ <<a, b>>[2] = b
    BY <1>18
  <2> QED
    BY <2>1, <2>2
<1> HIDE DEF F, S
<1> DEFINE T == {k \in Nat : \A a \in D, b \in D : b - a <= k => g[k + 1][<<a, b>>] = g[k + 2][<<a, b>>]}
<1>8. 0 \in T
  <2>1. ASSUME NEW a \in D, NEW b \in D, b - a <= 0
        PROVE  g[0 + 1][<<a, b>>] = g[0 + 2][<<a, b>>]
    <3>1. Flat(pts, a, b)
      BY <1>1, <2>1 DEF Flat, Inner
    <3>2. g[0 + 1][<<a, b>>] = Kept(pts, g[0], a, b)
      BY <1>7
    <3>3. g[1 + 1][<<a, b>>] = Kept(pts, g[1], a, b)
      BY <1>7
    <3>4. Kept(pts, g[0], a, b) = {a, b} /\ Kept(pts, g[1], a, b) = {a, b}
      BY <3>1, KeptFlat
    <3>5. 1 + 1 = 0 + 2
      OBVIOUS
    <3> QED
      BY <3>2, <3>3, <3>4, <3>5
  <2> QED
    BY <2>1
<1>9. ASSUME NEW k \in Nat, k \in T
      PROVE  k + 1 \in T
  <2>1. ASSUME NEW a \in D, NEW b \in D, b - a <= k + 1
        PROVE  g[(k + 1) + 1][<<a, b>>] = g[(k + 1) + 2][<<a, b>>]
    <3>1. /\ g[(k + 1) + 1][<<a, b>>] = Kept(pts, g[k + 1], a, b)
          /\ g[(k + 2) + 1][<<a, b>>] = Kept(pts, g[k + 2], a, b)
      BY <1>7
    <3>4. (k + 2) + 1 = (k + 1) + 2
      OBVIOUS
    <3>2. CASE Flat(pts, a, b)
      <4>1. Kept(pts, g[k + 1], a, b) = {a, b} /\ Kept(pts, g[k + 2], a, b) = {a, b}
        BY <3>2, KeptFlat
      <4> QED
        BY <3>1, <3>4, <4>1
    <3>3. CASE ~Flat(pts, a, b)
      <4>1. PICK f \in D : f = FarOf(pts, a, b) /\ a < f /\ f < b
        BY <1>2, <3>3
      <4>6. a \in Nat /\ b \in Nat /\ f \in Nat /\ b - a <= k + 1 /\ a < f /\ f < b
        BY <1>1, <2>1, <4>1
      <4>2. f - a <= k /\ b - f <= k
        BY ONLY k \in Nat, <4>6
      <4>3. g[k + 1][<<a, f>>] = g[k + 2][<<a, f>>] /\ g[k + 1][<<f, b>>] = g[k + 2][<<f, b>>]
        BY <1>9, <4>2
      <4>5. /\ Kept(pts, g[k + 1], a, b) = g[k + 1][<<a, f>>] \cup g[k + 1][<<f, b>>]
            /\ Kept(pts, g[k + 2], a, b) = g[k + 2][<<a, f>>] \cup g[k + 2][<<f, b>>]
        BY <3>3, <4>1, KeptSplit
      <4>4. Kept(pts, g[k + 1], a, b) = Kept(pts, g[k + 2], a, b)
        BY <4>3, <4>5
      <4> QED
        BY <3>1, <3>4, <4>4
    <3> QED
      BY <3>2, <3>3
  <2> QED
    BY <2>1
<1>10. Len(pts) \in T
  <2> HIDE DEF T
  <2>1. Nat \subseteq T
    BY <1>8, <1>9, Induct
  <2> QED
    BY <1>1, <2>1
<1>11. PICK h : h \in S /\ \A a \in D, b \in D : h[<<a, b>>] = Kept(pts, h, a, b)
  <2>1. PICK k \in Nat : k = Len(pts) /\ k \in T
    BY <1>1, <1>10
  <2>2. ASSUME NEW a \in D, NEW b \in D
        PROVE  g[k + 1][<<a, b>>] = Kept(pts, g[k + 1], a, b)
    <3>1. b - a <= k
      BY <1>1, <2>1
    <3>2. g[k + 1][<<a, b>>] = g[k + 2][<<a, b>>]
      BY <2>1, <3>1
    <3>3. g[(k + 1) + 1][<<a, b>>] = Kept(pts, g[k + 1], a, b)
      BY <1>7
    <3> QED
      BY <3>2, <3>3
  <2>3. g[k + 1] \in S
    BY <1>6
  <2> QED
    BY <2>2, <2>3
<1> DEFINE Rec2(x) == x = [e \in P |-> Kept(pts, x, e[1], e[2])]
<1>12. Rec2(h)
  <2>1. h = [e \in P |-> h[e]]
    BY <1>11 DEF S
  <2>2. ASSUME NEW e \in P
        PROVE  h[e] = Kept(pts, h, e[1], e[2])
    <3>1. PICK a \in D, b \in D : e = <<a, b>>
      BY <1>19
    <3> QED
      BY <1>11, <3>1
  <2> QED
    BY <2>1, <2>2
<1>13. ASSUME NEW x
       PROVE  Rec(x) <=> Rec2(x)
  BY StepIs DEF P
<1>14. Rec(w)
  <2>1. Rec(h)
    <3> HIDE DEF Rec, Rec2
    <3> QED
      BY <1>12, <1>13
  <2> QED
    BY <2>1 DEF KeptAll
<1> HIDE DEF w
<1>15. Rec2(w)
  <2> HIDE DEF Rec, Rec2
  <2> QED
    BY <1>13, <1>14
<1>17. \A a \in D, b \in D : w[<<a, b>>] = Kept(pts, w, a, b)
  <2>1. ASSUME NEW a \in D, NEW b \in D
        PROVE  w[<<a, b>>] = Kept(pts, w, a, b)
    <3>1. <<a, b>> \in P
      BY <1>18
    <3> QED
      BY <1>15, <3>1
  <2> QED
    BY <2>1
<1>20. Solves(pts, w)
  BY <1>17 DEF D, Solves
<1> QED
  BY <1>16, <1>20

\* Nothing of K lies between two positions.
Follows(K, x, y) == x < y /\ \A z \in K : ~(x < z /\ z < y)

\* K runs from a to b in flat steps.
FlatSteps(pts, K, a, b) ==
  /\ K \subseteq a..b /\ a \in K /\ b \in K
  /\ \A x \in K, y \in K : Follows(K, x, y) => Flat(pts, x, y)

\* Two runs of flat steps make one.
LEMMA StepsJoin ==
  ASSUME NEW pts, NEW a \in Nat, NEW f \in Nat, NEW b \in Nat, a < f, f < b, NEW K, NEW M,
         FlatSteps(pts, K, a, f), FlatSteps(pts, M, f, b)
  PROVE  FlatSteps(pts, K \cup M, a, b)
<1>1. K \cup M \subseteq a..b
  <2>1. a..f \subseteq a..b /\ f..b \subseteq a..b
    OBVIOUS
  <2> QED
    BY <2>1 DEF FlatSteps
<1>2. ASSUME NEW x \in K \cup M, NEW y \in K \cup M, Follows(K \cup M, x, y)
      PROVE  Flat(pts, x, y)
  <2>1. x \in Nat /\ y \in Nat /\ x < y /\ f \in K \cup M /\ ~(x < f /\ f < y)
    BY <1>1, <1>2 DEF Follows, FlatSteps
  <2>2. CASE y <= f
    <3>1. x \in K /\ y \in K
      BY <2>1, <2>2 DEF FlatSteps
    <3>2. Follows(K, x, y)
      BY <1>2 DEF Follows
    <3> QED
      BY <3>1, <3>2 DEF FlatSteps
  <2>3. CASE f <= x
    <3>1. x \in M /\ y \in M
      BY <2>1, <2>3 DEF FlatSteps
    <3>2. Follows(M, x, y)
      BY <1>2 DEF Follows
    <3> QED
      BY <3>1, <3>2 DEF FlatSteps
  <2> QED
    BY <2>1, <2>2, <2>3
<1> QED
  BY <1>1, <1>2 DEF FlatSteps

\* What douglasPeucker keeps runs from one position to the other in flat steps.
LEMMA Tolerance ==
  ASSUME NEW pts \in Seq(Int \X Int), NEW first \in DOMAIN pts, NEW last \in DOMAIN pts, first < last
  PROVE  FlatSteps(pts, douglasPeucker(pts, first, last), first, last)
<1>1. PICK h : Solves(pts, h) /\ douglasPeucker(pts, first, last) = h[<<first, last>>]
  BY KeptRecurs
<1> DEFINE D == DOMAIN pts
           T == {d \in Nat : \A a \in D, b \in D : (a < b /\ b - a <= d) => FlatSteps(pts, h[<<a, b>>], a, b)}
<1>2. \A a \in D : a \in Nat
  BY Positions
<1>7. \A a \in D, b \in D : Numbers(pts, a, b) /\ Inner(a, b) \subseteq D
  BY Positions
<1>8. \A a \in D, b \in D : h[<<a, b>>] = Kept(pts, h, a, b)
  BY <1>1 DEF Solves
<1>9. first \in D /\ last \in D
  OBVIOUS
<1> HIDE DEF D
<1>3. 0 \in T
  BY <1>2
<1>4. ASSUME NEW d \in Nat, d \in T
      PROVE  d + 1 \in T
  <2>1. ASSUME NEW a \in D, NEW b \in D, a < b, b - a <= d + 1
        PROVE  FlatSteps(pts, h[<<a, b>>], a, b)
    <3>0. a \in Nat /\ b \in Nat /\ Numbers(pts, a, b) /\ Inner(a, b) \subseteq D
      BY <1>2, <1>7
    <3>1. CASE Flat(pts, a, b)
      <4>1. h[<<a, b>>] = {a, b}
        BY <1>8, <3>1, KeptFlat
      <4>2. FlatSteps(pts, {a, b}, a, b)
        <5>1. a \in a..b /\ b \in a..b
          BY <2>1, <3>0
        <5>2. \A x \in {a, b}, y \in {a, b} : x < y => x = a /\ y = b
          BY <2>1, <3>0
        <5> QED
          BY <3>1, <5>1, <5>2 DEF FlatSteps, Follows
      <4> QED
        BY <4>1, <4>2
    <3>2. CASE ~Flat(pts, a, b)
      <4>1. Inner(a, b) # {}
        BY <3>2 DEF Flat
      <4>2. PICK f : f = FarOf(pts, a, b) /\ f \in Inner(a, b)
        BY <3>0, <4>1, FarIs
      <4>3. f \in Nat /\ a < f /\ f < b /\ f \in D
        BY <3>0, <4>2, InnerIs
      <4>4. h[<<a, b>>] = h[<<a, f>>] \cup h[<<f, b>>]
        BY <1>8, <3>2, <4>2, KeptSplit
      <4>9. a \in Nat /\ b \in Nat /\ f \in Nat /\ b - a <= d + 1 /\ a < f /\ f < b
        BY <2>1, <3>0, <4>3
      <4>5. f - a <= d /\ b - f <= d
        BY ONLY d \in Nat, <4>9
      <4>6. FlatSteps(pts, h[<<a, f>>], a, f) /\ FlatSteps(pts, h[<<f, b>>], f, b)
        BY <1>4, <4>3, <4>5
      <4>7. FlatSteps(pts, h[<<a, f>>] \cup h[<<f, b>>], a, b)
        BY <3>0, <4>3, <4>6, StepsJoin
      <4> QED
        BY <4>4, <4>7
    <3> QED
      BY <3>1, <3>2
  <2> QED
    BY <2>1
<1>5. Nat \subseteq T
  <2> HIDE DEF T
  <2> QED
    BY <1>3, <1>4, Induct
<1>6. last - first \in Nat /\ last - first <= last - first
  BY <1>2, <1>9
<1>10. FlatSteps(pts, h[<<first, last>>], first, last)
  BY <1>5, <1>6, <1>9
<1> QED
  BY <1>1, <1>10

\* In a flat step no point is above the tolerance.
LEMMA FlatMeans ==
  ASSUME NEW pts, NEW a \in Nat, NEW b \in Nat, Numbers(pts, a, b), PerpDen(pts[a], pts[b]) \in Int,
         Flat(pts, a, b), NEW k \in Inner(a, b)
  PROVE  4 * PerpNum(pts[k], pts[a], pts[b]) <= 9 * PerpDen(pts[a], pts[b])
<1>1. PICK f : f = FarOf(pts, a, b) /\ f \in Inner(a, b) /\ NumAt(pts, a, b, k) <= NumAt(pts, a, b, f)
  BY FarIs
<1>2. PICK x \in Int, y \in Int, z \in Int :
        x = NumAt(pts, a, b, k) /\ y = NumAt(pts, a, b, f) /\ z = PerpDen(pts[a], pts[b])
  BY <1>1 DEF Numbers
<1>3. ~AboveEps(y, z)
  BY <1>1, <1>2 DEF Flat
<1>4. 4 * y <= 9 * z /\ x <= y
  BY <1>1, <1>2, <1>3 DEF AboveEps
<1> QED
  BY <1>2, <1>4 DEF NumAt

-----------------------------------------------------------------------------
(* The simplified polygon.                                                 *)

\* A corner in world coordinates, seen from the centre of a cell.
LEMMA WorldFrom ==
  ASSUME NEW k \in Int \X Int, NEW p \in Int \X Int
  PROVE  /\ PixelToWorldCenter(p) \in Int \X Int /\ CornerToWorld(k) \in Int \X Int
         /\ CornerToWorld(k)[1] = PixelToWorldCenter(p)[1] + Ahead(k, p)
         /\ CornerToWorld(k)[2] = PixelToWorldCenter(p)[2] - Under(k, p)
         /\ Ahead(k, p) \in Int /\ Under(k, p) \in Int /\ Under(k, p) # 0
<1>1. OriginX \in Int /\ OriginY \in Int /\ Height \in Int
  BY OriginAssumption, GridAssumption
<1>2. PICK x \in Int, y \in Int : k = <<x, y>>
  OBVIOUS
<1>3. PICK c \in Int, r \in Int : p = <<c, r>>
  OBVIOUS
<1> QED
  BY <1>1, <1>2, <1>3 DEF PixelToWorldCenter, CornerToWorld, Ahead, Under

CrossesAt(a1, a2, b1, b2) ==
  /\ (b2 < 0) # (a2 < 0)
  /\ IF a2 < b2 THEN a1 * b2 - b1 * a2 > 0 ELSE a1 * b2 - b1 * a2 < 0

\* What Crosses computes, from the differences to the centre.
LEMMA CrossesFrom ==
  ASSUME NEW q1 \in Int, NEW q2 \in Int, NEW a1 \in Int, NEW a2 \in Int, NEW b1 \in Int, NEW b2 \in Int
  PROVE  Crosses(<<q1, q2>>, <<q1 + b1, q2 - b2>>, <<q1 + a1, q2 - a2>>) <=>
           CrossesAt(a1, a2, b1, b2)
<1> DEFINE left == (q1 - (q1 + b1)) * ((q2 - a2) - (q2 - b2))
           right == ((q1 + a1) - (q1 + b1)) * (q2 - (q2 - b2))
<1>1. /\ q1 - (q1 + b1) = -b1 /\ (q2 - a2) - (q2 - b2) = b2 - a2
      /\ (q1 + a1) - (q1 + b1) = a1 - b1 /\ q2 - (q2 - b2) = b2
  OBVIOUS
<1>2. left = (-b1) * (b2 - a2) /\ right = (a1 - b1) * b2
  BY <1>1
<1>3. right - left = a1 * b2 - b1 * a2
  <2>1. (-b1) * (b2 - a2) = b1 * a2 - b1 * b2 /\ (a1 - b1) * b2 = a1 * b2 - b1 * b2
    OBVIOUS
  <2> QED
    BY <1>2, <2>1
<1>4. left \in Int /\ right \in Int
  OBVIOUS
<1>5. (q2 - a2 > q2 - b2) <=> a2 < b2
  OBVIOUS
<1>6. (q2 - b2 > q2 <=> b2 < 0) /\ (q2 - a2 > q2 <=> a2 < 0)
  OBVIOUS
<1>7. Crosses(<<q1, q2>>, <<q1 + b1, q2 - b2>>, <<q1 + a1, q2 - a2>>) <=>
           /\ (q2 - b2 > q2) # (q2 - a2 > q2)
           /\ IF q2 - a2 > q2 - b2 THEN left < right ELSE left > right
  BY DEF Crosses
<1> HIDE DEF left, right
<1>8. (left < right <=> right - left > 0) /\ (left > right <=> right - left < 0)
  BY <1>4
<1> QED
  BY <1>3, <1>5, <1>6, <1>7, <1>8 DEF CrossesAt

\* The ray from the centre of a cell crosses a side of a polygon as the chord between its corners.
LEMMA ChordCrosses ==
  ASSUME NEW a \in Int \X Int, NEW b \in Int \X Int, NEW p \in Int \X Int
  PROVE  Crosses(PixelToWorldCenter(p), CornerToWorld(b), CornerToWorld(a)) <=> ChordCrossing(a, b, p) # 0
<1>1. PICK q1 \in Int, q2 \in Int : PixelToWorldCenter(p) = <<q1, q2>>
  BY WorldFrom
<1>2. PICK a1 \in Int, a2 \in Int : a1 = Ahead(a, p) /\ a2 = Under(a, p) /\ a2 # 0 /\ CornerToWorld(a) = <<q1 + a1, q2 - a2>>
  <2>1. /\ CornerToWorld(a) \in Int \X Int
        /\ CornerToWorld(a)[1] = q1 + Ahead(a, p) /\ CornerToWorld(a)[2] = q2 - Under(a, p)
        /\ Ahead(a, p) \in Int /\ Under(a, p) \in Int /\ Under(a, p) # 0
    BY <1>1, WorldFrom
  <2> QED
    BY <2>1
<1>3. PICK b1 \in Int, b2 \in Int : b1 = Ahead(b, p) /\ b2 = Under(b, p) /\ b2 # 0 /\ CornerToWorld(b) = <<q1 + b1, q2 - b2>>
  <2>1. /\ CornerToWorld(b) \in Int \X Int
        /\ CornerToWorld(b)[1] = q1 + Ahead(b, p) /\ CornerToWorld(b)[2] = q2 - Under(b, p)
        /\ Ahead(b, p) \in Int /\ Under(b, p) \in Int /\ Under(b, p) # 0
    BY <1>1, WorldFrom
  <2> QED
    BY <2>1
<1>4. Turn(a, b, p) = a1 * b2 - b1 * a2
  BY <1>2, <1>3 DEF Turn
<1>5. PICK t \in Int : t = a1 * b2 - b1 * a2
  OBVIOUS
<1>6. Crosses(PixelToWorldCenter(p), CornerToWorld(b), CornerToWorld(a)) <=>
        /\ (b2 < 0) # (a2 < 0)
        /\ IF a2 < b2 THEN t > 0 ELSE t < 0
  <2>1. Crosses(<<q1, q2>>, <<q1 + b1, q2 - b2>>, <<q1 + a1, q2 - a2>>) <=> CrossesAt(a1, a2, b1, b2)
    BY CrossesFrom
  <2> QED
    BY <1>1, <1>2, <1>3, <1>5, <2>1 DEF CrossesAt
<1>7. ChordCrossing(a, b, p) = IF a2 < 0 /\ b2 > 0 /\ t > 0 THEN 1 ELSE IF b2 < 0 /\ a2 > 0 /\ t < 0 THEN -1 ELSE 0
  BY <1>2, <1>3, <1>4, <1>5 DEF ChordCrossing
<1> QED
  BY <1>2, <1>3, <1>6, <1>7

\* The distance douglasPeucker compares is the distance of the corners.
LEMMA WorldPerp ==
  ASSUME NEW a \in Int \X Int, NEW b \in Int \X Int, NEW k \in Int \X Int, a # b,
         4 * PerpNum(CornerToWorld(k), CornerToWorld(a), CornerToWorld(b)) <= 9 * PerpDen(CornerToWorld(a), CornerToWorld(b))
  PROVE  Close(a, b, k)
<1>0. OriginX \in Int /\ OriginY \in Int /\ Height \in Int
  BY OriginAssumption, GridAssumption
<1>1. PICK a1 \in Int, a2 \in Int : a = <<a1, a2>>
  OBVIOUS
<1>2. PICK b1 \in Int, b2 \in Int : b = <<b1, b2>>
  OBVIOUS
<1>3. PICK k1 \in Int, k2 \in Int : k = <<k1, k2>>
  OBVIOUS
<1>4. PICK u \in Int, v \in Int, x \in Int, y \in Int :
        u = b1 - a1 /\ v = b2 - a2 /\ x = k1 - a1 /\ y = k2 - a2
  OBVIOUS
<1>5. PICK e1 \in Int, e2 \in Int : e1 = OriginX + 2 * a1 /\ e2 = OriginY + 2 * (Height - a2)
  BY <1>0
<1>6. /\ CornerToWorld(a) = <<e1, e2>>
      /\ CornerToWorld(b) = <<e1 + 2 * u, e2 - 2 * v>>
      /\ CornerToWorld(k) = <<e1 + 2 * x, e2 - 2 * y>>
  BY <1>0, <1>1, <1>2, <1>3, <1>4, <1>5 DEF CornerToWorld
<1>7. CornerToWorld(a) # CornerToWorld(b)
  BY <1>0, <1>1, <1>2, <1>4, <1>6
<1>8. PerpDen(CornerToWorld(a), CornerToWorld(b)) = 4 * (u * u + v * v)
  <2>1. /\ PerpDen(CornerToWorld(a), CornerToWorld(b)) = SquareDist(CornerToWorld(a), CornerToWorld(b))
    BY <1>7 DEF PerpDen
  <2>2. SquareDist(CornerToWorld(a), CornerToWorld(b)) =
          (e1 - (e1 + 2 * u)) * (e1 - (e1 + 2 * u)) + (e2 - (e2 - 2 * v)) * (e2 - (e2 - 2 * v))
    BY <1>6 DEF SquareDist
  <2>3. e1 - (e1 + 2 * u) = -(2 * u) /\ e2 - (e2 - 2 * v) = 2 * v
    OBVIOUS
  <2>4. (-(2 * u)) * (-(2 * u)) + (2 * v) * (2 * v) = 4 * (u * u + v * v)
    OBVIOUS
  <2> QED
    BY <2>1, <2>2, <2>3, <2>4
<1> DEFINE m == 4 * (u * y - v * x)
<1>9. PerpNum(CornerToWorld(k), CornerToWorld(a), CornerToWorld(b)) = m * m
  <2> DEFINE n == (e2 - 2 * v - e2) * (e1 + 2 * x) - (e1 + 2 * u - e1) * (e2 - 2 * y) + (e1 + 2 * u) * e2 - (e2 - 2 * v) * e1
  <2>1. PerpNum(CornerToWorld(k), CornerToWorld(a), CornerToWorld(b)) = n * n
    BY <1>6, <1>7 DEF PerpNum
  <2>2. e2 - 2 * v - e2 = -(2 * v) /\ e1 + 2 * u - e1 = 2 * u
    OBVIOUS
  <2>3. n = (-(2 * v)) * (e1 + 2 * x) - (2 * u) * (e2 - 2 * y) + (e1 + 2 * u) * e2 - (e2 - 2 * v) * e1
    BY <2>2
  <2>4. n = m
    <3>1. (-(2 * v)) * (e1 + 2 * x) = -(2 * (v * e1)) - 4 * (v * x)
      OBVIOUS
    <3>2. (2 * u) * (e2 - 2 * y) = 2 * (u * e2) - 4 * (u * y)
      OBVIOUS
    <3>3. (e1 + 2 * u) * e2 = e1 * e2 + 2 * (u * e2)
      OBVIOUS
    <3>4. (e2 - 2 * v) * e1 = e1 * e2 - 2 * (v * e1)
      OBVIOUS
    <3> HIDE DEF n
    <3> QED
      BY <2>3, <3>1, <3>2, <3>3, <3>4
  <2> HIDE DEF n, m
  <2> QED
    BY <2>1, <2>4
<1>10. Off(a, b, k) = m
  BY <1>1, <1>2, <1>3, <1>4 DEF Off
<1>11. (b[1] - a[1]) * (b[1] - a[1]) + (b[2] - a[2]) * (b[2] - a[2]) = u * u + v * v
  BY <1>1, <1>2, <1>4
<1>12. PICK M \in Int, N \in Int : M = m * m /\ N = u * u + v * v
  OBVIOUS
<1> HIDE DEF m
<1>13. 4 * M <= 9 * (4 * N)
  BY <1>8, <1>9, <1>12
<1>14. M <= 9 * N
  BY <1>13
<1> QED
  BY <1>10, <1>11, <1>12, <1>14 DEF Close

\* A point within the tolerance of two that coincide coincides with them.
LEMMA WorldSame ==
  ASSUME NEW a \in Int \X Int, NEW k \in Int \X Int,
         4 * PerpNum(CornerToWorld(k), CornerToWorld(a), CornerToWorld(a)) <= 9 * PerpDen(CornerToWorld(a), CornerToWorld(a))
  PROVE  k = a
<1>0. OriginX \in Int /\ OriginY \in Int /\ Height \in Int
  BY OriginAssumption, GridAssumption
<1>1. PICK a1 \in Int, a2 \in Int : a = <<a1, a2>>
  OBVIOUS
<1>3. PICK k1 \in Int, k2 \in Int : k = <<k1, k2>>
  OBVIOUS
<1>4. PICK x \in Int, y \in Int : x = k1 - a1 /\ y = k2 - a2
  OBVIOUS
<1>5. PICK e1 \in Int, e2 \in Int : e1 = OriginX + 2 * a1 /\ e2 = OriginY + 2 * (Height - a2)
  BY <1>0
<1>6. /\ CornerToWorld(a) = <<e1, e2>>
      /\ CornerToWorld(k) = <<e1 + 2 * x, e2 - 2 * y>>
  BY <1>0, <1>1, <1>3, <1>4, <1>5 DEF CornerToWorld
<1>7. PerpDen(CornerToWorld(a), CornerToWorld(a)) = 1
  BY DEF PerpDen
<1>8. PerpNum(CornerToWorld(k), CornerToWorld(a), CornerToWorld(a)) = 4 * (x * x + y * y)
  <2>1. PerpNum(CornerToWorld(k), CornerToWorld(a), CornerToWorld(a)) =
          (e1 + 2 * x - e1) * (e1 + 2 * x - e1) + (e2 - 2 * y - e2) * (e2 - 2 * y - e2)
    BY <1>6 DEF PerpNum, SquareDist
  <2>2. e1 + 2 * x - e1 = 2 * x /\ e2 - 2 * y - e2 = -(2 * y)
    OBVIOUS
  <2>3. (2 * x) * (2 * x) + (-(2 * y)) * (-(2 * y)) = 4 * (x * x + y * y)
    OBVIOUS
  <2> QED
    BY <2>1, <2>2, <2>3
<1>9. PICK X \in Nat, Y \in Nat : X = x * x /\ Y = y * y /\ (X = 0 => x = 0) /\ (Y = 0 => y = 0)
  <2>1. x * x \in Nat /\ y * y \in Nat /\ (x * x = 0 => x = 0) /\ (y * y = 0 => y = 0)
    OBVIOUS
  <2> QED
    BY <2>1
<1>10. 16 * (X + Y) <= 9
  BY <1>7, <1>8, <1>9
<1>11. x = 0 /\ y = 0
  BY <1>9, <1>10
<1> QED
  BY <1>1, <1>3, <1>4, <1>11

\* The points douglasPeucker is given: the corners of a closed trail, the first one again at the end.
Rim(L, n) == [k \in 1..(n + 1) |-> CornerToWorld(Corner(L, n, k))]

\* The ends of a chord are on it.
LEMMA CloseEnds ==
  ASSUME NEW a \in Int \X Int, NEW b \in Int \X Int
  PROVE  Close(a, b, a) /\ Close(a, b, b)
<1>1. PICK a1 \in Int, a2 \in Int : a = <<a1, a2>>
  OBVIOUS
<1>2. PICK b1 \in Int, b2 \in Int : b = <<b1, b2>>
  OBVIOUS
<1>3. PICK u \in Int, v \in Int : u = b1 - a1 /\ v = b2 - a2
  OBVIOUS
<1>4. Off(a, b, a) = 0
  BY <1>1, <1>2 DEF Off
<1>5. Off(a, b, b) = 0
  <2>1. Off(a, b, b) = 4 * (u * v - v * u)
    BY <1>1, <1>2, <1>3 DEF Off
  <2> QED
    BY <2>1
<1>6. (b[1] - a[1]) * (b[1] - a[1]) + (b[2] - a[2]) * (b[2] - a[2]) = u * u + v * v
  BY <1>1, <1>2, <1>3
<1>7. PICK N \in Nat : N = u * u + v * v
  <2>1. u * u \in Nat /\ v * v \in Nat
    OBVIOUS
  <2> QED
    BY <2>1
<1> QED
  BY <1>4, <1>5, <1>6, <1>7 DEF Close

\* A flat step of the corners is a piece of the trail that stays close to the chord between its
\* ends, which differ.
LEMMA PieceHugs ==
  ASSUME NEW L, NEW n, Trail(L, n), NEW i \in 1..n, NEW j \in (i + 1)..(n + 1), Flat(Rim(L, n), i, j)
  PROVE  Corner(L, n, i) # Corner(L, n, j) /\ Hugs(L, n, i, j)
<1>0. n \in Nat \ {0} /\ i \in Nat /\ j \in Nat /\ i < j /\ j <= n + 1
  BY DEF Trail
<1>1. \A k \in 1..(n + 1) : Corner(L, n, k) \in Int \X Int
  <2>1. ASSUME NEW k \in 1..(n + 1)
        PROVE  Corner(L, n, k) \in Int \X Int
    <3>1. CASE k \in 1..n
      BY <3>1, CornerAfter
    <3>2. CASE k = n + 1
      <4>1. PICK m \in 1..n : m = n /\ m + 1 = k
        BY <1>0, <3>2
      <4> QED
        BY <4>1, CornerAfter
    <3> QED
      BY <1>0, <3>1, <3>2
  <2> QED
    BY <2>1
<1> DEFINE pts == Rim(L, n)
<1>2. \A k \in 1..(n + 1) : pts[k] = CornerToWorld(Corner(L, n, k)) /\ pts[k] \in Int \X Int
  <2>1. \A c \in Int \X Int : CornerToWorld(c) \in Int \X Int
    BY OriginAssumption, GridAssumption DEF CornerToWorld
  <2> QED
    BY <1>1, <2>1 DEF Rim
<1> HIDE DEF pts
<1>3. \A k \in i..j : k \in 1..(n + 1)
  BY <1>0
<1>4. Inner(i, j) \subseteq 1..(n + 1) /\ Inner(i, j) \subseteq i..j
  BY <1>0 DEF Inner
<1>5. i \in 1..(n + 1) /\ j \in 1..(n + 1)
  BY <1>0
<1>6. Numbers(pts, i, j) /\ PerpDen(pts[i], pts[j]) \in Int
  BY <1>2, <1>4, <1>5, PerpType DEF Numbers, NumAt
<1>7. PICK a \in Int \X Int, b \in Int \X Int :
        /\ a = Corner(L, n, i) /\ b = Corner(L, n, j)
        /\ pts[i] = CornerToWorld(a) /\ pts[j] = CornerToWorld(b)
  BY <1>1, <1>2, <1>5
<1>8. ASSUME NEW k \in Inner(i, j)
      PROVE  /\ Corner(L, n, k) \in Int \X Int
             /\ 4 * PerpNum(CornerToWorld(Corner(L, n, k)), CornerToWorld(a), CornerToWorld(b))
                  <= 9 * PerpDen(CornerToWorld(a), CornerToWorld(b))
  <2>1. 4 * PerpNum(pts[k], pts[i], pts[j]) <= 9 * PerpDen(pts[i], pts[j])
    BY <1>0, <1>6, FlatMeans DEF pts
  <2> QED
    BY <1>1, <1>2, <1>4, <1>7, <2>1
<1>9. a # b
  <2> SUFFICES ASSUME a = b PROVE FALSE
    OBVIOUS
  <2>1. Corner(L, n, i) # Corner(L, n, i + 1)
    <3>1. L[i] \in AnySide /\ Corner(L, n, i) = From(L[i]) /\ Corner(L, n, i + 1) = To(L[i])
      <4>1. L[i] \in AnySide
        BY DEF Trail
      <4> QED
        BY <4>1, CornerAfter
    <3>2. PICK c \in Int, r \in Int : SideOf(L[i], c, r)
      BY <3>1, SideParts
    <3>3. From(L[i]) # To(L[i])
      BY <3>2 DEF SideOf
    <3> QED
      BY <3>1, <3>3
  <2>2. CASE j = i + 1
    BY <1>7, <2>1, <2>2
  <2>3. CASE j # i + 1
    <3>1. i + 1 \in Inner(i, j)
      BY <1>0, <2>3 DEF Inner
    <3>2. Corner(L, n, i + 1) = a
      BY <1>8, <3>1, WorldSame
    <3> QED
      BY <1>7, <2>1, <3>2
  <2> QED
    BY <2>2, <2>3
<1>10. ASSUME NEW k \in i..j
       PROVE  Close(a, b, Corner(L, n, k))
  <2>1. k = i \/ k = j \/ k \in Inner(i, j)
    BY <1>0 DEF Inner
  <2>2. CASE k = i \/ k = j
    BY <1>7, <2>2, CloseEnds
  <2>3. CASE k \in Inner(i, j)
    BY <1>8, <1>9, <2>3, WorldPerp
  <2> QED
    BY <2>1, <2>2, <2>3
<1> QED
  BY <1>7, <1>9, <1>10 DEF Hugs

Below(T, i) == {j \in T : j <= i}

\* The members of a finite set of numbers in the order of their counts.
LEMMA NthInOrder ==
  ASSUME NEW T, T \subseteq Nat, IsFiniteSet(T), NEW c \in Nat \ {0}, c = Cardinality(T), NEW e,
         \A k \in 1..c : e[k] \in T /\ Cardinality(Below(T, e[k])) = k
  PROVE  /\ \A z \in T : e[1] <= z /\ z <= e[c]
         /\ \A k \in 1..(c - 1) : Follows(T, e[k], e[k + 1])
<1>1. ASSUME NEW i \in T
      PROVE  /\ IsFiniteSet(Below(T, i)) /\ Cardinality(Below(T, i)) \in Nat
             /\ Cardinality(Below(T, i)) >= 1 /\ Cardinality(Below(T, i)) <= c
  <2>1. Below(T, i) \subseteq T /\ i \in Below(T, i)
    BY DEF Below
  <2>2. IsFiniteSet(Below(T, i)) /\ Cardinality(Below(T, i)) <= c
    BY <2>1, FS_Subset
  <2>3. Cardinality(Below(T, i)) \in Nat
    BY <2>2, FS_CardinalityType
  <2>4. Cardinality(Below(T, i)) # 0
    BY <2>1, <2>2, FS_EmptySet
  <2> QED
    BY <2>2, <2>3, <2>4
<1>2. ASSUME NEW i \in T, NEW j \in T, i < j
      PROVE  Cardinality(Below(T, i)) < Cardinality(Below(T, j))
  <2>0. i \in Nat /\ j \in Nat /\ \A z \in T : z \in Nat
    OBVIOUS
  <2>1. Below(T, i) \subseteq Below(T, j) /\ j \in Below(T, j) /\ j \notin Below(T, i)
    <3>1. ASSUME NEW z \in Below(T, i)
          PROVE  z \in Below(T, j)
      <4>1. z \in T /\ z <= i
        BY DEF Below
      <4>2. PICK x \in Nat, y \in Nat, v \in Nat : x = z /\ y = i /\ v = j
        BY <2>0, <4>1
      <4>3. z <= j
        BY <1>2, <4>1, <4>2
      <4> QED
        BY <4>1, <4>3 DEF Below
    <3>2. j <= j /\ ~(j <= i)
      BY <1>2, <2>0
    <3> QED
      BY <3>1, <3>2 DEF Below
  <2>2. Below(T, i) # Below(T, j)
    BY <2>1
  <2> QED
    BY <1>1, <2>1, <2>2, FS_Subset
<1>3. \A k \in 1..c : e[k] \in T /\ e[k] \in Nat
  OBVIOUS
<1>4. ASSUME NEW z \in T
      PROVE  e[1] <= z /\ z <= e[c]
  <2>1. 1 \in 1..c /\ c \in 1..c
    OBVIOUS
  <2>2. e[1] \in T /\ e[c] \in T /\ Cardinality(Below(T, e[1])) = 1 /\ Cardinality(Below(T, e[c])) = c
    BY <2>1
  <2>6. PICK x \in Nat : x = Cardinality(Below(T, z)) /\ x >= 1 /\ x <= c
    BY <1>1
  <2>3. ~(z < e[1])
    <3> SUFFICES ASSUME z < e[1] PROVE FALSE
      OBVIOUS
    <3>1. x < 1
      BY <1>2, <2>2, <2>6
    <3> QED
      BY <2>6, <3>1
  <2>4. ~(e[c] < z)
    <3> SUFFICES ASSUME e[c] < z PROVE FALSE
      OBVIOUS
    <3>1. c < x
      BY <1>2, <2>2, <2>6
    <3> QED
      BY <2>6, <3>1
  <2>5. z \in Nat /\ e[1] \in Nat /\ e[c] \in Nat
    BY <2>2
  <2> QED
    BY <2>3, <2>4, <2>5
<1>5. ASSUME NEW k \in 1..(c - 1)
      PROVE  Follows(T, e[k], e[k + 1])
  <2>1. k \in 1..c /\ k + 1 \in 1..c
    OBVIOUS
  <2>2. /\ e[k] \in T /\ e[k + 1] \in T /\ e[k] \in Nat /\ e[k + 1] \in Nat
        /\ Cardinality(Below(T, e[k])) = k /\ Cardinality(Below(T, e[k + 1])) = k + 1
    BY <1>3, <2>1
  <2>3. e[k] < e[k + 1]
    <3>1. e[k] # e[k + 1]
      BY <2>2
    <3>2. ~(e[k + 1] < e[k])
      BY <1>2, <2>2
    <3> QED
      BY <2>2, <3>1, <3>2
  <2>4. ASSUME NEW z \in T, e[k] < z, z < e[k + 1]
        PROVE  FALSE
    <3>1. Cardinality(Below(T, z)) \in Nat /\ k < Cardinality(Below(T, z)) /\ Cardinality(Below(T, z)) < k + 1
      BY <1>1, <1>2, <2>2, <2>4
    <3> QED
      BY <3>1
  <2> QED
    BY <2>3, <2>4 DEF Follows
<1> QED
  BY <1>4, <1>5

\* Corners of a closed trail at positions that go around it once in flat steps.
Rounds(L, n, e, c) ==
  /\ e[1] = 1 /\ e[c + 1] = n + 1
  /\ \A k \in 1..c : e[k] \in 1..n /\ e[k + 1] \in (e[k] + 1)..(n + 1) /\ Flat(Rim(L, n), e[k], e[k + 1])

\* A polygon of such corners has a cell inside it, if none of the sides is one of its own, when
\* the trail winds around the cell.
LEMMA SimplifiedInside ==
  ASSUME NEW L, NEW n, Trail(L, n), NEW p \in Int \X Int, Avoids(L, 1, n + 1, p), Winding(L, n, p) \in {0, 1},
         NEW c \in Nat, c >= 3, NEW e, Rounds(L, n, e, c),
         NEW poly, Len(poly) = c, \A k \in 1..c : poly[k] = CornerToWorld(Corner(L, n, e[k]))
  PROVE  pointInPoly(PixelToWorldCenter(p), poly) <=> Winding(L, n, p) = 1
<1>0. n \in Nat \ {0} /\ n \in Nat
  BY DEF Trail
<1> DEFINE f == [k \in 1..n |-> Crossing(L[k], p)]
           A(k) == Corner(L, n, e[k])
           g == [k \in 1..c |-> ChordCrossing(A(k), A(k + 1), p)]
           q == PixelToWorldCenter(p)
<1>1. ASSUME NEW k \in 1..c
      PROVE  /\ A(k) \in Int \X Int /\ A(k + 1) \in Int \X Int
             /\ Total(f, e[k + 1] - 1) - Total(f, e[k] - 1) = g[k]
             /\ g[k] \in {0, 1, -1}
  <2>0. PICK i \in 1..n : i = e[k]
    BY DEF Rounds
  <2>1. PICK j \in (i + 1)..(n + 1) : i = e[k] /\ j = e[k + 1] /\ Flat(Rim(L, n), i, j)
    BY <2>0 DEF Rounds
  <2>2. Corner(L, n, i) # Corner(L, n, j) /\ Hugs(L, n, i, j)
    BY <2>1, PieceHugs
  <2>3. Avoids(L, i, j, p)
    BY <1>0 DEF Avoids
  <2>4. Corner(L, n, i) \in Int \X Int
    BY CornerAfter
  <2>5. Corner(L, n, j) \in Int \X Int
    <3>1. PICK l \in 1..n : j = l + 1
      <4>1. j - 1 \in 1..n /\ (j - 1) + 1 = j
        BY <1>0
      <4> QED
        BY <4>1
    <3> QED
      BY <3>1, CornerAfter
  <2>6. Total(f, j - 1) - Total(f, i - 1) = ChordCrossing(Corner(L, n, i), Corner(L, n, j), p)
    BY <2>2, <2>3, PieceCrossing
  <2>7. g[k] = ChordCrossing(Corner(L, n, i), Corner(L, n, j), p)
    BY <2>1
  <2>8. g[k] \in {0, 1, -1}
    BY <2>7 DEF ChordCrossing
  <2> HIDE DEF f, g
  <2> QED
    BY <2>1, <2>4, <2>5, <2>6, <2>7, <2>8
<1>2. \A k \in 1..c : g[k] \in Int /\ g[k] = ChordCrossing(A(k), A(k + 1), p)
  <2>1. \A k \in 1..c : g[k] = ChordCrossing(A(k), A(k + 1), p)
    OBVIOUS
  <2>2. \A k \in 1..c : g[k] \in Int
    <3>1. \A k \in 1..c : g[k] = 0 \/ g[k] = 1 \/ g[k] = -1
      BY <1>1
    <3> HIDE DEF g
    <3> QED
      BY <3>1
  <2> HIDE DEF g, A
  <2> QED
    BY <2>1, <2>2
<1>3. /\ \A k \in 0..n : Total(f, k) \in Int
      /\ Total(f, 0) = 0
  <2>1. \A k \in 1..n : f[k] \in Int
    BY DEF Crossing
  <2> HIDE DEF f
  <2> QED
    BY <1>0, <2>1, TotalSteps
<1>4. /\ \A k \in 0..c : Total(g, k) \in Int
      /\ Total(g, 0) = 0
      /\ \A k \in 0..(c - 1) : Total(g, k + 1) = Total(g, k) + g[k + 1]
  <2> HIDE DEF g
  <2> QED
    BY <1>2, TotalSteps
<1> DEFINE T == {k \in 0..c : Total(g, k) = Total(f, e[k + 1] - 1)}
<1>5. 0 \in T
  <2>1. e[0 + 1] - 1 = 0
    BY DEF Rounds
  <2> HIDE DEF f, g
  <2> QED
    BY <1>3, <1>4, <2>1
<1>6. ASSUME NEW k \in 0..(c - 1), k \in T
      PROVE  k + 1 \in T
  <2>1. k + 1 \in 1..c /\ k + 1 \in 0..c /\ k \in 0..c
    OBVIOUS
  <2>2. Total(f, e[(k + 1) + 1] - 1) - Total(f, e[k + 1] - 1) = g[k + 1]
    BY <1>1, <2>1
  <2>3. e[k + 1] - 1 \in 0..n /\ e[(k + 1) + 1] - 1 \in 0..n
    <3>0. PICK i \in 1..n : i = e[k + 1]
      BY <2>1 DEF Rounds
    <3>1. PICK j \in (i + 1)..(n + 1) : i = e[k + 1] /\ j = e[(k + 1) + 1]
      BY <2>1, <3>0 DEF Rounds
    <3>2. i \in Nat /\ j \in Nat /\ i - 1 \in 0..n /\ j - 1 \in 0..n
      BY <1>0
    <3> QED
      BY <3>1, <3>2
  <2>4. Total(g, k) = Total(f, e[k + 1] - 1)
    BY <1>6
  <2> HIDE DEF f, g
  <2>5. PICK x \in Int, y \in Int, z \in Int :
          x = Total(f, e[k + 1] - 1) /\ y = Total(f, e[(k + 1) + 1] - 1) /\ z = g[k + 1]
    <3>1. Total(f, e[k + 1] - 1) \in Int /\ Total(f, e[(k + 1) + 1] - 1) \in Int
      BY <1>3, <2>3
    <3>2. g[k + 1] \in Int
      BY <1>2, <2>1
    <3> QED
      BY <3>1, <3>2
  <2>6. Total(g, k + 1) = y
    <3>1. Total(g, k + 1) = Total(g, k) + g[k + 1]
      BY <1>4
    <3>2. y - x = z
      BY <2>2, <2>5
    <3>3. Total(g, k + 1) = x + z
      BY <2>4, <2>5, <3>1
    <3> QED
      BY <3>2, <3>3
  <2> QED
    BY <2>1, <2>5, <2>6
<1>7. Total(g, c) = Winding(L, n, p)
  <2>1. c \in T
    <3> HIDE DEF T
    <3>1. \A k \in 0..c : k \in T
      BY <1>5, <1>6, UpTo
    <3> QED
      BY <3>1
  <2>2. e[c + 1] - 1 = n
    BY <1>0 DEF Rounds
  <2>3. Winding(L, n, p) = Total(f, n)
    BY DEF Winding
  <2> HIDE DEF f, g
  <2> QED
    BY <2>1, <2>2, <2>3
<1>8. ASSUME NEW k \in 1..c
      PROVE  Crosses(q, poly[Next1(k, c)], poly[k]) <=> g[k] # 0
  <2>1. poly[Next1(k, c)] = CornerToWorld(A(k + 1))
    <3>1. CASE k = c
      <4>1. Next1(k, c) = 1 /\ 1 \in 1..c
        BY <3>1 DEF Next1
      <4>2. Corner(L, n, e[1]) = Corner(L, n, e[c + 1])
        BY <1>0 DEF Rounds, Corner
      <4> QED
        BY <3>1, <4>1, <4>2
    <3>2. CASE k # c
      <4>1. Next1(k, c) = k + 1 /\ k + 1 \in 1..c
        BY <3>2 DEF Next1
      <4> QED
        BY <4>1
    <3> QED
      BY <3>1, <3>2
  <2>2. poly[k] = CornerToWorld(A(k))
    OBVIOUS
  <2>3. A(k) \in Int \X Int /\ A(k + 1) \in Int \X Int /\ g[k] = ChordCrossing(A(k), A(k + 1), p)
    BY <1>1, <1>2
  <2> HIDE DEF g, A
  <2> QED
    BY <2>1, <2>2, <2>3, ChordCrosses
<1> HIDE DEF g, q
<1>9. pointInPoly(q, poly) <=> Total(g, c) = 1
  <2>1. \A k \in 1..c : g[k] \in {0, 1, -1}
    BY <1>1
  <2> QED
    BY <1>7, <1>8, <2>1, InsideIsTotal
<1> QED
  BY <1>7, <1>9 DEF q

\* Some point but the first is farthest from the first.
LEMMA FarthestIs ==
  ASSUME NEW n \in Nat, n >= 2, NEW g, \A i \in 2..n : g[i] \in Int
  PROVE  Min({i \in 2..n : \A j \in 2..n : g[j] <= g[i]}) \in 2..n
<1> DEFINE f == [k \in 1..(n - 1) |-> g[k + 1]]
           S == {i \in 2..n : \A j \in 2..n : g[j] <= g[i]}
<1>1. ASSUME NEW k \in 1..(n - 1)
      PROVE  k + 1 \in 2..n /\ f[k] = g[k + 1] /\ f[k] \in Int
  BY SMT
<1> HIDE DEF f
<1>2. PICK k \in 1..(n - 1) : \A l \in 1..(n - 1) : f[l] <= f[k]
  <2>1. PICK m \in Nat \ {0} : m = n - 1
    OBVIOUS
  <2>2. \A k \in 1..m : f[k] \in Int
    BY <1>1, <2>1
  <2>3. \E k \in 1..m : \A l \in 1..m : f[l] <= f[k]
    BY <2>2, Largest
  <2> QED
    BY <2>1, <2>3
<1>3. ASSUME NEW j \in 2..n
      PROVE  g[j] <= g[k + 1]
  <2>1. PICK l \in 1..(n - 1) : l + 1 = j
    <3>1. j - 1 \in 1..(n - 1) /\ (j - 1) + 1 = j
      OBVIOUS
    <3> QED
      BY <3>1
  <2> QED
    BY <1>1, <1>2, <2>1
<1>4. k + 1 \in S
  BY <1>1, <1>3
<1>5. S \subseteq Nat /\ S \subseteq 2..n
  OBVIOUS
<1> HIDE DEF S
<1>6. Min(S) \in S
  BY <1>4, <1>5, MinIs
<1> QED
  BY <1>5, <1>6 DEF S

\* Simplification takes corners that go around the trail in flat steps.
LEMMA SimplifiedRounds ==
  ASSUME NEW L, NEW n, Trail(L, n), n >= 3
  PROVE  \E c, e : /\ c \in Nat /\ Rounds(L, n, e, c)
                   /\ Len(simplifyClosed(PolygonOf(L, n))) = c
                   /\ \A k \in 1..c : simplifyClosed(PolygonOf(L, n))[k] = CornerToWorld(Corner(L, n, e[k]))
<1>0. n \in Nat \ {0} /\ n \in Nat
  BY DEF Trail
<1> DEFINE ring == PolygonOf(L, n)
           pts == Rim(L, n)
           g == [i \in 2..n |-> SquareDist(ring[i], ring[1])]
           far == Min({i \in 2..n : \A j \in 2..n : SquareDist(ring[j], ring[1]) <= SquareDist(ring[i], ring[1])})
           K == douglasPeucker(pts, 1, far) \cup douglasPeucker(pts, far, n + 1)
           kept == (1..n) \cap K
           Nth(k) == CHOOSE i \in kept : Cardinality({j \in kept : j <= i}) = k
           c == Cardinality(kept)
<1>1. /\ Len(ring) = n /\ ring \in Seq(Int \X Int)
      /\ \A k \in 1..n : ring[k] = CornerToWorld(Corner(L, n, k)) /\ ring[k] \in Int \X Int
  <2>1. \A a \in Int \X Int : CornerToWorld(a) \in Int \X Int
    BY OriginAssumption, GridAssumption DEF CornerToWorld
  <2>2. \A k \in 1..n : Corner(L, n, k) = From(L[k]) /\ From(L[k]) \in Int \X Int
    BY CornerAfter
  <2>3. ring = [i \in 1..n |-> CornerToWorld(From(L[i]))]
    BY DEF PolygonOf
  <2>4. \A k \in 1..n : ring[k] = CornerToWorld(Corner(L, n, k)) /\ ring[k] \in Int \X Int
    BY <2>1, <2>2, <2>3
  <2> HIDE DEF ring
  <2>5. ring \in [1..n -> Int \X Int]
    BY <2>3, <2>4
  <2> QED
    BY <1>0, <2>4, <2>5
<1>2. Append(ring, ring[1]) = pts
  <2> DEFINE a == Append(ring, ring[1])
  <2>1. a = [k \in 1..(n + 1) |-> IF k = n + 1 THEN ring[1] ELSE ring[k]]
    <3> HIDE DEF ring
    <3>1. Append(ring, ring[1]) \in Seq(Int \X Int) /\ Len(Append(ring, ring[1])) = n + 1
      BY <1>0, <1>1
    <3>2. \A k \in 1..(n + 1) : Append(ring, ring[1])[k] = IF k = n + 1 THEN ring[1] ELSE ring[k]
      BY <1>0, <1>1
    <3> QED
      BY <1>0, <3>1, <3>2
  <2>2. ASSUME NEW k \in 1..(n + 1)
        PROVE  (IF k = n + 1 THEN ring[1] ELSE ring[k]) = CornerToWorld(Corner(L, n, k))
    <3>1. CASE k = n + 1
      <4>1. 1 \in 1..n /\ 1 # n + 1 /\ Corner(L, n, k) = Corner(L, n, 1)
        BY <1>0, <3>1 DEF Corner
      <4> HIDE DEF ring
      <4> QED
        BY <1>1, <3>1, <4>1
    <3>2. CASE k # n + 1
      <4>1. k \in 1..n
        BY <1>0, <3>2
      <4> HIDE DEF ring
      <4> QED
        BY <1>1, <3>2, <4>1
    <3> QED
      BY <3>1, <3>2
  <2> HIDE DEF ring, a
  <2>3. a = [k \in 1..(n + 1) |-> CornerToWorld(Corner(L, n, k))]
    BY <2>1, <2>2
  <2> QED
    BY <2>3 DEF a, Rim
<1>3. simplifyClosed(ring) = [k \in 1..c |-> ring[Nth(k)]]
  <2>1. simplifyClosed(ring) =
          LET m == Len(ring)
              ps == Append(ring, ring[1])
              fa == Min({i \in 2..m : \A j \in 2..m : SquareDist(ring[j], ring[1]) <= SquareDist(ring[i], ring[1])})
              ke == (1..m) \cap (douglasPeucker(ps, 1, fa) \cup douglasPeucker(ps, fa, m + 1))
              Nt(k) == CHOOSE i \in ke : Cardinality({j \in ke : j <= i}) = k
          IN  [k \in 1..Cardinality(ke) |-> ring[Nt(k)]]
    BY DEF simplifyClosed
  <2> HIDE DEF ring, pts
  <2> QED
    BY <1>1, <1>2, <2>1
<1> HIDE DEF ring, pts
<1>4. far \in 2..n
  <2>1. ASSUME NEW i \in 2..n
        PROVE  g[i] = SquareDist(ring[i], ring[1]) /\ g[i] \in Int
    <3>1. i \in 1..n /\ 1 \in 1..n
      BY <1>0
    <3>2. ring[i] \in Int \X Int /\ ring[1] \in Int \X Int
      BY <1>1, <3>1
    <3> QED
      BY <3>2 DEF SquareDist
  <2>2. Min({i \in 2..n : \A j \in 2..n : g[j] <= g[i]}) \in 2..n
    <3> HIDE DEF g
    <3> QED
      BY <1>0, <2>1, FarthestIs
  <2>3. {i \in 2..n : \A j \in 2..n : g[j] <= g[i]} =
          {i \in 2..n : \A j \in 2..n : SquareDist(ring[j], ring[1]) <= SquareDist(ring[i], ring[1])}
    OBVIOUS
  <2> QED
    BY <2>2, <2>3
<1> HIDE DEF far
<1>5. pts \in Seq(Int \X Int) /\ DOMAIN pts = 1..(n + 1)
  <2>2. Append(ring, ring[1]) \in Seq(Int \X Int) /\ Len(Append(ring, ring[1])) = n + 1
    BY <1>0, <1>1
  <2>1. Len(pts) = n + 1 /\ pts \in Seq(Int \X Int)
    BY <1>2, <2>2
  <2> QED
    BY <1>0, <2>1
<1>6. FlatSteps(pts, K, 1, n + 1)
  <2>1. /\ 1 \in DOMAIN pts /\ far \in DOMAIN pts /\ n + 1 \in DOMAIN pts /\ 1 < far /\ far < n + 1
        /\ 1 \in Nat /\ far \in Nat /\ n + 1 \in Nat
    BY <1>0, <1>4, <1>5
  <2>2. FlatSteps(pts, douglasPeucker(pts, 1, far), 1, far)
    BY <1>5, <2>1, Tolerance
  <2>3. FlatSteps(pts, douglasPeucker(pts, far, n + 1), far, n + 1)
    BY <1>5, <2>1, Tolerance
  <2> QED
    BY <2>1, <2>2, <2>3, StepsJoin
<1> HIDE DEF K
<1>7. /\ kept \subseteq Nat /\ kept \subseteq 1..n /\ IsFiniteSet(kept) /\ 1 \in kept
      /\ c \in Nat \ {0} /\ kept \subseteq K
  <2>1. IsFiniteSet(1..n)
    BY <1>0, FS_Interval
  <2>2. kept \subseteq 1..n /\ 1..n \subseteq Nat /\ kept \subseteq K
    BY <1>0
  <2>3. IsFiniteSet(kept)
    BY <2>1, <2>2, FS_Subset
  <2>4. 1 \in kept
    BY <1>0, <1>6 DEF FlatSteps
  <2> HIDE DEF kept
  <2>5. c \in Nat /\ c # 0
    BY <2>3, <2>4, FS_CardinalityType, FS_EmptySet
  <2> QED
    BY <2>2, <2>3, <2>4, <2>5
<1>8. \A z \in K : z \in kept \/ z = n + 1
  BY <1>0, <1>6 DEF FlatSteps
<1> DEFINE e == [k \in 1..(c + 1) |-> IF k = c + 1 THEN n + 1 ELSE Nth(k)]
<1>9. ASSUME NEW k \in 1..c
      PROVE  e[k] = Nth(k) /\ e[k] \in kept /\ Cardinality(Below(kept, e[k])) = k
  <2>1. k \in 1..(c + 1) /\ k # c + 1
    BY <1>7
  <2>2. e[k] = Nth(k)
    BY <2>1
  <2>3. \E i \in kept : Cardinality({j \in kept : j <= i}) = k
    <3> HIDE DEF kept, e
    <3> QED
      BY <1>7, NthExists
  <2>4. Nth(k) \in kept /\ Cardinality({j \in kept : j <= Nth(k)}) = k
    <3> HIDE DEF kept, e
    <3> QED
      BY <2>3
  <2> HIDE DEF Nth, kept, e, c
  <2> QED
    BY <2>2, <2>4 DEF Below
<1>10. e[c + 1] = n + 1
  BY <1>7
<1> HIDE DEF kept, e, Nth
<1>11. /\ \A z \in kept : e[1] <= z /\ z <= e[c]
       /\ \A k \in 1..(c - 1) : Follows(kept, e[k], e[k + 1])
  BY <1>7, <1>9, NthInOrder
<1> HIDE DEF c
<1>12. e[1] = 1
  <2>1. 1 \in 1..c
    BY <1>7
  <2>2. e[1] \in kept /\ e[1] \in 1..n
    BY <1>7, <1>9, <2>1
  <2>3. e[1] <= 1
    BY <1>7, <1>11
  <2> QED
    BY <1>0, <2>2, <2>3
<1>13. ASSUME NEW k \in 1..c
       PROVE  e[k] \in 1..n /\ e[k + 1] \in (e[k] + 1)..(n + 1) /\ Flat(pts, e[k], e[k + 1])
  <2>1. e[k] \in kept /\ e[k] \in 1..n /\ e[k] \in K
    BY <1>7, <1>9
  <2>2. /\ \A x \in K, y \in K : Follows(K, x, y) => Flat(pts, x, y)
        /\ n + 1 \in K /\ K \subseteq 1..(n + 1)
    BY <1>6 DEF FlatSteps
  <2>3. CASE k = c
    <3>1. e[k + 1] = n + 1
      BY <1>10, <2>3
    <3>2. \A z \in K : ~(e[k] < z /\ z < n + 1)
      <4>1. ASSUME NEW z \in K, e[k] < z, z < n + 1
            PROVE  FALSE
        <5>1. z \in kept
          BY <1>0, <1>8, <4>1
        <5>2. z <= e[k] /\ z \in Nat /\ e[k] \in Nat
          BY <1>7, <1>11, <2>1, <2>3, <5>1
        <5> QED
          BY <4>1, <5>2
      <4> QED
        BY <4>1
    <3>3. e[k] < n + 1 /\ n + 1 \in (e[k] + 1)..(n + 1)
      BY <1>0, <2>1
    <3>4. Follows(K, e[k], n + 1)
      BY <3>2, <3>3 DEF Follows
    <3> QED
      BY <2>1, <2>2, <3>1, <3>3, <3>4
  <2>4. CASE k # c
    <3>1. k \in 1..(c - 1) /\ k + 1 \in 1..c
      BY <1>7, <2>4
    <3>2. Follows(kept, e[k], e[k + 1]) /\ e[k + 1] \in kept /\ e[k + 1] \in 1..n /\ e[k + 1] \in K
      BY <1>7, <1>9, <1>11, <3>1
    <3>3. e[k] < e[k + 1] /\ e[k + 1] \in (e[k] + 1)..(n + 1)
      <4>1. PICK x \in Nat, y \in Nat : x = e[k] /\ y = e[k + 1] /\ y <= n
        BY <1>0, <2>1, <3>2
      <4>2. x < y
        BY <3>2, <4>1 DEF Follows
      <4> QED
        BY <1>0, <4>1, <4>2
    <3>4. \A z \in K : ~(e[k] < z /\ z < e[k + 1])
      <4>1. ASSUME NEW z \in K, e[k] < z, z < e[k + 1]
            PROVE  FALSE
        <5>1. z # n + 1
          BY <1>0, <3>2, <4>1
        <5>2. z \in kept
          BY <1>8, <5>1
        <5> QED
          BY <3>2, <4>1, <5>2 DEF Follows
      <4> QED
        BY <4>1
    <3>5. Follows(K, e[k], e[k + 1])
      BY <3>3, <3>4 DEF Follows
    <3> QED
      BY <2>1, <2>2, <3>2, <3>3, <3>5
  <2> QED
    BY <2>3, <2>4
<1>14. Rounds(L, n, e, c)
  BY <1>10, <1>12, <1>13 DEF Rounds, pts
<1>15. /\ Len(simplifyClosed(ring)) = c
       /\ \A k \in 1..c : simplifyClosed(ring)[k] = CornerToWorld(Corner(L, n, e[k]))
  <2>1. ASSUME NEW k \in 1..c
        PROVE  ring[Nth(k)] = CornerToWorld(Corner(L, n, e[k]))
    BY <1>1, <1>7, <1>9
  <2>2. simplifyClosed(ring) = [k \in 1..c |-> ring[Nth(k)]]
    BY <1>3 DEF c, Nth, kept, K, far
  <2> QED
    BY <1>7, <2>1, <2>2
<1> QED
  BY <1>7, <1>14, <1>15 DEF ring

\* A cell and its four neighbours are all in the room, or none of them is.
EvenAround(R, p) == \A q \in Near(p) : p \in R <=> q \in R

\* The boundary has no side of such a cell.
LEMMA AwayFromRim ==
  ASSUME NEW R \in Masks, NEW L, NEW n, Boundary(R, L, n), NEW p \in Int \X Int, EvenAround(R, p)
  PROVE  Avoids(L, 1, n + 1, p)
<1>0. n \in Nat \ {0} /\ \A k \in 1..n : L[k] \in Sides(R) /\ L[k] \in AnySide
  BY SidesType DEF Boundary, Trail
<1>1. PICK c \in Int, r \in Int : p = <<c, r>>
  OBVIOUS
<1>2. \A q \in {<<c + 1, r>>, <<c - 1, r>>, <<c, r + 1>>, <<c, r - 1>>} : <<c, r>> \in R <=> q \in R
  BY <1>1 DEF EvenAround, Near
<1>3. ASSUME NEW s \in Sides(R), s \in AnySide, OwnSide(s, p)
      PROVE  FALSE
  <2>1. PICK x \in Int, y \in Int : SideOf(s, x, y)
    BY <1>3, SideParts
  <2>2. /\ <<<<x, y>>, 1>> \in Sides(R) <=> <<x, y>> \in R /\ <<x, y - 1>> \notin R
        /\ <<<<x, y>>, 2>> \in Sides(R) <=> <<x, y>> \in R /\ <<x + 1, y>> \notin R
        /\ <<<<x, y>>, 3>> \in Sides(R) <=> <<x, y>> \in R /\ <<x, y + 1>> \notin R
        /\ <<<<x, y>>, 4>> \in Sides(R) <=> <<x, y>> \in R /\ <<x - 1, y>> \notin R
    BY SidesOf
  <2>3. CASE s = <<<<x, y>>, 1>> /\ From(s) = <<x, y>> /\ To(s) = <<x + 1, y>>
    <3>1. x = c /\ (y = r \/ y = r + 1)
      BY <1>1, <1>3, <2>3 DEF OwnSide, InColumn, InRow, Ahead, Under
    <3>2. (r + 1) - 1 = r
      OBVIOUS
    <3> QED
      BY <1>2, <2>2, <2>3, <3>1, <3>2
  <2>4. CASE s = <<<<x, y>>, 2>> /\ From(s) = <<x + 1, y>> /\ To(s) = <<x + 1, y + 1>>
    <3>1. y = r /\ (x = c \/ x = c - 1)
      BY <1>1, <1>3, <2>4 DEF OwnSide, InColumn, InRow, Ahead, Under
    <3>2. (c - 1) + 1 = c
      OBVIOUS
    <3> QED
      BY <1>2, <2>2, <2>4, <3>1, <3>2
  <2>5. CASE s = <<<<x, y>>, 3>> /\ From(s) = <<x + 1, y + 1>> /\ To(s) = <<x, y + 1>>
    <3>1. x = c /\ (y = r \/ y = r - 1)
      BY <1>1, <1>3, <2>5 DEF OwnSide, InColumn, InRow, Ahead, Under
    <3>2. (r - 1) + 1 = r
      OBVIOUS
    <3> QED
      BY <1>2, <2>2, <2>5, <3>1, <3>2
  <2>6. CASE s = <<<<x, y>>, 4>> /\ From(s) = <<x, y + 1>> /\ To(s) = <<x, y>>
    <3>1. y = r /\ (x = c \/ x = c + 1)
      BY <1>1, <1>3, <2>6 DEF OwnSide, InColumn, InRow, Ahead, Under
    <3>2. (c + 1) - 1 = c
      OBVIOUS
    <3> QED
      BY <1>2, <2>2, <2>6, <3>1, <3>2
  <2> QED
    BY <2>1, <2>3, <2>4, <2>5, <2>6 DEF SideOf
<1>4. \A k \in 1..((n + 1) - 1) : k \in 1..n
  BY <1>0
<1> QED
  BY <1>0, <1>3, <1>4 DEF Avoids

\* What is inside the outline, and inside what an edit stores, away from the rim.
LEMMA InsideOfRoom ==
  ASSUME NEW m \in Masks, m # {}, NEW R, R = largestComponent(m)
  PROVE  \E L, n : /\ Boundary(R, L, n) /\ Trail(L, n)
                   /\ \A p \in Cells : p \in Rasterize(Outline(m)) <=> Winding(L, n, p) = 1
                   /\ \A p \in Cells : EvenAround(R, p) => (p \in Redrawn(m) <=> Winding(L, n, p) = 1)
<1>1. R \in Masks /\ R # {} /\ Together(R)
  BY OutlineOfRoom
<1>2. PICK L, n : /\ Around(R, L, n, 1) /\ n >= 3
                  /\ Outline(m) = PolygonOf(L, n)
                  /\ Outline(m) \in Seq(Int \X Int) /\ Len(Outline(m)) >= 3
  BY OutlineOfRoom
<1>3. Boundary(R, L, n) /\ Trail(L, n)
  BY <1>2 DEF Around, Boundary
<1>4. ASSUME NEW p \in Cells
      PROVE  /\ p \in Int \X Int /\ Winding(L, n, p) \in {0, 1}
             /\ pointInPoly(PixelToWorldCenter(p), Outline(m)) <=> Winding(L, n, p) = 1
  <2>1. p \in Int \X Int
    BY GridAssumption DEF Cells
  <2>2. PICK k \in {0, 1} : k = 1
    OBVIOUS
  <2>3. Winding(L, n, p) \in {k - 1, k}
    BY <1>1, <1>2, <2>1, <2>2, WindingRange
  <2>4. Winding(L, n, p) \in {0, 1}
    BY <2>2, <2>3
  <2>5. pointInPoly(PixelToWorldCenter(p), PolygonOf(L, n)) <=> Winding(L, n, p) = 1
    BY <1>2, <1>3, <2>1, <2>4, InsideIsWinding
  <2> QED
    BY <1>2, <2>1, <2>4, <2>5
<1>5. \A p \in Cells : p \in Rasterize(Outline(m)) <=> Winding(L, n, p) = 1
  <2>1. Rasterize(Outline(m)) = {c \in Cells : pointInPoly(PixelToWorldCenter(c), Outline(m))}
    BY <1>2, RasterizeIsExact
  <2> QED
    BY <1>4, <2>1
<1>6. ASSUME NEW p \in Cells, EvenAround(R, p)
      PROVE  p \in Redrawn(m) <=> Winding(L, n, p) = 1
  <2>1. p \in Redrawn(m) <=> pointInPoly(PixelToWorldCenter(p), Contour(m))
    BY RedrawnIsAMask
  <2>2. PICK pts, simp : pts = Outline(m) /\ simp = simplifyClosed(pts)
    OBVIOUS
  <2>3. pts # <<>>
    BY <1>2, <2>2
  <2>4. Contour(m) = IF Len(simp) < 3 THEN pts ELSE simp
    BY <2>2, <2>3 DEF Contour, Simplified
  <2>5. CASE Len(simp) < 3
    BY <1>4, <2>1, <2>2, <2>4, <2>5
  <2>6. CASE ~(Len(simp) < 3)
    <3>1. PICK c, e : /\ c \in Nat /\ Rounds(L, n, e, c)
                      /\ Len(simplifyClosed(PolygonOf(L, n))) = c
                      /\ \A k \in 1..c : simplifyClosed(PolygonOf(L, n))[k] = CornerToWorld(Corner(L, n, e[k]))
      BY <1>2, <1>3, SimplifiedRounds
    <3>2. simp = simplifyClosed(PolygonOf(L, n))
      BY <1>2, <2>2
    <3>3. c >= 3 /\ Len(simp) = c /\ \A k \in 1..c : simp[k] = CornerToWorld(Corner(L, n, e[k]))
      BY <2>6, <3>1, <3>2
    <3>4. Avoids(L, 1, n + 1, p)
      BY <1>1, <1>3, <1>4, <1>6, AwayFromRim
    <3>5. pointInPoly(PixelToWorldCenter(p), simp) <=> Winding(L, n, p) = 1
      BY <1>3, <1>4, <3>1, <3>3, <3>4, SimplifiedInside
    <3> QED
      BY <2>1, <2>4, <2>6, <3>5
  <2> QED
    BY <2>5, <2>6
<1> QED
  BY <1>3, <1>5, <1>6

\* Simplification changes nothing away from the rim of a room: a cell that the room has or lacks
\* together with its four neighbours is stored as it was before simplification.
THEOREM SimplifiedKeeps ==
  ASSUME NEW m \in Masks, NEW p \in Cells, EvenAround(largestComponent(m), p)
  PROVE  p \in Redrawn(m) <=> p \in Rasterize(Outline(m))
<1>1. CASE m = {}
  <2>1. Outline(m) = <<>> /\ Redrawn(m) = {}
    BY <1>1, OutlineOfNone, RedrawnIsAMask
  <2> QED
    BY <2>1 DEF Rasterize
<1>2. CASE m # {}
  BY <1>2, InsideOfRoom
<1> QED
  BY <1>1, <1>2

\* What is stored of a room: it keeps the cells inside, and goes no further than the next cell.
THEOREM RedrawnNearRoom ==
  ASSUME NEW m \in Masks, NEW R, R = largestComponent(m)
  PROVE  /\ {p \in R : Near(p) \subseteq R} \subseteq Redrawn(m)
         /\ Redrawn(m) \subseteq Filled(R) \cup UNION {Near(p) : p \in R}
<1>1. R \subseteq Rasterize(Outline(m)) /\ Rasterize(Outline(m)) \subseteq Filled(R)
  BY OutlineIsExact
<1>2. R \subseteq Cells
  <2>1. CASE m = {}
    BY <2>1, OutlineOfNone
  <2>2. CASE m # {}
    BY <2>2, RoomIsTogether DEF Masks
  <2> QED
    BY <2>1, <2>2
<1>3. ASSUME NEW p \in R, Near(p) \subseteq R
      PROVE  p \in Redrawn(m)
  <2>1. EvenAround(R, p)
    BY <1>3 DEF EvenAround
  <2> QED
    BY <1>1, <1>2, <2>1, SimplifiedKeeps
<1>4. ASSUME NEW p \in Redrawn(m)
      PROVE  p \in Filled(R) \cup UNION {Near(q) : q \in R}
  <2>1. p \in Cells /\ p \in Int \X Int
    BY RedrawnIsAMask, GridAssumption DEF Masks, Cells
  <2>2. CASE p \in R
    BY <1>1, <2>2
  <2>3. CASE p \notin R /\ Near(p) \cap R # {}
    <3>1. PICK q \in R : q \in Near(p)
      BY <2>3
    <3>2. PICK c \in Int, r \in Int : p = <<c, r>>
      BY <2>1
    <3>3. p \in Near(q)
      BY <3>1, <3>2 DEF Near
    <3> QED
      BY <3>3
  <2>4. CASE p \notin R /\ Near(p) \cap R = {}
    <3>1. EvenAround(R, p)
      BY <2>4 DEF EvenAround
    <3>2. p \in Rasterize(Outline(m))
      BY <2>1, <3>1, SimplifiedKeeps
    <3> QED
      BY <1>1, <3>2
  <2> QED
    BY <2>2, <2>3, <2>4
<1> QED
  BY <1>3, <1>4

-----------------------------------------------------------------------------
(* The rooms of a split.                                                   *)

\* On which side of a line a cell is.
LineSide(line, p) ==
  (line[3] - line[1]) * (PixelToWorldCenter(p)[2] - line[2]) - (line[4] - line[2]) * (PixelToWorldCenter(p)[1] - line[1])

Lines == Int \X Int \X Int \X Int

\* The halves of a split are on the two sides of the line.
LEMMA SplitBySide ==
  ASSUME NEW m \in Masks, NEW line
  PROVE  /\ \A p \in SplitByLine(m, line)[1] : LineSide(line, p) >= 0
         /\ \A p \in SplitByLine(m, line)[2] : ~(LineSide(line, p) >= 0)
BY DEF SplitByLine, LineSide

\* Along a column the side changes evenly.
LEMMA LineSideMoves ==
  ASSUME NEW line \in Lines, NEW c \in Int, NEW r \in Int, NEW k \in Int
  PROVE  /\ LineSide(line, <<c, r>>) \in Int
         /\ LineSide(line, <<c, r - k>>) = LineSide(line, <<c, r>>) + 2 * ((line[3] - line[1]) * k)
<1>0. OriginX \in Int /\ OriginY \in Int /\ Height \in Int
  BY OriginAssumption, GridAssumption
<1>1. PICK l1 \in Int, l2 \in Int, l3 \in Int, l4 \in Int : l1 = line[1] /\ l2 = line[2] /\ l3 = line[3] /\ l4 = line[4]
  BY DEF Lines
<1>2. PICK u \in Int, x \in Int, y \in Int :
        u = l3 - l1 /\ x = (l4 - l2) * (OriginX + 2 * c + 1 - l1) /\ y = OriginY + 2 * (Height - r) - 1 - l2
  BY <1>0
<1>3. ASSUME NEW t \in Int
      PROVE  LineSide(line, <<c, t>>) = u * (OriginY + 2 * (Height - t) - 1 - l2) - x
  <2>1. PixelToWorldCenter(<<c, t>>) = <<OriginX + 2 * c + 1, OriginY + 2 * (Height - t) - 1>>
    BY DEF PixelToWorldCenter
  <2>2. LineSide(line, <<c, t>>) = (l3 - l1) * (OriginY + 2 * (Height - t) - 1 - l2) - (l4 - l2) * (OriginX + 2 * c + 1 - l1)
    <3>1. PICK w \in Int, z \in Int : w = OriginX + 2 * c + 1 /\ z = OriginY + 2 * (Height - t) - 1
      BY <1>0
    <3>2. PixelToWorldCenter(<<c, t>>) = <<w, z>>
      BY <2>1, <3>1
    <3>3. LineSide(line, <<c, t>>) = (l3 - l1) * (z - l2) - (l4 - l2) * (w - l1)
      BY <1>1, <3>2 DEF LineSide
    <3>4. z - l2 = OriginY + 2 * (Height - t) - 1 - l2 /\ w - l1 = OriginX + 2 * c + 1 - l1
      BY <1>0, <3>1
    <3> QED
      BY <3>3, <3>4
  <2> QED
    BY <1>2, <2>2
<1>6. LineSide(line, <<c, r>>) = u * y - x
  BY <1>2, <1>3
<1>4. LineSide(line, <<c, r - k>>) = u * (y + 2 * k) - x
  <2>1. OriginY + 2 * (Height - (r - k)) - 1 - l2 = y + 2 * k
    BY <1>0, <1>2
  <2>2. r - k \in Int
    OBVIOUS
  <2>3. LineSide(line, <<c, r - k>>) = u * (OriginY + 2 * (Height - (r - k)) - 1 - l2) - x
    BY <1>3, <2>2
  <2> QED
    BY <2>1, <2>3
<1>5. u * (y + 2 * k) = u * y + 2 * (u * k)
  OBVIOUS
<1> QED
  BY <1>1, <1>2, <1>6, <1>4, <1>5

\* A trail does not wind around a cell if the room has none above it, or none below it.
LEMMA NothingBeyond ==
  ASSUME NEW R \in Masks, NEW L, NEW n, Boundary(R, L, n), NEW c \in Int, NEW r \in Int, NEW d \in {1, -1},
         \A k \in Nat : <<c, r - d * k>> \notin R
  PROVE  Winding(L, n, <<c, r>>) = 0
<1> DEFINE T == {k \in Nat : Winding(L, n, <<c, r - d * k>>) = Winding(L, n, <<c, r>>)}
<1>0. d \in Int /\ (d = 1 \/ d = -1)
  OBVIOUS
<1>1. 0 \in T
  <2>1. r - d * 0 = r
    BY <1>0
  <2> QED
    BY <2>1
<1>2. ASSUME NEW k \in Nat, k \in T
      PROVE  k + 1 \in T
  <2>1. PICK s \in Int : s = r - d * k
    BY <1>0
  <2>2. PICK t \in Int : t = r - d * (k + 1) /\ t = s - d /\ (t = s - 1 \/ t = s + 1)
    <3>1. d * (k + 1) = d * k + d
      BY <1>0
    <3>2. s - d \in Int
      BY <1>0
    <3>3. s - d = r - d * (k + 1)
      BY <1>0, <2>1, <3>1
    <3> QED
      BY <1>0, <3>2, <3>3
  <2>3. <<c, s>> \in Int \X Int /\ <<c, t>> \in Near(<<c, s>>)
    BY <2>2 DEF Near
  <2>4. k + 1 \in Nat
    OBVIOUS
  <2>5. <<c, s>> \notin R /\ <<c, t>> \notin R
    BY <2>1, <2>2, <2>4
  <2>6. Winding(L, n, <<c, s>>) = Winding(L, n, <<c, t>>)
    BY <2>3, <2>5, WindingNear
  <2>7. Winding(L, n, <<c, s>>) = Winding(L, n, <<c, r>>)
    BY <1>2, <2>1
  <2> QED
    BY <2>2, <2>4, <2>6, <2>7
<1>3. Nat \subseteq T
  <2> HIDE DEF T
  <2> QED
    BY <1>1, <1>2, Induct
<1>4. PICK k \in Nat, t \in Int : t = r - d * k /\ (t < 0 \/ t >= Height)
  <2>0. Height \in Nat
    BY GridAssumption
  <2>1. CASE d = 1
    <3>1. PICK k \in Nat : r - k < 0
      <4>1. CASE r < 0
        <5>1. r - 0 < 0
          BY <4>1
        <5> QED
          BY <5>1
      <4>2. CASE r >= 0
        <5>1. r + 1 \in Nat /\ r - (r + 1) < 0
          BY <4>2
        <5> QED
          BY <5>1
      <4> QED
        BY <4>1, <4>2
    <3>2. r - d * k = r - k /\ r - k \in Int
      BY <2>1
    <3> QED
      BY <3>1, <3>2
  <2>2. CASE d = -1
    <3>1. PICK k \in Nat : r + k >= Height
      <4>1. CASE r < Height
        <5>1. Height - r \in Nat /\ r + (Height - r) >= Height
          BY <2>0, <4>1
        <5> QED
          BY <5>1
      <4>2. CASE r >= Height
        <5>1. r + 0 >= Height
          BY <2>0, <4>2
        <5> QED
          BY <5>1
      <4> QED
        BY <2>0, <4>1, <4>2
    <3>2. r - d * k = r + k /\ r + k \in Int
      BY <2>2
    <3> QED
      BY <3>1, <3>2
  <2> QED
    BY <1>0, <2>1, <2>2
<1>5. Winding(L, n, <<c, r - d * k>>) = 0
  <2>1. \A x \in R : x[2] \in 0..(Height - 1)
    BY GridAssumption DEF Masks, Cells
  <2>2. \A x \in R : x[2] # t
    BY <1>4, <2>1, GridAssumption
  <2> QED
    BY <1>4, <2>2, WindingFarOff
<1> QED
  BY <1>3, <1>5

\* A room is made of cells of its mask.
LEMMA LargestIsPart ==
  ASSUME NEW m \in Masks, m # {}
  PROVE  largestComponent(m) \subseteq m
BY LargestComponentIsUnique

\* From any place one of the two directions never leads to smaller values, and one never to larger.
LEMMA WayAlong ==
  ASSUME NEW u \in Int
  PROVE  /\ \E d \in {1, -1} : \A k \in Nat : u * (d * k) >= 0
         /\ \E d \in {1, -1} : \A k \in Nat : u * (d * k) <= 0
<1>1. ASSUME NEW k \in Nat
      PROVE  /\ u >= 0 => u * (1 * k) >= 0 /\ u * ((-1) * k) <= 0
             /\ u <= 0 => u * (1 * k) <= 0 /\ u * ((-1) * k) >= 0
  <2>1. 1 * k = k /\ (-1) * k = -k
    OBVIOUS
  <2>2. u * (-k) = -(u * k)
    OBVIOUS
  <2>3. (u >= 0 => u * k >= 0) /\ (u <= 0 => u * k <= 0)
    OBVIOUS
  <2>4. PICK x \in Int : x = u * k
    OBVIOUS
  <2> QED
    BY <2>1, <2>2, <2>3, <2>4
<1>2. CASE u >= 0
  BY <1>1, <1>2
<1>3. CASE u <= 0
  BY <1>1, <1>3
<1> QED
  BY <1>2, <1>3

\* The side stays the same when the change has its sign.
LEMMA SumSigns ==
  ASSUME NEW x \in Int, NEW u \in Int, NEW j \in Int
  PROVE  /\ x >= 0 /\ u * j >= 0 => x + 2 * (u * j) >= 0
         /\ ~(x >= 0) /\ u * j <= 0 => ~(x + 2 * (u * j) >= 0)
<1>1. PICK y \in Int : y = u * j
  OBVIOUS
<1> QED
  BY <1>1

\* A cell with no neighbour among some others, and none of them above it or none below it, is not
\* in the room an edit stores of those others.
LEMMA OutsideOfOther ==
  ASSUME NEW o \in Masks, NEW p \in Cells, p \notin o, Near(p) \cap o = {}, NEW d \in {1, -1},
         \A k \in Nat : <<p[1], p[2] - d * k>> \notin o
  PROVE  p \notin Redrawn(o)
<1>1. CASE o = {}
  BY <1>1, RedrawnIsAMask
<1>2. CASE o # {}
  <2>1. PICK R : R = largestComponent(o) /\ R \in Masks /\ R \subseteq o
    BY <1>2, RoomIsTogether, LargestIsPart
  <2>2. EvenAround(R, p)
    BY <2>1 DEF EvenAround
  <2>3. PICK L, n : /\ Boundary(R, L, n)
                    /\ \A q \in Cells : EvenAround(R, q) => (q \in Redrawn(o) <=> Winding(L, n, q) = 1)
    BY <1>2, <2>1, InsideOfRoom
  <2>4. PICK c \in Int, r \in Int : p = <<c, r>>
    BY GridAssumption DEF Cells
  <2>5. \A k \in Nat : <<c, r - d * k>> \notin R
    BY <2>1, <2>4
  <2>6. Winding(L, n, <<c, r>>) = 0
    <3>1. R \in Masks /\ Boundary(R, L, n)
      BY <2>1, <2>3
    <3> QED
      BY <2>5, <3>1, NothingBeyond
  <2> QED
    BY <2>2, <2>3, <2>4, <2>6
<1> QED
  BY <1>1, <1>2

\* A cell of one half of a split with no neighbour in the other half is not in the room that is
\* stored of the other half.
THEOREM HalvesStayApart ==
  ASSUME NEW m \in Masks, NEW line \in Lines, NEW h1, h1 = SplitByLine(m, line)[1],
         NEW h2, h2 = SplitByLine(m, line)[2]
  PROVE  /\ \A p \in h1 : Near(p) \cap h2 = {} => p \notin Redrawn(h2)
         /\ \A p \in h2 : Near(p) \cap h1 = {} => p \notin Redrawn(h1)
<1>1. h1 \in Masks /\ h2 \in Masks /\ h1 \cap h2 = {}
  BY HalvesAreMasks
<1>2. /\ \A p \in h1 : LineSide(line, p) >= 0
      /\ \A p \in h2 : ~(LineSide(line, p) >= 0)
  BY SplitBySide
<1>3. PICK u \in Int : u = line[3] - line[1]
  BY DEF Lines
<1>4. ASSUME NEW p \in Cells
      PROVE  /\ p \in Int \X Int /\ LineSide(line, p) \in Int
             /\ \A k \in Int : LineSide(line, <<p[1], p[2] - k>>) = LineSide(line, p) + 2 * (u * k)
  <2>1. PICK c \in Int, r \in Int : p = <<c, r>>
    BY GridAssumption DEF Cells
  <2>2. LineSide(line, <<c, r>>) \in Int
    BY LineSideMoves
  <2>3. ASSUME NEW k \in Int
        PROVE  LineSide(line, <<c, r - k>>) = LineSide(line, <<c, r>>) + 2 * (u * k)
    BY <1>3, LineSideMoves
  <2> QED
    BY <2>1, <2>2, <2>3
<1>5. ASSUME NEW p \in h1, Near(p) \cap h2 = {}
      PROVE  p \notin Redrawn(h2)
  <2>1. p \in Cells /\ p \notin h2
    BY <1>1 DEF Masks
  <2>2. PICK d \in {1, -1} : \A k \in Nat : u * (d * k) >= 0
    BY <1>3, WayAlong
  <2>3. ASSUME NEW k \in Nat
        PROVE  <<p[1], p[2] - d * k>> \notin h2
    <3>1. PICK j \in Int : j = d * k /\ u * j >= 0
      BY <2>2
    <3>2. LineSide(line, <<p[1], p[2] - j>>) = LineSide(line, p) + 2 * (u * j)
      BY <1>4, <2>1
    <3>3. LineSide(line, p) \in Int /\ LineSide(line, p) >= 0
      BY <1>2, <1>4, <2>1
    <3>4. LineSide(line, p) + 2 * (u * j) >= 0
      BY <3>1, <3>3, SumSigns
    <3> QED
      BY <1>2, <3>1, <3>2, <3>4
  <2> QED
    BY <1>1, <1>5, <2>1, <2>3, OutsideOfOther
<1>6. ASSUME NEW p \in h2, Near(p) \cap h1 = {}
      PROVE  p \notin Redrawn(h1)
  <2>1. p \in Cells /\ p \notin h1
    BY <1>1 DEF Masks
  <2>2. PICK d \in {1, -1} : \A k \in Nat : u * (d * k) <= 0
    BY <1>3, WayAlong
  <2>3. ASSUME NEW k \in Nat
        PROVE  <<p[1], p[2] - d * k>> \notin h1
    <3>1. PICK j \in Int : j = d * k /\ u * j <= 0
      BY <2>2
    <3>2. LineSide(line, <<p[1], p[2] - j>>) = LineSide(line, p) + 2 * (u * j)
      BY <1>4, <2>1
    <3>3. LineSide(line, p) \in Int /\ ~(LineSide(line, p) >= 0)
      BY <1>2, <1>4, <2>1
    <3>4. ~(LineSide(line, p) + 2 * (u * j) >= 0)
      BY <3>1, <3>3, SumSigns
    <3> QED
      BY <1>2, <3>1, <3>2, <3>4
  <2> QED
    BY <1>1, <1>6, <2>1, <2>3, OutsideOfOther
<1> QED
  BY <1>5, <1>6

-----------------------------------------------------------------------------
(* The run's specification draws every mask.                               *)

IInv == area \in Masks

\* What has been drawn is a mask.
LEMMA AreaIsMask == Spec => []IInv
<1>1. Init => IInv
  BY DEF Init, IInv, Masks
<1>2. IInv /\ [Next]_area => IInv'
  BY DEF IInv, Next, Draw, Masks
<1> QED
  BY <1>1, <1>2, PTL DEF Spec

\* Contour, before it simplifies, encloses its room: every cell of the largest component is inside
\* the polygon, and whatever else is inside is in one of that component's holes.
THEOREM OutlinesEnclose == Spec => []OutlineEncloses
<1>1. IInv => OutlineEncloses
  BY OutlineIsExact DEF IInv, OutlineEncloses
<1> QED
  BY <1>1, AreaIsMask, PTL

\* Simplification moves a room by no more than its rim: a cell of the room whose four neighbours are
\* in the room is stored, and what is stored is in the room, in its holes or next to it.
THEOREM RoomsAreKept == Spec => []RoomKept
<1>1. IInv => RoomKept
  BY RedrawnNearRoom DEF IInv, RoomKept
<1> QED
  BY <1>1, AreaIsMask, PTL

\* The rooms SplitRoom stores share no cells but next to the cut: a cell of one half with no
\* neighbour in the other half is not in the room of the other half.
THEOREM SplitRoomsApart == Spec => []SplitApart
<1>1. SplitLines \subseteq Lines
  BY DEF SplitLines, Lines
<1>2. ASSUME IInv, NEW line \in SplitLines
      PROVE  /\ \A p \in SplitByLine(area, line)[1] :
                  Near(p) \cap SplitByLine(area, line)[2] = {} => p \notin Redrawn(SplitByLine(area, line)[2])
             /\ \A p \in SplitByLine(area, line)[2] :
                  Near(p) \cap SplitByLine(area, line)[1] = {} => p \notin Redrawn(SplitByLine(area, line)[1])
  BY <1>1, <1>2, HalvesStayApart DEF IInv
<1>3. IInv => SplitApart
  BY <1>2 DEF SplitApart
<1> QED
  BY <1>3, AreaIsMask, PTL
=============================================================================
