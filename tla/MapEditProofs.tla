---------------------------- MODULE MapEditProofs ----------------------------
(* Proofs about MapEdit, for every set of editors, maps, names, kinds and  *)
(* lines, every grid, every Redraw and Halves, and every bound.            *)
EXTENDS MapEdit, FiniteSetTheorems, SequenceTheorems, TLAPS

-----------------------------------------------------------------------------
(* Induction over a set of numbers.                                        *)

\* A nonempty set of natural numbers has a least member: of the intervals up to its
\* members one contains no other.
LEMMA Least ==
  ASSUME NEW T, T \subseteq Nat, T # {}
  PROVE  \E n \in T : \A m \in T : n <= m
<1> DEFINE R == StrictSubsetOrdering(Nat)
           X == {0..n : n \in T}
<1>1. X \subseteq FiniteSubsetsOf(Nat)
  <2> SUFFICES ASSUME NEW n \in T PROVE IsFiniteSet(0..n) /\ 0..n \subseteq Nat
    BY DEF FiniteSubsetsOf
  <2> QED
    BY FS_Interval
<1>2. IsWellFoundedOn(R, FiniteSubsetsOf(Nat))
  BY FS_StrictSubsetOrderingWellFounded
<1>3. X # {}
  OBVIOUS
<1> HIDE DEF X, R
<1>4. \E x \in X : \A y \in X : <<y, x>> \notin R
  BY <1>1, <1>2, <1>3, WFMin
<1> USE DEF X, R
<1>5. PICK n \in T : \A m \in T : <<0..m, 0..n>> \notin R
  BY <1>4
<1>6. ASSUME NEW m \in T, m < n
      PROVE  FALSE
  <2>1. 0..m \subseteq 0..n /\ n \in 0..n /\ n \notin 0..m /\ 0..n \subseteq Nat
    BY <1>6
  <2>2. <<0..m, 0..n>> \in R
    BY <2>1 DEF StrictSubsetOrdering
  <2> QED
    BY <1>5, <2>2
<1> QED
  BY <1>5, <1>6

\* A set with 0 and with the successor of each of its numbers has them all.
LEMMA Induct ==
  ASSUME NEW S, 0 \in S, \A n \in Nat : n \in S => n + 1 \in S
  PROVE  Nat \subseteq S
<1> DEFINE T == Nat \ S
<1> SUFFICES ASSUME T # {} PROVE FALSE
  OBVIOUS
<1>1. T \subseteq Nat
  OBVIOUS
<1>2. PICK n \in T : \A m \in T : n <= m
  <2> HIDE DEF T
  <2> QED
    BY <1>1, Least
<1>3. n # 0 /\ n - 1 \in Nat
  OBVIOUS
<1>4. n - 1 \in S
  BY <1>2, <1>3
<1> QED
  BY <1>3, <1>4

-----------------------------------------------------------------------------
(* Rooms side by side.                                                     *)

\* A room is adjacent to those that are adjacent to it.
LEMMA AdjacentSymmetric ==
  ASSUME NEW a \in Masks, NEW b \in Masks, Adjacent(a, b)
  PROVE  Adjacent(b, a)
<1>1. PICK p \in a, q \in b : q \in {p} \cup Near(p)
  BY DEF Adjacent
<1>2. p \in Cells /\ q \in Cells
  BY DEF Masks
<1>3. p[1] \in Int /\ p[2] \in Int /\ p = <<p[1], p[2]>>
  BY <1>2, GridAssumption DEF Cells
<1>4. p \in {q} \cup Near(q)
  BY <1>1, <1>3 DEF Near
<1> QED
  BY <1>4 DEF Adjacent

-----------------------------------------------------------------------------
(* Lemmas about the operators of MapEdit.                                  *)

\* The indices of s are its domain, and what is there is a member of T.
LEMMA Elements ==
  ASSUME NEW T, NEW s \in Seq(T)
  PROVE  /\ Len(s) \in Nat
         /\ DOMAIN s = 1..Len(s)
         /\ \A i \in 1..Len(s) : s[i] \in T
  OBVIOUS

\* A function on 1..n into T is a sequence of length n.
LEMMA Listed ==
  ASSUME NEW T, NEW n \in Nat, NEW f \in [1..n -> T]
  PROVE  f \in Seq(T) /\ Len(f) = n
<1>1. f \in Seq(T)
  BY SeqDef
<1> QED
  BY <1>1

\* w lists every member of s that is in S once: position k of w is position f[k] of s.
ListsOnce(w, s, S, n, f) ==
  /\ w = [k \in 1..n |-> s[f[k]]]
  /\ \A k \in 1..n : s[f[k]] \in S
  /\ \A k, l \in 1..n : f[k] = f[l] => k = l
  /\ \A i \in 1..Len(s) : s[i] \in S => \E k \in 1..n : f[k] = i

\* Among(s, S) lists every member of s that is in S once.
LEMMA AmongLists ==
  ASSUME NEW T, NEW s \in Seq(T), NEW S
  PROVE  \E n \in Nat : \E f \in [1..n -> 1..Len(s)] : ListsOnce(Among(s, S), s, S, n, f)
<1> DEFINE at == {i \in DOMAIN s : s[i] \in S}
           n == Cardinality(at)
           Below(i) == {j \in at : j <= i}
           g == [i \in at |-> Cardinality(Below(i))]
           Nth(k) == CHOOSE i \in at : Cardinality({j \in at : j <= i}) = k
           f == [k \in 1..n |-> Nth(k)]
<1>1. at \subseteq 1..Len(s) /\ Len(s) \in Nat
  BY Elements
<1>2. IsFiniteSet(at) /\ n \in Nat
  <2>1. IsFiniteSet(1..Len(s))
    BY <1>1, FS_Interval
  <2> HIDE DEF at
  <2>2. IsFiniteSet(at)
    BY <1>1, <2>1, FS_Subset
  <2> QED
    BY <2>2, FS_CardinalityType
<1>3. ASSUME NEW i \in at
      PROVE  IsFiniteSet(Below(i)) /\ Cardinality(Below(i)) \in 1..n
  <2>1. Below(i) \subseteq at /\ i \in Below(i)
    BY <1>1
  <2> HIDE DEF at, Below
  <2>2. IsFiniteSet(Below(i)) /\ Cardinality(Below(i)) <= n
    BY <1>2, <2>1, FS_Subset
  <2>3. Cardinality(Below(i)) \in Nat /\ Cardinality(Below(i)) # 0
    BY <2>1, <2>2, FS_CardinalityType, FS_EmptySet
  <2> QED
    BY <1>2, <2>2, <2>3
<1>4. ASSUME NEW i \in at, NEW j \in at, Cardinality(Below(i)) = Cardinality(Below(j))
      PROVE  i = j
  <2>1. ASSUME NEW a \in at, NEW b \in at, a < b
        PROVE  Cardinality(Below(a)) # Cardinality(Below(b))
    <3>1. Below(a) \subseteq Below(b) /\ b \in Below(b) /\ b \notin Below(a)
      BY <1>1, <2>1
    <3>2. IsFiniteSet(Below(b))
      BY <1>3
    <3> HIDE DEF Below, at
    <3> QED
      BY <3>1, <3>2, FS_Subset
  <2>2. i \in Nat /\ j \in Nat
    BY <1>1
  <2> HIDE DEF Below, at
  <2>3. i < j \/ i = j \/ j < i
    BY <2>2
  <2> QED
    BY <1>4, <2>1, <2>3
<1>5. ASSUME NEW k \in 1..n
      PROVE  \E i \in at : Cardinality(Below(i)) = k
  <2>1. g \in [at -> 1..n]
    BY <1>3
  <2>2. \A i \in at : g[i] = Cardinality(Below(i))
    OBVIOUS
  <2>3. IsFiniteSet(1..n) /\ Cardinality(1..n) = n
    BY <1>2, FS_Interval
  <2> HIDE DEF Below, at, g, n
  <2>4. g \in Injection(at, 1..n)
    BY <1>4, <2>1, <2>2 DEF Injection, IsInjective
  <2>5. Cardinality(at) = n
    BY DEF n
  <2>6. g \in Surjection(at, 1..n)
    BY <2>3, <2>4, <2>5, FS_Injection
  <2> QED
    BY <2>2, <2>6 DEF Surjection
<1>6. ASSUME NEW k \in 1..n
      PROVE  f[k] \in at /\ Cardinality(Below(f[k])) = k
  <2>1. \E i \in at : Cardinality({j \in at : j <= i}) = k
    BY <1>5
  <2>2. Nth(k) \in at /\ Cardinality({j \in at : j <= Nth(k)}) = k
    BY <2>1
  <2>3. f[k] = Nth(k)
    BY <1>6
  <2> HIDE DEF Nth, at, f
  <2> QED
    BY <2>2, <2>3
<1>7. Among(s, S) = [k \in 1..n |-> s[f[k]]]
  BY DEF Among
<1> HIDE DEF at, n, Below, g, Nth, f
<1>8. f \in [1..n -> 1..Len(s)]
  BY <1>1, <1>6 DEF f
<1>9. \A k \in 1..n : s[f[k]] \in S
  BY <1>6 DEF at
<1>10. \A k, l \in 1..n : f[k] = f[l] => k = l
  BY <1>6
<1>11. ASSUME NEW i \in 1..Len(s), s[i] \in S
       PROVE  \E k \in 1..n : f[k] = i
  <2>1. i \in at
    BY <1>11, Elements DEF at
  <2>2. Cardinality(Below(i)) \in 1..n
    BY <1>3, <2>1
  <2>3. f[Cardinality(Below(i))] = i
    BY <1>4, <1>6, <2>1, <2>2
  <2> QED
    BY <2>2, <2>3
<1>12. ListsOnce(Among(s, S), s, S, n, f)
  BY <1>7, <1>9, <1>10, <1>11 DEF ListsOnce
<1> QED
  BY <1>2, <1>8, <1>12

\* Of finitely many natural numbers none exceeds some bound.
LEMMA Bounded ==
  ASSUME NEW n \in Nat, NEW h \in [1..n -> Nat]
  PROVE  \E b \in Nat : \A i \in 1..n : h[i] <= b
<1> DEFINE Upto(k) == \E b \in Nat : \A i \in 1..n : i <= k => h[i] <= b
           S == {k \in Nat : Upto(k)}
<1>1. 0 \in S
  OBVIOUS
<1>2. ASSUME NEW k \in Nat, k \in S
      PROVE  k + 1 \in S
  <2>1. PICK b \in Nat : \A i \in 1..n : i <= k => h[i] <= b
    BY <1>2
  <2>2. CASE k + 1 \in 1..n
    <3>1. h[k + 1] \in Nat
      BY <2>2
    <3> DEFINE c == b + h[k + 1]
    <3>2. c \in Nat
      BY <3>1
    <3>3. \A i \in 1..n : i <= k + 1 => h[i] <= c
      <4> SUFFICES ASSUME NEW i \in 1..n, i <= k + 1 PROVE h[i] <= c
        OBVIOUS
      <4>1. i <= k \/ i = k + 1
        OBVIOUS
      <4>2. h[i] \in Nat
        OBVIOUS
      <4> QED
        BY <2>1, <3>1, <4>1, <4>2
    <3> HIDE DEF c
    <3>4. Upto(k + 1)
      BY <3>2, <3>3
    <3> QED
      BY <3>4
  <2>3. CASE k + 1 \notin 1..n
    <3>1. \A i \in 1..n : i <= k + 1 => i <= k
      BY <2>3
    <3>2. Upto(k + 1)
      BY <2>1, <3>1
    <3> QED
      BY <3>2
  <2> QED
    BY <2>2, <2>3
<1>3. Nat \subseteq S
  <2> HIDE DEF S
  <2> QED
    BY <1>1, <1>2, Induct
<1>4. Upto(n)
  BY <1>3
<1>5. \A i \in 1..n : i <= n
  OBVIOUS
<1> QED
  BY <1>4, <1>5

\* A nonempty set of natural numbers below a bound has a greatest member.
LEMMA Greatest ==
  ASSUME NEW T, T \subseteq Nat, T # {}, NEW b \in Nat, \A t \in T : t <= b
  PROVE  \E n \in T : \A m \in T : m <= n
<1> DEFINE D == {b - t : t \in T}
<1>1. D \subseteq Nat /\ D # {}
  <2>1. \A t \in T : b - t \in Nat
    OBVIOUS
  <2> QED
    BY <2>1
<1>2. PICK d \in D : \A e \in D : d <= e
  <2> HIDE DEF D
  <2> QED
    BY <1>1, Least
<1>3. PICK n \in T : d = b - n
  OBVIOUS
<1>4. \A m \in T : b - n <= b - m
  BY <1>2, <1>3
<1> QED
  BY <1>4

\* Max of a set with a greatest member is that member.
LEMMA MaxIsGreatest ==
  ASSUME NEW T, \E n \in T : \A m \in T : n >= m
  PROVE  Max(T) \in T /\ \A m \in T : Max(T) >= m
BY DEF Max

-----------------------------------------------------------------------------
(* Sets of rooms.                                                          *)

\* A set of rooms with ids of their own.
Rooms(s) == s \in Seq(Room) /\ RoomIdsDiffer(s)

\* The graph of each room is that of the cells of the set.
Matches(s) == \A i, j \in DOMAIN s : i # j => (j \in s[i].graph <=> Adjacent(s[i].cells, s[j].cells))

\* A record with the fields of a room is a room.
LEMMA NewRoomIsRoom ==
  ASSUME NEW id \in Nat, NEW name \in Names, NEW cells \in Masks
  PROVE  /\ NewRoom(id, name, cells) \in Room
         /\ NewRoom(id, name, cells).id = id
BY DEF NewRoom, Room

\* applyLabels makes the graph match, and changes no id.
LEMMA WithGraphMatches ==
  ASSUME NEW s, Rooms(s)
  PROVE  Rooms(WithGraph(s)) /\ Matches(WithGraph(s))
<1> DEFINE w == WithGraph(s)
           adj == [i \in 1..Len(s) |-> {j \in 1..Len(s) \ {i} : Adjacent(s[i].cells, s[j].cells)}]
<1>1. s \in Seq(Room)
  BY DEF Rooms
<1>2. /\ Len(s) \in Nat /\ DOMAIN s = 1..Len(s)
      /\ \A i \in 1..Len(s) : s[i] \in Room
  BY <1>1, Elements
<1>3. w = [i \in 1..Len(s) |-> [s[i] EXCEPT !.graph = adj[i]]]
  BY <1>2 DEF WithGraph, BuildAdjacency
<1>4. ASSUME NEW i \in 1..Len(s)
      PROVE  /\ w[i] \in Room /\ w[i].id = s[i].id /\ w[i].cells = s[i].cells
             /\ w[i].graph = adj[i]
  <2>1. s[i] \in Room
    BY <1>2
  <2>2. adj[i] \subseteq Nat
    OBVIOUS
  <2>3. w[i] = [s[i] EXCEPT !.graph = adj[i]]
    BY <1>3
  <2> HIDE DEF adj, w
  <2> QED
    BY <2>1, <2>2, <2>3 DEF Room
<1>5. w \in Seq(Room) /\ DOMAIN w = 1..Len(s)
  <2>1. w \in [1..Len(s) -> Room]
    BY <1>3, <1>4
  <2> HIDE DEF w
  <2> QED
    BY <1>2, <2>1, Listed
<1>6. RoomIdsDiffer(w)
  <2> HIDE DEF w
  <2> QED
    BY <1>2, <1>4, <1>5 DEF Rooms, RoomIdsDiffer
<1>7. Matches(w)
  <2> SUFFICES ASSUME NEW i \in 1..Len(s), NEW j \in 1..Len(s), i # j
               PROVE  j \in w[i].graph <=> Adjacent(w[i].cells, w[j].cells)
    BY <1>5 DEF Matches
  <2>1. j \in adj[i] <=> Adjacent(s[i].cells, s[j].cells)
    OBVIOUS
  <2> HIDE DEF w, adj
  <2> QED
    BY <1>4, <2>1
<1> QED
  BY <1>5, <1>6, <1>7 DEF Rooms

\* A rename keeps the ids.
LEMMA RenameKeeps ==
  ASSUME NEW s, Rooms(s), NEW in, in.name \in Names
  PROVE  Rooms(Rename(s, in))
<1> DEFINE w == Rename(s, in)
<1>1. /\ Len(s) \in Nat /\ DOMAIN s = 1..Len(s)
      /\ \A i \in 1..Len(s) : s[i] \in Room
  BY Elements DEF Rooms
<1>2. w = [i \in 1..Len(s) |-> IF s[i].id = in.id THEN [s[i] EXCEPT !.name = in.name] ELSE s[i]]
  BY <1>1 DEF Rename
<1>3. ASSUME NEW i \in 1..Len(s)
      PROVE  w[i] \in Room /\ w[i].id = s[i].id
  <2>1. s[i] \in Room
    BY <1>1
  <2>2. w[i] = [s[i] EXCEPT !.name = in.name] \/ w[i] = s[i]
    BY <1>2
  <2> HIDE DEF w
  <2> QED
    BY <2>1, <2>2 DEF Room
<1>4. w \in Seq(Room) /\ DOMAIN w = 1..Len(s)
  <2>1. w \in [1..Len(s) -> Room]
    BY <1>2, <1>3
  <2> HIDE DEF w
  <2> QED
    BY <1>1, <2>1, Listed
<1>5. RoomIdsDiffer(w)
  <2> HIDE DEF w
  <2> QED
    BY <1>1, <1>3, <1>4 DEF Rooms, RoomIdsDiffer
<1> QED
  BY <1>4, <1>5 DEF Rooms

\* The rooms with an id among ids keep their ids, and none is left out.
LEMMA RoomsWithKeeps ==
  ASSUME NEW s, Rooms(s), NEW ids
  PROVE  /\ Rooms(RoomsWith(s, ids))
         /\ \A k \in DOMAIN RoomsWith(s, ids) :
              RoomsWith(s, ids)[k].id \in ids /\ RoomsWith(s, ids)[k].id \in IdsOf(s)
         /\ IdsOf(s) \cap ids # {} => 1 \in DOMAIN RoomsWith(s, ids)
<1> DEFINE S == {r \in Range(s) : r.id \in ids}
           w == RoomsWith(s, ids)
<1>1. s \in Seq(Room) /\ RoomIdsDiffer(s)
  BY DEF Rooms
<1>2. /\ Len(s) \in Nat /\ DOMAIN s = 1..Len(s)
      /\ \A i \in 1..Len(s) : s[i] \in Room
  BY <1>1, Elements
<1>3. w = Among(s, S)
  BY DEF RoomsWith
<1> HIDE DEF w
<1> HIDE DEF S
<1>4. PICK n \in Nat : \E f \in [1..n -> 1..Len(s)] : ListsOnce(Among(s, S), s, S, n, f)
  BY <1>1, AmongLists
<1>5. PICK f \in [1..n -> 1..Len(s)] : ListsOnce(w, s, S, n, f)
  BY <1>3, <1>4
<1>6. /\ w = [k \in 1..n |-> s[f[k]]]
      /\ \A k \in 1..n : s[f[k]] \in S
      /\ \A k, l \in 1..n : f[k] = f[l] => k = l
      /\ \A i \in 1..Len(s) : s[i] \in S => \E k \in 1..n : f[k] = i
  BY <1>5 DEF ListsOnce
<1> USE DEF S
<1>7. ASSUME NEW k \in 1..n
      PROVE  f[k] \in 1..Len(s) /\ w[k] = s[f[k]] /\ w[k] \in Room
  BY <1>2, <1>6
<1>8. w \in Seq(Room) /\ DOMAIN w = 1..n
  <2>1. w \in [1..n -> Room]
    BY <1>6, <1>7
  <2> QED
    BY <2>1, Listed
<1>9. RoomIdsDiffer(w)
  <2> SUFFICES ASSUME NEW k \in 1..n, NEW l \in 1..n, w[k].id = w[l].id PROVE k = l
    BY <1>8 DEF RoomIdsDiffer
  <2>1. s[f[k]].id = s[f[l]].id
    BY <1>7
  <2>2. f[k] = f[l]
    BY <1>1, <1>2, <1>7, <2>1 DEF RoomIdsDiffer
  <2> QED
    BY <1>6, <2>2
<1>10. ASSUME NEW k \in 1..n
      PROVE  w[k].id \in ids /\ w[k].id \in IdsOf(s)
  <2>1. s[f[k]] \in S
    BY <1>6
  <2> QED
    BY <1>2, <1>7, <2>1 DEF IdsOf
<1>11. ASSUME IdsOf(s) \cap ids # {}
      PROVE  1 \in 1..n
  <2>1. PICK i \in 1..Len(s) : s[i].id \in ids
    BY <1>2, <1>11 DEF IdsOf
  <2>2. s[i] \in S
    BY <1>2, <2>1 DEF Range
  <2>3. \E k \in 1..n : f[k] = i
    BY <1>6, <2>2
  <2> QED
    BY <2>3
<1>12. \A k \in DOMAIN w : w[k].id \in ids /\ w[k].id \in IdsOf(s)
  BY <1>8, <1>10
<1> HIDE DEF S
<1>13. IdsOf(s) \cap ids # {} => 1 \in DOMAIN w
  BY <1>8, <1>11
<1>14. Rooms(w)
  BY <1>8, <1>9 DEF Rooms
<1> QED
  BY <1>12, <1>13, <1>14 DEF w

\* A room with an id no room of the set has is added.
LEMMA AppendKeeps ==
  ASSUME NEW s, Rooms(s), NEW r \in Room, \A k \in DOMAIN s : s[k].id # r.id
  PROVE  /\ Rooms(Append(s, r))
         /\ \A k \in DOMAIN Append(s, r) : Append(s, r)[k].id = r.id \/ \E l \in DOMAIN s : Append(s, r)[k].id = s[l].id
<1> DEFINE w == Append(s, r)
<1>1. s \in Seq(Room) /\ RoomIdsDiffer(s)
  BY DEF Rooms
<1>2. Len(s) \in Nat /\ DOMAIN s = 1..Len(s)
  BY <1>1, Elements
<1>3. /\ w \in Seq(Room) /\ DOMAIN w = 1..(Len(s) + 1)
      /\ \A i \in 1..Len(s) : w[i] = s[i]
      /\ w[Len(s) + 1] = r
  BY <1>1
<1> HIDE DEF w
<1>4. ASSUME NEW i \in DOMAIN w
      PROVE  \/ i \in DOMAIN s /\ w[i] = s[i]
             \/ i = Len(s) + 1 /\ w[i] = r
  <2>1. i \in 1..(Len(s) + 1)
    BY <1>3
  <2>2. i \in 1..Len(s) \/ i = Len(s) + 1
    BY <1>2, <2>1
  <2> QED
    BY <1>2, <1>3, <2>2
<1>5. RoomIdsDiffer(w)
  BY <1>1, <1>4 DEF RoomIdsDiffer
<1>6. \A k \in DOMAIN w : w[k].id = r.id \/ \E l \in DOMAIN s : w[k].id = s[l].id
  BY <1>4
<1> QED
  BY <1>3, <1>5, <1>6 DEF Rooms, w

\* A merge keeps the id of one merged room and loses those of the others.
LEMMA MergeKeeps ==
  ASSUME NEW s, Rooms(s), NEW in,
         in.ids \in SUBSET IdsOf(s), Cardinality(in.ids) >= 2, in.name \in Names
  PROVE  Rooms(mergeRooms(s, in))
<1> DEFINE picked == RoomsWith(s, in.ids)
           rest == RoomsWith(s, IdsOf(s) \ in.ids)
           cells == Redraw(Union([i \in DOMAIN picked |-> picked[i].cells]))
           r == NewRoom(picked[1].id, in.name, cells)
<1>1. in.ids # {}
  <2>1. Cardinality({}) = 0
    BY FS_EmptySet
  <2> QED
    BY <2>1
<1>2. Rooms(picked) /\ 1 \in DOMAIN picked /\ picked[1].id \in in.ids
  <2>1. IdsOf(s) \cap in.ids # {}
    BY <1>1
  <2> QED
    BY <2>1, RoomsWithKeeps
<1>3. Rooms(rest) /\ \A k \in DOMAIN rest : rest[k].id \in IdsOf(s) \ in.ids
  BY RoomsWithKeeps
<1> HIDE DEF picked, rest
<1>4. \A i \in DOMAIN picked : picked[i] \in Room
  BY <1>2, Elements DEF Rooms
<1>5. Union([i \in DOMAIN picked |-> picked[i].cells]) \in Masks
  BY <1>4 DEF Union, Masks, Room
<1>6. cells \in Masks
  BY <1>5, RedrawAssumption
<1>7. picked[1].id \in Nat
  BY <1>2, <1>4 DEF Room
<1> HIDE DEF cells
<1>8. r \in Room /\ r.id = picked[1].id
  BY <1>6, <1>7, NewRoomIsRoom
<1> HIDE DEF r
<1>9. \A k \in DOMAIN rest : rest[k].id # r.id
  BY <1>2, <1>3, <1>8
<1>10. Rooms(Append(rest, r))
  BY <1>3, <1>8, <1>9, AppendKeeps
<1>11. mergeRooms(s, in) = Append(rest, r)
  BY DEF mergeRooms, picked, rest, r, cells
<1> QED
  BY <1>10, <1>11

\* The id given to a new room is above those of the set.
LEMMA NextIdIsNew ==
  ASSUME NEW s, Rooms(s)
  PROVE  nextRoomID(s) \in Nat /\ nextRoomID(s) \notin IdsOf(s)
<1> DEFINE T == IdsOf(s) \cup {0}
           h == [i \in 1..Len(s) |-> s[i].id]
<1>1. /\ Len(s) \in Nat /\ DOMAIN s = 1..Len(s)
      /\ \A i \in 1..Len(s) : s[i] \in Room
  BY Elements DEF Rooms
<1>2. h \in [1..Len(s) -> Nat]
  BY <1>1 DEF Room
<1>3. \A id \in IdsOf(s) : \E i \in 1..Len(s) : id = h[i]
  BY <1>1 DEF IdsOf
<1>4. PICK b \in Nat : \A i \in 1..Len(s) : h[i] <= b
  <2> HIDE DEF h
  <2> QED
    BY <1>1, <1>2, Bounded
<1> HIDE DEF h
<1>5. T \subseteq Nat /\ T # {} /\ \A t \in T : t <= b
  BY <1>2, <1>3, <1>4
<1> HIDE DEF T
<1>6. \E n \in T : \A m \in T : m <= n
  BY <1>5, Greatest
<1>7. Max(T) \in T /\ \A m \in T : Max(T) >= m
  <2>1. \E n \in T : \A m \in T : n >= m
    BY <1>5, <1>6
  <2> QED
    BY <2>1, MaxIsGreatest
<1>8. nextRoomID(s) = Max(T) + 1
  BY DEF nextRoomID, T
<1>9. Max(T) \in Nat
  BY <1>5, <1>7
<1>10. Max(T) + 1 \notin T
  BY <1>5, <1>7, <1>9
<1> QED
  BY <1>8, <1>9, <1>10 DEF T

\* A split replaces a room by two, the second with an id of its own.
LEMMA SplitKeeps ==
  ASSUME NEW s, Rooms(s), NEW in, in.id \in IdsOf(s), in.line \in Lines, in.name \in Names
  PROVE  Rooms(splitRoom(s, in))
<1> DEFINE target == CHOOSE r \in Range(s) : r.id = in.id
           rest == RoomsWith(s, IdsOf(s) \ {in.id})
           half == Halves(target.cells, in.line)
           a == NewRoom(in.id, target.name, Redraw(half[1]))
           b == NewRoom(nextRoomID(s), in.name, Redraw(half[2]))
<1>1. /\ DOMAIN s = 1..Len(s)
      /\ \A i \in 1..Len(s) : s[i] \in Room
  BY Elements DEF Rooms
<1>2. \E r \in Range(s) : r.id = in.id
  BY DEF IdsOf, Range
<1>3. target \in Range(s) /\ target.id = in.id
  BY <1>2
<1>4. Range(s) \subseteq Room
  BY <1>1 DEF Range
<1> HIDE DEF target
<1>5. target.name \in Names /\ target.cells \in Masks /\ in.id \in Nat
  BY <1>3, <1>4 DEF Room
<1>6. half[1] \in Masks /\ half[2] \in Masks
  BY <1>5, HalvesAssumption
<1> HIDE DEF half
<1>7. Redraw(half[1]) \in Masks /\ Redraw(half[2]) \in Masks
  BY <1>6, RedrawAssumption
<1>8. nextRoomID(s) \in Nat /\ nextRoomID(s) \notin IdsOf(s)
  BY NextIdIsNew
<1>9. Rooms(rest) /\ \A k \in DOMAIN rest : rest[k].id \in IdsOf(s) /\ rest[k].id # in.id
  <2>1. Rooms(rest) /\ \A k \in DOMAIN rest : rest[k].id \in IdsOf(s) \ {in.id} 
    BY RoomsWithKeeps
  <2> HIDE DEF rest
  <2> QED
    BY <2>1
<1>10. a \in Room /\ a.id = in.id
  BY <1>5, <1>7, NewRoomIsRoom
<1>11. b \in Room /\ b.id = nextRoomID(s)
  BY <1>7, <1>8, NewRoomIsRoom
<1>12. splitRoom(s, in) = rest \o <<a, b>>
  BY DEF splitRoom, half, target
<1> HIDE DEF rest, a, b
<1> DEFINE first == Append(rest, a)
<1>13. /\ Rooms(first)
       /\ \A k \in DOMAIN first : first[k].id = a.id \/ \E l \in DOMAIN rest : first[k].id = rest[l].id
  BY <1>9, <1>10, AppendKeeps
<1>14. Append(first, b) = rest \o <<a, b>>
  <2>1. rest \in Seq(Room)
    BY <1>9 DEF Rooms
  <2> QED
    BY <1>10, <1>11, <2>1
<1> HIDE DEF first
<1>15. \A k \in DOMAIN first : first[k].id # b.id
  <2> SUFFICES ASSUME NEW k \in DOMAIN first PROVE first[k].id \in IdsOf(s)
    BY <1>8, <1>11
  <2> QED
    BY <1>9, <1>10, <1>13
<1>16. Rooms(Append(first, b))
  BY <1>11, <1>13, <1>15, AppendKeeps
<1> QED
  BY <1>12, <1>14, <1>16

\* What an accepted request makes of a set of rooms has ids of its own and graphs that
\* match.
LEMMA EditedRooms ==
  ASSUME NEW s, Rooms(s), NEW in \in RoomRequests(s)
  PROVE  Rooms(Edited(s, in)) /\ Matches(Edited(s, in))
<1>1. \/ in \in [op : {"rename"}, id : IdsOf(s), name : Names]
      \/ in \in [op : {"merge"}, ids : {t \in SUBSET IdsOf(s) : Cardinality(t) >= 2}, name : Names]
      \/ in \in [op : {"split"}, id : IdsOf(s), line : Lines, name : Names]
  BY DEF RoomRequests
<1>2. CASE in \in [op : {"rename"}, id : IdsOf(s), name : Names]
  <2>1. Edited(s, in) = WithGraph(Rename(s, in))
    BY <1>2 DEF Edited
  <2>2. Rooms(Rename(s, in))
    BY <1>2, RenameKeeps
  <2> QED
    BY <2>1, <2>2, WithGraphMatches
<1>3. CASE in \in [op : {"merge"}, ids : {t \in SUBSET IdsOf(s) : Cardinality(t) >= 2}, name : Names]
  <2>1. Edited(s, in) = WithGraph(mergeRooms(s, in))
    BY <1>3 DEF Edited
  <2>2. in.ids \in SUBSET IdsOf(s) /\ Cardinality(in.ids) >= 2 /\ in.name \in Names
    BY <1>3
  <2>3. Rooms(mergeRooms(s, in))
    BY <2>2, MergeKeeps
  <2> QED
    BY <2>1, <2>3, WithGraphMatches
<1>4. CASE in \in [op : {"split"}, id : IdsOf(s), line : Lines, name : Names]
  <2>1. Edited(s, in) = WithGraph(splitRoom(s, in))
    BY <1>4 DEF Edited
  <2>2. in.id \in IdsOf(s) /\ in.line \in Lines /\ in.name \in Names
    BY <1>4
  <2>3. Rooms(splitRoom(s, in))
    BY <2>2, SplitKeeps
  <2> QED
    BY <2>1, <2>3, WithGraphMatches
<1> QED
  BY <1>1, <1>2, <1>3, <1>4

-----------------------------------------------------------------------------
(* Sets of zones.                                                          *)

\* A set of zones with numbers of their own.
Zones(s) == s \in Seq(Zone) /\ ZoneIdsDiffer(s)

\* The number given to a new zone is above those of its kind.
LEMMA NextNumberIsNew ==
  ASSUME NEW s, Zones(s), NEW kind
  PROVE  /\ NextMarkerID(s, kind) \in Nat
         /\ \A i \in DOMAIN s : s[i].kind = kind => s[i].num # NextMarkerID(s, kind)
<1> DEFINE V == {s[i].num : i \in {j \in DOMAIN s : s[j].kind = kind}}
           T == {-1} \cup V
           h == [i \in 1..Len(s) |-> s[i].num]
<1>1. /\ Len(s) \in Nat /\ DOMAIN s = 1..Len(s)
      /\ \A i \in 1..Len(s) : s[i] \in Zone
  BY Elements DEF Zones
<1>2. h \in [1..Len(s) -> Nat]
  BY <1>1 DEF Zone
<1>3. \A v \in V : \E i \in 1..Len(s) : v = h[i]
  BY <1>1
<1>4. PICK b \in Nat : \A i \in 1..Len(s) : h[i] <= b
  <2> HIDE DEF h
  <2> QED
    BY <1>1, <1>2, Bounded
<1>5. ASSUME NEW i \in DOMAIN s, s[i].kind = kind
      PROVE  s[i].num \in V
  BY <1>5
<1>6. NextMarkerID(s, kind) = Max(T) + 1
  BY DEF NextMarkerID
<1> HIDE DEF h, V
<1>7. V \subseteq Nat /\ \A v \in V : v <= b
  BY <1>2, <1>3, <1>4
<1>8. \E n \in T : \A m \in T : n >= m
  <2>1. CASE V = {}
    BY <2>1
  <2>2. CASE V # {}
    <3>1. PICK n \in V : \A m \in V : m <= n
      BY <1>7, <2>2, Greatest
    <3>2. n \in T /\ n \in Nat /\ \A m \in T : m = -1 \/ (m \in V /\ m \in Nat)
      BY <1>7, <3>1
    <3> QED
      BY <3>1, <3>2
  <2> QED
    BY <2>1, <2>2
<1>9. Max(T) \in T /\ \A m \in T : Max(T) >= m
  <2> HIDE DEF T
  <2> QED
    BY <1>8, MaxIsGreatest
<1>10. Max(T) = -1 \/ Max(T) \in Nat
  BY <1>7, <1>9
<1>11. Max(T) + 1 \in Nat /\ \A v \in V : v # Max(T) + 1
  BY <1>7, <1>9, <1>10
<1> QED
  BY <1>5, <1>6, <1>11

\* A zone is added with a number no zone of its kind has.
LEMMA AddKeeps ==
  ASSUME NEW s, Zones(s), NEW in, in.kind \in Kinds
  PROVE  Zones(addZone(s, in))
<1> DEFINE z == [kind |-> in.kind, num |-> NextMarkerID(s, in.kind), redrawn |-> FALSE]
           w == Append(s, z)
<1>1. /\ NextMarkerID(s, in.kind) \in Nat
      /\ \A i \in DOMAIN s : s[i].kind = in.kind => s[i].num # NextMarkerID(s, in.kind)
  BY NextNumberIsNew
<1>2. z \in Zone /\ \A i \in DOMAIN s : s[i].kind = z.kind => s[i].num # z.num
  BY <1>1 DEF Zone
<1>3. addZone(s, in) = w
  BY DEF addZone
<1> HIDE DEF z
<1>4. s \in Seq(Zone) /\ ZoneIdsDiffer(s)
  BY DEF Zones
<1>5. Len(s) \in Nat /\ DOMAIN s = 1..Len(s)
  BY <1>4, Elements
<1>6. /\ w \in Seq(Zone) /\ DOMAIN w = 1..(Len(s) + 1)
      /\ \A i \in 1..Len(s) : w[i] = s[i]
      /\ w[Len(s) + 1] = z
  BY <1>2, <1>4
<1> HIDE DEF w
<1>7. ASSUME NEW i \in DOMAIN w
      PROVE  \/ i \in DOMAIN s /\ w[i] = s[i]
             \/ i = Len(s) + 1 /\ w[i] = z
  <2>1. i \in 1..(Len(s) + 1)
    BY <1>6
  <2>2. i \in 1..Len(s) \/ i = Len(s) + 1
    BY <1>5, <2>1
  <2> QED
    BY <1>5, <1>6, <2>2
<1>8. ZoneIdsDiffer(w)
  BY <1>2, <1>4, <1>7 DEF ZoneIdsDiffer
<1> QED
  BY <1>3, <1>6, <1>8 DEF Zones

\* Redrawing zones keeps their kinds and numbers.
LEMMA UpdateKeeps ==
  ASSUME NEW s, Zones(s), NEW in
  PROVE  Zones(updateZone(s, in))
<1> DEFINE w == updateZone(s, in)
<1>1. /\ Len(s) \in Nat /\ DOMAIN s = 1..Len(s)
      /\ \A i \in 1..Len(s) : s[i] \in Zone
  BY Elements DEF Zones
<1>2. w = [i \in 1..Len(s) |-> IF IsZone(s[i], in) THEN [s[i] EXCEPT !.redrawn = TRUE] ELSE s[i]]
  BY <1>1 DEF updateZone
<1>3. ASSUME NEW i \in 1..Len(s)
      PROVE  w[i] \in Zone /\ w[i].kind = s[i].kind /\ w[i].num = s[i].num
  <2>1. s[i] \in Zone
    BY <1>1
  <2>2. w[i] = [s[i] EXCEPT !.redrawn = TRUE] \/ w[i] = s[i]
    BY <1>2
  <2> HIDE DEF w
  <2> QED
    BY <2>1, <2>2 DEF Zone
<1>4. w \in Seq(Zone) /\ DOMAIN w = 1..Len(s)
  <2>1. w \in [1..Len(s) -> Zone]
    BY <1>2, <1>3
  <2> HIDE DEF w
  <2> QED
    BY <1>1, <2>1, Listed
<1>5. ZoneIdsDiffer(w)
  <2> HIDE DEF w
  <2> QED
    BY <1>1, <1>3, <1>4 DEF Zones, ZoneIdsDiffer
<1> QED
  BY <1>4, <1>5 DEF Zones

\* Zones that stay keep their kinds and numbers.
LEMMA DeleteKeeps ==
  ASSUME NEW s, Zones(s), NEW in
  PROVE  Zones(deleteZone(s, in))
<1> DEFINE S == {z \in Range(s) : ~IsZone(z, in)}
           w == deleteZone(s, in)
<1>1. s \in Seq(Zone) /\ ZoneIdsDiffer(s)
  BY DEF Zones
<1>2. /\ Len(s) \in Nat /\ DOMAIN s = 1..Len(s)
      /\ \A i \in 1..Len(s) : s[i] \in Zone
  BY <1>1, Elements
<1>3. w = Among(s, S)
  BY DEF deleteZone
<1> HIDE DEF w, S
<1>4. PICK n \in Nat : \E f \in [1..n -> 1..Len(s)] : ListsOnce(Among(s, S), s, S, n, f)
  BY <1>1, AmongLists
<1>5. PICK f \in [1..n -> 1..Len(s)] : ListsOnce(w, s, S, n, f)
  BY <1>3, <1>4
<1>6. /\ w = [k \in 1..n |-> s[f[k]]]
      /\ \A k, l \in 1..n : f[k] = f[l] => k = l
  BY <1>5 DEF ListsOnce
<1>7. ASSUME NEW k \in 1..n
      PROVE  f[k] \in 1..Len(s) /\ w[k] = s[f[k]] /\ w[k] \in Zone
  BY <1>2, <1>6
<1>8. w \in Seq(Zone) /\ DOMAIN w = 1..n
  <2>1. w \in [1..n -> Zone]
    BY <1>6, <1>7
  <2> QED
    BY <2>1, Listed
<1>9. ZoneIdsDiffer(w)
  <2> SUFFICES ASSUME NEW k \in 1..n, NEW l \in 1..n, w[k].kind = w[l].kind, w[k].num = w[l].num PROVE k = l
    BY <1>8 DEF ZoneIdsDiffer
  <2>1. s[f[k]].kind = s[f[l]].kind /\ s[f[k]].num = s[f[l]].num
    BY <1>7
  <2>2. f[k] = f[l]
    BY <1>1, <1>2, <1>7, <2>1 DEF ZoneIdsDiffer
  <2> QED
    BY <1>6, <2>2
<1> QED
  BY <1>8, <1>9 DEF Zones, w

\* What an accepted request makes of a set of zones has numbers of its own.
LEMMA EditedZones ==
  ASSUME NEW s, Zones(s), NEW in \in ZoneRequests(s)
  PROVE  Zones(Edited(s, in))
<1>1. \/ in.op = "add" /\ in.kind \in Kinds
      \/ in.op = "update" \/ in.op = "delete"
  BY DEF ZoneRequests
<1>2. CASE in.op = "add" /\ in.kind \in Kinds
  BY <1>2, AddKeeps DEF Edited
<1>3. CASE in.op = "update"
  BY <1>3, UpdateKeeps DEF Edited
<1>4. CASE in.op = "delete"
  BY <1>4, DeleteKeeps DEF Edited
<1> QED
  BY <1>1, <1>2, <1>3, <1>4

-----------------------------------------------------------------------------
(* The inductive invariant.                                                *)

SetOf(doc) == IF doc = "rooms" THEN Seq(Room) ELSE Seq(Zone)

\* Sets whose ids differ and whose graphs match.
Good(doc, s) == IF doc = "rooms" THEN Rooms(s) /\ Matches(s) ELSE Zones(s)

Requests ==
  [op : {"rename"}, id : Nat, name : Names]
    \cup [op : {"merge"}, ids : SUBSET Nat, name : Names]
    \cup [op : {"split"}, id : Nat, line : Lines, name : Names]
    \cup [op : {"add"}, kind : Kinds]
    \cup [op : {"update", "delete"}, kind : Kinds, num : Nat]

Jobs ==
  [pc : {"mapid", "backup", "save", "submit", "retry"}, doc : Docs, in : Requests, home : Maps, uuid : Maps,
   set : Seq(Room) \cup Seq(Zone), copy : Seq(Room) \cup Seq(Zone)]

Typed ==
  /\ active \in Maps
  /\ file \in [rooms : [Maps -> Seq(Room)], zones : [Maps -> Seq(Zone)]]
  /\ backup \in [Docs -> Seq(Room) \cup Seq(Zone) \cup {Torn}]
  /\ job \in [Editors -> Jobs \cup {Idle}]
  /\ alone \in [Editors -> BOOLEAN]
  /\ edits \in 0..MaxEdits /\ faults \in 0..MaxFaults

\* What the robot holds is good, whichever map it is for.
FileGood == \A d \in Docs, m \in Maps : Good(d, file[d][m])

BackupFits == \A d \in Docs : backup[d] \in SetOf(d) \cup {Torn}

\* What an edit will submit is good, its copy is of its document, and a set of rooms has
\* had the id of its map since it was read.
Fit(j) ==
  /\ Good(j.doc, j.set)
  /\ j.copy \in SetOf(j.doc)
  /\ j.doc = "rooms" => j.pc # "mapid" /\ j.uuid = j.home

JobsFit == \A e \in Editors : Busy(e) => Fit(job[e])

\* What an edit by itself will submit is made of the set held, until that has been
\* submitted once, and from its backup on the set held has a backup.
Fresh(j) == j.set = Edited(Held(j.doc), j.in)
Kept(j) == backup[j.doc] = Held(j.doc)
InTime(j) ==
  /\ j.uuid = active
  /\ j.pc \in {"mapid", "backup"} => Fresh(j)
  /\ j.pc = "save" => Fresh(j) /\ j.copy = Held(j.doc)
  /\ j.pc = "submit" => Fresh(j) /\ Kept(j)
  /\ j.pc = "retry" => Held(j.doc) = j.set \/ (Fresh(j) /\ Kept(j))

AloneInTime == \A e \in Editors : Busy(e) /\ alone[e] => Others(e) = {} /\ InTime(job[e])

IInv == Typed /\ FileGood /\ BackupFits /\ JobsFit /\ AloneInTime

\* Good sets are sets of their document.
LEMMA GoodIsSet ==
  ASSUME NEW d \in Docs, NEW s, Good(d, s)
  PROVE  s \in SetOf(d) /\ s \in Seq(Room) \cup Seq(Zone)
BY DEF Good, SetOf, Rooms, Zones

\* Every set of a document is in one of the two kinds.
LEMMA SetOfKind ==
  ASSUME NEW d \in Docs, NEW s \in SetOf(d)
  PROVE  s \in Seq(Room) \cup Seq(Zone)
BY DEF SetOf

\* A job is idle or an edit.
LEMMA JobKinds ==
  ASSUME Typed, NEW e \in Editors
  PROVE  /\ Busy(e) <=> job[e] \in Jobs
         /\ ~Busy(e) <=> job[e] = Idle
         /\ Idle \notin Jobs
<1>1. Idle.pc = "idle"
  BY DEF Idle
<1>2. \A j \in Jobs : j.pc # "idle"
  BY DEF Jobs
<1> QED
  BY <1>1, <1>2 DEF Typed, Busy

\* A step that gives one editor another job leaves the others theirs.
Moves(e, j) ==
  /\ job' \in [Editors -> Jobs \cup {Idle}]
  /\ job'[e] = j
  /\ \A f \in Editors : f # e => job'[f] = job[f]

LEMMA JobMoves ==
  ASSUME Typed, NEW e \in Editors, NEW j \in Jobs \cup {Idle}, job' = [job EXCEPT ![e] = j]
  PROVE  Moves(e, j)
BY DEF Typed, Moves

\* An edit by itself has no other beside it.
LEMMA OneAlone ==
  ASSUME AloneInTime, NEW e \in Editors, NEW f \in Editors, Busy(e), Busy(f), alone[f]
  PROVE  f = e
BY DEF AloneInTime, Others

\* What the robot holds after an answer or the lack of one: the set of the edit, where the
\* map of the edit is the active one.
LEMMA StoredSets ==
  ASSUME Typed, NEW e \in Editors, Busy(e)
  PROVE  /\ Stored(e) \in [rooms : [Maps -> Seq(Room)], zones : [Maps -> Seq(Zone)]]
              \/ job[e].set \notin SetOf(job[e].doc)
         /\ \A d \in Docs, m \in Maps :
              Stored(e)[d][m] = IF job[e].uuid = active /\ d = job[e].doc /\ m = active THEN job[e].set ELSE file[d][m]
         /\ job[e].uuid # active => Stored(e) = file
         /\ job[e].set = Held(job[e].doc) => Stored(e) = file
<1> DEFINE j == job[e]
           g == [file[j.doc] EXCEPT ![active] = j.set]
<1>1. j \in Jobs
  BY JobKinds
<1>2. j.doc \in Docs /\ j.doc \in {"rooms", "zones"}
  BY <1>1 DEF Jobs, Docs
<1>3. /\ active \in Maps
      /\ file \in [rooms : [Maps -> Seq(Room)], zones : [Maps -> Seq(Zone)]]
  BY DEF Typed
<1>4. Stored(e) = IF j.uuid = active THEN [file EXCEPT ![j.doc] = g] ELSE file
  BY DEF Stored
<1> HIDE DEF j
<1>5. /\ \A m \in Maps : g[m] = IF m = active THEN j.set ELSE file[j.doc][m]
      /\ j.set = file[j.doc][active] => g = file[j.doc]
      /\ j.set \in SetOf(j.doc) => /\ j.doc = "rooms" => g \in [Maps -> Seq(Room)]
                                   /\ j.doc = "zones" => g \in [Maps -> Seq(Zone)]
  BY <1>2, <1>3 DEF SetOf
<1> HIDE DEF g
<1>6. Stored(e) \in [rooms : [Maps -> Seq(Room)], zones : [Maps -> Seq(Zone)]] \/ j.set \notin SetOf(j.doc)
  BY <1>2, <1>3, <1>4, <1>5
<1>7. ASSUME NEW d \in Docs, NEW m \in Maps
      PROVE  Stored(e)[d][m] = IF j.uuid = active /\ d = j.doc /\ m = active THEN j.set ELSE file[d][m]
  <2>1. d \in {"rooms", "zones"}
    BY DEF Docs
  <2> QED
    BY <1>2, <1>3, <1>4, <1>5, <2>1
<1>8. j.set = Held(j.doc) => Stored(e) = file
  BY <1>2, <1>3, <1>4, <1>5 DEF Held
<1>9. j.uuid # active => Stored(e) = file
  BY <1>4
<1> QED
  BY <1>6, <1>7, <1>8, <1>9 DEF j

\* What is held is good.
LEMMA HeldIsGood ==
  ASSUME Typed, FileGood, NEW d \in Docs
  PROVE  Good(d, Held(d)) /\ Held(d) \in SetOf(d)
<1>1. Good(d, Held(d))
  BY DEF Typed, FileGood, Held
<1> QED
  BY <1>1, GoodIsSet

\* Requests the handlers accept are requests.
LEMMA RequestsAre ==
  ASSUME Typed, FileGood
  PROVE  RoomRequests(Held("rooms")) \subseteq Requests /\ ZoneRequests(Held("zones")) \subseteq Requests
<1>1. Rooms(Held("rooms")) /\ Zones(Held("zones"))
  BY HeldIsGood DEF Docs, Good
<1>2. ASSUME NEW s, Rooms(s)
      PROVE  RoomRequests(s) \subseteq Requests
  <2>1. IdsOf(s) \subseteq Nat
    <3>1. DOMAIN s = 1..Len(s) /\ \A i \in 1..Len(s) : s[i] \in Room
      BY <1>2, Elements DEF Rooms
    <3> QED
      BY <3>1 DEF IdsOf, Room
  <2> QED
    BY <2>1 DEF RoomRequests, Requests
<1>3. ASSUME NEW s, Zones(s)
      PROVE  ZoneRequests(s) \subseteq Requests
  <2>1. {s[i].num : i \in DOMAIN s} \subseteq Nat
    <3>1. DOMAIN s = 1..Len(s) /\ \A i \in 1..Len(s) : s[i] \in Zone
      BY <1>3, Elements DEF Zones
    <3> QED
      BY <3>1 DEF Zone
  <2> QED
    BY <2>1 DEF ZoneRequests, Requests
<1> QED
  BY <1>1, <1>2, <1>3

\* The set made of what is held is good.
LEMMA EditedIsGood ==
  ASSUME Typed, FileGood, NEW d \in Docs,
         NEW in \in IF d = "rooms" THEN RoomRequests(Held(d)) ELSE ZoneRequests(Held(d))
  PROVE  Good(d, Edited(Held(d), in)) /\ in \in Requests
<1>1. Good(d, Held(d))
  BY HeldIsGood
<1>2. CASE d = "rooms"
  <2>1. Rooms(Held(d)) /\ in \in RoomRequests(Held(d))
    BY <1>1, <1>2 DEF Good
  <2>2. Rooms(Edited(Held(d), in)) /\ Matches(Edited(Held(d), in))
    BY <2>1, EditedRooms
  <2> QED
    BY <1>2, <2>1, <2>2, RequestsAre DEF Good
<1>3. CASE d # "rooms"
  <2>1. d = "zones"
    BY <1>3 DEF Docs
  <2>2. Zones(Held(d)) /\ in \in ZoneRequests(Held(d))
    BY <1>1, <1>3 DEF Good
  <2>3. Zones(Edited(Held(d), in))
    BY <2>2, EditedZones
  <2> QED
    BY <1>3, <2>1, <2>2, <2>3, RequestsAre DEF Good
<1> QED
  BY <1>2, <1>3

-----------------------------------------------------------------------------
(* The invariant holds initially and is kept by every step.                *)

LEMMA InitIInv == Init => IInv
<1> SUFFICES ASSUME Init PROVE IInv
  OBVIOUS
<1>1. file["zones"] = FirstZones /\ file["rooms"] = [m \in Maps |-> WithGraph(FirstRooms[m])]
  BY DEF Init
<1>2. FileGood
  <2> SUFFICES ASSUME NEW d \in Docs, NEW m \in Maps PROVE Good(d, file[d][m])
    BY DEF FileGood
  <2>1. Rooms(FirstRooms[m]) /\ Zones(FirstZones[m])
    BY DrawnAssumption DEF Rooms, Zones
  <2>2. Rooms(WithGraph(FirstRooms[m])) /\ Matches(WithGraph(FirstRooms[m]))
    BY <2>1, WithGraphMatches
  <2>3. CASE d = "rooms"
    BY <1>1, <2>2, <2>3 DEF Good
  <2>4. CASE d # "rooms"
    BY <1>1, <2>1, <2>4 DEF Good, Docs
  <2> QED
    BY <2>3, <2>4
<1>3. Typed
  <2>1. \A m \in Maps : WithGraph(FirstRooms[m]) \in Seq(Room)
    BY <1>1, <1>2 DEF FileGood, Good, Docs, Rooms
  <2>2. file \in [rooms : [Maps -> Seq(Room)], zones : [Maps -> Seq(Zone)]]
    BY <2>1, DrawnAssumption DEF Init
  <2>3. backup \in [Docs -> Seq(Room) \cup Seq(Zone) \cup {Torn}]
    BY DEF Init
  <2>4. job \in [Editors -> Jobs \cup {Idle}] /\ alone \in [Editors -> BOOLEAN]
    BY DEF Init
  <2>5. edits \in 0..MaxEdits /\ faults \in 0..MaxFaults
    BY BoundsAssumption DEF Init
  <2> QED
    BY <2>2, <2>3, <2>4, <2>5 DEF Typed, Init
<1>4. BackupFits
  BY DEF Init, BackupFits, SetOf
<1>5. \A e \in Editors : ~Busy(e)
  BY DEF Init, Busy, Idle
<1> QED
  BY <1>2, <1>3, <1>4, <1>5 DEF IInv, JobsFit, AloneInTime

\* An edit begins.
LEMMA BeginKeeps ==
  ASSUME IInv, NEW e \in Editors, NEW d \in Docs, NEW in, Begin(e, d, in)
  PROVE  IInv'
<1> DEFINE j == [pc |-> FirstStep(d), doc |-> d, in |-> in, home |-> active, uuid |-> active,
                 set |-> Edited(Held(d), in), copy |-> <<>>]
<1>1. Typed /\ FileGood /\ BackupFits /\ JobsFit /\ AloneInTime
  BY DEF IInv
<1>2. /\ ~Busy(e) /\ edits < MaxEdits /\ edits' = edits + 1
      /\ in \in (IF d = "rooms" THEN RoomRequests(Held(d)) ELSE ZoneRequests(Held(d)))
      /\ job' = [job EXCEPT ![e] = j]
      /\ alone' = [f \in Editors |-> IF f = e THEN Others(e) = {} ELSE alone[f] /\ ~Busy(f)]
      /\ UNCHANGED <<active, file, backup, faults>>
  BY DEF Begin
<1>3. Good(d, Edited(Held(d), in)) /\ in \in Requests
  BY <1>1, <1>2, EditedIsGood
<1>4. <<>> \in SetOf(d) /\ <<>> \in Seq(Room)
  BY DEF SetOf
<1>5. active \in Maps /\ FirstStep(d) \in {"mapid", "backup"} /\ (d = "rooms" => FirstStep(d) = "backup")
  BY <1>1 DEF Typed, FirstStep
<1>6. Edited(Held(d), in) \in Seq(Room) \cup Seq(Zone)
  BY <1>3, GoodIsSet
<1>7. /\ j \in Jobs /\ j.pc = FirstStep(d) /\ j.doc = d /\ j.in = in /\ j.home = active /\ j.uuid = active
      /\ j.set = Edited(Held(d), in) /\ j.copy = <<>>
  BY <1>3, <1>4, <1>5, <1>6 DEF Jobs
<1> HIDE DEF j
<1>8. Moves(e, j)
  BY <1>1, <1>2, <1>7, JobMoves
<1>9. Typed'
  <2>1. alone' \in [Editors -> BOOLEAN]
    BY <1>1, <1>2 DEF Typed
  <2>2. edits' \in 0..MaxEdits
    BY <1>1, <1>2, BoundsAssumption DEF Typed
  <2> QED
    BY <1>1, <1>2, <1>8, <2>1, <2>2 DEF Typed, Moves
<1>10. FileGood' /\ BackupFits'
  BY <1>1, <1>2 DEF FileGood, BackupFits
<1>11. Fit(j)
  BY <1>3, <1>4, <1>5, <1>7 DEF Fit
<1>12. ASSUME NEW f \in Editors, Busy(f)'
       PROVE  Fit(job'[f])
  BY <1>1, <1>8, <1>11, <1>12 DEF Moves, JobsFit, Busy
<1>13. JobsFit'
  BY <1>12 DEF JobsFit, Fit, Good, Rooms, Matches, RoomIdsDiffer, Zones, ZoneIdsDiffer
<1>14. ASSUME NEW f \in Editors, Busy(f)', alone'[f]
       PROVE  Others(f)' = {} /\ InTime(job[f])'
  <2>1. f = e
    <3>1. f # e => Busy(f)
      BY <1>8, <1>14 DEF Moves, Busy
    <3> QED
      BY <1>2, <1>14, <3>1
  <2>2. Others(e) = {}
    BY <1>2, <1>14, <2>1
  <2>3. Others(f)' = {}
    BY <1>8, <2>1, <2>2 DEF Others, Moves, Busy
  <2>4. Held(d)' = Held(d) /\ active' = active
    BY <1>2 DEF Held
  <2>5. job'[f] = j
    BY <1>8, <2>1 DEF Moves
  <2>6. InTime(job[f])'
    BY <1>5, <1>7, <2>4, <2>5 DEF InTime, Fresh
  <2> QED
    BY <2>3, <2>6
<1>15. AloneInTime'
  BY <1>14 DEF AloneInTime
<1> QED
  BY <1>9, <1>10, <1>13, <1>15 DEF IInv

\* A step of an edit keeps the invariant if what it leaves of that edit fits, and is in
\* time where it was alone: no other edit is concerned.
LEMMA StepKeeps ==
  ASSUME IInv, NEW e \in Editors, Busy(e), NEW j \in Jobs \cup {Idle}, Moves(e, j), alone' = alone,
         Typed', FileGood', BackupFits',
         j # Idle => Fit(j),
         j # Idle /\ alone[e] => InTime(job[e])'
  PROVE  IInv'
<1>1. Typed /\ JobsFit /\ AloneInTime
  BY DEF IInv
<1>2. job'[e] = j
  BY DEF Moves
<1>3. Busy(e)' => j # Idle
  BY <1>2 DEF Busy, Idle
<1>4. ASSUME NEW f \in Editors, Busy(f)'
      PROVE  Fit(job'[f])
  <2>1. CASE f = e
    BY <1>2, <1>3, <1>4, <2>1
  <2>2. CASE f # e
    BY <1>1, <1>4, <2>2 DEF Moves, JobsFit, Busy
  <2> QED
    BY <2>1, <2>2
<1>5. JobsFit'
  BY <1>4 DEF JobsFit, Fit, Good, Rooms, Matches, RoomIdsDiffer, Zones, ZoneIdsDiffer
<1>6. ASSUME NEW f \in Editors, Busy(f)', alone'[f]
      PROVE  Others(f)' = {} /\ InTime(job[f])'
  <2>1. f = e
    <3>1. f # e => Busy(f)
      BY <1>6 DEF Moves, Busy
    <3> QED
      BY <1>1, <1>6, <3>1, OneAlone
  <2>2. Others(e) = {}
    BY <1>1, <1>6, <2>1 DEF AloneInTime
  <2>3. Others(f)' = {}
    BY <2>1, <2>2 DEF Others, Moves, Busy
  <2>4. InTime(job[f])'
    BY <1>3, <1>6, <2>1
  <2> QED
    BY <2>3, <2>4
<1>7. AloneInTime'
  BY <1>6 DEF AloneInTime
<1> QED
  BY <1>5, <1>7 DEF IInv

\* What is known of an edit in progress.
LEMMA InProgress ==
  ASSUME IInv, NEW e \in Editors, Busy(e)
  PROVE  /\ job[e] \in Jobs /\ Fit(job[e])
         /\ job[e].doc \in Docs /\ job[e].home \in Maps /\ job[e].uuid \in Maps
         /\ alone[e] => Others(e) = {} /\ InTime(job[e])
BY JobKinds DEF IInv, JobsFit, AloneInTime, Jobs

LEMMA ReadMapIDKeeps ==
  ASSUME IInv, NEW e \in Editors, ReadMapID(e)
  PROVE  IInv'
<1> DEFINE j == [job[e] EXCEPT !.pc = "backup", !.uuid = active]
<1>1. Typed /\ FileGood /\ BackupFits
  BY DEF IInv
<1>2. job[e].pc = "mapid" /\ Busy(e) /\ job' = [job EXCEPT ![e] = j]
      /\ UNCHANGED <<active, file, backup, alone, edits, faults>>
  BY DEF ReadMapID, Busy
<1>3. /\ job[e] \in Jobs /\ Fit(job[e])
      /\ job[e].doc \in Docs
      /\ alone[e] => InTime(job[e])
  BY <1>2, InProgress
<1>4. /\ j \in Jobs /\ j.pc = "backup" /\ j.uuid = active
      /\ j.doc = job[e].doc /\ j.in = job[e].in /\ j.set = job[e].set /\ j.copy = job[e].copy
  BY <1>1, <1>3 DEF Jobs, Typed
<1> HIDE DEF j
<1>5. Moves(e, j)
  BY <1>1, <1>2, <1>4, JobMoves
<1>6. Typed' /\ FileGood' /\ BackupFits'
  BY <1>1, <1>2, <1>5 DEF Typed, Moves, FileGood, BackupFits
<1>7. job[e].doc # "rooms" /\ Fit(j)
  BY <1>2, <1>3, <1>4 DEF Fit
<1>8. alone[e] => InTime(job[e])'
  <2>0. PICK d \in Docs : d = job[e].doc
    BY <1>3
  <2>1. job'[e] = j /\ Held(d)' = Held(d) /\ active' = active
    BY <1>2, <1>5 DEF Moves, Held
  <2> QED
    BY <1>2, <1>3, <1>4, <2>0, <2>1 DEF InTime, Fresh
<1> QED
  BY <1>2, <1>4, <1>5, <1>6, <1>7, <1>8, StepKeeps

LEMMA BackupReadKeeps ==
  ASSUME IInv, NEW e \in Editors, BackupRead(e)
  PROVE  IInv'
<1> DEFINE j == [job[e] EXCEPT !.pc = "save", !.copy = Snapshot(e)]
<1>1. Typed /\ FileGood /\ BackupFits
  BY DEF IInv
<1>2. job[e].pc = "backup" /\ Busy(e) /\ job' = [job EXCEPT ![e] = j]
      /\ UNCHANGED <<active, file, backup, alone, edits, faults>>
  BY DEF BackupRead, Busy
<1>3. /\ job[e] \in Jobs /\ Fit(job[e])
      /\ job[e].doc \in Docs
      /\ alone[e] => InTime(job[e])
  BY <1>2, InProgress
<1>4. Snapshot(e) = Held(job[e].doc) /\ Snapshot(e) \in SetOf(job[e].doc)
  BY <1>1, <1>3, HeldIsGood DEF Snapshot
<1>5. Snapshot(e) \in Seq(Room) \cup Seq(Zone)
  BY <1>3, <1>4, SetOfKind
<1>6. /\ j \in Jobs /\ j.pc = "save" /\ j.uuid = job[e].uuid /\ j.home = job[e].home
      /\ j.doc = job[e].doc /\ j.in = job[e].in /\ j.set = job[e].set /\ j.copy = Snapshot(e)
  BY <1>3, <1>5 DEF Jobs
<1> HIDE DEF j
<1>7. Moves(e, j)
  BY <1>1, <1>2, <1>6, JobMoves
<1>8. Typed' /\ FileGood' /\ BackupFits'
  BY <1>1, <1>2, <1>7 DEF Typed, Moves, FileGood, BackupFits
<1>9. Fit(j)
  BY <1>2, <1>3, <1>4, <1>6 DEF Fit
<1>10. alone[e] => InTime(job[e])'
  <2>0. PICK d \in Docs : d = job[e].doc
    BY <1>3
  <2>1. job'[e] = j /\ Held(d)' = Held(d) /\ active' = active
    BY <1>2, <1>7 DEF Moves, Held
  <2> QED
    BY <1>2, <1>3, <1>4, <1>6, <2>0, <2>1 DEF InTime, Fresh
<1> QED
  BY <1>2, <1>6, <1>7, <1>8, <1>9, <1>10, StepKeeps

LEMMA BackupWriteKeeps ==
  ASSUME IInv, NEW e \in Editors, BackupWrite(e)
  PROVE  IInv'
<1> DEFINE j == [job[e] EXCEPT !.pc = "submit"]
<1>1. Typed /\ FileGood /\ BackupFits
  BY DEF IInv
<1>2. job[e].pc = "save" /\ Busy(e) /\ job' = [job EXCEPT ![e] = j]
      /\ backup' = [backup EXCEPT ![job[e].doc] = job[e].copy]
      /\ UNCHANGED <<active, file, alone, edits, faults>>
  BY DEF BackupWrite, BackupPath, Busy
<1>3. /\ job[e] \in Jobs /\ Fit(job[e])
      /\ job[e].doc \in Docs
      /\ alone[e] => InTime(job[e])
  BY <1>2, InProgress
<1>4. /\ j \in Jobs /\ j.pc = "submit" /\ j.uuid = job[e].uuid /\ j.home = job[e].home
      /\ j.doc = job[e].doc /\ j.in = job[e].in /\ j.set = job[e].set /\ j.copy = job[e].copy
  BY <1>3 DEF Jobs
<1>5. job[e].copy \in SetOf(job[e].doc) /\ job[e].copy \in Seq(Room) \cup Seq(Zone)
  BY <1>3, SetOfKind DEF Fit
<1> HIDE DEF j
<1>6. Moves(e, j)
  BY <1>1, <1>2, <1>4, JobMoves
<1>7. /\ backup' \in [Docs -> Seq(Room) \cup Seq(Zone) \cup {Torn}]
      /\ backup'[job[e].doc] = job[e].copy
      /\ \A d \in Docs : d # job[e].doc => backup'[d] = backup[d]
  BY <1>1, <1>2, <1>3, <1>5 DEF Typed
<1>8. Typed' /\ FileGood'
  BY <1>1, <1>2, <1>6, <1>7 DEF Typed, Moves, FileGood
<1>9. BackupFits'
  BY <1>1, <1>5, <1>7 DEF BackupFits
<1>10. Fit(j)
  BY <1>2, <1>3, <1>4 DEF Fit
<1>11. alone[e] => InTime(job[e])'
  <2>0. PICK d \in Docs : d = job[e].doc
    BY <1>3
  <2>1. job'[e] = j /\ Held(d)' = Held(d) /\ active' = active
    BY <1>2, <1>6 DEF Moves, Held
  <2> QED
    BY <1>2, <1>3, <1>4, <1>7, <2>0, <2>1 DEF InTime, Fresh, Kept
<1> QED
  BY <1>2, <1>4, <1>6, <1>8, <1>9, <1>10, <1>11, StepKeeps

\* An edit that ends before its submission leaves a backup that is whole or torn.
LEMMA AbandonKeeps ==
  ASSUME IInv, NEW e \in Editors, Abandon(e)
  PROVE  IInv'
<1>1. Typed /\ FileGood /\ BackupFits
  BY DEF IInv
<1>2. /\ Busy(e) /\ job' = [job EXCEPT ![e] = Idle]
      /\ backup' = backup \/ backup' = [backup EXCEPT ![job[e].doc] = Torn]
      /\ faults < MaxFaults /\ faults' = faults + 1
      /\ UNCHANGED <<active, file, alone, edits>>
  BY DEF Abandon, BackupPath, Busy
<1>3. Moves(e, Idle)
  BY <1>1, <1>2, JobMoves
<1>4. faults' \in 0..MaxFaults
  BY <1>1, <1>2, BoundsAssumption DEF Typed
<1>5. /\ backup' \in [Docs -> Seq(Room) \cup Seq(Zone) \cup {Torn}]
      /\ BackupFits'
  BY <1>1, <1>2 DEF Typed, BackupFits
<1>6. Typed' /\ FileGood'
  BY <1>1, <1>2, <1>3, <1>4, <1>5 DEF Typed, Moves, FileGood
<1> QED
  BY <1>2, <1>3, <1>5, <1>6, StepKeeps

\* What is held stays good whether or not the set of an edit is stored.
LEMMA AnswerKeepsFile ==
  ASSUME IInv, NEW e \in Editors, Busy(e), file' \in {file, Stored(e)}, active' = active
  PROVE  /\ file' \in [rooms : [Maps -> Seq(Room)], zones : [Maps -> Seq(Zone)]]
         /\ FileGood'
<1>1. Typed /\ FileGood
  BY DEF IInv
<1>2. job[e].doc \in Docs /\ Good(job[e].doc, job[e].set)
  BY InProgress DEF Fit
<1>3. job[e].set \in SetOf(job[e].doc)
  BY <1>2, GoodIsSet
<1>4. file' \in [rooms : [Maps -> Seq(Room)], zones : [Maps -> Seq(Zone)]]
  BY <1>1, <1>3, StoredSets DEF Typed
<1>5. ASSUME NEW d \in Docs, NEW m \in Maps
      PROVE  Good(d, file'[d][m])
  <2>1. Good(d, file[d][m])
    BY <1>1 DEF FileGood
  <2>2. CASE file' = file
    BY <2>1, <2>2
  <2>3. CASE file' = Stored(e)
    <3>1. file'[d][m] = IF job[e].uuid = active /\ d = job[e].doc /\ m = active THEN job[e].set ELSE file[d][m]
      BY <1>1, <2>3, StoredSets
    <3> QED
      BY <1>2, <2>1, <3>1
  <2> QED
    BY <2>2, <2>3
<1>6. FileGood'
  BY <1>5 DEF FileGood, Good, Rooms, Matches, RoomIdsDiffer, Zones, ZoneIdsDiffer
<1> QED
  BY <1>4, <1>6

LEMMA SubmitKeeps ==
  ASSUME IInv, NEW e \in Editors, Submit(e)
  PROVE  IInv'
<1>1. Typed /\ BackupFits
  BY DEF IInv
<1>2. Busy(e) /\ file' = Stored(e) /\ job' = [job EXCEPT ![e] = Idle]
      /\ UNCHANGED <<active, backup, alone, edits, faults>>
  BY DEF Submit, Busy
<1>3. Moves(e, Idle)
  BY <1>1, <1>2, JobMoves
<1>4. file' \in [rooms : [Maps -> Seq(Room)], zones : [Maps -> Seq(Zone)]] /\ FileGood'
  BY <1>2, AnswerKeepsFile
<1>5. Typed' /\ BackupFits'
  BY <1>1, <1>2, <1>3, <1>4 DEF Typed, Moves, BackupFits
<1> QED
  BY <1>2, <1>3, <1>4, <1>5, StepKeeps

\* A set that is submitted again has either been stored or not: the edit is in time for both.
LEMMA UnansweredKeeps ==
  ASSUME IInv, NEW e \in Editors, Unanswered(e)
  PROVE  IInv'
<1> DEFINE j == [job[e] EXCEPT !.pc = "retry"]
<1>1. Typed /\ BackupFits
  BY DEF IInv
<1>2. Busy(e) /\ file' \in {file, Stored(e)} /\ faults < MaxFaults /\ faults' = faults + 1
      /\ UNCHANGED <<active, backup, alone, edits>>
  BY DEF Unanswered, Busy
<1>3. file' \in [rooms : [Maps -> Seq(Room)], zones : [Maps -> Seq(Zone)]] /\ FileGood'
  BY <1>2, AnswerKeepsFile
<1>4. BackupFits' /\ faults' \in 0..MaxFaults
  BY <1>1, <1>2, BoundsAssumption DEF Typed, BackupFits
<1>5. CASE job' = [job EXCEPT ![e] = Idle]
  <2>1. Moves(e, Idle)
    BY <1>1, <1>5, JobMoves
  <2>2. Typed'
    BY <1>1, <1>2, <1>3, <1>4, <2>1 DEF Typed, Moves
  <2> QED
    BY <1>2, <1>3, <1>4, <2>1, <2>2, StepKeeps
<1>6. CASE job[e].pc = "submit" /\ job' = [job EXCEPT ![e] = j]
  <2>1. /\ job[e] \in Jobs /\ Fit(job[e])
        /\ job[e].doc \in Docs
        /\ alone[e] => InTime(job[e])
    BY <1>2, InProgress
  <2>2. /\ j \in Jobs /\ j.pc = "retry" /\ j.uuid = job[e].uuid /\ j.home = job[e].home
        /\ j.doc = job[e].doc /\ j.in = job[e].in /\ j.set = job[e].set /\ j.copy = job[e].copy
    BY <2>1 DEF Jobs
  <2> HIDE DEF j
  <2>3. Moves(e, j)
    BY <1>1, <1>6, <2>2, JobMoves
  <2>4. Typed'
    BY <1>1, <1>2, <1>3, <1>4, <2>3 DEF Typed, Moves
  <2>5. Fit(j)
    BY <1>6, <2>1, <2>2 DEF Fit
  <2>6. alone[e] => InTime(job[e])'
    <3> SUFFICES ASSUME alone[e] PROVE InTime(job[e])'
      OBVIOUS
    <3>1. job[e].uuid = active /\ Fresh(job[e]) /\ Kept(job[e])
      BY <1>6, <2>1 DEF InTime
    <3>2. job'[e] = j /\ active' = active /\ backup' = backup
      BY <1>2, <2>3 DEF Moves
    <3>0. PICK d \in Docs : d = job[e].doc
      BY <2>1
    <3>3. CASE file' = file
      <4>1. Held(d)' = Held(d)
        BY <3>2, <3>3 DEF Held
      <4> QED
        BY <2>2, <3>0, <3>1, <3>2, <4>1 DEF InTime, Fresh, Kept
    <3>4. CASE file' = Stored(e)
      <4>1. active \in Maps
        BY <1>1 DEF Typed
      <4>2. file'[d][active] = j.set
        BY <1>1, <1>2, <2>1, <2>2, <3>0, <3>1, <3>4, <4>1, StoredSets
      <4>3. Held(d)' = j.set
        BY <3>2, <4>2 DEF Held
      <4> QED
        BY <2>2, <3>0, <3>1, <3>2, <4>3 DEF InTime
    <3> QED
      BY <1>2, <3>3, <3>4
  <2> QED
    BY <1>2, <1>3, <1>4, <2>2, <2>3, <2>4, <2>5, <2>6, StepKeeps
<1> QED
  BY <1>5, <1>6 DEF Unanswered

\* The robot takes up another map: no edit has had it to itself.
LEMMA SwitchMapKeeps ==
  ASSUME IInv, NEW m \in Maps, SwitchMap(m)
  PROVE  IInv'
<1>1. Typed /\ FileGood /\ BackupFits /\ JobsFit
  BY DEF IInv
<1>2. /\ active' = m /\ alone' = [e \in Editors |-> FALSE] /\ faults < MaxFaults /\ faults' = faults + 1
      /\ UNCHANGED <<file, backup, job, edits>>
  BY DEF SwitchMap
<1>3. Typed'
  BY <1>1, <1>2, BoundsAssumption DEF Typed
<1>4. FileGood' /\ BackupFits' /\ JobsFit'
  BY <1>1, <1>2 DEF FileGood, BackupFits, JobsFit, Busy
<1>5. AloneInTime'
  BY <1>2 DEF AloneInTime
<1> QED
  BY <1>3, <1>4, <1>5 DEF IInv

\* The server restarts: no edit is in progress, a backup is whole or torn.
LEMMA RestartKeeps ==
  ASSUME IInv, Restart
  PROVE  IInv'
<1>1. Typed /\ FileGood /\ BackupFits
  BY DEF IInv
<1>2. /\ job' = [e \in Editors |-> Idle] /\ faults < MaxFaults /\ faults' = faults + 1
      /\ UNCHANGED <<active, file, alone, edits>>
  BY DEF Restart
<1>3. PICK cut : backup' = [d \in Docs |-> IF d \in cut THEN Torn ELSE backup[d]]
  BY DEF Restart
<1>4. Typed'
  BY <1>1, <1>2, <1>3, BoundsAssumption DEF Typed
<1>5. FileGood' /\ BackupFits'
  BY <1>1, <1>2, <1>3 DEF FileGood, BackupFits
<1>6. \A e \in Editors : ~Busy(e)'
  BY <1>2 DEF Busy, Idle
<1>7. JobsFit' /\ AloneInTime'
  BY <1>6 DEF JobsFit, AloneInTime
<1> QED
  BY <1>4, <1>5, <1>7 DEF IInv

LEMMA NextIInv == IInv /\ [Next]_vars => IInv'
<1> SUFFICES ASSUME IInv, [Next]_vars PROVE IInv'
  OBVIOUS
<1>1. CASE \E e \in Editors : \E in : Begin(e, "rooms", in) \/ Begin(e, "zones", in)
  BY <1>1, BeginKeeps DEF Docs
<1>2. CASE \E e \in Editors : ReadMapID(e)
  BY <1>2, ReadMapIDKeeps
<1>3. CASE \E e \in Editors : BackupRead(e)
  BY <1>3, BackupReadKeeps
<1>4. CASE \E e \in Editors : BackupWrite(e)
  BY <1>4, BackupWriteKeeps
<1>5. CASE \E e \in Editors : Submit(e)
  BY <1>5, SubmitKeeps
<1>6. CASE \E e \in Editors : Unanswered(e)
  BY <1>6, UnansweredKeeps
<1>7. CASE \E m \in Maps : SwitchMap(m)
  BY <1>7, SwitchMapKeeps
<1>8. CASE Restart
  BY <1>8, RestartKeeps
<1>9. CASE \E e \in Editors : Abandon(e)
  BY <1>9, AbandonKeeps
<1>10. CASE UNCHANGED vars
  <2>1. UNCHANGED <<active, file, backup, job, alone, edits, faults>>
    BY <1>10 DEF vars
  <2>2. Typed' /\ FileGood' /\ BackupFits' /\ JobsFit'
    BY <2>1 DEF IInv, Typed, FileGood, BackupFits, JobsFit, Busy
  <2>3. AloneInTime'
    BY <2>1 DEF IInv, AloneInTime, Busy, Others, InTime, Fresh, Kept, Held
  <2> QED
    BY <2>2, <2>3 DEF IInv
<1> QED
  BY <1>1, <1>2, <1>3, <1>4, <1>5, <1>6, <1>7, <1>8, <1>9, <1>10 DEF Next

-----------------------------------------------------------------------------
(* Theorems.                                                               *)

\* The invariant of every reachable state.
LEMMA Invariance == Spec => []IInv
  BY InitIInv, NextIInv, PTL DEF Spec

\* Whatever the edits, their order and the faults, sets, copies and backups are of their
\* document: no room is written with a zone's fields, to the backup of the zones or for them.
THEOREM TypeCorrect == Spec => []TypeOK
<1>1. IInv => TypeOK
  <2> SUFFICES ASSUME IInv PROVE TypeOK
    OBVIOUS
  <2>1. Typed /\ FileGood /\ BackupFits
    BY DEF IInv
  <2>2. \A d \in Docs, m \in Maps : file[d][m] \in SetOf(d)
    BY <2>1, GoodIsSet DEF FileGood
  <2>3. ASSUME NEW e \in Editors, Busy(e)
        PROVE  job[e].set \in SetOf(job[e].doc) /\ job[e].copy \in SetOf(job[e].doc)
    <3>1. Fit(job[e]) /\ job[e].doc \in Docs
      BY <2>3, InProgress
    <3> QED
      BY <3>1, GoodIsSet DEF Fit
  <2> QED
    BY <2>1, <2>2, <2>3 DEF Typed, BackupFits, TypeOK, SetOf
<1> QED
  BY <1>1, Invariance, PTL

\* Whatever is merged, split, renamed, added and deleted, no two rooms of a map have the
\* same id and no two of its zones the same number and kind.
THEOREM IdsStayUnique == Spec => []IdsUnique
<1>1. IInv => IdsUnique
  BY DEF IInv, FileGood, Good, Rooms, Zones, IdsUnique, Docs
<1> QED
  BY <1>1, Invariance, PTL

\* The graph that comes with the rooms of a map is always the one of their cells.
THEOREM GraphsFollowRooms == Spec => []GraphMatches
<1>1. IInv => GraphMatches
  BY DEF IInv, FileGood, Good, Matches, GraphMatches, Docs
<1> QED
  BY <1>1, Invariance, PTL

\* A step that changes what is held and the job of an edit at its submission is an answer,
\* or the lack of one, to that edit.
LEMMA ChangesAreAnswers ==
  ASSUME IInv, [Next]_vars, NEW e \in Editors, file' # file, job'[e] # job[e],
         job[e].pc \in {"submit", "retry"}
  PROVE  file' = Stored(e) /\ active' = active /\ Busy(e)
<1>1. Typed
  BY DEF IInv
<1>2. PICK f \in Editors : Submit(f) \/ Unanswered(f)
  BY DEF Next, vars, Begin, ReadMapID, BackupRead, BackupWrite, Abandon, SwitchMap, Restart
<1>3. f = e
  <2>1. \/ job' = [job EXCEPT ![f] = Idle]
        \/ job' = [job EXCEPT ![f].pc = "retry"]
    BY <1>2 DEF Submit, Unanswered
  <2> QED
    BY <1>1, <2>1 DEF Typed
<1>4. file' \in {file, Stored(f)} /\ active' = active
  BY <1>2 DEF Submit, Unanswered
<1> QED
  BY <1>3, <1>4 DEF Busy

\* No edit, however late its answer and whatever map the robot has taken up since, stores
\* the rooms of a map as those of another.
THEOREM RoomsKeepTheirMap == Spec => RoomsStayOnMap
<1>1. ASSUME IInv, [Next]_vars
      PROVE  StoresAtHome
  <2> SUFFICES ASSUME NEW e \in Editors, file' # file, job[e].pc \in {"submit", "retry"},
                      job'[e] # job[e], job[e].doc = "rooms"
               PROVE  job[e].home = active
    BY DEF StoresAtHome
  <2>1. file' = Stored(e) /\ Busy(e)
    BY <1>1, ChangesAreAnswers
  <2>2. job[e].uuid = active
    BY <2>1 DEF Stored
  <2>3. job[e].uuid = job[e].home
    BY <1>1, <2>1, InProgress DEF Fit
  <2> QED
    BY <2>2, <2>3
<1> QED
  BY <1>1, Invariance, PTL DEF Spec, RoomsStayOnMap

\* An edit no other edit and no change of map has come between stores what its request
\* makes of the very set it replaces, once, with that set in the backup; an answer lost
\* after the set was stored does not make it store the set twice.
THEOREM LoneEditsAreAtomic == Spec => AloneIsAtomic
<1>1. ASSUME IInv, [Next]_vars
      PROVE  StoresItsEdit
  <2> SUFFICES ASSUME NEW e \in Editors, NEW d \in Docs, Stores(e, d), alone[e]
               PROVE  file'[d][active] = Edited(Held(d), job[e].in) /\ backup[d] = Held(d)
    BY DEF StoresItsEdit
  <2>1. /\ job[e].pc \in {"submit", "retry"} /\ job'[e] # job[e] /\ job[e].doc = d
        /\ file'[d] # file[d]
    BY DEF Stores
  <2>2. file' # file
    BY <2>1
  <2>3. file' = Stored(e) /\ Busy(e)
    BY <1>1, <2>1, <2>2, ChangesAreAnswers
  <2>4. InTime(job[e]) /\ Typed
    BY <1>1, <2>3, InProgress DEF IInv
  <2>5. Held(d) # job[e].set
    BY <2>1, <2>2, <2>3, <2>4, StoredSets
  <2>6. Fresh(job[e]) /\ Kept(job[e]) /\ job[e].uuid = active
    BY <2>1, <2>4, <2>5 DEF InTime
  <2>7. file'[d][active] = job[e].set
    BY <2>1, <2>3, <2>4, <2>6, StoredSets DEF Typed
  <2> QED
    BY <2>1, <2>6, <2>7 DEF Fresh, Kept
<1> QED
  BY <1>1, Invariance, PTL DEF Spec, AloneIsAtomic
=============================================================================
