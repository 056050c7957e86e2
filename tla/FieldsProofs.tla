----------------------------- MODULE FieldsProofs ------------------------------
(* The fields of ConservativeFields and the layouts it puts in use, proved for *)
(* every problem: any solids of whole squares, any pitch and any clearances.   *)
(*                                                                             *)
(* Between two cells that no face touches the material does not change, so one *)
(* witness decides for a whole component; the planned window and the halo      *)
(* leave no cell out that a copy reaches.  Hence the field of a copy has just  *)
(* the cells within the clearance of those the copy touches, and the counts of *)
(* a staged field, which add and remove such fields one copy at a time, are    *)
(* those of its copies: the occupancy that is put in use is that of the layout *)
(* it is said to be of.  Squares closer than the clearance lie in cells that   *)
(* the stencil joins, so a copy in cells that are free keeps every clearance.  *)
(*                                                                             *)
(* With what KernelProofs says of verdicts, what is in use is packed, what is  *)
(* reported is true, and what is offered is accepted: a copy in cells that are *)
(* free has no point in common with another one.                               *)
EXTENDS ConservativeFields, KernelProofs

-----------------------------------------------------------------------------
(* Cells                                                                       *)

(* The cells of a window, coordinate by coordinate.                            *)
LEMMA InCells ==
  ASSUME NEW a \in [Axes -> Int], NEW b \in [Axes -> Int], NEW c
  PROVE  (c \in Cells(Box(a, b))) <=>
           c \in Points /\ \A k \in Axes : a[k] <= c[k] /\ c[k] <= b[k]
  BY DEF Cells, Box, Axes, Points

(* Nothing that a cell meets is apart from it, and it lies in the range of the *)
(* cells that are looked at.                                                   *)
LEMMA TouchedAre ==
  ASSUME NEW solid, IsSolid(solid), NEW p \in Nat \ {0}
  PROVE  UNION {{c \in Cells(Trimmed(Extent({u}), p)) : ~Separated(Extent({u}), c, p)} : u \in solid}
           = Touched(solid, p)
  <1>1. ASSUME NEW u \in solid, NEW c
        PROVE  (c \in Cells(Trimmed(Extent({u}), p)) /\ ~Separated(Extent({u}), c, p)) <=>
                 (c \in Points /\ Meets(u, c, p))
    <2>1. u \in Points
      BY DEF IsSolid
    <2> DEFINE a == [k \in Axes |-> (Extent({u}).first[k] \div p) - 1]
               b == [k \in Axes |-> (Extent({u}).last[k] \div p) + 1]
    <2>2. ASSUME NEW k \in Axes
          PROVE  /\ u[k] \in Int /\ a[k] = (u[k] \div p) - 1
                 /\ b[k] = ((u[k] + 1) \div p) + 1 /\ a[k] \in Int /\ b[k] \in Int
      <3>1. u[k] \in Int
        BY <2>1, Coordinates
      <3>2. u[k] + 1 \in Int
        BY <3>1
      <3>3. u[k] \div p \in Int /\ (u[k] + 1) \div p \in Int
        BY <3>1, <3>2, QuotientBounds
      <3>4. Extent({u}).first[k] = u[k] /\ Extent({u}).last[k] = u[k] + 1
        BY <2>1, SquareBounds DEF Extent, Box
      <3> QED
        BY <3>1, <3>3, <3>4
    <2>3. a \in [Axes -> Int] /\ b \in [Axes -> Int]
      BY <2>2
    <2>4. Cells(Trimmed(Extent({u}), p)) = Cells(Box(a, b))
      BY DEF Trimmed
    <2>5. (c \in Cells(Box(a, b))) <=>
            c \in Points /\ \A k \in Axes : a[k] <= c[k] /\ c[k] <= b[k]
      <3> HIDE DEF a, b
      <3> QED
        BY <2>3, InCells
    <2>6. ASSUME c \in Points
          PROVE  Separated(Extent({u}), c, p) <=> ~Meets(u, c, p)
      <3>1. ASSUME NEW k \in Axes
            PROVE  /\ c[k] * p \in Int /\ (c[k] + 1) * p \in Int /\ u[k] \in Int
                   /\ Extent({u}).first[k] = u[k] /\ Extent({u}).last[k] = u[k] + 1
        <4>1. c[k] \in Int
          BY <2>6, Coordinates
        <4> QED
          BY <2>1, <2>2, <4>1, SquareBounds, Multiples DEF Extent, Box
      <3>2. ASSUME NEW k \in Axes
            PROVE  ((c[k] + 1) * p < Extent({u}).first[k] \/ c[k] * p > Extent({u}).last[k])
                     <=> ~(c[k] * p <= u[k] + 1 /\ u[k] <= (c[k] + 1) * p)
        <4>1. PICK x \in Int, y \in Int : x = c[k] * p /\ y = (c[k] + 1) * p
          BY <3>1
        <4>0. u[k] \in Int /\ u[k] + 1 \in Int
          BY <2>2
        <4>2. PICK l \in Int, h \in Int : l = u[k] /\ h = u[k] + 1
          BY <4>0
        <4>3. Extent({u}).first[k] = l /\ Extent({u}).last[k] = h
          BY <3>1, <4>2
        <4>4. (y < l \/ x > h) <=> ~(x <= h /\ l <= y)
          OBVIOUS
        <4> QED
          BY <4>1, <4>2, <4>3, <4>4
      <3> QED
        BY <3>2 DEF Separated, Meets
    <2>7. ASSUME c \in Points, Meets(u, c, p), NEW k \in Axes
          PROVE  a[k] <= c[k] /\ c[k] <= b[k]
      <3>1. c[k] \in Int /\ c[k] * p <= u[k] + 1 /\ u[k] <= (c[k] + 1) * p
        BY <2>7, Coordinates DEF Meets
      <3>2. PICK top \in Int : top = u[k] + 1
        BY <2>2
      <3>3. (u[k] \div p) - 1 <= c[k] /\ c[k] <= top \div p
        BY <2>2, <3>1, <3>2, CellRange
      <3>4. top \div p \in Int
        BY <3>2, QuotientBounds
      <3>5. PICK first \in Int, last \in Int : first = u[k] \div p /\ last = top \div p
        BY <2>2, <3>4, QuotientBounds
      <3>6. a[k] = first - 1 /\ b[k] = last + 1
        BY <2>2, <3>2, <3>5
      <3> QED
        BY <3>1, <3>3, <3>5, <3>6
    <2> HIDE DEF a, b
    <2> QED
      BY <2>4, <2>5, <2>6, <2>7
  <1>2. UNION {{c \in Cells(Trimmed(Extent({u}), p)) : ~Separated(Extent({u}), c, p)} : u \in solid}
          \subseteq Touched(solid, p)
    BY <1>1 DEF Touched
  <1>3. ASSUME NEW c \in Touched(solid, p)
        PROVE  c \in UNION {{d \in Cells(Trimmed(Extent({u}), p)) : ~Separated(Extent({u}), d, p)} : u \in solid}
    <2>1. PICK u \in solid : c \in Points /\ Meets(u, c, p)
      BY DEF Touched
    <2>2. c \in {d \in Cells(Trimmed(Extent({u}), p)) : ~Separated(Extent({u}), d, p)}
      BY <1>1, <2>1
    <2> QED
      BY <2>2
  <1> QED
    BY <1>2, <1>3

(* What a cell is, the next one is: they share squares.                        *)
LEMMA NextCellAgrees ==
  ASSUME NEW solid, IsSolid(solid), NEW p \in Nat \ {0},
         NEW c \in Points \ Edged(solid, p), NEW d \in Points \ Edged(solid, p),
         d \in Adjacent(c)
  PROVE  (c \in Touched(solid, p)) <=> (d \in Touched(solid, p))
  <1>1. ASSUME NEW a \in Points \ Edged(solid, p), NEW b \in Points \ Edged(solid, p),
               b = <<a[1] + 1, a[2]>> \/ b = <<a[1], a[2] + 1>>
        PROVE  (a \in Touched(solid, p)) <=> (b \in Touched(solid, p))
    <2>1. /\ Corner(a, p) \in Points /\ Meets(Corner(a, p), a, p)
          /\ Corner(b, p) \in Points /\ Meets(Corner(b, p), b, p)
      BY CornerMeets
    <2>2. a[1] \in Int /\ a[2] \in Int
      BY DEF Points
    <2>3. /\ a[1] * p \in Int /\ a[2] * p \in Int
          /\ (a[1] + 1) * p = a[1] * p + p /\ (a[2] + 1) * p = a[2] * p + p
      BY <2>2, Multiples
    <2>4. Meets(Corner(b, p), a, p)
      <3>1. CASE b = <<a[1] + 1, a[2]>>
        <4>1. Corner(b, p)[1] = (a[1] + 1) * p /\ Corner(b, p)[2] = a[2] * p
          BY <3>1 DEF Corner
        <4> QED
          BY <2>3, <4>1 DEF Meets, Axes
      <3>2. CASE b = <<a[1], a[2] + 1>>
        <4>1. Corner(b, p)[1] = a[1] * p /\ Corner(b, p)[2] = (a[2] + 1) * p
          BY <3>2 DEF Corner
        <4> QED
          BY <2>3, <4>1 DEF Meets, Axes
      <3> QED
        BY <1>1, <3>1, <3>2
    <2>5. (Corner(a, p) \in solid) <=> (Corner(b, p) \in solid)
      BY <2>1, <2>4, CellIsUniform
    <2> QED
      BY <2>5, CornerDecides
  <1>2. /\ c[1] \in Int /\ c[2] \in Int /\ d[1] \in Int /\ d[2] \in Int
        /\ c = <<c[1], c[2]>> /\ d = <<d[1], d[2]>>
    BY DEF Points
  <1>3. \/ d = <<c[1] + 1, c[2]>> \/ d = <<c[1], c[2] + 1>>
        \/ c = <<d[1] + 1, d[2]>> \/ c = <<d[1], d[2] + 1>>
    BY <1>2 DEF Adjacent
  <1> QED
    BY <1>1, <1>3
-----------------------------------------------------------------------------
(* The raw field                                                               *)

(* A face touches the cells that meet one of its walls.                        *)
LEMMA FacesTouchEdged ==
  ASSUME NEW solid, IsSolid(solid), NEW p \in Nat \ {0}, NEW c \in Points
  PROVE  (\E f \in Faces(solid) : Touches(f, c, p)) <=> c \in Edged(solid, p)
  <1>1. ASSUME NEW f \in Faces(solid), Touches(f, c, p)
        PROVE  c \in Edged(solid, p)
    <2>1. PICK k \in Axes : IsFace(solid, k, f)
      BY FacesAre
    <2>2. PICK j \in Axes : j = 3 - k /\ 3 - j = k
      BY DEF Axes
    <2>3. /\ f.first \in Points /\ f.last \in Points
          /\ f.last[k] = f.first[k] /\ f.first[j] < f.last[j]
          /\ \A i \in f.first[j]..(f.last[j] - 1) : At(f.first, j, i) \in Walls(solid, k)
      BY <2>1, <2>2 DEF IsFace
    <2>4. f.first[j] \in Int /\ f.last[j] \in Int /\ c[j] \in Int
      BY <2>3, Coordinates
    <2>5. /\ c[k] * p <= f.last[k] /\ f.first[k] <= (c[k] + 1) * p
          /\ c[j] * p <= f.last[j] /\ f.first[j] <= (c[j] + 1) * p
      BY <1>1 DEF Touches
    <2>6. PICK lo \in Int, hi \in Int : lo = c[j] * p /\ hi = (c[j] + 1) * p /\ lo <= hi
      <3>1. c[j] * p \in Int /\ (c[j] + 1) * p \in Int /\ (c[j] + 1) * p = c[j] * p + p
        BY <2>4, Multiples
      <3> QED
        BY <3>1
    <2>7. PICK i \in f.first[j]..(f.last[j] - 1) : lo <= i + 1 /\ i <= hi
      <3>1. CASE f.first[j] >= lo - 1
        <4>1. f.first[j] \in f.first[j]..(f.last[j] - 1)
          BY <2>3, <2>4
        <4> QED
          BY <2>4, <2>5, <2>6, <3>1, <4>1
      <3>2. CASE f.first[j] < lo - 1
        <4>1. lo - 1 \in f.first[j]..(f.last[j] - 1)
          BY <2>3, <2>4, <2>5, <2>6, <3>2
        <4> QED
          BY <2>6, <4>1
      <3> QED
        BY <2>4, <2>6, <3>1, <3>2
    <2>8. i \in Int
      BY <2>4
    <2>9. PICK w \in Walls(solid, k) : w = At(f.first, j, i)
      BY <2>3
    <2>10. w[j] = i /\ w[k] = f.first[k]
      <3>1. PICK u \in Points : u = f.first
        BY <2>3
      <3>2. At(u, j, i)[j] = i /\ At(u, j, i)[3 - j] = u[3 - j]
        BY <2>2, <2>8, AtIs
      <3> QED
        BY <2>2, <2>9, <3>1, <3>2
    <2>11. MeetsWall(w, k, c, p)
      BY <2>2, <2>3, <2>5, <2>6, <2>7, <2>10 DEF MeetsWall
    <2> QED
      BY <2>11 DEF Edged
  <1>2. ASSUME NEW k \in Axes, NEW w \in Walls(solid, k), MeetsWall(w, k, c, p)
        PROVE  \E f \in Faces(solid) : Touches(f, c, p)
    <2>1. PICK f \in Faces(solid) : IsFace(solid, k, f) /\ Covers(f, k, w)
      BY WallHasFace
    <2>2. PICK j \in Axes : j = 3 - k /\ 3 - j = k /\ Axes = {j, k}
      BY DEF Axes
    <2>3. f.first \in Points /\ f.last \in Points /\ f.last[k] = f.first[k]
      BY <2>1 DEF IsFace
    <2>4. f.first[k] = w[k] /\ f.first[j] <= w[j] /\ w[j] < f.last[j]
      BY <2>1, <2>2 DEF Covers
    <2>5. /\ c[k] * p <= w[k] /\ w[k] <= (c[k] + 1) * p
          /\ c[j] * p <= w[j] + 1 /\ w[j] <= (c[j] + 1) * p
      BY <1>2, <2>2 DEF MeetsWall
    <2>6. /\ f.first[j] \in Int /\ f.last[j] \in Int /\ c[j] \in Int /\ w[j] \in Int
      BY <2>2, <2>3, Coordinates, WallBounds
    <2>7. PICK lo \in Int, hi \in Int : lo = c[j] * p /\ hi = (c[j] + 1) * p
      BY <2>6, Multiples
    <2>8. c[j] * p <= f.last[j] /\ f.first[j] <= (c[j] + 1) * p
      BY <2>4, <2>5, <2>6, <2>7
    <2>9. Touches(f, c, p)
      BY <2>2, <2>3, <2>4, <2>5, <2>8 DEF Touches
    <2> QED
      BY <2>9
  <1> QED
    BY <1>1, <1>2 DEF Edged

(* The cells that are tried for a face are enough.                             *)
LEMMA RangeIsEnough ==
  ASSUME NEW f, IsWindow(f), NEW p \in Nat \ {0}, NEW a \in [Axes -> Int], NEW b \in [Axes -> Int],
         NEW c
  PROVE  (c \in FaceRange(f, Box(a, b), p) /\ Touches(f, c, p))
           <=> (c \in Cells(Box(a, b)) /\ Touches(f, c, p))
  <1> DEFINE x == [k \in Axes |-> Max({a[k], (f.first[k] \div p) - 1})]
             y == [k \in Axes |-> Min({b[k], (f.last[k] \div p) + 1})]
  <1>1. \A k \in Axes : f.first[k] \in Int /\ f.last[k] \in Int
    BY DEF IsWindow, Box
  <1>2. ASSUME NEW k \in Axes
        PROVE  /\ f.first[k] \in Int /\ f.last[k] \in Int
               /\ f.first[k] \div p \in Int /\ f.last[k] \div p \in Int
               /\ x[k] = (IF a[k] > (f.first[k] \div p) - 1 THEN a[k]
                          ELSE (f.first[k] \div p) - 1)
               /\ y[k] = (IF b[k] < (f.last[k] \div p) + 1 THEN b[k]
                          ELSE (f.last[k] \div p) + 1)
               /\ a[k] \in Int /\ b[k] \in Int
    <2>1. f.first[k] \in Int /\ f.last[k] \in Int
      BY <1>1
    <2>2. PICK m \in Int, n \in Int : m = f.first[k] \div p /\ n = f.last[k] \div p
      BY <2>1, QuotientBounds
    <2>3. a[k] \in Int /\ b[k] \in Int
      OBVIOUS
    <2>4. PICK m1 \in Int, n1 \in Int : m1 = m - 1 /\ n1 = n + 1
      OBVIOUS
    <2>5. /\ Max({a[k], m1}) = (IF a[k] > m1 THEN a[k] ELSE m1)
          /\ Min({b[k], n1}) = (IF b[k] < n1 THEN b[k] ELSE n1)
      BY <2>3, OfTwo
    <2> QED
      BY <2>1, <2>2, <2>3, <2>4, <2>5
  <1>3. x \in [Axes -> Int] /\ y \in [Axes -> Int]
    <2>1. ASSUME NEW k \in Axes
          PROVE  x[k] \in Int /\ y[k] \in Int
      <3> HIDE DEF x, y
      <3>1. PICK m \in Int, n \in Int : m = f.first[k] \div p /\ n = f.last[k] \div p
        BY <1>2
      <3>2. m - 1 \in Int /\ n + 1 \in Int
        OBVIOUS
      <3> QED
        BY <1>2, <3>1, <3>2
    <2>2. x = [k \in Axes |-> x[k]] /\ y = [k \in Axes |-> y[k]]
      OBVIOUS
    <2> HIDE DEF x, y
    <2> QED
      BY <2>1, <2>2
  <1>4. FaceRange(f, Box(a, b), p) = Cells(Box(x, y))
    BY DEF FaceRange, Box
  <1>5. (c \in Cells(Box(x, y))) <=>
          c \in Points /\ \A k \in Axes : x[k] <= c[k] /\ c[k] <= y[k]
    <2> HIDE DEF x, y
    <2> QED
      BY <1>3, InCells
  <1>6. (c \in Cells(Box(a, b))) <=>
          c \in Points /\ \A k \in Axes : a[k] <= c[k] /\ c[k] <= b[k]
    BY InCells
  <1>7. ASSUME c \in Points, Touches(f, c, p), NEW k \in Axes
        PROVE  (x[k] <= c[k] /\ c[k] <= y[k]) <=> (a[k] <= c[k] /\ c[k] <= b[k])
    <2>1. c[k] \in Int /\ c[k] * p <= f.last[k] /\ f.first[k] <= (c[k] + 1) * p
      BY <1>7, Coordinates DEF Touches
    <2>2. (f.first[k] \div p) - 1 <= c[k] /\ c[k] <= f.last[k] \div p
      BY <1>2, <2>1, CellRange
    <2>3. PICK m \in Int, n \in Int : m = f.first[k] \div p /\ n = f.last[k] \div p
      BY <1>2
    <2>4. /\ x[k] = (IF a[k] > m - 1 THEN a[k] ELSE m - 1)
          /\ y[k] = (IF b[k] < n + 1 THEN b[k] ELSE n + 1)
          /\ a[k] \in Int /\ b[k] \in Int
      BY <1>2, <2>3
    <2>5. m - 1 <= c[k] /\ c[k] <= n
      BY <2>2, <2>3
    <2> HIDE DEF x, y
    <2> QED
      BY <2>1, <2>4, <2>5
  <1> HIDE DEF x, y
  <1> QED
    BY <1>4, <1>5, <1>6, <1>7

(* So the boundary has every cell a face touches, and no other unless faces    *)
(* are known by intervals.                                                     *)
LEMMA RasterIs ==
  ASSUME NEW solid, IsSolid(solid), NEW pose \in Poses, NEW q, IsPlaced(q, solid, pose),
         NEW p \in Nat \ {0}, NEW a \in [Axes -> Int], NEW b \in [Axes -> Int],
         NEW edge, edge = rasterize_boundary(q, Box(a, b), p)
  PROVE  /\ edge \subseteq Cells(Box(a, b))
         /\ Cells(Box(a, b)) \cap Edged(solid, p) \subseteq edge
         /\ pose.exact => edge = Cells(Box(a, b)) \cap Edged(solid, p)
  <1>1. ASSUME NEW c
        PROVE  (c \in edge) <=> /\ c \in Cells(Box(a, b))
                                /\ \E i \in DOMAIN q.mesh : Touches(FaceBounds(q, i), c, p)
    <2>1. ASSUME NEW i \in DOMAIN q.mesh
          PROVE  (c \in FaceRange(FaceBounds(q, i), Box(a, b), p) /\ Touches(FaceBounds(q, i), c, p))
                   <=> (c \in Cells(Box(a, b)) /\ Touches(FaceBounds(q, i), c, p))
      <3>1. PICK f : f = FaceBounds(q, i) /\ IsWindow(f)
        BY BoundsNest
      <3> QED
        BY <3>1, RangeIsEnough
    <2> QED
      BY <2>1 DEF rasterize_boundary
  <1>2. ASSUME NEW c \in Points, NEW i \in DOMAIN q.mesh
        PROVE  /\ Touches(q.mesh[i], c, p) => Touches(FaceBounds(q, i), c, p)
               /\ pose.exact /\ Touches(FaceBounds(q, i), c, p) => Touches(q.mesh[i], c, p)
    <2>1. PICK f, g : f = q.mesh[i] /\ g = FaceBounds(q, i)
      OBVIOUS
    <2>2. IsWindow(g) /\ \A k \in Axes : f.first[k] \in Int /\ f.last[k] \in Int
      BY <2>1, BoundsNest, MeshHasFaces
    <2>3. ASSUME NEW k \in Axes
          PROVE  /\ f.first[k] \in Int /\ f.last[k] \in Int /\ g.first[k] \in Int /\ g.last[k] \in Int
                 /\ c[k] * p \in Int /\ (c[k] + 1) * p \in Int
                 /\ g.first[k] <= f.first[k] /\ f.last[k] <= g.last[k]
                 /\ pose.exact => g.first[k] = f.first[k] /\ g.last[k] = f.last[k]
      <3>1. g.first[k] \in Int /\ g.last[k] \in Int
        BY <2>2 DEF IsWindow, Box
      <3>2. c[k] \in Int
        BY Coordinates
      <3>3. c[k] * p \in Int /\ (c[k] + 1) * p \in Int
        BY <3>2, Multiples
      <3> QED
        BY <2>1, <2>2, <3>1, <3>3, BoundsNest
    <2>4. ASSUME NEW k \in Axes
          PROVE  /\ c[k] * p <= f.last[k] /\ f.first[k] <= (c[k] + 1) * p
                      => c[k] * p <= g.last[k] /\ g.first[k] <= (c[k] + 1) * p
                 /\ pose.exact /\ c[k] * p <= g.last[k] /\ g.first[k] <= (c[k] + 1) * p
                      => c[k] * p <= f.last[k] /\ f.first[k] <= (c[k] + 1) * p
      <3>1. PICK x \in Int, y \in Int : x = c[k] * p /\ y = (c[k] + 1) * p
        BY <2>3
      <3> QED
        BY <2>3, <3>1
    <2> QED
      BY <2>1, <2>4 DEF Touches
  <1>3. ASSUME NEW c \in Points
        PROVE  c \in Edged(solid, p) <=> \E i \in DOMAIN q.mesh : Touches(q.mesh[i], c, p)
    BY MeshHasFaces, FacesTouchEdged
  <1>4. Cells(Box(a, b)) \subseteq Points
    BY InCells
  <1>5. ASSUME NEW c \in Cells(Box(a, b)) \cap Edged(solid, p)
        PROVE  c \in edge
    <2>1. c \in Points
      BY <1>4
    <2>2. PICK i \in DOMAIN q.mesh : Touches(q.mesh[i], c, p)
      BY <1>3, <2>1
    <2> QED
      BY <1>1, <1>2, <2>1, <2>2
  <1>6. ASSUME pose.exact, NEW c \in edge
        PROVE  c \in Edged(solid, p)
    <2>1. c \in Points
      BY <1>1, <1>4
    <2>2. PICK i \in DOMAIN q.mesh : Touches(FaceBounds(q, i), c, p)
      BY <1>1
    <2> QED
      BY <1>2, <1>3, <1>6, <2>1, <2>2
  <1> QED
    BY <1>1, <1>5, <1>6

(* A window has finitely many cells.                                           *)
LEMMA CellsFinite ==
  ASSUME NEW a \in [Axes -> Int], NEW b \in [Axes -> Int]
  PROVE  IsFiniteSet(Cells(Box(a, b))) /\ Cells(Box(a, b)) \subseteq Points
  <1>1. a[1] \in Int /\ a[2] \in Int /\ b[1] \in Int /\ b[2] \in Int
    BY DEF Axes
  <1>2. IsFiniteSet(a[1]..b[1]) /\ IsFiniteSet(a[2]..b[2])
    BY <1>1, FS_Interval
  <1>3. IsFiniteSet((a[1]..b[1]) \X (a[2]..b[2]))
    BY <1>2, FS_Product
  <1>4. Cells(Box(a, b)) = (a[1]..b[1]) \X (a[2]..b[2])
    BY DEF Cells, Box
  <1> QED
    BY <1>1, <1>3, <1>4 DEF Points

(* The flood: it holds where it starts and stays in every set that no step     *)
(* leaves.  That the recursion has a solution: the cells that are in all of    *)
(* them; that every solution is right: by the least number of cells left.      *)
Closed(cells, open) == Around(cells) \cap open \subseteq cells

(* What a flood fills: the smallest closed set of open cells with the cell.    *)
LEMMA FloodIs ==
  ASSUME NEW open, IsFiniteSet(open), NEW cell \in open
  PROVE  /\ cell \in Flood(cell, open) /\ Flood(cell, open) \subseteq open
         /\ \A D \in SUBSET open : cell \in D /\ Closed(D, open) => Flood(cell, open) \subseteq D
  <1> DEFINE Next1(seen) == Around(seen) \cap open
             Solves(f) == f = [seen \in SUBSET open |->
                                 IF Next1(seen) \subseteq seen THEN seen
                                 ELSE f[seen \cup Next1(seen)]]
             flood == CHOOSE f : Solves(f)
  <1>0. ASSUME NEW seen, NEW x \in Next1(seen)
        PROVE  x \in open
    BY <1>0
  <1>1. Flood(cell, open) = flood[{cell}]
    BY DEF Flood
  <1>2. \E f : Solves(f)
    <2> DEFINE Least(seen) == {x \in open : \A D \in SUBSET open :
                                 seen \subseteq D /\ Closed(D, open) => x \in D}
               g == [seen \in SUBSET open |-> Least(seen)]
    <2>1. ASSUME NEW seen \in SUBSET open, Next1(seen) \subseteq seen
          PROVE  Least(seen) = seen
      <3>1. Closed(seen, open)
        BY <2>1 DEF Closed
      <3> QED
        BY <3>1
    <2>2. ASSUME NEW seen \in SUBSET open
          PROVE  Least(seen) = Least(seen \cup Next1(seen)) /\ seen \cup Next1(seen) \in SUBSET open
      <3>1. ASSUME NEW D \in SUBSET open, Closed(D, open), seen \subseteq D
            PROVE  seen \cup Next1(seen) \subseteq D
        <4>1. Next1(seen) \subseteq Next1(D)
          BY <3>1 DEF Around
        <4>2. Next1(D) \subseteq D
          BY <3>1 DEF Closed
        <4> QED
          BY <3>1, <4>1, <4>2
      <3> HIDE DEF Next1
      <3>2. ASSUME NEW D \in SUBSET open, Closed(D, open)
            PROVE  (seen \subseteq D) <=> (seen \cup Next1(seen) \subseteq D)
        BY <3>1, <3>2
      <3>3. Next1(seen) \subseteq open
        BY <1>0
      <3> QED
        BY <3>2, <3>3
    <2>3. ASSUME NEW seen \in SUBSET open
          PROVE  g[seen] = IF Next1(seen) \subseteq seen THEN seen
                           ELSE g[seen \cup Next1(seen)]
      <3>1. g[seen] = Least(seen) /\ g[seen \cup Next1(seen)] = Least(seen \cup Next1(seen))
        BY <2>2
      <3> HIDE DEF g, Least, Next1
      <3> QED
        BY <2>1, <2>2, <3>1
    <2>4. g = [seen \in SUBSET open |-> g[seen]]
      OBVIOUS
    <2> HIDE DEF g
    <2>5. Solves(g)
      <3> HIDE DEF Next1
      <3> QED
        BY <2>3, <2>4
    <2> HIDE DEF Solves
    <2> QED
      BY <2>5
  <1>3. Solves(flood)
    <2> HIDE DEF Solves
    <2> QED
      BY <1>2
  <1>4. ASSUME NEW seen \in SUBSET open
        PROVE  flood[seen] = IF Next1(seen) \subseteq seen THEN seen
                             ELSE flood[seen \cup Next1(seen)]
    <2> HIDE DEF flood, Next1
    <2> QED
      BY <1>3
  <1> HIDE DEF flood
  <1> DEFINE Good(seen) ==
               /\ seen \subseteq flood[seen] /\ flood[seen] \subseteq open
               /\ \A D \in SUBSET open :
                    seen \subseteq D /\ Closed(D, open) => flood[seen] \subseteq D
             bad == {n \in Nat : \E seen \in SUBSET open :
                                   Cardinality(open \ seen) = n /\ ~Good(seen)}
  <1>5. bad = {}
    <2>1. SUFFICES ASSUME bad # {}
                   PROVE  FALSE
      OBVIOUS
    <2>2. PICK n \in bad : \A m \in bad : n <= m
      <3>1. bad \in SUBSET Nat
        OBVIOUS
      <3> HIDE DEF bad
      <3> QED
        BY <2>1, <3>1, LeastNat
    <2>3. PICK seen \in SUBSET open : Cardinality(open \ seen) = n /\ ~Good(seen)
      BY <2>2
    <2>4. ~(Next1(seen) \subseteq seen)
      <3>1. SUFFICES ASSUME Next1(seen) \subseteq seen
                     PROVE  FALSE
        OBVIOUS
      <3>2. flood[seen] = seen
        BY <1>4, <3>1
      <3> QED
        BY <2>3, <3>2
    <2> DEFINE more == seen \cup Next1(seen)
    <2>5. more \in SUBSET open /\ flood[seen] = flood[more] /\ seen \subseteq more /\ more # seen
      <3> HIDE DEF Next1
      <3>1. Next1(seen) \subseteq open
        BY <1>0
      <3> QED
        BY <1>4, <2>4, <3>1
    <2>6. Cardinality(open \ more) \in Nat /\ Cardinality(open \ more) < n
      <3> HIDE DEF more
      <3>1. IsFiniteSet(open \ seen) /\ IsFiniteSet(open \ more)
        BY FS_Difference
      <3>2. Cardinality(open \ more) \in Nat /\ Cardinality(open \ seen) \in Nat
        BY <3>1, FS_CardinalityType
      <3>3. open \ more \in SUBSET (open \ seen) /\ open \ more # open \ seen
        BY <2>5
      <3>4. /\ Cardinality(open \ more) <= Cardinality(open \ seen)
            /\ Cardinality(open \ more) # Cardinality(open \ seen)
        BY <3>1, <3>3, FS_Subset
      <3> QED
        BY <2>3, <3>2, <3>4
    <2>7. Good(more)
      <3> HIDE DEF more, Good
      <3>1. Cardinality(open \ more) \notin bad
        <4> HIDE DEF bad
        <4>1. n \in Nat
          BY <2>3, FS_Difference, FS_CardinalityType
        <4> QED
          BY <2>2, <2>6, <4>1
      <3> QED
        BY <2>5, <2>6, <3>1
    <2>8. ASSUME NEW D \in SUBSET open, Closed(D, open), seen \subseteq D
          PROVE  more \subseteq D
      <3>1. Next1(seen) \subseteq Next1(D)
        BY <2>8 DEF Around
      <3>2. Next1(D) \subseteq D
        BY <2>8 DEF Closed
      <3> QED
        BY <2>8, <3>1, <3>2
    <2>9. Good(seen)
      <3> HIDE DEF more
      <3> QED
        BY <2>5, <2>7, <2>8
    <2> QED
      BY <2>3, <2>9
  <1>6. Good({cell})
    <2>1. {cell} \in SUBSET open
      OBVIOUS
    <2>2. Cardinality(open \ {cell}) \in Nat
      <3>1. IsFiniteSet(open \ {cell})
        BY FS_Difference
      <3> QED
        BY <3>1, FS_CardinalityType
    <2> HIDE DEF Good
    <2> QED
      BY <1>5, <2>1, <2>2
  <1> QED
    BY <1>1, <1>6

(* The witness of a component is one of its cells.                             *)
LEMMA WitnessIsOne ==
  ASSUME NEW cells, cells # {}, IsFiniteSet(cells), cells \subseteq Points
  PROVE  Witness(cells) \in cells
  <1> DEFINE second == [c \in cells |-> c[2]]
             Rows == {second[c] : c \in cells}
  <1>1. Rows \in SUBSET Int /\ Rows # {} /\ IsFiniteSet(Rows)
    <2>1. second = [c \in cells |-> second[c]]
      OBVIOUS
    <2>2. \A c \in cells : second[c] \in Int
      BY DEF Points
    <2> HIDE DEF second
    <2> QED
      BY <2>1, <2>2, ImageIsFinite
  <1>2. PICK m \in Int : m \in Rows /\ \A n \in Rows : m <= n
    <2> HIDE DEF Rows
    <2> QED
      BY <1>1, MinIsLeast
  <1> DEFINE row == {c \in cells : c[2] = m}
             first == [c \in row |-> c[1]]
             Ones == {first[c] : c \in row}
  <1>3. row # {} /\ IsFiniteSet(row)
    <2>1. row \in SUBSET cells
      OBVIOUS
    <2>2. row # {}
      BY <1>2
    <2> HIDE DEF row
    <2> QED
      BY <2>1, <2>2, FS_Subset
  <1>4. Ones \in SUBSET Int /\ Ones # {} /\ IsFiniteSet(Ones)
    <2>1. first = [c \in row |-> first[c]]
      OBVIOUS
    <2>2. \A c \in row : first[c] \in Int
      BY DEF Points
    <2> HIDE DEF first, row
    <2> QED
      BY <1>3, <2>1, <2>2, ImageIsFinite
  <1>5. PICK l \in Int : l \in Ones /\ \A n \in Ones : l <= n
    <2> HIDE DEF Ones
    <2> QED
      BY <1>4, MinIsLeast
  <1>6. PICK c \in row : c[1] = l
    BY <1>5
  <1>7. ASSUME NEW d \in cells
        PROVE  c[2] < d[2] \/ (c[2] = d[2] /\ c[1] <= d[1])
    <2>1. d[1] \in Int /\ d[2] \in Int /\ c[2] = m
      BY <1>6 DEF Points
    <2>2. m <= d[2]
      BY <1>2
    <2>3. d[2] = m => l <= d[1]
      <3>1. ASSUME d[2] = m
            PROVE  d[1] \in Ones
        BY <3>1
      <3> QED
        BY <1>5, <3>1
    <2> QED
      BY <1>2, <1>5, <1>6, <2>1, <2>2, <2>3
  <1>8. c \in cells
    BY <1>6
  <1>9. \E x \in cells : \A d \in cells : x[2] < d[2] \/ (x[2] = d[2] /\ x[1] <= d[1])
    BY <1>7, <1>8
  <1> QED
    BY <1>9 DEF Witness

(* A box around a solid.                                                       *)
Encloses(box, solid) ==
  /\ IsWindow(box)
  /\ \A u \in solid, k \in Axes :
       /\ box.first[k] \in Int /\ box.last[k] \in Int /\ u[k] \in Int
       /\ box.first[k] <= u[k] /\ u[k] + 1 <= box.last[k]

(* The bounds of a pose are one.                                               *)
LEMMA BoundsEnclose ==
  ASSUME NEW solid, IsSolid(solid), NEW pose \in Poses
  PROVE  /\ Encloses(Outward(Extent(solid), pose), solid)
         /\ \A p : IsPlaced(p, solid, pose) => Encloses(p.bounds, solid)
         /\ posed_bounds(solid, pose).bounds = Outward(Extent(solid), pose)
  <1>1. PICK box : box = Outward(Extent(solid), pose)
    OBVIOUS
  <1>2. /\ IsWindow(box) /\ IsWindow(Extent(solid))
        /\ \A k \in Axes : /\ Extent(solid).first[k] = Low(solid, k)
                           /\ Extent(solid).last[k] = High(solid, k)
    BY <1>1, BoundsHold
  <1>3. \A k \in Axes : box.first[k] <= Low(solid, k) /\ High(solid, k) <= box.last[k]
    BY <1>1, <1>2, OutwardIs
  <1>4. ASSUME NEW u \in solid, NEW k \in Axes
        PROVE  /\ box.first[k] \in Int /\ box.last[k] \in Int /\ u[k] \in Int
               /\ box.first[k] <= u[k] /\ u[k] + 1 <= box.last[k]
    <2>1. box.first[k] \in Int /\ box.last[k] \in Int
      BY <1>2 DEF IsWindow, Box
    <2>2. /\ Low(solid, k) \in Int /\ High(solid, k) \in Int /\ u[k] \in Int
          /\ Low(solid, k) <= u[k] /\ u[k] + 1 <= High(solid, k)
      BY SolidBounds
    <2>3. box.first[k] <= Low(solid, k) /\ High(solid, k) <= box.last[k]
      BY <1>3
    <2> QED
      BY <2>1, <2>2, <2>3
  <1>5. Encloses(box, solid)
    BY <1>2, <1>4 DEF Encloses
  <1> QED
    BY <1>1, <1>5 DEF IsPlaced, posed_bounds

(* What is beyond the bounds of a solid meets nothing of it.                   *)
LEMMA SeparatedIsUntouched ==
  ASSUME NEW solid, IsSolid(solid), NEW p \in Nat \ {0}, NEW box, Encloses(box, solid),
         NEW c \in Touched(solid, p)
  PROVE  ~Separated(box, c, p)
  <1>1. c \in Points
    BY DEF Touched
  <1>2. PICK u \in solid : Meets(u, c, p)
    BY DEF Touched
  <1>3. ASSUME NEW k \in Axes
        PROVE  ~((c[k] + 1) * p < box.first[k]) /\ ~(c[k] * p > box.last[k])
    <2>1. c[k] \in Int
      BY <1>1, Coordinates
    <2>2. PICK x \in Int, y \in Int : x = c[k] * p /\ y = (c[k] + 1) * p
      BY <2>1, Multiples
    <2>3. /\ box.first[k] \in Int /\ box.last[k] \in Int /\ u[k] \in Int
          /\ box.first[k] <= u[k] /\ u[k] + 1 <= box.last[k]
      BY DEF Encloses
    <2>4. x <= u[k] + 1 /\ u[k] <= y
      BY <1>2, <2>2 DEF Meets
    <2>5. ~(y < box.first[k]) /\ ~(x > box.last[k])
      BY <2>3, <2>4
    <2> QED
      BY <2>2, <2>5
  <1> QED
    BY <1>3 DEF Separated

(* A point on the boundary of a cuboid has a square outside beside it.         *)
LEMMA OnTheExtent ==
  ASSUME NEW solid, IsSolid(solid), NEW pose \in Poses, NEW q, IsPlaced(q, solid, pose),
         q.cuboid, NEW m \in Points, point_in_material(m, q) = "indeterminate"
  PROVE  \E u \in Points \ solid : Within(m, u)
  <1>1. q.extent = Extent(solid)
    BY DEF IsPlaced
  <1>2. ASSUME NEW k \in Axes
        PROVE  /\ q.extent.first[k] = Low(solid, k) /\ q.extent.last[k] = High(solid, k)
               /\ Low(solid, k) \in Int /\ High(solid, k) \in Int /\ m[k] \in Int
    BY <1>1, ExtentIsBox, Coordinates
  <1>3. /\ ~\E k \in Axes : m[k] < q.extent.first[k] \/ m[k] > q.extent.last[k]
        /\ ~\A k \in Axes : q.extent.first[k] < m[k] /\ m[k] < q.extent.last[k]
    BY DEF point_in_material
  <1>4. PICK k \in Axes : m[k] = Low(solid, k) \/ m[k] = High(solid, k)
    BY <1>2, <1>3
  <1>5. PICK i \in Int : /\ i <= m[k] /\ m[k] <= i + 1
                         /\ i < Low(solid, k) \/ i >= High(solid, k)
    <2>1. PICK n \in Int, l \in Int, h \in Int :
            n = m[k] /\ l = Low(solid, k) /\ h = High(solid, k)
      BY <1>2
    <2>2. CASE n = l
      <3>1. n - 1 \in Int /\ n - 1 <= n /\ n <= (n - 1) + 1 /\ n - 1 < l
        BY <2>2
      <3> QED
        BY <2>1, <3>1
    <2>3. CASE n = h
      <3>1. n <= n /\ n <= n + 1 /\ n >= h
        BY <2>3
      <3> QED
        BY <2>1, <3>1
    <2> QED
      BY <1>4, <2>1, <2>2, <2>3
  <1>6. PICK u : u = At(m, k, i)
    OBVIOUS
  <1>7. u \in Points /\ u[k] = i /\ u[3 - k] = m[3 - k]
    BY <1>6, AtIs
  <1>8. u \notin solid
    <2>1. SUFFICES ASSUME u \in solid
                   PROVE  FALSE
      OBVIOUS
    <2>2. Low(solid, k) <= u[k] /\ u[k] + 1 <= High(solid, k)
      BY <2>1, SolidBounds
    <2> QED
      BY <1>2, <1>5, <1>7, <2>2
  <1>9. Within(m, u)
    <2>1. ASSUME NEW j \in Axes
          PROVE  u[j] <= m[j] /\ m[j] <= u[j] + 1
      <3>1. j = k \/ j = 3 - k
        BY DEF Axes
      <3>2. m[j] \in Int
        BY Coordinates
      <3> QED
        BY <1>5, <1>7, <3>1, <3>2
    <2> QED
      BY <2>1 DEF Within
  <1> QED
    BY <1>7, <1>8, <1>9

(* The witness of a component decides as the solid does, or not at all where   *)
(* intervals do not tell: the middle of a cell that no face touches is a point *)
(* of the cell, and so is the corner an interval stands for.                   *)
LEMMA ClassifyIs ==
  ASSUME NEW solid, IsSolid(solid), NEW pose \in Poses, NEW q, IsPlaced(q, solid, pose),
         NEW p \in Nat \ {0}, NEW c \in Points \ Edged(solid, p),
         NEW decision, decision = classify_material_witness(q, c, p)
  PROVE  /\ c \in Touched(solid, p) => decision \in {"yes", "indeterminate"}
         /\ decision = "yes" => c \in Touched(solid, p)
         /\ pose.exact => decision \in {"yes", "no"}
  <1>1. PICK box, corner : box = CellBox(c, p) /\ corner = Corner(c, p)
    OBVIOUS
  <1>2. PICK inside : inside = IF pose.exact THEN point_in_material(midpoint(box), q)
                               ELSE local_interval_point_in_material(box, q)
    OBVIOUS
  <1>3. decision = IF Separated(q.bounds, c, p) THEN "no" ELSE inside
    BY <1>1, <1>2 DEF classify_material_witness, IsPlaced
  <1>4. c \in Touched(solid, p) => ~Separated(q.bounds, c, p)
    BY BoundsEnclose, SeparatedIsUntouched
  <1>5. ASSUME NEW k \in Axes
        PROVE  /\ c[k] * p \in Int /\ (c[k] + 1) * p \in Int /\ c[k] * p <= (c[k] + 1) * p
               /\ box.first[k] = c[k] * p /\ box.last[k] = (c[k] + 1) * p
               /\ corner[k] = c[k] * p
    <2>1. c[k] \in Int
      BY Coordinates
    <2>2. /\ c[k] * p \in Int /\ (c[k] + 1) * p \in Int /\ (c[k] + 1) * p = c[k] * p + p
      BY <2>1, Multiples
    <2>3. c[k] * p <= (c[k] + 1) * p
      BY <2>2
    <2> QED
      BY <1>1, <2>2, <2>3 DEF CellBox, Box, Corner, Axes
  <1>6. IsWindow(box)
    <2>1. PICK x, y : x = [k \in Axes |-> c[k] * p] /\ y = [k \in Axes |-> (c[k] + 1) * p]
      OBVIOUS
    <2>2. x \in [Axes -> Int] /\ y \in [Axes -> Int]
      BY <1>5, <2>1
    <2> QED
      BY <1>1, <2>1, <2>2 DEF IsWindow, CellBox
  <1>7. corner \in Points /\ InBox(corner, box)
    <2>1. corner \in Points
      BY <1>1, CornerMeets
    <2> QED
      BY <1>5, <2>1 DEF InBox
  <1>8. (c \in Touched(solid, p)) <=> (corner \in solid)
    BY <1>1, CornerDecides
  <1>9. CASE ~pose.exact
    <2>1. /\ inside \in {"yes", "no", "indeterminate"}
          /\ inside = "no" => corner \notin solid
          /\ inside = "yes" => \A u \in Points :
               (\A k \in Axes : corner[k] - 1 <= u[k] /\ u[k] <= corner[k]) => u \in solid
      BY <1>2, <1>6, <1>7, <1>9, IntervalAnswers
    <2>2. \A k \in Axes : corner[k] - 1 <= corner[k] /\ corner[k] <= corner[k]
      BY <1>5
    <2> QED
      BY <1>3, <1>4, <1>7, <1>8, <1>9, <2>1, <2>2
  <1>10. CASE pose.exact
    <2>1. PICK m \in Points : m = midpoint(box) /\ InBox(m, box)
      BY <1>6, <1>7, MiddleIsIn
    <2>2. ASSUME NEW u \in Points, Within(m, u)
          PROVE  (u \in solid) <=> (c \in Touched(solid, p))
      <3>1. Meets(u, c, p)
        <4>1. ASSUME NEW k \in Axes
              PROVE  c[k] * p <= u[k] + 1 /\ u[k] <= (c[k] + 1) * p
          <5>1. PICK x \in Int, y \in Int : x = c[k] * p /\ y = (c[k] + 1) * p
            BY <1>5
          <5>2. x <= m[k] /\ m[k] <= y
            BY <1>5, <2>1, <5>1 DEF InBox
          <5>3. u[k] <= m[k] /\ m[k] <= u[k] + 1 /\ u[k] \in Int /\ m[k] \in Int
            BY <2>2, Coordinates DEF Within
          <5> QED
            BY <5>1, <5>2, <5>3
        <4> QED
          BY <4>1 DEF Meets
      <3>2. Corner(c, p) \in Points /\ Meets(Corner(c, p), c, p)
        BY CornerMeets
      <3>3. (u \in solid) <=> (Corner(c, p) \in solid)
        BY <3>1, <3>2, CellIsUniform
      <3> QED
        BY <1>1, <1>8, <3>3
    <2>3. Within(m, m)
      <3>1. \A k \in Axes : m[k] \in Int
        BY Coordinates
      <3> QED
        BY <3>1 DEF Within
    <2>4. /\ inside = "no" => m \notin solid
          /\ inside \in {"yes", "no", "indeterminate"}
      BY <1>2, <1>10, <2>1, PointAnswers
    <2>5. inside = "yes" => m \in solid
      BY <1>2, <1>10, <2>1, <2>3, PointTells
    <2>6. ASSUME inside = "indeterminate"
          PROVE  FALSE
      <3>1. point_in_material(m, q) = "indeterminate"
        BY <1>2, <1>10, <2>1, <2>6
      <3>2. \E u \in solid : u \in Points /\ Within(m, u)
        BY <1>10, <3>1, PointInDoubt
      <3>3. \E u \in Points \ solid : Within(m, u)
        <4>1. CASE ~q.cuboid
          BY <1>10, <3>1, <4>1, PointInDoubt
        <4>2. CASE q.cuboid
          BY <3>1, <4>2, OnTheExtent
        <4> QED
          BY <4>1, <4>2
      <3> QED
        BY <2>2, <3>2, <3>3
    <2> QED
      BY <1>3, <1>4, <1>10, <2>2, <2>3, <2>4, <2>5, <2>6
  <1> QED
    BY <1>9, <1>10

(* A component is filled as its witness is: the whole of it is like that.      *)
LEMMA PartIsUniform ==
  ASSUME NEW solid, IsSolid(solid), NEW p \in Nat \ {0},
         NEW open, IsFiniteSet(open), open \subseteq Points \ Edged(solid, p),
         NEW part \in Components(open)
  PROVE  /\ part \subseteq open /\ Witness(part) \in part
         /\ \A c \in part : (c \in Touched(solid, p)) <=> (Witness(part) \in Touched(solid, p))
  <1>1. PICK cell \in open : part = Flood(cell, open)
    BY DEF Components
  <1>2. /\ cell \in part /\ part \subseteq open
        /\ \A D \in SUBSET open : cell \in D /\ Closed(D, open) => part \subseteq D
    BY <1>1, FloodIs
  <1>3. Witness(part) \in part
    <2>1. IsFiniteSet(part) /\ part \subseteq Points
      BY <1>2, FS_Subset
    <2> QED
      BY <1>2, <2>1, WitnessIsOne
  <1> DEFINE D == {c \in open : (c \in Touched(solid, p)) <=> (cell \in Touched(solid, p))}
  <1>4. Closed(D, open)
    <2>1. SUFFICES ASSUME NEW d \in Around(D) \cap open
                   PROVE  d \in D
      BY DEF Closed
    <2>2. PICK c \in D : d \in Adjacent(c)
      BY <2>1 DEF Around
    <2>3. (c \in Touched(solid, p)) <=> (d \in Touched(solid, p))
      BY <2>1, <2>2, NextCellAgrees
    <2> QED
      BY <2>1, <2>2, <2>3
  <1>5. part \subseteq D
    <2>1. D \in SUBSET open /\ cell \in D
      OBVIOUS
    <2> HIDE DEF D
    <2> QED
      BY <1>2, <1>4, <2>1
  <1> QED
    BY <1>2, <1>3, <1>5

(* So does the filling of all the components.                                  *)
LEMMA FillIs ==
  ASSUME NEW solid, IsSolid(solid), NEW pose \in Poses, NEW q, IsPlaced(q, solid, pose),
         NEW p \in Nat \ {0},
         NEW open, IsFiniteSet(open), open \subseteq Points \ Edged(solid, p),
         NEW filled, filled = fill_components(q, open, p)
  PROVE  /\ filled.material \subseteq Touched(solid, p) \cap open
         /\ filled.unknown \subseteq open
         /\ Touched(solid, p) \cap open \subseteq filled.material \cup filled.unknown
         /\ pose.exact => filled.unknown = {}
  <1> DEFINE Are(decision) ==
               UNION {c \in Components(open) :
                        classify_material_witness(q, Witness(c), p) = decision}
  <1>1. filled.material = Are("yes") /\ filled.unknown = Are("indeterminate")
    BY DEF fill_components
  <1>2. ASSUME NEW part \in Components(open), NEW decision,
               decision = classify_material_witness(q, Witness(part), p)
        PROVE  /\ part \subseteq open
               /\ part \cap Touched(solid, p) # {} => decision \in {"yes", "indeterminate"}
               /\ decision = "yes" => part \subseteq Touched(solid, p)
               /\ pose.exact => decision \in {"yes", "no"}
    <2>1. /\ part \subseteq open /\ Witness(part) \in part
          /\ \A c \in part : (c \in Touched(solid, p))
                               <=> (Witness(part) \in Touched(solid, p))
      BY PartIsUniform
    <2>2. Witness(part) \in Points \ Edged(solid, p)
      BY <2>1
    <2>3. /\ Witness(part) \in Touched(solid, p) => decision \in {"yes", "indeterminate"}
          /\ decision = "yes" => Witness(part) \in Touched(solid, p)
          /\ pose.exact => decision \in {"yes", "no"}
      BY <1>2, <2>2, ClassifyIs
    <2> QED
      BY <2>1, <2>3
  <1>3. ASSUME NEW c \in Are("yes")
        PROVE  c \in Touched(solid, p) /\ c \in open
    <2>1. PICK part \in Components(open) :
            c \in part /\ classify_material_witness(q, Witness(part), p) = "yes"
      BY <1>3
    <2> QED
      BY <1>2, <2>1
  <1>4. ASSUME NEW c \in Are("indeterminate")
        PROVE  c \in open /\ ~pose.exact
    <2>1. PICK part \in Components(open) :
            c \in part /\ classify_material_witness(q, Witness(part), p) = "indeterminate"
      BY <1>4
    <2>2. part \subseteq open /\ (pose.exact => "indeterminate" \in {"yes", "no"})
      BY <1>2, <2>1
    <2> QED
      BY <2>1, <2>2
  <1>5. ASSUME NEW c \in open, c \in Touched(solid, p)
        PROVE  c \in Are("yes") \cup Are("indeterminate")
    <2>1. PICK part : part = Flood(c, open)
      OBVIOUS
    <2>2. part \in Components(open) /\ c \in part
      BY <2>1, FloodIs DEF Components
    <2>3. PICK decision : decision = classify_material_witness(q, Witness(part), p)
      OBVIOUS
    <2>4. decision \in {"yes", "indeterminate"}
      BY <1>2, <1>5, <2>2, <2>3
    <2>5. part \in {d \in Components(open) :
                      classify_material_witness(q, Witness(d), p) = decision}
      BY <2>2, <2>3
    <2>6. c \in Are(decision)
      BY <2>2, <2>5
    <2> HIDE DEF Are
    <2> QED
      BY <2>4, <2>6
  <1> HIDE DEF Are
  <1> QED
    BY <1>1, <1>3, <1>4, <1>5

(* The raw field holds every cell of its window that meets the solid, and no   *)
(* other where the pose is exact; what it calls material is all of the solid.  *)
LEMMA RawIs ==
  ASSUME NEW solid, IsSolid(solid), NEW pose \in Poses, NEW q, IsPlaced(q, solid, pose),
         NEW p \in Nat \ {0}, NEW a \in [Axes -> Int], NEW b \in [Axes -> Int],
         NEW raw, raw = make_raw(q, Box(a, b), p)
  PROVE  /\ raw.window = Box(a, b)
         /\ Material(raw) \subseteq Cells(Box(a, b))
         /\ Touched(solid, p) \cap Cells(Box(a, b)) \subseteq Material(raw)
         /\ pose.exact => Material(raw) = Touched(solid, p) \cap Cells(Box(a, b))
         /\ raw.material \subseteq Touched(solid, p) \ Edged(solid, p)
  <1>1. PICK edge : edge = rasterize_boundary(q, Box(a, b), p)
    OBVIOUS
  <1>2. PICK filled : filled = fill_components(q, Cells(Box(a, b)) \ edge, p)
    OBVIOUS
  <1>3. /\ raw.window = Box(a, b) /\ raw.boundary = edge
        /\ raw.material = filled.material /\ raw.unknown = filled.unknown
    BY <1>1, <1>2 DEF make_raw
  <1>4. /\ edge \subseteq Cells(Box(a, b))
        /\ Cells(Box(a, b)) \cap Edged(solid, p) \subseteq edge
        /\ pose.exact => edge = Cells(Box(a, b)) \cap Edged(solid, p)
    BY <1>1, RasterIs
  <1>5. PICK open : open = Cells(Box(a, b)) \ edge
    OBVIOUS
  <1>6. IsFiniteSet(open) /\ open \subseteq Points \ Edged(solid, p)
    <2>1. IsFiniteSet(Cells(Box(a, b))) /\ Cells(Box(a, b)) \subseteq Points
      BY CellsFinite
    <2>2. IsFiniteSet(Cells(Box(a, b)) \ edge)
      BY <2>1, FS_Difference
    <2> QED
      BY <1>4, <1>5, <2>1, <2>2
  <1>7. /\ filled.material \subseteq Touched(solid, p) \cap open
        /\ filled.unknown \subseteq open
        /\ Touched(solid, p) \cap open \subseteq filled.material \cup filled.unknown
        /\ pose.exact => filled.unknown = {}
    <2>1. filled = fill_components(q, open, p)
      BY <1>2, <1>5
    <2> QED
      BY <1>6, <2>1, FillIs
  <1>8. Edged(solid, p) \subseteq Touched(solid, p)
    BY EdgedAreTouched
  <1>9. Material(raw) = edge \cup filled.material \cup filled.unknown
    BY <1>3 DEF Material
  <1> QED
    BY <1>3, <1>4, <1>5, <1>6, <1>7, <1>8, <1>9
-----------------------------------------------------------------------------
(* The fields                                                                  *)

(* The quotient rounded up.                                                    *)
LEMMA CeilBounds ==
  ASSUME NEW a \in Int, NEW p \in Nat \ {0}
  PROVE  /\ CeilDiv(a, p) \in Int
         /\ a <= CeilDiv(a, p) * p /\ CeilDiv(a, p) * p < a + p
  <1> DEFINE q == (-a) \div p
  <1>1. PICK n \in Int : n = -a
    OBVIOUS
  <1>2. n \div p \in Int /\ (n \div p) * p <= n /\ n < (n \div p) * p + p
    BY QuotientBounds
  <1>3. q \in Int /\ q * p <= -a /\ -a < q * p + p
    BY <1>1, <1>2
  <1>4. CeilDiv(a, p) = -q
    BY DEF CeilDiv
  <1> HIDE DEF q
  <1>5. PICK m \in Int : m = q * p
    BY <1>3, Multiples
  <1>6. (-q) * p = -m
    BY <1>3, <1>5
  <1> QED
    BY <1>3, <1>4, <1>5, <1>6

(* A halo is a number of cells.                                                *)
LEMMA HaloIs ==
  ASSUME NEW clearance \in Nat, NEW p \in Nat \ {0}
  PROVE  clearance_halo(clearance, p) \in Nat
  <1>1. CASE clearance = 0
    BY <1>1 DEF clearance_halo
  <1>2. CASE clearance # 0
    <2>0. clearance \in Int
      OBVIOUS
    <2>1. PICK q \in Int : q = CeilDiv(clearance, p) /\ clearance <= q * p
      BY <2>0, CeilBounds
    <2>2. PICK zero \in Int : zero = 0
      OBVIOUS
    <2>3. ~(q * p <= zero * p)
      <3>1. zero * p = 0 /\ q * p \in Int
        BY <2>2
      <3> QED
        BY <1>2, <2>1, <3>1
    <2>4. ~(q <= zero)
      BY <2>3, MultiplesInOrder
    <2> QED
      BY <1>2, <2>1, <2>2, <2>4 DEF clearance_halo
  <1> QED
    BY <1>1, <1>2

(* The environment is a window.                                                *)
LEMMA EnvironmentIs ==
  ASSUME NEW s \in Scenes
  PROVE  \E a, b \in [Axes -> Int] : Environment(s) = Box(a, b)
  <1> DEFINE a == [k \in Axes |-> (Low(s.container, k) \div s.pitch) - 1]
             b == [k \in Axes |-> CeilDiv(High(s.container, k), s.pitch)]
  <1>1. ASSUME NEW k \in Axes
        PROVE  a[k] \in Int /\ b[k] \in Int
    <2>1. Low(s.container, k) \in Int /\ High(s.container, k) \in Int
      BY SceneIs, SolidBounds
    <2>2. Low(s.container, k) \div s.pitch \in Int /\ CeilDiv(High(s.container, k), s.pitch) \in Int
      BY <2>1, SceneIs, QuotientBounds, CeilBounds
    <2> QED
      BY <2>2
  <1>2. a \in [Axes -> Int] /\ b \in [Axes -> Int]
    BY <1>1
  <1>3. Environment(s) = Box(a, b)
    BY DEF Environment
  <1> QED
    BY <1>2, <1>3

(* What a dilation reaches inside the window.                                  *)
LEMMA DilatedIs ==
  ASSUME NEW seeds, NEW stencil, NEW requested, NEW c
  PROVE  (c \in dilate_and_crop(seeds, stencil, requested)) <=>
           /\ c \in Cells(requested)
           /\ \E d \in stencil : \E u \in seeds : c = <<u[1] + d[1], u[2] + d[2]>>
  <1>1. (c \in UNION {Moved(seeds, d) : d \in stencil}) <=> \E d \in stencil : c \in Moved(seeds, d)
    OBVIOUS
  <1>2. \A d : (c \in Moved(seeds, d)) <=> \E u \in seeds : c = <<u[1] + d[1], u[2] + d[2]>>
    BY MovedIs
  <1>3. (c \in dilate_and_crop(seeds, stencil, requested)) <=>
          c \in Cells(requested) /\ c \in UNION {Moved(seeds, d) : d \in stencil}
    BY DEF dilate_and_crop
  <1> QED
    BY <1>1, <1>2, <1>3

(* The trimmed window has every cell the solid touches.                        *)
LEMMA TrimmedIs ==
  ASSUME NEW solid, IsSolid(solid), NEW p \in Nat \ {0}, NEW box, Encloses(box, solid)
  PROVE  \E a, b \in [Axes -> Int] :
           /\ Trimmed(box, p) = Box(a, b)
           /\ \A c \in Touched(solid, p), k \in Axes : a[k] <= c[k] /\ c[k] <= b[k]
  <1> DEFINE a == [k \in Axes |-> (box.first[k] \div p) - 1]
             b == [k \in Axes |-> (box.last[k] \div p) + 1]
  <1>1. ASSUME NEW k \in Axes
        PROVE  /\ box.first[k] \in Int /\ box.last[k] \in Int
               /\ box.first[k] \div p \in Int /\ box.last[k] \div p \in Int
    <2>1. box.first[k] \in Int /\ box.last[k] \in Int
      BY DEF Encloses, IsWindow, Box
    <2> QED
      BY <2>1, QuotientBounds
  <1>2. a \in [Axes -> Int] /\ b \in [Axes -> Int]
    BY <1>1
  <1>3. Trimmed(box, p) = Box(a, b)
    BY DEF Trimmed
  <1>4. ASSUME NEW c \in Touched(solid, p), NEW k \in Axes
        PROVE  a[k] <= c[k] /\ c[k] <= b[k]
    <2>1. PICK l \in Int, h \in Int : l = box.first[k] /\ h = box.last[k]
      BY <1>1
    <2>2. PICK u \in solid : Meets(u, c, p) /\ c \in Points
      BY DEF Touched
    <2>3. c[k] \in Int /\ c[k] * p <= u[k] + 1 /\ u[k] <= (c[k] + 1) * p
      BY <2>2, Coordinates DEF Meets
    <2>4. u[k] \in Int /\ l <= u[k] /\ u[k] + 1 <= h
      BY <2>1, <2>2 DEF Encloses
    <2>5. PICK x \in Int, y \in Int : x = c[k] * p /\ y = (c[k] + 1) * p
      BY <2>3, Multiples
    <2>6. c[k] * p <= h /\ l <= (c[k] + 1) * p
      <3>1. x <= h /\ l <= y
        BY <2>3, <2>4, <2>5
      <3> QED
        BY <2>5, <3>1
    <2>7. (l \div p) - 1 <= c[k] /\ c[k] <= h \div p
      BY <2>3, <2>6, CellRange
    <2>8. PICK m \in Int, n \in Int : m = l \div p /\ n = h \div p
      BY <1>1, <2>1
    <2>9. a[k] = m - 1 /\ b[k] = n + 1
      BY <2>1, <2>8
    <2> HIDE DEF a, b
    <2> QED
      BY <2>3, <2>7, <2>8, <2>9
  <1> HIDE DEF a, b
  <1> QED
    BY <1>2, <1>3, <1>4

(* The planned part of a window has every cell of it that the solid touches.   *)
LEMMA PlanIs ==
  ASSUME NEW solid, IsSolid(solid), NEW p \in Nat \ {0}, NEW box, Encloses(box, solid),
         NEW a \in [Axes -> Int], NEW b \in [Axes -> Int]
  PROVE  /\ IsWindow(plan_placed_raw_window(box, Box(a, b), p))
         /\ Touched(solid, p) \cap Cells(Box(a, b))
              \subseteq Cells(plan_placed_raw_window(box, Box(a, b), p))
  <1>0. PICK plan : plan = plan_placed_raw_window(box, Box(a, b), p)
    OBVIOUS
  <1>1. PICK l \in [Axes -> Int], h \in [Axes -> Int] :
          /\ Trimmed(box, p) = Box(l, h)
          /\ \A c \in Touched(solid, p), k \in Axes : l[k] <= c[k] /\ c[k] <= h[k]
    BY TrimmedIs
  <1> DEFINE x == [k \in Axes |-> Max({a[k], l[k]})]
             y == [k \in Axes |-> Min({b[k], h[k]})]
  <1>2. plan = Box(x, y) \/ plan = Box(a, b)
    <2>1. Trimmed(box, p).first = l /\ Trimmed(box, p).last = h
      BY <1>1 DEF Box
    <2>2. Box(a, b).first = a /\ Box(a, b).last = b
      BY DEF Box
    <2> DEFINE part == Box([k \in Axes |-> Max({Box(a, b).first[k], Trimmed(box, p).first[k]})],
                           [k \in Axes |-> Min({Box(a, b).last[k], Trimmed(box, p).last[k]})])
    <2>3. part = Box(x, y)
      BY <2>1, <2>2
    <2>4. plan = part \/ plan = Box(a, b)
      <3> HIDE DEF x, y
      <3> QED
        BY <1>0 DEF plan_placed_raw_window
    <2> QED
      BY <2>3, <2>4
  <1>3. ASSUME NEW k \in Axes
        PROVE  /\ x[k] = (IF a[k] > l[k] THEN a[k] ELSE l[k])
               /\ y[k] = (IF b[k] < h[k] THEN b[k] ELSE h[k])
               /\ x[k] \in Int /\ y[k] \in Int
               /\ a[k] \in Int /\ b[k] \in Int /\ l[k] \in Int /\ h[k] \in Int
    <2>1. a[k] \in Int /\ b[k] \in Int /\ l[k] \in Int /\ h[k] \in Int
      OBVIOUS
    <2>2. /\ Max({a[k], l[k]}) = (IF a[k] > l[k] THEN a[k] ELSE l[k])
          /\ Min({b[k], h[k]}) = (IF b[k] < h[k] THEN b[k] ELSE h[k])
      BY <2>1, OfTwo
    <2> QED
      BY <2>1, <2>2
  <1>4. x \in [Axes -> Int] /\ y \in [Axes -> Int]
    BY <1>3
  <1>5. ASSUME NEW c \in Touched(solid, p) \cap Cells(Box(a, b))
        PROVE  c \in Cells(Box(x, y))
    <2>1. c \in Points /\ \A k \in Axes : a[k] <= c[k] /\ c[k] <= b[k]
      BY InCells
    <2>2. ASSUME NEW k \in Axes
          PROVE  x[k] <= c[k] /\ c[k] <= y[k]
      <3> HIDE DEF x, y
      <3>1. a[k] <= c[k] /\ c[k] <= b[k] /\ l[k] <= c[k] /\ c[k] <= h[k]
        BY <1>1, <2>1
      <3> QED
        BY <1>3, <3>1
    <2> HIDE DEF x, y
    <2> QED
      BY <1>4, <2>1, <2>2, InCells
  <1> HIDE DEF x, y
  <1>6. CASE plan = Box(x, y)
    BY <1>0, <1>4, <1>5, <1>6 DEF IsWindow
  <1>7. CASE plan = Box(a, b)
    BY <1>0, <1>7 DEF IsWindow
  <1> QED
    BY <1>2, <1>6, <1>7

(* What comes within the clearance of the cells a copy meets.                  *)
ReachedBy(s, copy) ==
  UNION {Moved(Touched(Solid(s, copy), s.pitch), d) : d \in make_stencil(s.pair, s.pitch)}

(* What the property calls the reach of a copy, for any problem.               *)
LEMMA ReachIs ==
  ASSUME scene \in Scenes, NEW copy \in Copies(scene)
  PROVE  Reach(copy) = ReachedBy(scene, copy)
  <1>1. UNION {{c \in Cells(Trimmed(Extent({u}), scene.pitch)) : ~Separated(Extent({u}), c, scene.pitch)} :
                 u \in Solid(scene, copy)}
          = Touched(Solid(scene, copy), scene.pitch)
    BY SolidIs, SceneIs, TouchedAre
  <1> QED
    BY <1>1 DEF Reach, ReachedBy

(* Cells that come from outside the widened window do not reach the window.    *)
LEMMA HaloIsEnough ==
  ASSUME NEW a \in [Axes -> Int], NEW b \in [Axes -> Int], NEW halo \in Nat,
         NEW x, NEW y, x = [k \in Axes |-> a[k] - halo], y = [k \in Axes |-> b[k] + halo],
         NEW d \in (-halo..halo) \X (-halo..halo), NEW c \in Points,
         <<c[1] + d[1], c[2] + d[2]>> \in Cells(Box(a, b))
  PROVE  c \in Cells(Box(x, y))
  <1>1. /\ d[1] \in Int /\ -halo <= d[1] /\ d[1] <= halo
        /\ d[2] \in Int /\ -halo <= d[2] /\ d[2] <= halo
    OBVIOUS
  <1>2. c[1] \in Int /\ c[2] \in Int /\ c = <<c[1], c[2]>>
    BY DEF Points
  <1>3. x \in [Axes -> Int] /\ y \in [Axes -> Int]
    OBVIOUS
  <1>4. /\ a[1] <= c[1] + d[1] /\ c[1] + d[1] <= b[1]
        /\ a[2] <= c[2] + d[2] /\ c[2] + d[2] <= b[2]
    <2>1. PICK e : e = <<c[1] + d[1], c[2] + d[2]>>
      OBVIOUS
    <2>2. \A k \in Axes : a[k] <= e[k] /\ e[k] <= b[k]
      BY <2>1, InCells
    <2> QED
      BY <2>1, <2>2 DEF Axes
  <1>5. /\ x[1] = a[1] - halo /\ x[2] = a[2] - halo /\ y[1] = b[1] + halo /\ y[2] = b[2] + halo
        /\ a[1] \in Int /\ a[2] \in Int /\ b[1] \in Int /\ b[2] \in Int
    BY DEF Axes
  <1>6. /\ x[1] <= c[1] /\ c[1] <= y[1] /\ x[2] <= c[2] /\ c[2] <= y[2]
    BY <1>1, <1>2, <1>4, <1>5
  <1>7. \A k \in Axes : x[k] <= c[k] /\ c[k] <= y[k]
    BY <1>6 DEF Axes
  <1> QED
    BY <1>3, <1>7, InCells

(* The field of a copy: what it reaches in the environment.                    *)
LEMMA FieldIs ==
  ASSUME NEW s \in Scenes, NEW copy \in Copies(s)
  PROVE  /\ FieldOf[s][copy] \subseteq Cells(Environment(s))
         /\ ReachedBy(s, copy) \cap Cells(Environment(s)) \subseteq FieldOf[s][copy]
         /\ s.pose[copy.turn].exact => FieldOf[s][copy] = ReachedBy(s, copy) \cap Cells(Environment(s))
  <1>0. PICK solid : solid = Solid(s, copy)
    OBVIOUS
  <1>1. IsSolid(solid) /\ s.pitch \in Nat \ {0} /\ s.pair \in Nat
    BY <1>0, SolidIs, SceneIs
  <1>20. PICK pose, q : /\ pose \in Poses /\ pose = s.pose[copy.turn]
                        /\ q = place(solid, pose) /\ IsPlaced(q, solid, pose)
    <2>1. s.pose[copy.turn] \in Poses
      BY SceneIs DEF Copies
    <2> QED
      BY <1>1, <2>1, PlacedIs
  <1>2. PICK a \in [Axes -> Int], b \in [Axes -> Int] : Environment(s) = Box(a, b)
    BY EnvironmentIs
  <1>3. PICK halo \in Nat : halo = clearance_halo(s.pair, s.pitch)
    BY <1>1, HaloIs
  <1>4. PICK x, y : x = [k \in Axes |-> a[k] - halo] /\ y = [k \in Axes |-> b[k] + halo]
    OBVIOUS
  <1>5. /\ x \in [Axes -> Int] /\ y \in [Axes -> Int]
        /\ expanded(Environment(s), halo) = Box(x, y)
    BY <1>2, <1>4 DEF expanded, Box
  <1>6. PICK plan : plan = plan_placed_raw_window(q.bounds, Box(x, y), s.pitch)
    OBVIOUS
  <1>19. PICK p \in Nat \ {0} : p = s.pitch /\ plan = plan_placed_raw_window(q.bounds, Box(x, y), p)
    BY <1>1, <1>6
  <1>7. PICK l \in [Axes -> Int], h \in [Axes -> Int] :
          /\ plan = Box(l, h)
          /\ Touched(solid, p) \cap Cells(Box(x, y)) \subseteq Cells(Box(l, h))
    <2>1. x \in [Axes -> Int] /\ y \in [Axes -> Int] /\ Encloses(q.bounds, solid)
      BY <1>1, <1>5, <1>20, BoundsEnclose
    <2>2. /\ IsWindow(plan_placed_raw_window(q.bounds, Box(x, y), p))
          /\ Touched(solid, p) \cap Cells(Box(x, y))
               \subseteq Cells(plan_placed_raw_window(q.bounds, Box(x, y), p))
      BY <1>1, <1>19, <2>1, PlanIs
    <2> QED
      BY <1>19, <2>2 DEF IsWindow
  <1>8. Touched(solid, s.pitch) \cap Cells(Box(x, y)) \subseteq Cells(plan)
    BY <1>7, <1>19
  <1>9. PICK raw : raw = make_raw(q, plan, s.pitch)
    OBVIOUS
  <1>10. /\ Touched(solid, s.pitch) \cap Cells(plan) \subseteq Material(raw)
         /\ pose.exact => Material(raw) = Touched(solid, s.pitch) \cap Cells(plan)
    BY <1>1, <1>7, <1>9, <1>20, RawIs
  <1>11. PICK stencil : stencil = make_stencil(s.pair, s.pitch)
    OBVIOUS
  <1>12. FieldOf[s][copy] = IF Cells(plan) = {} THEN {}
                            ELSE dilate_and_crop(Material(raw), stencil, Environment(s))
    <2>1. FieldOf[s][copy] = voxelize_placed(s, copy)
      BY DEF FieldOf
    <2>2. plan = plan_placed_raw_window(q.bounds,
                   expanded(Environment(s), clearance_halo(s.pair, s.pitch)), s.pitch)
      BY <1>0, <1>3, <1>5, <1>6
    <2> QED
      BY <1>0, <1>9, <1>11, <1>20, <2>1, <2>2 DEF voxelize_placed
  <1>13. ASSUME NEW c
         PROVE  (c \in dilate_and_crop(Material(raw), stencil, Environment(s))) <=>
                  /\ c \in Cells(Environment(s))
                  /\ \E d \in stencil : \E u \in Material(raw) : c = <<u[1] + d[1], u[2] + d[2]>>
    BY DilatedIs
  <1>14. ASSUME NEW c
         PROVE  (c \in ReachedBy(s, copy)) <=>
                  \E d \in stencil, u \in Touched(solid, s.pitch) : c = <<u[1] + d[1], u[2] + d[2]>>
    BY <1>0, <1>11, MovedIs DEF ReachedBy
  <1>15. ASSUME NEW c \in ReachedBy(s, copy) \cap Cells(Environment(s))
         PROVE  \E d \in stencil, u \in Touched(solid, s.pitch) \cap Cells(plan) :
                  c = <<u[1] + d[1], u[2] + d[2]>>
    <2>1. PICK d \in stencil, u \in Touched(solid, s.pitch) : c = <<u[1] + d[1], u[2] + d[2]>>
      BY <1>14
    <2>2. d \in (-halo..halo) \X (-halo..halo)
      BY <1>3, <1>11, <2>1 DEF make_stencil
    <2>3. u \in Points
      BY DEF Touched
    <2>4. <<u[1] + d[1], u[2] + d[2]>> \in Cells(Box(a, b))
      BY <1>2, <2>1
    <2>5. u \in Cells(Box(x, y))
      BY <1>4, <2>2, <2>3, <2>4, HaloIsEnough
    <2> QED
      BY <1>8, <2>1, <2>5
  <1>16. FieldOf[s][copy] \subseteq Cells(Environment(s))
    BY <1>12, <1>13
  <1>17. ReachedBy(s, copy) \cap Cells(Environment(s)) \subseteq FieldOf[s][copy]
    <2>1. SUFFICES ASSUME NEW c \in ReachedBy(s, copy) \cap Cells(Environment(s))
                   PROVE  c \in FieldOf[s][copy]
      OBVIOUS
    <2>2. PICK d \in stencil, u \in Touched(solid, s.pitch) \cap Cells(plan) :
            c = <<u[1] + d[1], u[2] + d[2]>>
      BY <1>15
    <2>3. u \in Material(raw) /\ Cells(plan) # {}
      BY <1>10, <2>2
    <2> QED
      BY <1>12, <1>13, <2>2, <2>3
  <1>18. ASSUME pose.exact, NEW c \in FieldOf[s][copy]
         PROVE  c \in ReachedBy(s, copy)
    <2>1. c \in dilate_and_crop(Material(raw), stencil, Environment(s))
      BY <1>12, <1>18
    <2>2. PICK d \in stencil, u \in Material(raw) : c = <<u[1] + d[1], u[2] + d[2]>>
      BY <1>13, <2>1
    <2>3. u \in Touched(solid, s.pitch)
      BY <1>10, <1>18, <2>2
    <2> QED
      BY <1>14, <2>2, <2>3
  <1> QED
    BY <1>16, <1>17, <1>18, <1>20

(* The container's field is one of its environment.                            *)
LEMMA MaskIsInside ==
  ASSUME NEW s \in Scenes
  PROVE  MaskOf[s] \subseteq Cells(Environment(s))
  <1>1. AnalyticMask(s) \subseteq Cells(Environment(s))
    BY DEF AnalyticMask
  <1>2. SolidMask(s) \subseteq Cells(Environment(s))
    <2>1. SUFFICES ASSUME NEW c \in SolidMask(s)
                   PROVE  c \in Cells(Environment(s))
      OBVIOUS
    <2> QED
      BY <2>1, DilatedIs DEF SolidMask
  <1>3. MaskOf[s] = AnalyticMask(s) \/ MaskOf[s] = SolidMask(s)
    BY DEF MaskOf, voxelize_container
  <1> QED
    BY <1>1, <1>2, <1>3
-----------------------------------------------------------------------------
(* The update of the workspace                                                 *)

(* A blocked field is that of some copies: it counts, for every cell, the      *)
(* copies whose field has it, and remembers each field by its copy's name.     *)
BlockedBy(s, b, poses) ==
  /\ b.counts = [c \in Cells(Environment(s)) |-> Cardinality({p \in poses : c \in FieldOf[s][p]})]
  /\ DOMAIN b.footprints = {p.id : p \in poses}
  /\ \A p \in poses : b.footprints[p.id] = FieldOf[s][p]

BlockedCells(s, b) == {c \in Cells(Environment(s)) : c \in MaskOf[s] \/ b.counts[c] # 0}

IsLive(s, l) ==
  /\ l.poses \in Layouts(s) /\ BlockedBy(s, l.blocked, l.poses)
  /\ l.occupied = BlockedCells(s, l.blocked)

LiveInv == live = {} \/ \E l : live = {l} /\ IsLive(scene, l)

MaskInv ==
  /\ mask = {} \/ mask = {MaskOf[scene]}
  /\ live # {} \/ step \in {"compare", "remove", "add"} => mask = {MaskOf[scene]}

RemoveInv ==
  step = "remove" => /\ todo \subseteq LivePoses \ asked
                     /\ \E b : /\ staged = {b}
                               /\ BlockedBy(scene, b, (LivePoses \cap asked) \cup todo)

AddInv ==
  step = "add" => /\ todo \subseteq asked \ LivePoses
                  /\ \E b : staged = {b} /\ BlockedBy(scene, b, asked \ todo)

UpdateInv ==
  /\ scene \in Scenes /\ asked \in Layouts(scene)
  /\ MaskInv /\ LiveInv /\ RemoveInv /\ AddInv

(* A new blocked field is that of no copies.                                   *)
LEMMA NothingBlocks ==
  ASSUME NEW s
  PROVE  BlockedBy(s, make_blocked_field(s), {})
  <1>1. Cardinality({}) = 0
    BY FS_EmptySet
  <1>2. \A c : {p \in {} : c \in FieldOf[s][p]} = {}
    OBVIOUS
  <1>3. make_blocked_field(s).counts = [c \in Cells(Environment(s)) |-> 0]
        /\ make_blocked_field(s).footprints = <<>>
    BY DEF make_blocked_field
  <1>4. DOMAIN <<>> = {}
    OBVIOUS
  <1>5. [c \in Cells(Environment(s)) |-> Cardinality({p \in {} : c \in FieldOf[s][p]})]
          = [c \in Cells(Environment(s)) |-> 0]
    BY <1>1, <1>2
  <1> QED
    BY <1>3, <1>4, <1>5 DEF BlockedBy

(* One copy less, one copy more.                                               *)
LEMMA RemoveUnblocks ==
  ASSUME NEW s, NEW poses \in Layouts(s), NEW b, BlockedBy(s, b, poses), NEW p \in poses
  PROVE  BlockedBy(s, Remove(b, p.id), poses \ {p})
  <1> DEFINE C == Cells(Environment(s))
             Of(c, some) == {q \in some : c \in FieldOf[s][q]}
  <1>1. /\ b.counts = [c \in C |-> Cardinality(Of(c, poses))]
        /\ DOMAIN b.footprints = {q.id : q \in poses}
        /\ \A q \in poses : b.footprints[q.id] = FieldOf[s][q]
    BY DEF BlockedBy
  <1>2. \A q, r \in poses : q.id = r.id => q = r
    BY DEF Layouts
  <1>3. PICK d : d = Remove(b, p.id)
    OBVIOUS
  <1>4. /\ d.counts = [c \in DOMAIN b.counts |->
                         b.counts[c] + (IF c \in b.footprints[p.id] THEN -1 ELSE 0)]
        /\ d.footprints = [i \in DOMAIN b.footprints \ {p.id} |-> b.footprints[i]]
    BY <1>3 DEF Remove, Counted, Restrict
  <1>5. DOMAIN d.footprints = {q.id : q \in poses \ {p}}
    BY <1>1, <1>2, <1>4
  <1>6. \A q \in poses \ {p} : d.footprints[q.id] = FieldOf[s][q]
    BY <1>1, <1>2, <1>4
  <1>7. ASSUME NEW c \in C
        PROVE  Cardinality(Of(c, poses)) + (IF c \in FieldOf[s][p] THEN -1 ELSE 0)
                 = Cardinality(Of(c, poses \ {p}))
    <2>1. IsFiniteSet(Of(c, poses))
      <3>1. Of(c, poses) \in SUBSET poses
        OBVIOUS
      <3> HIDE DEF Of
      <3> QED
        BY <3>1, LayoutFinite, FS_Subset
    <2>2. Cardinality(Of(c, poses)) \in Nat
      <3> HIDE DEF Of
      <3> QED
        BY <2>1, FS_CardinalityType
    <2>3. Of(c, poses \ {p}) = Of(c, poses) \ {p} /\ (p \in Of(c, poses) <=> c \in FieldOf[s][p])
      OBVIOUS
    <2>4. Cardinality(Of(c, poses) \ {p})
            = IF p \in Of(c, poses) THEN Cardinality(Of(c, poses)) - 1
              ELSE Cardinality(Of(c, poses))
      <3> HIDE DEF Of
      <3> QED
        BY <2>1, FS_RemoveElement
    <2>5. PICK n \in Nat : n = Cardinality(Of(c, poses))
      BY <2>2
    <2> HIDE DEF Of
    <2>6. CASE c \in FieldOf[s][p]
      <3>1. Cardinality(Of(c, poses \ {p})) = n - 1
        BY <2>3, <2>4, <2>5, <2>6
      <3> QED
        BY <2>5, <2>6, <3>1
    <2>7. CASE c \notin FieldOf[s][p]
      <3>1. Cardinality(Of(c, poses \ {p})) = n
        BY <2>3, <2>4, <2>5, <2>7
      <3> QED
        BY <2>5, <2>7, <3>1
    <2> QED
      BY <2>6, <2>7
  <1> HIDE DEF Of
  <1>8. d.counts = [c \in C |-> Cardinality(Of(c, poses \ {p}))]
    <2>1. b.footprints[p.id] = FieldOf[s][p]
      BY <1>1
    <2>2. DOMAIN b.counts = C
      BY <1>1
    <2>3. \A c \in C : b.counts[c] = Cardinality(Of(c, poses))
      BY <1>1
    <2> HIDE DEF C
    <2>4. \A c \in C : b.counts[c] + (IF c \in FieldOf[s][p] THEN -1 ELSE 0)
                       = Cardinality(Of(c, poses \ {p}))
      BY <1>7, <2>3
    <2>5. d.counts = [c \in C |-> b.counts[c] + (IF c \in FieldOf[s][p] THEN -1 ELSE 0)]
      BY <1>4, <2>1, <2>2
    <2> QED
      BY <2>4, <2>5
  <1> QED
    BY <1>3, <1>5, <1>6, <1>8 DEF BlockedBy, Of

(* A copy whose name is not there is counted and remembered.                   *)
LEMMA AddBlocks ==
  ASSUME NEW s, NEW poses \in Layouts(s), NEW b, BlockedBy(s, b, poses),
         NEW p, CanAdd(b, p.id)
  PROVE  BlockedBy(s, Add(b, p.id, FieldOf[s][p]), poses \cup {p})
  <1> DEFINE C == Cells(Environment(s))
             Of(c, some) == {q \in some : c \in FieldOf[s][q]}
  <1>1. /\ b.counts = [c \in C |-> Cardinality(Of(c, poses))]
        /\ DOMAIN b.footprints = {q.id : q \in poses}
        /\ \A q \in poses : b.footprints[q.id] = FieldOf[s][q]
    BY DEF BlockedBy
  <1>2. \A q \in poses : q.id # p.id
    BY <1>1 DEF CanAdd
  <1>3. PICK d : d = Add(b, p.id, FieldOf[s][p])
    OBVIOUS
  <1>4. /\ d.counts = [c \in DOMAIN b.counts |->
                         b.counts[c] + (IF c \in FieldOf[s][p] THEN 1 ELSE 0)]
        /\ d.footprints = [i \in DOMAIN b.footprints \cup {p.id} |->
                             IF i = p.id THEN FieldOf[s][p] ELSE b.footprints[i]]
    BY <1>3 DEF Add, Counted
  <1>5. DOMAIN d.footprints = {q.id : q \in poses \cup {p}}
    BY <1>1, <1>4
  <1>6. \A q \in poses \cup {p} : d.footprints[q.id] = FieldOf[s][q]
    BY <1>1, <1>2, <1>4
  <1>7. ASSUME NEW c \in C
        PROVE  Cardinality(Of(c, poses)) + (IF c \in FieldOf[s][p] THEN 1 ELSE 0)
                 = Cardinality(Of(c, poses \cup {p}))
    <2>1. IsFiniteSet(Of(c, poses))
      <3>1. Of(c, poses) \in SUBSET poses
        OBVIOUS
      <3> HIDE DEF Of
      <3> QED
        BY <3>1, LayoutFinite, FS_Subset
    <2>2. Cardinality(Of(c, poses)) \in Nat
      <3> HIDE DEF Of
      <3> QED
        BY <2>1, FS_CardinalityType
    <2>3. p \notin Of(c, poses)
      BY <1>2
    <2>4. Of(c, poses \cup {p})
            = IF c \in FieldOf[s][p] THEN Of(c, poses) \cup {p} ELSE Of(c, poses)
      OBVIOUS
    <2>5. Cardinality(Of(c, poses) \cup {p}) = Cardinality(Of(c, poses)) + 1
      <3> HIDE DEF Of
      <3> QED
        BY <2>1, <2>3, FS_AddElement
    <2> HIDE DEF Of
    <2> QED
      BY <2>2, <2>4, <2>5
  <1> HIDE DEF Of
  <1>8. d.counts = [c \in C |-> Cardinality(Of(c, poses \cup {p}))]
    <2>1. DOMAIN b.counts = C
      BY <1>1
    <2>2. \A c \in C : b.counts[c] = Cardinality(Of(c, poses))
      BY <1>1
    <2> HIDE DEF C
    <2>3. \A c \in C : b.counts[c] + (IF c \in FieldOf[s][p] THEN 1 ELSE 0)
                       = Cardinality(Of(c, poses \cup {p}))
      BY <1>7, <2>2
    <2>4. d.counts = [c \in C |-> b.counts[c] + (IF c \in FieldOf[s][p] THEN 1 ELSE 0)]
      BY <1>4, <2>1
    <2> QED
      BY <2>3, <2>4
  <1> QED
    BY <1>3, <1>5, <1>6, <1>8 DEF BlockedBy, Of

(* Where the cells of the environment are blocked.                             *)
LEMMA BlockedAre ==
  ASSUME UpdateInv, mask = {MaskOf[scene]}, NEW b, NEW poses, BlockedBy(scene, b, poses)
  PROVE  {c \in Cells(Environment(scene)) : IsBlocked(b, c)} = BlockedCells(scene, b)
  <1>1. DOMAIN b.counts = Cells(Environment(scene))
    BY DEF BlockedBy
  <1>2. UNION mask = MaskOf[scene]
    OBVIOUS
  <1> QED
    BY <1>1, <1>2 DEF IsBlocked, BlockedCells

(* The copies in use.                                                          *)
LEMMA LivePosesAre ==
  ASSUME UpdateInv
  PROVE  /\ LivePoses \in Layouts(scene)
         /\ live = {} => LivePoses = {}
         /\ \A l : live = {l} => LivePoses = l.poses
  <1>1. live = {} => LivePoses = {}
    BY DEF LivePoses
  <1>2. ASSUME NEW l, live = {l}
        PROVE  LivePoses = l.poses
    BY <1>2 DEF LivePoses
  <1>3. {} \in Layouts(scene)
    BY DEF Layouts
  <1> QED
    BY <1>1, <1>2, <1>3 DEF UpdateInv, LiveInv, IsLive

(* A step that changes neither the mask nor the layout in use, and after which *)
(* no field is staged.                                                         *)
LEMMA QuietKeepsUpdates ==
  ASSUME UpdateInv, UNCHANGED <<scene, mask, live>>, asked' \in Layouts(scene),
         step' \notin {"compare", "remove", "add"}
  PROVE  UpdateInv'
  <1>1. scene' \in Scenes /\ asked' \in Layouts(scene')
    BY DEF UpdateInv
  <1>2. MaskInv'
    BY DEF UpdateInv, MaskInv
  <1>3. LiveInv'
    BY DEF UpdateInv, LiveInv
  <1>4. RemoveInv' /\ AddInv'
    BY DEF RemoveInv, AddInv
  <1> QED
    BY <1>1, <1>2, <1>3, <1>4 DEF UpdateInv

(* A comparison stages a field of the copies in use ...                        *)
LEMMA CompareKeeps ==
  ASSUME UpdateInv, Compare
  PROVE  UpdateInv'
  <1>1. CASE Drop
    <2>1. asked' \in Layouts(scene)
      BY <1>1 DEF Drop, Layouts
    <2> QED
      BY <1>1, <2>1, QuietKeepsUpdates DEF Compare, Drop
  <1>2. CASE ~Drop
    <2>1. /\ step = "compare" /\ step' = "remove"
          /\ staged' = IF live = {} THEN {make_blocked_field(scene)}
                       ELSE {clone(l.blocked) : l \in live}
          /\ todo' = {p \in LivePoses : ~Retained(p, asked)}
          /\ UNCHANGED <<scene, asked, mask, live>>
      BY <1>2 DEF Compare
    <2>2. LivePoses' = LivePoses
      BY <2>1 DEF LivePoses
    <2>3. todo' = LivePoses \ asked
      BY <2>1 DEF Retained
    <2>4. (LivePoses \cap asked) \cup todo' = LivePoses
      BY <2>3
    <2>5. \E b : staged' = {b} /\ BlockedBy(scene, b, LivePoses)
      <3>1. CASE live = {}
        <4>1. staged' = {make_blocked_field(scene)} /\ LivePoses = {}
          BY <2>1, <3>1, LivePosesAre
        <4> QED
          BY <4>1, NothingBlocks
      <3>2. CASE live # {}
        <4>1. PICK l : live = {l} /\ IsLive(scene, l)
          BY <3>2 DEF UpdateInv, LiveInv
        <4>2. staged' = {clone(l.blocked)} /\ LivePoses = l.poses
          BY <2>1, <4>1, LivePosesAre
        <4>3. BlockedBy(scene, clone(l.blocked), l.poses)
          <5>1. /\ clone(l.blocked).counts = l.blocked.counts
                /\ clone(l.blocked).footprints = l.blocked.footprints
            BY DEF clone
          <5> QED
            BY <4>1, <5>1 DEF IsLive, BlockedBy
        <4> QED
          BY <4>2, <4>3
      <3> QED
        BY <3>1, <3>2
    <2>6. RemoveInv'
      <3>1. PICK b : staged' = {b} /\ BlockedBy(scene, b, LivePoses)
        BY <2>5
      <3>2. BlockedBy(scene', b, (LivePoses' \cap asked') \cup todo')
        BY <2>1, <2>2, <2>4, <3>1
      <3> QED
        BY <2>1, <2>2, <2>3, <3>1, <3>2 DEF RemoveInv
    <2>7. AddInv'
      BY <2>1 DEF AddInv
    <2>8. MaskInv' /\ LiveInv'
      BY <2>1 DEF UpdateInv, MaskInv, LiveInv
    <2> QED
      BY <2>1, <2>6, <2>7, <2>8 DEF UpdateInv
  <1> QED
    BY <1>1, <1>2

(* ... a removal leaves one of fewer copies ...                                *)
LEMMA RemoveKeeps ==
  ASSUME UpdateInv, RemoveOne
  PROVE  UpdateInv'
  <1>1. PICK p \in todo, b \in staged :
          staged' = {Remove(b, p.id)} /\ todo' = todo \ {p}
    BY DEF RemoveOne
  <1>2. step = "remove" /\ UNCHANGED <<scene, step, asked, mask, live>>
    BY DEF RemoveOne
  <1>3. LivePoses' = LivePoses
    BY <1>2 DEF LivePoses
  <1>4. /\ todo \subseteq LivePoses \ asked
        /\ BlockedBy(scene, b, (LivePoses \cap asked) \cup todo)
    BY <1>1, <1>2 DEF UpdateInv, RemoveInv
  <1>5. PICK poses : poses = (LivePoses \cap asked) \cup todo
    OBVIOUS
  <1>6. poses \in Layouts(scene) /\ p \in poses
    BY <1>1, <1>4, <1>5, LivePosesAre, PartOfLayout
  <1>7. BlockedBy(scene, Remove(b, p.id), poses \ {p})
    BY <1>4, <1>5, <1>6, RemoveUnblocks
  <1>8. poses \ {p} = (LivePoses' \cap asked') \cup todo'
    BY <1>1, <1>2, <1>3, <1>4, <1>5
  <1>9. RemoveInv'
    BY <1>1, <1>2, <1>3, <1>4, <1>7, <1>8 DEF RemoveInv
  <1>10. AddInv' /\ MaskInv' /\ LiveInv'
    BY <1>2 DEF AddInv, UpdateInv, MaskInv, LiveInv
  <1> QED
    BY <1>2, <1>9, <1>10 DEF UpdateInv

(* ... until only those both layouts have are left ...                         *)
LEMMA RemovedKeeps ==
  ASSUME UpdateInv, Removed
  PROVE  UpdateInv'
  <1>1. /\ step = "remove" /\ todo = {} /\ step' = "add"
        /\ todo' = {p \in asked : ~Retained(p, LivePoses)}
        /\ UNCHANGED <<scene, asked, mask, live, staged>>
    BY DEF Removed
  <1>2. LivePoses' = LivePoses /\ todo' = asked \ LivePoses
    BY <1>1 DEF LivePoses, Retained
  <1>3. PICK b : staged = {b} /\ BlockedBy(scene, b, (LivePoses \cap asked) \cup todo)
    BY <1>1 DEF UpdateInv, RemoveInv
  <1>4. (LivePoses \cap asked) \cup todo = asked' \ todo'
    BY <1>1, <1>2
  <1>5. AddInv'
    BY <1>1, <1>2, <1>3, <1>4 DEF AddInv
  <1>6. RemoveInv' /\ MaskInv' /\ LiveInv'
    BY <1>1 DEF RemoveInv, UpdateInv, MaskInv, LiveInv
  <1> QED
    BY <1>1, <1>5, <1>6 DEF UpdateInv

(* ... an addition makes one of more ...                                       *)
LEMMA AddKeeps ==
  ASSUME UpdateInv, AddOne
  PROVE  UpdateInv'
  <1>1. PICK p \in todo, b \in staged :
          /\ CanAdd(b, p.id)
          /\ staged' = {Add(b, p.id, FieldOf[scene][p])} /\ todo' = todo \ {p}
    BY DEF AddOne
  <1>2. step = "add" /\ UNCHANGED <<scene, step, asked, mask, live>>
    BY DEF AddOne
  <1>3. LivePoses' = LivePoses
    BY <1>2 DEF LivePoses
  <1>4. todo \subseteq asked \ LivePoses /\ BlockedBy(scene, b, asked \ todo)
    BY <1>1, <1>2 DEF UpdateInv, AddInv
  <1>5. PICK poses : poses = asked \ todo
    OBVIOUS
  <1>6. poses \in Layouts(scene)
    BY <1>5, PartOfLayout DEF UpdateInv
  <1>7. BlockedBy(scene, Add(b, p.id, FieldOf[scene][p]), poses \cup {p})
    BY <1>1, <1>4, <1>5, <1>6, AddBlocks
  <1>8. poses \cup {p} = asked' \ todo'
    BY <1>1, <1>2, <1>4, <1>5
  <1>9. AddInv'
    BY <1>1, <1>2, <1>3, <1>4, <1>7, <1>8 DEF AddInv
  <1>10. RemoveInv' /\ MaskInv' /\ LiveInv'
    BY <1>2 DEF RemoveInv, UpdateInv, MaskInv, LiveInv
  <1> QED
    BY <1>2, <1>9, <1>10 DEF UpdateInv

(* ... and what is published is the field of all that were asked for.          *)
LEMMA PublishKeeps ==
  ASSUME UpdateInv, Publish
  PROVE  UpdateInv'
  <1>1. PICK b \in staged :
          live' = {[poses |-> asked, blocked |-> b,
                    occupied |-> {c \in Cells(Environment(scene)) : IsBlocked(b, c)}]}
    BY DEF Publish
  <1>2. /\ step = "add" /\ todo = {} /\ step' = "idle" /\ asked' = {}
        /\ UNCHANGED <<scene, mask>>
    BY DEF Publish, Drop
  <1>3. mask = {MaskOf[scene]}
    BY <1>2 DEF UpdateInv, MaskInv
  <1>4. BlockedBy(scene, b, asked)
    <2>1. BlockedBy(scene, b, asked \ todo)
      BY <1>1, <1>2 DEF UpdateInv, AddInv
    <2>2. asked \ todo = asked
      BY <1>2
    <2> QED
      BY <2>1, <2>2
  <1>5. {c \in Cells(Environment(scene)) : IsBlocked(b, c)} = BlockedCells(scene, b)
    BY <1>3, <1>4, BlockedAre
  <1>6. PICK l : /\ l = [poses |-> asked, blocked |-> b, occupied |-> BlockedCells(scene, b)]
                 /\ live' = {l}
    BY <1>1, <1>5
  <1>7. IsLive(scene, l)
    BY <1>4, <1>6 DEF IsLive, UpdateInv
  <1>8. LiveInv'
    BY <1>2, <1>6, <1>7 DEF LiveInv
  <1>9. MaskInv' /\ RemoveInv' /\ AddInv'
    BY <1>2, <1>3 DEF MaskInv, RemoveInv, AddInv
  <1>10. {} \in Layouts(scene)
    BY DEF Layouts
  <1> QED
    BY <1>2, <1>8, <1>9, <1>10 DEF UpdateInv

(* Every step keeps it.                                                        *)
LEMMA UpdatesInductive ==
  ASSUME UpdateInv, [Next]_vars
  PROVE  UpdateInv'
  <1>0. asked \in Layouts(scene) /\ {} \in Layouts(scene)
    BY DEF UpdateInv, Layouts
  <1>1. CASE Propose
    <2>1. step' = "report" /\ UNCHANGED <<scene, asked, mask, live>>
      BY <1>1 DEF Propose, Validate
    <2> QED
      BY <1>0, <2>1, QuietKeepsUpdates
  <1>2. CASE Offer
    <2>1. step' = "report" /\ UNCHANGED <<scene, asked, mask, live>>
      BY <1>2 DEF Offer, Validate
    <2> QED
      BY <1>0, <2>1, QuietKeepsUpdates
  <1>3. CASE Adopt
    <2>1. asked' \in Layouts(scene) /\ step' = "prepare" /\ UNCHANGED <<scene, mask, live>>
      BY <1>3 DEF Adopt
    <2> QED
      BY <2>1, QuietKeepsUpdates
  <1>4. CASE Discard
    BY <1>0, <1>4, QuietKeepsUpdates DEF Discard
  <1>5. CASE Prepare
    BY <1>0, <1>5, QuietKeepsUpdates DEF Prepare
  <1>6. CASE MakeMask
    <2>1. /\ step' = "compare" /\ UNCHANGED <<scene, asked, live>>
          /\ mask' = {MaskOf[scene]}
      BY <1>6 DEF MakeMask, UpdateInv, MaskInv
    <2>2. MaskInv' /\ RemoveInv' /\ AddInv'
      BY <2>1 DEF MaskInv, RemoveInv, AddInv
    <2>3. LiveInv'
      BY <2>1 DEF UpdateInv, LiveInv
    <2> QED
      BY <2>1, <2>2, <2>3 DEF UpdateInv
  <1>7. CASE Compare
    BY <1>7, CompareKeeps
  <1>8. CASE RemoveOne
    BY <1>8, RemoveKeeps
  <1>9. CASE Removed
    BY <1>9, RemovedKeeps
  <1>10. CASE AddOne
    BY <1>10, AddKeeps
  <1>11. CASE Publish
    BY <1>11, PublishKeeps
  <1>12. CASE Fail
    <2>1. step' = "idle" /\ asked' = {} /\ UNCHANGED <<scene, mask, live>>
      BY <1>12 DEF Fail, Drop
    <2> QED
      BY <1>0, <2>1, QuietKeepsUpdates
  <1>13. CASE UNCHANGED vars
    <2>1. UNCHANGED <<scene, step, asked, mask, live, staged, todo>>
      BY <1>13 DEF vars
    <2>2. LivePoses' = LivePoses
      BY <2>1 DEF LivePoses
    <2>3. MaskInv' /\ LiveInv'
      BY <2>1 DEF UpdateInv, MaskInv, LiveInv
    <2>4. RemoveInv' /\ AddInv'
      BY <2>1, <2>2 DEF UpdateInv, RemoveInv, AddInv
    <2> QED
      BY <2>1, <2>3, <2>4 DEF UpdateInv
  <1> QED
    BY <1>1, <1>2, <1>3, <1>4, <1>5, <1>6, <1>7, <1>8, <1>9, <1>10, <1>11, <1>12, <1>13 DEF Next

(* The counts say which cells some copy reaches, so the occupancy is fresh.    *)
LEMMA FreshFollows ==
  ASSUME UpdateInv
  PROVE  OccupancyIsFresh
  <1>1. SUFFICES ASSUME NEW l \in live,
                        NEW want, want = (UNION mask) \cup
                          ((UNION {Reach(p) : p \in l.poses}) \cap Cells(Environment(scene)))
                 PROVE  want \subseteq l.occupied /\ (PlacedExactly(l.poses) => want = l.occupied)
    BY DEF OccupancyIsFresh
  <1>2. scene \in Scenes /\ IsLive(scene, l) /\ mask = {MaskOf[scene]}
    BY <1>1 DEF UpdateInv, LiveInv, MaskInv
  <1>3. UNION mask = MaskOf[scene] /\ MaskOf[scene] \subseteq Cells(Environment(scene))
    BY <1>2, MaskIsInside
  <1>4. l.poses \in Layouts(scene) /\ IsFiniteSet(l.poses) /\ l.poses \subseteq Copies(scene)
    BY <1>2, LayoutFinite DEF IsLive, Layouts
  <1>5. ASSUME NEW c \in Cells(Environment(scene))
        PROVE  (c \in l.occupied) <=>
                 c \in MaskOf[scene] \/ \E p \in l.poses : c \in FieldOf[scene][p]
    <2> DEFINE Of == {p \in l.poses : c \in FieldOf[scene][p]}
    <2>1. l.blocked.counts[c] = Cardinality(Of)
      BY <1>2 DEF IsLive, BlockedBy
    <2>2. IsFiniteSet(Of)
      <3>1. Of \in SUBSET l.poses
        OBVIOUS
      <3> HIDE DEF Of
      <3> QED
        BY <1>4, <3>1, FS_Subset
    <2>3. Cardinality(Of) # 0 <=> Of # {}
      <3> HIDE DEF Of
      <3> QED
        BY <2>2, FS_EmptySet
    <2>4. (c \in l.occupied) <=> c \in MaskOf[scene] \/ l.blocked.counts[c] # 0
      BY <1>2 DEF IsLive, BlockedCells
    <2>5. Of # {} <=> \E p \in l.poses : c \in FieldOf[scene][p]
      OBVIOUS
    <2> HIDE DEF Of
    <2> QED
      BY <2>1, <2>3, <2>4, <2>5
  <1>6. l.occupied \subseteq Cells(Environment(scene))
    BY <1>2 DEF IsLive, BlockedCells
  <1>7. ASSUME NEW p \in l.poses
        PROVE  /\ Reach(p) \cap Cells(Environment(scene)) \subseteq FieldOf[scene][p]
               /\ PlacedExactly(l.poses) =>
                    FieldOf[scene][p] = Reach(p) \cap Cells(Environment(scene))
    <2>1. p \in Copies(scene)
      BY <1>4
    <2> QED
      BY <1>2, <2>1, ReachIs, FieldIs DEF PlacedExactly
  <1>8. ASSUME NEW c \in want
        PROVE  c \in l.occupied
    <2>1. c \in Cells(Environment(scene))
      BY <1>1, <1>3
    <2>2. CASE c \in MaskOf[scene]
      BY <1>5, <2>1, <2>2
    <2>3. CASE c \notin MaskOf[scene]
      <3>1. c \in UNION {Reach(p) : p \in l.poses}
        BY <1>1, <1>3, <2>3
      <3>2. PICK p \in l.poses : c \in Reach(p)
        BY <3>1
      <3>3. c \in FieldOf[scene][p]
        BY <1>7, <2>1, <3>2
      <3> QED
        BY <1>5, <2>1, <3>3
    <2> QED
      BY <2>2, <2>3
  <1>9. ASSUME PlacedExactly(l.poses), NEW c \in l.occupied
        PROVE  c \in want
    <2>1. c \in Cells(Environment(scene))
      BY <1>6
    <2>2. CASE c \in MaskOf[scene]
      BY <1>1, <1>3, <2>2
    <2>3. CASE c \notin MaskOf[scene]
      <3>1. PICK p \in l.poses : c \in FieldOf[scene][p]
        BY <1>5, <2>1, <2>3
      <3>2. c \in Reach(p)
        BY <1>7, <1>9, <3>1
      <3>3. c \in UNION {Reach(q) : q \in l.poses}
        BY <3>2
      <3> QED
        BY <1>1, <2>1, <3>3
    <2> QED
      BY <2>2, <2>3
  <1>10. want \subseteq l.occupied
    BY <1>8
  <1>11. PlacedExactly(l.poses) => want = l.occupied
    <2> SUFFICES ASSUME PlacedExactly(l.poses)
                 PROVE  l.occupied \subseteq want
      BY <1>10
    <2> QED
      BY <1>9
  <1> QED
    BY <1>10, <1>11

(* Nothing is in use at first.                                                 *)
LEMMA UpdatesStart ==
  Init => UpdateInv
  BY DEF Init, UpdateInv, MaskInv, LiveInv, RemoveInv, AddInv, Layouts

(* Whatever updates, removals, failures and interruptions came before, the     *)
(* occupancy in use is the mask and what the copies of its own layout reach,   *)
(* and nothing else where they are placed exactly: for every problem, solid,   *)
(* pose, pitch and clearance (build_occupancy and the staged update of         *)
(* spectral_pipeline.cpp, the fields of conservative_fields.cpp).              *)
THEOREM OccupancyStaysFresh == Spec => []OccupancyIsFresh
  <1>1. UpdateInv /\ [Next]_vars => UpdateInv'
    BY UpdatesInductive
  <1>2. UpdateInv => OccupancyIsFresh
    BY FreshFollows
  <1> QED
    BY UpdatesStart, <1>1, <1>2, PTL DEF Spec

-----------------------------------------------------------------------------
(* What is offered                                                             *)

(* Along an axis the cells between two squares lie between them, and a halo    *)
(* spans what is closer than the clearance.                                    *)
LEMMA CellsBetween ==
  ASSUME NEW i \in Int, NEW j \in Int, NEW x \in Int, NEW y \in Int, NEW p \in Nat \ {0},
         i * p <= x, x + 1 <= (i + 1) * p, j * p <= y, y + 1 <= (j + 1) * p
  PROVE  /\ Gap(i - j) \in Nat /\ p * Gap(i - j) \in Nat
         /\ p * Gap(i - j) <= Apart(x, y)
         /\ -(Gap(i - j) + 1) <= i - j /\ i - j <= Gap(i - j) + 1
  <1>1. PICK g : g = Gap(i - j)
    OBVIOUS
  <1>2. PICK d \in Int : d = i - j
    OBVIOUS
  <1>3. Max({d, -d}) = (IF d > -d THEN d ELSE -d)
    BY OfTwo
  <1>4. g = IF d \in {-1, 0, 1} THEN 0 ELSE (IF d > -d THEN d ELSE -d) - 1
    BY <1>1, <1>2, <1>3 DEF Gap
  <1>5. /\ i * p \in Int /\ (i + 1) * p \in Int /\ (i + 1) * p = i * p + p
        /\ j * p \in Int /\ (j + 1) * p \in Int /\ (j + 1) * p = j * p + p
    BY Multiples
  <1>6. CASE d \in {-1, 0, 1}
    <2>1. g = 0 /\ p * 0 = 0
      BY <1>4, <1>6
    <2>2. Apart(x, y) >= 0
      BY DEF Apart
    <2> QED
      BY <1>1, <1>2, <1>6, <2>1, <2>2
  <1>7. CASE d > 1
    <2>1. g = d - 1 /\ g \in Nat
      BY <1>4, <1>7
    <2>2. i = j + 1 + g
      BY <1>2, <2>1
    <2>3. i * p = (j + 1) * p + p * g
      BY <2>1, <2>2
    <2>4. PICK m \in Int : m = p * g /\ m >= 0
      BY <2>1
    <2>5. m <= x - y - 1
      BY <1>5, <2>3, <2>4
    <2>6. Apart(x, y) = x - y - 1
      BY <2>4, <2>5 DEF Apart
    <2> QED
      BY <1>1, <1>2, <1>7, <2>1, <2>4, <2>5, <2>6
  <1>8. CASE d < -1
    <2>1. g = -d - 1 /\ g \in Nat
      BY <1>4, <1>8
    <2>2. j = i + 1 + g
      BY <1>2, <2>1
    <2>3. j * p = (i + 1) * p + p * g
      BY <2>1, <2>2
    <2>4. PICK m \in Int : m = p * g /\ m >= 0
      BY <2>1
    <2>5. m <= y - x - 1
      BY <1>5, <2>3, <2>4
    <2>6. Apart(x, y) = y - x - 1
      BY <2>4, <2>5 DEF Apart
    <2> QED
      BY <1>1, <1>2, <1>8, <2>1, <2>4, <2>5, <2>6
  <1> QED
    BY <1>2, <1>6, <1>7, <1>8

(* The cells of two squares that are closer than the clearance, or the same,   *)
(* are within its stencil of each other.                                       *)
LEMMA NearCells ==
  ASSUME NEW u \in Points, NEW v \in Points, NEW c \in Points, NEW d \in Points,
         NEW p \in Nat \ {0}, NEW clearance \in Nat, Holds(c, u, p), Holds(d, v, p),
         u = v \/ Distance(u, v) < Squared(clearance)
  PROVE  <<c[1] - d[1], c[2] - d[2]>> \in make_stencil(clearance, p)
  <1>1. PICK a \in Nat, b \in Nat : a = Apart(u[1], v[1]) /\ b = Apart(u[2], v[2])
    BY DistanceIs
  <1>2. PICK g \in Nat, h \in Nat : g = Gap(c[1] - d[1]) /\ h = Gap(c[2] - d[2])
    <2>1. ASSUME NEW k \in Axes
          PROVE  Gap(c[k] - d[k]) \in Nat
      BY Coordinates, CellsBetween DEF Holds
    <2> QED
      BY <2>1 DEF Axes
  <1>3. PICK x \in Int, y \in Int : x = c[1] - d[1] /\ y = c[2] - d[2]
    BY DEF Points
  <1>4. /\ p * g <= a /\ p * h <= b /\ p * g \in Nat /\ p * h \in Nat
        /\ -(g + 1) <= x /\ x <= g + 1 /\ -(h + 1) <= y /\ y <= h + 1
    <2>1. ASSUME NEW k \in Axes
          PROVE  /\ p * Gap(c[k] - d[k]) \in Nat
                 /\ p * Gap(c[k] - d[k]) <= Apart(u[k], v[k])
                 /\ -(Gap(c[k] - d[k]) + 1) <= c[k] - d[k]
                 /\ c[k] - d[k] <= Gap(c[k] - d[k]) + 1
      BY Coordinates, CellsBetween DEF Holds
    <2> QED
      BY <1>1, <1>2, <1>3, <2>1 DEF Axes
  <1>5. /\ Squared(a) \in Nat /\ Squared(b) \in Nat /\ Squared(clearance) \in Nat
        /\ Squared(p * g) \in Nat /\ Squared(p * h) \in Nat
        /\ Squared(p * g) <= Squared(a) /\ Squared(p * h) <= Squared(b)
    BY <1>4, SquaresInOrder
  <1>6. u = v => a = 0 /\ b = 0
    <2>1. u[1] \in Int /\ u[2] \in Int
      BY DEF Points
    <2>2. Apart(u[1], u[1]) = 0 /\ Apart(u[2], u[2]) = 0
      BY <2>1 DEF Apart
    <2> QED
      BY <1>1, <2>2
  <1>7. Squared(a) + Squared(b) <= Squared(clearance) /\ a <= clearance /\ b <= clearance
    <2>1. CASE u = v
      <3>1. a = 0 /\ b = 0 /\ Squared(a) = 0 /\ Squared(b) = 0
        BY <1>6, <2>1 DEF Squared
      <3> QED
        BY <1>5, <3>1
    <2>2. CASE Distance(u, v) < Squared(clearance)
      <3>1. Squared(a) + Squared(b) < Squared(clearance)
        BY <1>1, <2>2, DistanceIs
      <3>2. Squared(a) < Squared(clearance) /\ Squared(b) < Squared(clearance)
        BY <1>5, <3>1
      <3>3. a < clearance /\ b < clearance
        BY <3>2, SquareLess
      <3> QED
        BY <1>5, <3>1, <3>3
    <2> QED
      BY <2>1, <2>2
  <1>8. euclidean_offset_reaches(<<x, y>>, p, clearance)
    <2>1. Squared(p * g) + Squared(p * h) <= Squared(clearance)
      BY <1>5, <1>7
    <2>2. /\ <<x, y>>[1] = x /\ <<x, y>>[2] = y /\ Gap(x) = g /\ Gap(y) = h
      BY <1>2, <1>3
    <2>3. SumOfSquares(<<p * g, p * h>>) = Squared(p * g) + Squared(p * h)
      BY DEF SumOfSquares
    <2> QED
      BY <2>1, <2>2, <2>3 DEF euclidean_offset_reaches
  <1>9. PICK halo \in Nat : halo = clearance_halo(clearance, p)
    BY HaloIs
  <1>10. -halo <= x /\ x <= halo /\ -halo <= y /\ y <= halo
    <2>1. CASE clearance = 0
      <3>1. u = v
        <4>1. ~(Distance(u, v) < Squared(clearance))
          <5>1. Distance(u, v) \in Nat /\ Squared(clearance) = 0
            BY <2>1, DistanceIs DEF Squared
          <5> QED
            BY <5>1
        <4> QED
          BY <4>1
      <3>2. ASSUME NEW k \in Axes
            PROVE  c[k] = d[k]
        <4>1. c[k] \in Int /\ d[k] \in Int /\ u[k] \in Int
          BY Coordinates
        <4>2. /\ c[k] * p <= u[k] /\ u[k] + 1 <= (c[k] + 1) * p
              /\ d[k] * p <= u[k] /\ u[k] + 1 <= (d[k] + 1) * p
          BY <3>1 DEF Holds
        <4>3. c[k] <= d[k] /\ d[k] <= c[k]
          BY <4>1, <4>2, OneCellHolds
        <4> QED
          BY <4>1, <4>3
      <3>3. c[1] = d[1] /\ c[2] = d[2] /\ c[1] \in Int /\ c[2] \in Int
        BY <3>2 DEF Axes, Points
      <3>4. x = 0 /\ y = 0
        BY <1>3, <3>3
      <3> QED
        BY <3>4
    <2>2. CASE clearance # 0
      <3>1. PICK q \in Int : q = CeilDiv(clearance, p) /\ clearance <= q * p /\ halo = q + 1
        <4>1. PICK q \in Int : q = CeilDiv(clearance, p) /\ clearance <= q * p
          <5>1. clearance \in Int
            OBVIOUS
          <5> QED
            BY <5>1, CeilBounds
        <4>2. halo = q + 1
          BY <1>9, <2>2, <4>1 DEF clearance_halo
        <4> QED
          BY <4>1, <4>2
      <3>2. g * p <= q * p /\ h * p <= q * p
        <4>1. q * p \in Int /\ g * p = p * g /\ h * p = p * h
          BY <3>1
        <4> QED
          BY <1>4, <1>7, <3>1, <4>1
      <3>3. g <= q /\ h <= q
        BY <3>1, <3>2, MultiplesInOrder
      <3> QED
        BY <1>4, <3>1, <3>3
    <2> QED
      BY <2>1, <2>2
  <1>11. <<x, y>> \in (-halo..halo) \X (-halo..halo)
    BY <1>10
  <1> QED
    BY <1>3, <1>8, <1>9, <1>11 DEF make_stencil

(* The kernel has every cell the object touches.                               *)
LEMMA KernelIs ==
  ASSUME NEW s \in Scenes, NEW turn \in DOMAIN s.object
  PROVE  /\ IsSolid(s.object[turn]) /\ IsWindow(KernelWindow(s, turn))
         /\ Touched(s.object[turn], s.pitch) \subseteq KernelOf[s][turn]
         /\ KernelOf[s][turn] \subseteq Cells(KernelWindow(s, turn))
  <1>1. PICK solid : solid = s.object[turn] /\ IsSolid(solid)
    BY SceneAssumption
  <1>2. PICK p \in Nat \ {0} : p = s.pitch
    BY SceneIs
  <1>9. PICK pose \in Poses : pose = KernelPose(s, turn)
    <2>1. s.pose[turn] \in Poses
      BY SceneIs
    <2> QED
      BY <2>1, IdentityIs DEF KernelPose
  <1>10. PICK box : /\ box = posed_bounds(solid, pose).bounds /\ Encloses(box, solid)
    BY <1>1, BoundsEnclose
  <1>3. PICK a \in [Axes -> Int], b \in [Axes -> Int] :
          /\ Trimmed(box, p) = Box(a, b)
          /\ \A c \in Touched(solid, p), k \in Axes : a[k] <= c[k] /\ c[k] <= b[k]
    BY <1>1, <1>10, TrimmedIs
  <1>4. PICK raw : raw = make_raw(place(solid, pose), Box(a, b), p)
    OBVIOUS
  <1>5. /\ Material(raw) \subseteq Cells(Box(a, b))
        /\ Touched(solid, p) \cap Cells(Box(a, b)) \subseteq Material(raw)
    BY <1>1, <1>4, PlacedIs, RawIs
  <1>6. KernelWindow(s, turn) = Box(a, b)
    BY <1>1, <1>2, <1>3, <1>9, <1>10 DEF KernelWindow
  <1>7. KernelOf[s][turn] = Material(raw)
    <2>1. KernelOf[s][turn] = voxelize_object(s, turn)
      BY DEF KernelOf
    <2> QED
      BY <1>1, <1>2, <1>4, <1>6, <1>9, <2>1 DEF voxelize_object
  <1>8. Touched(solid, p) \subseteq Cells(Box(a, b))
    <2>1. SUFFICES ASSUME NEW c \in Touched(solid, p)
                   PROVE  c \in Cells(Box(a, b))
      OBVIOUS
    <2>2. c \in Points
      BY DEF Touched
    <2> QED
      BY <1>3, <2>2, InCells
  <1> QED
    BY <1>1, <1>2, <1>5, <1>6, <1>7, <1>8 DEF IsWindow

(* A copy at a translation that is free has every square in a cell of the      *)
(* environment that is not occupied.                                           *)
LEMMA OfferedCells ==
  ASSUME scene \in Scenes, NEW turn \in DOMAIN scene.object, NEW t \in Free(turn),
         NEW u \in Moved(scene.object[turn], <<t[1] * scene.pitch, t[2] * scene.pitch>>)
  PROVE  /\ u \in Points
         /\ \E c \in Cells(Environment(scene)) :
              /\ c \in Points /\ Holds(c, u, scene.pitch)
              /\ \A l \in live : c \notin l.occupied
  <1>1. PICK p \in Nat \ {0} : p = scene.pitch
    BY SceneIs
  <1>2. PICK x \in [Axes -> Int], y \in [Axes -> Int] : Environment(scene) = Box(x, y)
    BY EnvironmentIs
  <1>3. PICK a \in [Axes -> Int], b \in [Axes -> Int] : KernelWindow(scene, turn) = Box(a, b)
    BY KernelIs DEF IsWindow
  <1>4. PICK f \in [Axes -> Int], g \in [Axes -> Int] :
          f = [k \in Axes |-> x[k] - a[k]] /\ g = [k \in Axes |-> y[k] - b[k]]
    <2>1. \A k \in Axes : x[k] - a[k] \in Int /\ y[k] - b[k] \in Int
      OBVIOUS
    <2> QED
      BY <2>1
  <1>5. /\ t \in Cells(Box(f, g))
        /\ \A l \in live : Moved(KernelOf[scene][turn], t) \cap l.occupied = {}
    <2>1. /\ Box(x, y).first = x /\ Box(x, y).last = y
          /\ Box(a, b).first = a /\ Box(a, b).last = b
      BY DEF Box
    <2> QED
      BY <1>2, <1>3, <1>4, <2>1 DEF Free
  <1>6. t \in Points /\ \A k \in Axes : f[k] <= t[k] /\ t[k] <= g[k]
    BY <1>5, InCells
  <1>7. PICK w \in scene.object[turn] : u = <<w[1] + t[1] * p, w[2] + t[2] * p>>
    BY <1>1 DEF Moved
  <1>8. w \in Points /\ w \in scene.object[turn]
    BY KernelIs DEF IsSolid
  <1>9. PICK d \in Points : Holds(d, w, p) /\ Meets(w, d, p)
    BY <1>8, SomeCellHolds
  <1>10. d \in KernelOf[scene][turn]
    <2>1. d \in Touched(scene.object[turn], p)
      BY <1>8, <1>9 DEF Touched
    <2> QED
      BY <1>1, <2>1, KernelIs
  <1>11. \A k \in Axes : a[k] <= d[k] /\ d[k] <= b[k]
    BY <1>3, <1>10, KernelIs, InCells
  <1>12. PICK c : c = <<d[1] + t[1], d[2] + t[2]>>
    OBVIOUS
  <1>13. ASSUME NEW k \in Axes
         PROVE  /\ c[k] = d[k] + t[k] /\ u[k] = w[k] + t[k] * p
                /\ d[k] \in Int /\ t[k] \in Int /\ w[k] \in Int
    BY <1>6, <1>7, <1>8, <1>9, <1>12, Coordinates DEF Axes
  <1>14. c \in Points /\ u \in Points
    <2>1. t[1] * p \in Int /\ t[2] * p \in Int
      BY <1>6 DEF Points
    <2> QED
      BY <1>6, <1>7, <1>8, <1>9, <1>12, <2>1 DEF Points
  <1>15. ASSUME NEW k \in Axes
         PROVE  x[k] <= c[k] /\ c[k] <= y[k]
    <2>1. /\ x[k] \in Int /\ y[k] \in Int /\ a[k] \in Int /\ b[k] \in Int
          /\ f[k] = x[k] - a[k] /\ g[k] = y[k] - b[k]
      BY <1>4
    <2> QED
      BY <1>6, <1>11, <1>13, <2>1
  <1>16. c \in Cells(Box(x, y))
    BY <1>14, <1>15, InCells
  <1>17. Holds(c, u, p)
    <2> SUFFICES ASSUME NEW k \in Axes
                 PROVE  c[k] * p <= u[k] /\ u[k] + 1 <= (c[k] + 1) * p
      BY DEF Holds
    <2>1. PICK i \in Int, j \in Int, z \in Int : i = d[k] /\ j = t[k] /\ z = w[k]
      BY <1>13
    <2>2. i * p <= z /\ z + 1 <= (i + 1) * p
      BY <1>9, <2>1 DEF Holds
    <2>3. /\ i * p \in Int /\ (i + 1) * p \in Int /\ j * p \in Int
          /\ (i + j) * p = i * p + j * p /\ (i + j + 1) * p = (i + 1) * p + j * p
      OBVIOUS
    <2>4. c[k] = i + j /\ u[k] = z + j * p
      BY <1>13, <2>1
    <2> QED
      BY <2>2, <2>3, <2>4
  <1>18. c \in Moved(KernelOf[scene][turn], t)
    BY <1>10, <1>12, MovedIs
  <1> QED
    BY <1>1, <1>2, <1>5, <1>14, <1>16, <1>17, <1>18

(* A cell that no copy reaches keeps its squares away from the copies.         *)
LEMMA UnreachedIsApart ==
  ASSUME NEW s \in Scenes, NEW q \in Copies(s), NEW c \in Points, c \notin ReachedBy(s, q),
         NEW u \in Points, Holds(c, u, s.pitch), NEW v \in Solid(s, q)
  PROVE  u # v /\ Distance(u, v) >= Squared(s.pair)
  <1>1. PICK p \in Nat \ {0} : p = s.pitch
    BY SceneIs
  <1>2. PICK pair \in Nat : pair = s.pair
    BY SceneIs
  <1>3. v \in Points
    BY SolidIs DEF IsSolid
  <1>4. PICK d \in Points : Holds(d, v, p) /\ Meets(v, d, p)
    BY <1>3, SomeCellHolds
  <1>5. d \in Touched(Solid(s, q), p)
    BY <1>4 DEF Touched
  <1>6. PICK e : e = <<c[1] - d[1], c[2] - d[2]>>
    OBVIOUS
  <1>7. c = <<d[1] + e[1], d[2] + e[2]>>
    <2>1. /\ c[1] \in Int /\ c[2] \in Int /\ c = <<c[1], c[2]>>
          /\ d[1] \in Int /\ d[2] \in Int
      BY DEF Points
    <2>2. e[1] = c[1] - d[1] /\ e[2] = c[2] - d[2]
      BY <1>6
    <2>3. d[1] + e[1] = c[1] /\ d[2] + e[2] = c[2]
      BY <2>1, <2>2
    <2> QED
      BY <2>1, <2>3
  <1>8. e \notin make_stencil(pair, p)
    <2> SUFFICES ASSUME e \in make_stencil(pair, p)
                 PROVE  c \in ReachedBy(s, q)
      OBVIOUS
    <2>1. c \in Moved(Touched(Solid(s, q), p), e)
      BY <1>5, <1>7, MovedIs
    <2> QED
      BY <1>1, <1>2, <2>1 DEF ReachedBy
  <1>9. ~(u = v \/ Distance(u, v) < Squared(pair))
    <2>1. Holds(c, u, p)
      BY <1>1
    <2> QED
      BY <1>3, <1>4, <1>6, <1>8, <2>1, NearCells
  <1>10. PICK m \in Nat, n \in Nat : m = Distance(u, v) /\ n = Squared(pair)
    BY <1>3, DistanceIs, SquaresInOrder
  <1> QED
    BY <1>2, <1>9, <1>10

(* A cell that the walls of a box do not block keeps its squares away from     *)
(* them.                                                                       *)
LEMMA BoxIsApart ==
  ASSUME NEW s \in Scenes, s.box, NEW c \in Points, classify_analytic_box_cell(s, c),
         NEW u \in Points, Holds(c, u, s.pitch), NEW v \in Points \ s.container
  PROVE  u # v /\ Distance(u, v) >= Squared(s.wall)
  <1>1. PICK p \in Nat \ {0}, wall \in Nat : p = s.pitch /\ wall = s.wall
    BY SceneIs
  <1>2. PICK top \in [Axes -> Int] : \A k \in Axes : top[k] = High(s.container, k)
    <2>1. \A k \in Axes : High(s.container, k) \in Int
      BY SceneIs, SolidBounds
    <2>2. [k \in Axes |-> High(s.container, k)] \in [Axes -> Int]
      BY <2>1
    <2> QED
      BY <2>2
  <1>3. ASSUME NEW k \in Axes
        PROVE  u[k] \in Int /\ wall <= u[k] /\ u[k] + 1 <= top[k] - wall
    <2>1. PICK i \in Int, x \in Int, h \in Int : i = c[k] /\ x = u[k] /\ h = top[k]
      BY <1>2, Coordinates
    <2>2. i * p \in Int /\ (i + 1) * p \in Int
      BY Multiples
    <2>3. wall <= i * p /\ (i + 1) * p <= h - wall
      BY <1>1, <1>2, <2>1 DEF classify_analytic_box_cell
    <2>4. i * p <= x /\ x + 1 <= (i + 1) * p
      BY <1>1, <2>1 DEF Holds
    <2> QED
      BY <2>1, <2>2, <2>3, <2>4
  <1>4. s.container = (0..(top[1] - 1)) \X (0..(top[2] - 1))
    BY <1>2, SceneAssumption DEF Axes
  <1>5. v[1] \in Int /\ v[2] \in Int /\ v = <<v[1], v[2]>> /\ top[1] \in Int /\ top[2] \in Int
    BY DEF Points, Axes
  <1>6. \E k \in Axes : v[k] < 0 \/ v[k] >= top[k]
    <2>1. ~(v[1] \in 0..(top[1] - 1) /\ v[2] \in 0..(top[2] - 1))
      BY <1>4, <1>5
    <2> QED
      BY <1>5, <2>1 DEF Axes
  <1>7. PICK k \in Axes : v[k] < 0 \/ v[k] >= top[k]
    BY <1>6
  <1>8. PICK x \in Int, y \in Int, h \in Int : x = u[k] /\ y = v[k] /\ h = top[k]
    BY <1>2, Coordinates
  <1>9. x # y /\ wall <= Apart(x, y) /\ Apart(x, y) \in Nat
    BY <1>3, <1>7, <1>8 DEF Apart
  <1>10. PICK a \in Nat, b \in Nat :
           /\ a = Apart(u[1], v[1]) /\ b = Apart(u[2], v[2])
           /\ Distance(u, v) = Squared(a) + Squared(b)
    BY DistanceIs
  <1>11. wall <= a \/ wall <= b
    BY <1>8, <1>9, <1>10 DEF Axes
  <1>12. PICK m \in Nat, n \in Nat, w \in Nat :
           m = Squared(a) /\ n = Squared(b) /\ w = Squared(wall) /\ (w <= m \/ w <= n)
    BY <1>11, SquaresInOrder
  <1>13. Distance(u, v) >= Squared(wall)
    BY <1>10, <1>12
  <1> QED
    BY <1>1, <1>8, <1>9, <1>13

(* Around a cell that a solid container's mask does not block, no cell is one  *)
(* that its boundary or anything but its material reaches.                     *)
LEMMA UnmaskedCells ==
  ASSUME NEW s \in Scenes, NEW c \in Cells(Environment(s)) \ SolidMask(s), c \in Points,
         NEW d \in Points, <<c[1] - d[1], c[2] - d[2]>> \in make_stencil(s.wall, s.pitch)
  PROVE  d \in Touched(s.container, s.pitch) /\ d \notin Edged(s.container, s.pitch)
  <1>1. PICK p \in Nat \ {0}, wall \in Nat : p = s.pitch /\ wall = s.wall
    BY SceneIs
  <1>2. PICK a \in [Axes -> Int], b \in [Axes -> Int] : Environment(s) = Box(a, b)
    BY EnvironmentIs
  <1>3. PICK halo \in Nat : halo = clearance_halo(wall, p)
    BY HaloIs
  <1>4. PICK x, y : x = [k \in Axes |-> a[k] - halo] /\ y = [k \in Axes |-> b[k] + halo]
    OBVIOUS
  <1>5. /\ x \in [Axes -> Int] /\ y \in [Axes -> Int]
        /\ expanded(Environment(s), halo) = Box(x, y)
    BY <1>2, <1>4 DEF expanded, Box
  <1>6. PICK raw : raw = make_raw(place(s.container, identity), Box(x, y), p)
    OBVIOUS
  <1>7. IsSolid(s.container)
    BY SceneIs
  <1>8. /\ raw.window = Box(x, y)
        /\ raw.material \subseteq Touched(s.container, p) \ Edged(s.container, p)
    <2>1. IsPlaced(place(s.container, identity), s.container, identity) /\ identity \in Poses
      BY <1>7, IdentityIs, PlacedIs
    <2> QED
      BY <1>5, <1>6, <1>7, <2>1, RawIs
  <1>9. SolidMask(s) = dilate_and_crop(NotMaterial(raw), make_stencil(wall, p), Environment(s))
    BY <1>1, <1>3, <1>5, <1>6 DEF SolidMask
  <1>10. PICK e : e = <<c[1] - d[1], c[2] - d[2]>>
    OBVIOUS
  <1>11. e \in make_stencil(wall, p)
    BY <1>1, <1>10
  <1>12. c = <<d[1] + e[1], d[2] + e[2]>>
    <2>1. /\ c[1] \in Int /\ c[2] \in Int /\ c = <<c[1], c[2]>>
          /\ d[1] \in Int /\ d[2] \in Int
      BY DEF Points
    <2>2. e[1] = c[1] - d[1] /\ e[2] = c[2] - d[2]
      BY <1>10
    <2>3. d[1] + e[1] = c[1] /\ d[2] + e[2] = c[2]
      BY <2>1, <2>2
    <2> QED
      BY <2>1, <2>3
  <1>13. e \in (-halo..halo) \X (-halo..halo)
    BY <1>3, <1>11 DEF make_stencil
  <1>14. d \in Cells(Box(x, y))
    <2>1. <<d[1] + e[1], d[2] + e[2]>> \in Cells(Box(a, b))
      BY <1>2, <1>12
    <2> QED
      BY <1>4, <1>13, <2>1, HaloIsEnough
  <1>15. d \notin NotMaterial(raw)
    BY <1>9, <1>11, <1>12, DilatedIs
  <1> QED
    BY <1>1, <1>8, <1>14, <1>15 DEF NotMaterial

(* What such a cell meets is all of the container.                             *)
LEMMA UnmaskedIsMaterial ==
  ASSUME NEW s \in Scenes, NEW c \in Cells(Environment(s)) \ SolidMask(s), c \in Points,
         NEW d \in Points, <<c[1] - d[1], c[2] - d[2]>> \in make_stencil(s.wall, s.pitch),
         NEW v \in Points, Meets(v, d, s.pitch)
  PROVE  v \in s.container
  <1>1. PICK p \in Nat \ {0} : p = s.pitch
    BY SceneIs
  <1>2. IsSolid(s.container)
    BY SceneIs
  <1>3. d \in Touched(s.container, p) /\ d \notin Edged(s.container, p)
    BY <1>1, UnmaskedCells
  <1>4. PICK w \in s.container : Meets(w, d, p)
    BY <1>3 DEF Touched
  <1>5. w \in Points /\ d \in Points \ Edged(s.container, p) /\ Meets(v, d, p)
    BY <1>1, <1>2, <1>3 DEF IsSolid
  <1>6. (w \in s.container) <=> (v \in s.container)
    BY <1>2, <1>4, <1>5, CellIsUniform
  <1> QED
    BY <1>4, <1>6

(* A cell that a solid container's mask does not block keeps its squares away  *)
(* from all that is not the container's material.                              *)
LEMMA SolidIsApart ==
  ASSUME NEW s \in Scenes, NEW c \in Cells(Environment(s)) \ SolidMask(s), c \in Points,
         NEW u \in Points, Holds(c, u, s.pitch), NEW v \in Points \ s.container
  PROVE  u # v /\ Distance(u, v) >= Squared(s.wall)
  <1>1. PICK p \in Nat \ {0}, wall \in Nat : p = s.pitch /\ wall = s.wall
    BY SceneIs
  <1>2. SUFFICES ASSUME u = v \/ Distance(u, v) < Squared(wall)
                 PROVE  FALSE
    <2>1. PICK m \in Nat, n \in Nat : m = Distance(u, v) /\ n = Squared(wall)
      BY DistanceIs, SquaresInOrder
    <2>2. u # v /\ ~(m < n) => u # v /\ m >= n
      OBVIOUS
    <2> QED
      BY <1>1, <2>1, <2>2
  <1>3. PICK d \in Points : Holds(d, v, p) /\ Meets(v, d, p)
    BY SomeCellHolds
  <1>4. <<c[1] - d[1], c[2] - d[2]>> \in make_stencil(wall, p)
    <2>1. Holds(c, u, p)
      BY <1>1
    <2> QED
      BY <1>2, <1>3, <2>1, NearCells
  <1>5. <<c[1] - d[1], c[2] - d[2]>> \in make_stencil(s.wall, s.pitch) /\ Meets(v, d, s.pitch)
    BY <1>1, <1>3, <1>4
  <1>6. v \in s.container
    BY <1>3, <1>5, UnmaskedIsMaterial
  <1> QED
    BY <1>6

(* So does any cell of the environment that the container's field leaves free. *)
LEMMA UnmaskedIsInside ==
  ASSUME NEW s \in Scenes, NEW c \in Cells(Environment(s)) \ MaskOf[s], c \in Points,
         NEW u \in Points, Holds(c, u, s.pitch), NEW v \in Points \ s.container
  PROVE  u # v /\ Distance(u, v) >= Squared(s.wall)
  <1>1. MaskOf[s] = voxelize_container(s) /\ s.box \in BOOLEAN
    BY SceneAssumption DEF MaskOf
  <1>2. CASE s.box
    <2>1. classify_analytic_box_cell(s, c)
      BY <1>1, <1>2 DEF voxelize_container, AnalyticMask
    <2> QED
      BY <1>2, <2>1, BoxIsApart
  <1>3. CASE ~s.box
    <2>1. c \notin SolidMask(s)
      BY <1>1, <1>3 DEF voxelize_container
    <2> QED
      BY <2>1, SolidIsApart
  <1> QED
    BY <1>1, <1>2, <1>3

(* What a cell of the environment that is not occupied tells.                  *)
LEMMA UnoccupiedIs ==
  ASSUME UpdateInv, NEW l \in live, NEW c \in Cells(Environment(scene)) \ l.occupied
  PROVE  /\ scene \in Scenes /\ l.poses = LivePoses
         /\ c \notin MaskOf[scene]
         /\ \A q \in l.poses : q \in Copies(scene) /\ c \notin ReachedBy(scene, q)
  <1>1. PICK want : want = (UNION mask) \cup
                      ((UNION {Reach(p) : p \in l.poses}) \cap Cells(Environment(scene)))
    OBVIOUS
  <1>2. want \subseteq l.occupied
    BY <1>1, FreshFollows DEF OccupancyIsFresh
  <1>3. PICK m : live = {m} /\ IsLive(scene, m)
    BY DEF UpdateInv, LiveInv
  <1>4. l = m /\ l.poses = LivePoses /\ l.poses \in Layouts(scene) /\ scene \in Scenes
    BY <1>3, LivePosesAre DEF IsLive, UpdateInv
  <1>5. UNION mask = MaskOf[scene]
    <2>1. mask = {MaskOf[scene]}
      BY DEF UpdateInv, MaskInv
    <2> QED
      BY <2>1
  <1>6. ASSUME NEW q \in l.poses
        PROVE  q \in Copies(scene) /\ c \notin ReachedBy(scene, q)
    <2>1. q \in Copies(scene)
      BY <1>4 DEF Layouts
    <2>2. c \notin Reach(q)
      BY <1>1, <1>2
    <2> QED
      BY <1>4, <2>1, <2>2, ReachIs
  <1> QED
    BY <1>1, <1>2, <1>4, <1>5, <1>6

(* A copy at a translation that is free lies inside and apart from the copies  *)
(* in use.                                                                     *)
LEMMA OfferedIsClear ==
  ASSUME UpdateInv, live # {}, NEW turn \in DOMAIN scene.object, NEW t \in Free(turn),
         NEW solid, solid = Moved(scene.object[turn], <<t[1] * scene.pitch, t[2] * scene.pitch>>)
  PROVE  /\ KeepsInside(scene, solid)
         /\ \A q \in LivePoses : /\ KeepsApart(solid, Solid(scene, q), scene.pair)
                                 /\ KeepsApart(Solid(scene, q), solid, scene.pair)
  <1>1. scene \in Scenes
    BY DEF UpdateInv
  <1>2. PICK l \in live : TRUE
    OBVIOUS
  <1>3. ASSUME NEW u \in solid
        PROVE  /\ u \in Points
               /\ \A v \in Points \ scene.container :
                    u # v /\ Distance(u, v) >= Squared(scene.wall)
               /\ \A q \in LivePoses : \A v \in Solid(scene, q) :
                    v \in Points /\ u # v /\ Distance(u, v) >= Squared(scene.pair)
    <2>1. /\ u \in Points
          /\ \E c \in Cells(Environment(scene)) :
               /\ c \in Points /\ Holds(c, u, scene.pitch)
               /\ \A m \in live : c \notin m.occupied
      BY <1>1, OfferedCells
    <2>2. PICK c \in Cells(Environment(scene)) :
            c \in Points /\ Holds(c, u, scene.pitch) /\ c \notin l.occupied
      BY <1>2, <2>1
    <2>3. /\ l.poses = LivePoses /\ c \notin MaskOf[scene]
          /\ \A q \in l.poses : q \in Copies(scene) /\ c \notin ReachedBy(scene, q)
      BY <1>2, <2>2, UnoccupiedIs
    <2>4. ASSUME NEW v \in Points \ scene.container
          PROVE  u # v /\ Distance(u, v) >= Squared(scene.wall)
      BY <1>1, <2>1, <2>2, <2>3, UnmaskedIsInside
    <2>5. ASSUME NEW q \in LivePoses, NEW v \in Solid(scene, q)
          PROVE  v \in Points /\ u # v /\ Distance(u, v) >= Squared(scene.pair)
      <3>1. q \in Copies(scene) /\ c \notin ReachedBy(scene, q)
        BY <2>3
      <3>2. v \in Points
        BY <1>1, <3>1, SolidIs DEF IsSolid
      <3> QED
        BY <1>1, <2>1, <2>2, <3>1, <3>2, UnreachedIsApart
    <2> QED
      BY <2>1, <2>4, <2>5
  <1>4. KeepsInside(scene, solid)
    <2>1. SUFFICES ASSUME NEW u \in solid,
                          NEW v \in Near(u, scene.wall + 1) \ scene.container
                   PROVE  u # v /\ Distance(u, v) >= Squared(scene.wall)
      BY DEF KeepsInside, KeepsApart
    <2>2. v \in Points
      <3>1. u[1] \in Int /\ u[2] \in Int /\ scene.wall \in Int
        BY <1>1, <1>3, SceneIs DEF Points
      <3>2. PICK n \in Int : n = scene.wall + 1
        BY <3>1
      <3>3. v \in (u[1] - n..u[1] + n) \X (u[2] - n..u[2] + n)
        BY <2>1, <3>2 DEF Near
      <3> QED
        BY <3>1, <3>2, <3>3 DEF Points
    <2> QED
      BY <1>3, <2>2
  <1>5. ASSUME NEW q \in LivePoses
        PROVE  /\ KeepsApart(solid, Solid(scene, q), scene.pair)
               /\ KeepsApart(Solid(scene, q), solid, scene.pair)
    BY <1>3, DistanceBothWays DEF KeepsApart
  <1> QED
    BY <1>4, <1>5

(* So the layout that is grown with it is as well packed as the one in use.    *)
LEMMA OfferIsPacked ==
  ASSUME UpdateInv, live # {}, NEW turn \in DOMAIN scene.object, NEW t \in Free(turn),
         NEW id \in Ids, NEW copy, copy = [id |-> id, turn |-> turn,
                           at |-> <<t[1] * scene.pitch, t[2] * scene.pitch>>],
         Packed(scene, LivePoses)
  PROVE  Packed(scene, Grown(copy))
  <1>1. PICK others : others = {p \in LivePoses : p.id # copy.id}
    OBVIOUS
  <1>2. Grown(copy) = others \cup {copy}
    BY <1>1 DEF Grown
  <1>3. Solid(scene, copy) = Moved(scene.object[turn], <<t[1] * scene.pitch, t[2] * scene.pitch>>)
    BY DEF Solid
  <1>4. /\ KeepsInside(scene, Solid(scene, copy))
        /\ \A q \in LivePoses : /\ KeepsApart(Solid(scene, copy), Solid(scene, q), scene.pair)
                                /\ KeepsApart(Solid(scene, q), Solid(scene, copy), scene.pair)
    BY <1>3, OfferedIsClear
  <1>5. ASSUME NEW p \in Grown(copy)
        PROVE  KeepsInside(scene, Solid(scene, p))
    BY <1>1, <1>2, <1>4 DEF Packed
  <1>6. ASSUME NEW p \in Grown(copy), NEW q \in Grown(copy), p.id # q.id
        PROVE  KeepsApart(Solid(scene, p), Solid(scene, q), scene.pair)
    <2>1. CASE p = copy
      <3>1. q \in LivePoses
        BY <1>1, <1>2, <1>6, <2>1
      <3> QED
        BY <1>4, <2>1, <3>1
    <2>2. CASE q = copy
      <3>1. p \in LivePoses
        BY <1>1, <1>2, <1>6, <2>2
      <3> QED
        BY <1>4, <2>2, <3>1
    <2>3. CASE p # copy /\ q # copy
      <3>1. p \in LivePoses /\ q \in LivePoses
        BY <1>1, <1>2, <2>3
      <3> QED
        BY <1>6, <3>1 DEF Packed
    <2> QED
      BY <2>1, <2>2, <2>3
  <1> QED
    BY <1>5, <1>6 DEF Packed

-----------------------------------------------------------------------------
(* A layout that is offered                                                    *)

(* A layout with one of its copies moved, or one more.                         *)
LEMMA GrownIsLayout ==
  ASSUME scene \in Scenes, IsLayout(scene, LivePoses), NEW copy,
         copy.id \in Nat, copy.turn \in DOMAIN scene.object, copy.at \in Points
  PROVE  IsLayout(scene, Grown(copy))
  <1>1. PICK others : others = {p \in LivePoses : p.id # copy.id}
    OBVIOUS
  <1>2. Grown(copy) = others \cup {copy}
    BY <1>1 DEF Grown
  <1>3. IsFiniteSet(others)
    BY <1>1, FS_Subset DEF IsLayout
  <1>4. IsFiniteSet(others \cup {copy})
    BY <1>3, FS_AddElement
  <1>5. \A p \in others \cup {copy} :
          p.id \in Nat /\ p.turn \in DOMAIN scene.object /\ p.at \in Points
    BY <1>1 DEF IsLayout
  <1>6. \A p, q \in others \cup {copy} : p.id = q.id => p = q
    BY <1>1 DEF IsLayout
  <1> QED
    BY <1>2, <1>4, <1>5, <1>6 DEF IsLayout

-----------------------------------------------------------------------------
(* The layouts in use                                                          *)

(* What the kernel said was valid, and what a search was offered, is.          *)
ReportsArePacked ==
  \A r \in report : r.validity = "valid" \/ r.offered => Packed(scene, r.layout)

(* So are the layout in use and the one that is asked for.                     *)
PackedInv ==
  /\ Packed(scene, LivePoses) /\ Packed(scene, asked)
  /\ ReportsArePacked
  /\ report # {} => step = "report"

(* What is validated against the layout in use is valid only if it is packed.  *)
LEMMA ReportKeeps ==
  ASSUME UpdateInv, PackedInv, NEW layout, IsLayout(scene, layout), NEW offered,
         offered => Packed(scene, layout), Validate(layout, offered)
  PROVE  PackedInv'
  <1>1. /\ scene' = scene /\ asked' = asked /\ live' = live /\ step' = "report"
        /\ report' = {[layout |-> layout, offered |-> offered,
                       validity |-> validate_report(scene, LivePoses, layout)]}
    BY DEF Validate
  <1>2. LivePoses' = LivePoses
    BY <1>1 DEF LivePoses
  <1>3. ASSUME validate_report(scene, LivePoses, layout) = "valid"
        PROVE  Packed(scene, layout)
    <2>1. scene \in Scenes /\ Packed(scene, LivePoses)
      BY DEF UpdateInv, PackedInv
    <2> QED
      BY <1>3, <2>1, ValidLayoutsArePacked
  <1>4. ASSUME NEW r \in report', r.validity = "valid" \/ r.offered
        PROVE  Packed(scene, r.layout)
    <2>1. /\ r.layout = layout /\ r.offered = offered
          /\ r.validity = validate_report(scene, LivePoses, layout)
      BY <1>1, <1>4
    <2> QED
      BY <1>3, <1>4, <2>1
  <1> QED
    BY <1>1, <1>2, <1>4 DEF PackedInv, ReportsArePacked

(* A copy where the fields leave room.                                         *)
Offered(layout) ==
  /\ live # {}
  /\ \E turn \in DOMAIN scene.object : \E t \in Free(turn), id \in Ids :
       layout = Grown([id |-> id, turn |-> turn,
                       at |-> <<t[1] * scene.pitch, t[2] * scene.pitch>>])

(* What is validated.                                                          *)
LEMMA Validated ==
  ASSUME scene \in Scenes, IsLayout(scene, LivePoses), Propose \/ Offer
  PROVE  \E layout, offered :
           /\ IsLayout(scene, layout) /\ Validate(layout, offered)
           /\ offered \in BOOLEAN /\ (offered => Offered(layout))
  <1>1. CASE Propose
    <2>1. PICK layout \in Layouts(scene)
                 \cup {Grown(c) : c \in [id : Ids, turn : DOMAIN scene.object, at : scene.tries]} :
            Validate(layout, FALSE)
      BY <1>1 DEF Propose
    <2>2. IsLayout(scene, layout)
      <3>1. CASE layout \in Layouts(scene)
        BY <3>1, LayoutsAre
      <3>2. CASE layout \notin Layouts(scene)
        <4>1. PICK c \in [id : Ids, turn : DOMAIN scene.object, at : scene.tries] :
                layout = Grown(c)
          BY <2>1, <3>2
        <4>2. c.id \in Nat /\ c.turn \in DOMAIN scene.object /\ c.at \in Points
          BY <4>1, KernelAssumption, SceneAssumption
        <4> QED
          BY <4>1, <4>2, GrownIsLayout
      <3> QED
        BY <3>1, <3>2
    <2> QED
      BY <2>1, <2>2
  <1>2. CASE Offer
    <2>1. PICK turn \in DOMAIN scene.object : \E t \in Free(turn), id \in Ids :
            Validate(Grown([id |-> id, turn |-> turn,
                            at |-> <<t[1] * scene.pitch, t[2] * scene.pitch>>]), TRUE)
      BY <1>2 DEF Offer
    <2>2. PICK t \in Free(turn), id \in Ids :
            Validate(Grown([id |-> id, turn |-> turn,
                            at |-> <<t[1] * scene.pitch, t[2] * scene.pitch>>]), TRUE)
      BY <2>1
    <2>3. PICK copy : copy = [id |-> id, turn |-> turn,
                              at |-> <<t[1] * scene.pitch, t[2] * scene.pitch>>]
      OBVIOUS
    <2>4. t \in Points /\ scene.pitch \in Nat \ {0}
      <3>1. PICK whole, own : whole = Environment(scene) /\ own = KernelWindow(scene, turn)
        OBVIOUS
      <3>2. t \in Cells(Box([k \in Axes |-> whole.first[k] - own.first[k]],
                            [k \in Axes |-> whole.last[k] - own.last[k]]))
        BY <3>1 DEF Free
      <3>3. t \in Points
        BY <3>2 DEF Cells, Box, Points, Axes
      <3> QED
        BY <3>3, SceneIs
    <2>5. copy.id \in Nat /\ copy.turn \in DOMAIN scene.object /\ copy.at \in Points
      <3>1. PICK i \in Int, j \in Int, pitch \in Nat : t = <<i, j>> /\ pitch = scene.pitch
        BY <2>4 DEF Points
      <3>2. i * pitch \in Int /\ j * pitch \in Int
        OBVIOUS
      <3>3. copy.at = <<i * pitch, j * pitch>>
        BY <2>3, <3>1
      <3>4. copy.at \in Points
        BY <3>2, <3>3 DEF Points
      <3> QED
        BY <2>3, <3>4, KernelAssumption
    <2>6. PICK layout : layout = Grown(copy) /\ IsLayout(scene, layout)
      BY <2>5, GrownIsLayout
    <2>7. Offered(layout)
      BY <1>2, <2>2, <2>3, <2>6 DEF Offer, Offered
    <2> QED
      BY <2>2, <2>3, <2>6, <2>7
  <1> QED
    BY <1>1, <1>2

(* Layouts stay packed at every step.                                          *)
LEMMA PackedInductive ==
  ASSUME UpdateInv, PackedInv, [Next]_vars
  PROVE  PackedInv'
  <1>0. scene \in Scenes /\ IsLayout(scene, LivePoses)
    BY LivePosesAre, LayoutsAre DEF UpdateInv
  <1>1. CASE Propose \/ Offer
    <2>1. PICK layout, offered :
            /\ IsLayout(scene, layout) /\ Validate(layout, offered)
            /\ offered \in BOOLEAN /\ (offered => Offered(layout))
      BY <1>0, <1>1, Validated
    <2>2. ASSUME offered = TRUE
          PROVE  Packed(scene, layout)
      <3>1. live # {} /\ Offered(layout) /\ Packed(scene, LivePoses)
        BY <2>1, <2>2 DEF Offered, PackedInv
      <3>2. PICK turn \in DOMAIN scene.object : \E t \in Free(turn), id \in Ids :
              layout = Grown([id |-> id, turn |-> turn,
                              at |-> <<t[1] * scene.pitch, t[2] * scene.pitch>>])
        BY <3>1 DEF Offered
      <3> QED
        BY <3>1, <3>2, OfferIsPacked
    <2> QED
      BY <2>1, <2>2, ReportKeeps
  <1>2. CASE Adopt
    <2>1. PICK r \in report : r.validity = "valid" /\ asked' = r.layout
      BY <1>2 DEF Adopt
    <2>2. Packed(scene, r.layout)
      BY <2>1 DEF PackedInv, ReportsArePacked
    <2>3. scene' = scene /\ live' = live /\ report' = {}
      BY <1>2 DEF Adopt
    <2>4. LivePoses' = LivePoses
      BY <2>3 DEF LivePoses
    <2> QED
      BY <2>1, <2>2, <2>3, <2>4 DEF PackedInv, ReportsArePacked
  <1>3. CASE Discard
    <2>1. scene' = scene /\ live' = live /\ asked' = asked /\ report' = {}
      BY <1>3 DEF Discard
    <2>2. LivePoses' = LivePoses
      BY <2>1 DEF LivePoses
    <2> QED
      BY <2>1, <2>2 DEF PackedInv, ReportsArePacked
  <1>4. CASE Prepare \/ MakeMask \/ Compare \/ RemoveOne \/ Removed \/ AddOne \/ Fail
    <2>1. scene' = scene /\ live' = live /\ report' = report /\ step # "report"
      BY <1>4 DEF Prepare, MakeMask, Compare, RemoveOne, Removed, AddOne, Fail
    <2>2. asked' = asked \/ asked' = {}
      BY <1>4 DEF Prepare, MakeMask, Compare, RemoveOne, Removed, AddOne, Fail, Drop
    <2>3. LivePoses' = LivePoses
      BY <2>1 DEF LivePoses
    <2>4. report' = {}
      BY <2>1 DEF PackedInv
    <2> QED
      BY <2>1, <2>2, <2>3, <2>4, NothingIsPacked DEF PackedInv, ReportsArePacked
  <1>5. CASE Publish
    <2>1. PICK b \in staged :
            live' = {[poses |-> asked, blocked |-> b,
                      occupied |-> {c \in Cells(Environment(scene)) : IsBlocked(b, c)}]}
      BY <1>5 DEF Publish
    <2>2. LivePoses' = asked
      BY <2>1 DEF LivePoses
    <2>3. scene' = scene /\ asked' = {} /\ report' = report /\ step # "report"
      BY <1>5 DEF Publish, Drop
    <2>4. report' = {}
      BY <2>3 DEF PackedInv
    <2> QED
      BY <2>2, <2>3, <2>4, NothingIsPacked DEF PackedInv, ReportsArePacked
  <1>6. CASE UNCHANGED vars
    <2>1. scene' = scene /\ live' = live /\ asked' = asked /\ report' = report /\ step' = step
      BY <1>6 DEF vars
    <2>2. LivePoses' = LivePoses
      BY <2>1 DEF LivePoses
    <2> QED
      BY <2>1, <2>2 DEF PackedInv, ReportsArePacked
  <1> QED
    BY <1>1, <1>2, <1>3, <1>4, <1>5, <1>6 DEF Next

(* The layout in use is always packed, and so is each that the kernel calls    *)
(* valid and each that a search is offered.                                    *)
THEOREM LayoutsStayPacked == Spec => [](Packed(scene, LivePoses) /\ ReportsArePacked)
  <1>1. Init => UpdateInv /\ PackedInv
    <2>1. ASSUME Init
          PROVE  PackedInv
      <3>1. live = {} /\ asked = {} /\ report = {}
        BY <2>1 DEF Init
      <3>2. LivePoses = {}
        BY <3>1 DEF LivePoses
      <3> QED
        BY <3>1, <3>2, NothingIsPacked DEF PackedInv, ReportsArePacked
    <2> QED
      BY <2>1, UpdatesStart
  <1>2. UpdateInv /\ PackedInv /\ [Next]_vars => (UpdateInv /\ PackedInv)'
    BY UpdatesInductive, PackedInductive
  <1>3. UpdateInv /\ PackedInv => Packed(scene, LivePoses) /\ ReportsArePacked
    BY DEF PackedInv
  <1> QED
    BY <1>1, <1>2, <1>3, PTL DEF Spec
-----------------------------------------------------------------------------
(* What is reported                                                            *)

(* The verdict about a layout is true as soon as it is given, and is not kept  *)
(* for another problem.                                                        *)
LEMMA VerdictsInductive ==
  ASSUME UpdateInv, PackedInv, VerdictsAreTrue, [Next]_vars
  PROVE  VerdictsAreTrue'
  <1>0. /\ scene \in Scenes /\ IsLayout(scene, LivePoses) /\ Packed(scene, LivePoses)
        /\ report # {} => step = "report"
    BY LivePosesAre, LayoutsAre DEF UpdateInv, PackedInv
  <1>1. CASE Propose \/ Offer
    <2>1. PICK layout, offered : IsLayout(scene, layout) /\ Validate(layout, offered)
      BY <1>0, <1>1, Validated
    <2>2. PICK answer : answer = validate_report(scene, LivePoses, layout)
      OBVIOUS
    <2>3. /\ scene' = scene
          /\ report' = {[layout |-> layout, offered |-> offered, validity |-> answer]}
      BY <2>1, <2>2 DEF Validate
    <2>4. answer = "valid" => Packed(scene, layout)
      BY <1>0, <2>1, <2>2, ValidLayoutsArePacked
    <2>5. answer = "invalid" => ~Packed(scene, layout)
      BY <1>0, <2>1, <2>2, InvalidLayoutsAreUnpacked
    <2> QED
      BY <2>3, <2>4, <2>5 DEF VerdictsAreTrue
  <1>2. CASE Adopt \/ Discard
    <2>1. report' = {}
      BY <1>2 DEF Adopt, Discard
    <2> QED
      BY <2>1 DEF VerdictsAreTrue
  <1>3. CASE \/ Prepare \/ MakeMask \/ Compare \/ RemoveOne \/ Removed \/ AddOne
             \/ Publish \/ Fail \/ UNCHANGED vars
    <2>1. scene' = scene /\ report' = report
      BY <1>3 DEF Prepare, MakeMask, Compare, RemoveOne, Removed, AddOne, Publish, Fail, vars
    <2> QED
      BY <2>1 DEF VerdictsAreTrue
  <1> QED
    BY <1>1, <1>2, <1>3 DEF Next

(* The kernel calls valid only what is packed, and invalid only what is not.   *)
THEOREM VerdictsStayTrue == Spec => []VerdictsAreTrue
  <1>1. Init => UpdateInv /\ PackedInv /\ VerdictsAreTrue
    <2>1. ASSUME Init
          PROVE  PackedInv /\ VerdictsAreTrue
      <3>1. live = {} /\ asked = {} /\ report = {}
        BY <2>1 DEF Init
      <3>2. LivePoses = {}
        BY <3>1 DEF LivePoses
      <3> QED
        BY <3>1, <3>2, NothingIsPacked DEF PackedInv, ReportsArePacked, VerdictsAreTrue
    <2> QED
      BY <2>1, UpdatesStart
  <1>2. /\ UpdateInv /\ PackedInv /\ VerdictsAreTrue /\ [Next]_vars =>
             (UpdateInv /\ PackedInv /\ VerdictsAreTrue)'
    BY UpdatesInductive, PackedInductive, VerdictsInductive
  <1> QED
    BY <1>1, <1>2, PTL DEF Spec
-----------------------------------------------------------------------------
(* What is offered is accepted: a copy in cells that are free shares no point  *)
(* with another one, so that nothing about its surfaces is left in doubt.      *)

(* Every clearance reaches the cell itself.                                    *)
LEMMA OwnCellReached ==
  ASSUME NEW p \in Nat \ {0}, NEW clearance \in Nat, NEW c \in Points, NEW u \in Points,
         Holds(c, u, p)
  PROVE  <<c[1] - c[1], c[2] - c[2]>> \in make_stencil(clearance, p)
  <1>1. PICK v, d : v = u /\ d = c
    OBVIOUS
  <1>2. v \in Points /\ d \in Points /\ Holds(d, v, p)
    BY <1>1
  <1>3. <<c[1] - d[1], c[2] - d[2]>> \in make_stencil(clearance, p)
    BY <1>1, <1>2, NearCells
  <1> QED
    BY <1>1, <1>3

(* A square in a cell that no copy reaches has no point in common with a copy. *)
LEMMA UnreachedIsLoose ==
  ASSUME NEW s \in Scenes, NEW q \in Copies(s), NEW c \in Points, c \notin ReachedBy(s, q),
         NEW u \in Points, Holds(c, u, s.pitch), NEW v \in Solid(s, q)
  PROVE  v \notin Near(u, 1)
  <1>1. PICK p \in Nat \ {0}, pair \in Nat : p = s.pitch /\ pair = s.pair
    BY SceneIs
  <1>2. v \in Points
    BY SolidIs DEF IsSolid
  <1>3. SUFFICES ASSUME v \in Near(u, 1)
                 PROVE  c \in ReachedBy(s, q)
    OBVIOUS
  <1>4. Holds(c, u, p)
    BY <1>1
  <1>5. Meets(v, c, p)
    BY <1>2, <1>3, <1>4, BesideMeets
  <1>6. c \in Touched(Solid(s, q), p)
    BY <1>5 DEF Touched
  <1>7. PICK e : e = <<c[1] - c[1], c[2] - c[2]>> /\ e \in make_stencil(pair, p)
    BY <1>4, OwnCellReached
  <1>8. c = <<c[1] + e[1], c[2] + e[2]>>
    <2>1. PICK i \in Int, j \in Int : c = <<i, j>>
      BY DEF Points
    <2>2. e[1] = i - i /\ e[2] = j - j
      BY <1>7, <2>1
    <2>3. i + e[1] = i /\ j + e[2] = j
      BY <2>2
    <2> QED
      BY <2>1, <2>3
  <1>9. c \in Moved(Touched(Solid(s, q), p), e)
    BY <1>6, <1>8, MovedIs
  <1> QED
    BY <1>1, <1>7, <1>9 DEF ReachedBy

(* Nor has one in a cell that the mask of a solid container leaves free with   *)
(* anything outside.                                                           *)
LEMMA UnmaskedIsLoose ==
  ASSUME NEW s \in Scenes, ~s.box, NEW c \in Cells(Environment(s)) \ MaskOf[s], c \in Points,
         NEW u \in Points, Holds(c, u, s.pitch), NEW v \in Points \ s.container
  PROVE  v \notin Near(u, 1)
  <1>1. PICK p \in Nat \ {0}, wall \in Nat : p = s.pitch /\ wall = s.wall
    BY SceneIs
  <1>2. SUFFICES ASSUME v \in Near(u, 1)
                 PROVE  v \in s.container
    OBVIOUS
  <1>3. c \in Cells(Environment(s)) \ SolidMask(s)
    BY DEF MaskOf, voxelize_container
  <1>4. Holds(c, u, p)
    BY <1>1
  <1>5. Meets(v, c, p)
    BY <1>2, <1>4, BesideMeets
  <1>6. <<c[1] - c[1], c[2] - c[2]>> \in make_stencil(wall, p)
    BY <1>4, OwnCellReached
  <1>7. PICK d \in Points : d = c
    OBVIOUS
  <1>8. <<c[1] - d[1], c[2] - d[2]>> \in make_stencil(s.wall, s.pitch) /\ Meets(v, d, s.pitch)
    BY <1>1, <1>5, <1>6, <1>7
  <1> QED
    BY <1>3, <1>8, UnmaskedIsMaterial

(* A copy at a translation that is free shares no point with the copies in     *)
(* use, nor with what lies outside a solid container.                          *)
LEMMA OfferedIsLoose ==
  ASSUME UpdateInv, live # {}, NEW turn \in DOMAIN scene.object, NEW t \in Free(turn),
         NEW solid, solid = Moved(scene.object[turn], <<t[1] * scene.pitch, t[2] * scene.pitch>>)
  PROVE  /\ ~scene.box => Loose(solid, Points \ scene.container)
         /\ \A q \in LivePoses : Loose(solid, Solid(scene, q))
  <1>1. scene \in Scenes
    BY DEF UpdateInv
  <1>2. PICK l \in live : TRUE
    OBVIOUS
  <1>3. ASSUME NEW u \in solid
        PROVE  /\ ~scene.box => \A v \in Points \ scene.container : v \notin Near(u, 1)
               /\ \A q \in LivePoses : \A v \in Solid(scene, q) : v \notin Near(u, 1)
    <2>1. /\ u \in Points
          /\ \E c \in Cells(Environment(scene)) :
               /\ c \in Points /\ Holds(c, u, scene.pitch)
               /\ \A m \in live : c \notin m.occupied
      BY <1>1, OfferedCells
    <2>2. PICK c \in Cells(Environment(scene)) :
            c \in Points /\ Holds(c, u, scene.pitch) /\ c \notin l.occupied
      BY <1>2, <2>1
    <2>3. /\ l.poses = LivePoses /\ c \notin MaskOf[scene]
          /\ \A q \in l.poses : q \in Copies(scene) /\ c \notin ReachedBy(scene, q)
      BY <1>2, <2>2, UnoccupiedIs
    <2>4. ASSUME ~scene.box, NEW v \in Points \ scene.container
          PROVE  v \notin Near(u, 1)
      BY <1>1, <2>1, <2>2, <2>3, <2>4, UnmaskedIsLoose
    <2>5. ASSUME NEW q \in LivePoses, NEW v \in Solid(scene, q)
          PROVE  v \notin Near(u, 1)
      <3>1. q \in Copies(scene) /\ c \notin ReachedBy(scene, q)
        BY <2>3
      <3> QED
        BY <1>1, <2>1, <2>2, <3>1, UnreachedIsLoose
    <2> QED
      BY <2>4, <2>5
  <1> QED
    BY <1>3 DEF Loose

(* A layout grown with a copy at a translation that is free is accepted, where *)
(* its copies are placed exactly.                                              *)
LEMMA OfferIsAccepted ==
  ASSUME UpdateInv, live # {}, NEW turn \in DOMAIN scene.object, NEW t \in Free(turn),
         NEW id \in Ids, NEW copy, copy = [id |-> id, turn |-> turn,
                           at |-> <<t[1] * scene.pitch, t[2] * scene.pitch>>],
         PlacedExactly(Grown(copy)), Accepted(scene, LivePoses), Packed(scene, Grown(copy)),
         IsLayout(scene, Grown(copy))
  PROVE  Accepted(scene, Grown(copy))
  <1>1. PICK others : others = {p \in LivePoses : p.id # copy.id}
    OBVIOUS
  <1>2. Grown(copy) = others \cup {copy}
    BY <1>1 DEF Grown
  <1>3. scene \in Scenes /\ scene.pair \in Nat
    BY SceneIs DEF UpdateInv
  <1>4. \A p \in Grown(copy) : scene.pose[p.turn] \in Poses /\ scene.pose[p.turn].exact
    BY <1>3, SceneIs DEF PlacedExactly, IsLayout
  <1>11. PICK pose \in Poses : pose = scene.pose[copy.turn] /\ pose.exact
    BY <1>2, <1>4
  <1>5. PICK solid : /\ solid = Solid(scene, copy)
                     /\ ~scene.box => Loose(solid, Points \ scene.container)
                     /\ \A q \in LivePoses : Loose(solid, Solid(scene, q))
    <2>1. Solid(scene, copy)
            = Moved(scene.object[turn], <<t[1] * scene.pitch, t[2] * scene.pitch>>)
      BY DEF Solid
    <2> QED
      BY <2>1, OfferedIsLoose
  <1>6. IsSolid(solid) /\ IsManifold(solid) /\ copy \in Grown(copy)
    BY <1>2, <1>3, <1>5, SolidsAre, SolidsAreManifold
  <1>7. ContainmentVerdict(scene, place(solid, pose)) = "valid"
    <2>1. KeepsInside(scene, solid)
      BY <1>5, <1>6 DEF Packed
    <2>2. ContainmentVerdict(scene, place(solid, pose)) # "invalid"
      BY <1>3, <1>6, <2>1, InvalidCopiesAreOutside
    <2>3. ContainmentVerdict(scene, place(solid, pose)) \in {"valid", "invalid"}
      BY <1>3, <1>5, <1>6, <1>11, InsideDecided
    <2> QED
      BY <2>2, <2>3
  <1>8. ASSUME NEW q \in others
        PROVE  LET y == scene.pose[q.turn]
               IN /\ PairVerdict(solid, pose, Solid(scene, q), y, scene.pair) = "valid"
                  /\ PairVerdict(Solid(scene, q), y, solid, pose, scene.pair) = "valid"
    <2>1. q \in Grown(copy) /\ q \in LivePoses /\ q.id # copy.id
      BY <1>1, <1>2
    <2>2. PICK b : b = Solid(scene, q) /\ IsSolid(b) /\ IsManifold(b) /\ Loose(solid, b)
      BY <1>3, <1>5, <2>1, SolidsAre, SolidsAreManifold
    <2>3. Loose(b, solid)
      BY <1>6, <2>2, LooseBothWays
    <2>4. KeepsApart(solid, b, scene.pair) /\ KeepsApart(b, solid, scene.pair)
      BY <1>5, <1>6, <2>1, <2>2 DEF Packed
    <2>5. PICK y \in Poses : y = scene.pose[q.turn] /\ y.exact
      BY <1>4, <2>1
    <2>6. /\ PairVerdict(solid, pose, b, y, scene.pair) # "invalid"
          /\ PairVerdict(b, y, solid, pose, scene.pair) # "invalid"
      BY <1>3, <1>6, <2>2, <2>4, InvalidPairsAreNear
    <2>7. /\ PairVerdict(solid, pose, b, y, scene.pair) \in {"valid", "invalid"}
          /\ PairVerdict(b, y, solid, pose, scene.pair) \in {"valid", "invalid"}
      BY <1>3, <1>6, <1>11, <2>2, <2>3, <2>5, PairDecided
    <2> QED
      BY <2>2, <2>5, <2>6, <2>7
  <1>9. ASSUME NEW p \in Grown(copy)
        PROVE  ContainmentVerdict(scene, place(Solid(scene, p), scene.pose[p.turn])) = "valid"
    <2>1. CASE p = copy
      BY <1>5, <1>7, <1>11, <2>1
    <2>2. CASE p \in LivePoses
      BY <2>2 DEF Accepted
    <2> QED
      BY <1>1, <1>2, <2>1, <2>2
  <1>10. ASSUME NEW p \in Grown(copy), NEW q \in Grown(copy), q.id < p.id
         PROVE  PairVerdict(Solid(scene, p), scene.pose[p.turn], Solid(scene, q),
                            scene.pose[q.turn], scene.pair) = "valid"
    <2>1. p # q
      <3>1. PICK i \in Nat, j \in Nat : i = p.id /\ j = q.id
        BY DEF IsLayout
      <3> QED
        BY <1>10, <3>1
    <2>2. CASE p = copy
      <3>1. q \in others
        BY <1>2, <2>1, <2>2
      <3> QED
        BY <1>5, <1>8, <1>11, <2>2, <3>1
    <2>3. CASE q = copy
      <3>1. p \in others
        BY <1>2, <2>1, <2>3
      <3> QED
        BY <1>5, <1>8, <1>11, <2>3, <3>1
    <2>4. CASE p \in others /\ q \in others
      <3>1. p \in LivePoses /\ q \in LivePoses
        BY <1>1, <2>4
      <3> QED
        BY <1>10, <3>1 DEF Accepted
    <2> QED
      BY <1>2, <2>2, <2>3, <2>4
  <1> QED
    BY <1>9, <1>10 DEF Accepted

(* The layout in use and the one that is asked for are accepted by every       *)
(* check, and so is what is offered where copies are placed exactly.           *)
AcceptedInv ==
  /\ Accepted(scene, LivePoses) /\ Accepted(scene, asked)
  /\ \A r \in report : /\ r.validity = "valid" => Accepted(scene, r.layout)
                       /\ r.offered /\ PlacedExactly(r.layout) => r.validity = "valid"

(* What is validated is valid only if it is accepted, and always if it is      *)
(* offered in exact poses.                                                     *)
LEMMA ReportAccepts ==
  ASSUME UpdateInv, PackedInv, AcceptedInv, NEW layout, NEW offered, IsLayout(scene, layout),
         Validate(layout, offered), offered => Offered(layout)
  PROVE  AcceptedInv'
  <1>1. /\ scene \in Scenes /\ Packed(scene, LivePoses)
        /\ Accepted(scene, LivePoses) /\ Accepted(scene, asked)
    BY DEF UpdateInv, PackedInv, AcceptedInv
  <1>2. PICK answer : answer = validate_report(scene, LivePoses, layout)
    OBVIOUS
  <1>3. /\ scene' = scene /\ asked' = asked /\ live' = live
        /\ report' = {[layout |-> layout, offered |-> offered, validity |-> answer]}
    BY <1>2 DEF Validate
  <1>4. LivePoses' = LivePoses
    BY <1>3 DEF LivePoses
  <1>5. answer = "valid" => Accepted(scene, layout)
    BY <1>1, <1>2, ValidIsAccepted
  <1>6. ASSUME offered, PlacedExactly(layout)
        PROVE  answer = "valid"
    <2>1. live # {} /\ Offered(layout)
      BY <1>6 DEF Offered
    <2>2. PICK turn \in DOMAIN scene.object : \E t \in Free(turn), id \in Ids :
            layout = Grown([id |-> id, turn |-> turn,
                            at |-> <<t[1] * scene.pitch, t[2] * scene.pitch>>])
      BY <2>1 DEF Offered
    <2>3. PICK t \in Free(turn), id \in Ids :
            layout = Grown([id |-> id, turn |-> turn,
                            at |-> <<t[1] * scene.pitch, t[2] * scene.pitch>>])
      BY <2>2
    <2>4. PICK copy : copy = [id |-> id, turn |-> turn,
                              at |-> <<t[1] * scene.pitch, t[2] * scene.pitch>>]
      OBVIOUS
    <2>5. layout = Grown(copy) /\ IsLayout(scene, Grown(copy))
      BY <2>3, <2>4
    <2>6. Packed(scene, Grown(copy))
      BY <1>1, <2>1, <2>4, OfferIsPacked
    <2>7. Accepted(scene, Grown(copy))
      BY <1>1, <1>6, <2>1, <2>4, <2>5, <2>6, OfferIsAccepted
    <2> QED
      BY <1>1, <1>2, <2>5, <2>7, AcceptedIsValid
  <1>7. ASSUME NEW r \in report'
        PROVE  /\ r.validity = "valid" => Accepted(scene, r.layout)
               /\ r.offered /\ PlacedExactly(r.layout) => r.validity = "valid"
    <2>1. r.layout = layout /\ r.offered = offered /\ r.validity = answer
      BY <1>3
    <2> QED
      BY <1>5, <1>6, <2>1
  <1> QED
    BY <1>1, <1>3, <1>4, <1>7 DEF AcceptedInv, PlacedExactly

(* What is accepted stays so.                                                  *)
LEMMA AcceptedInductive ==
  ASSUME UpdateInv, PackedInv, AcceptedInv, [Next]_vars
  PROVE  AcceptedInv'
  <1>0. scene \in Scenes /\ IsLayout(scene, LivePoses)
    BY LivePosesAre, LayoutsAre DEF UpdateInv
  <1>1. CASE Propose \/ Offer
    <2>1. PICK layout, offered :
            /\ IsLayout(scene, layout) /\ Validate(layout, offered)
            /\ offered \in BOOLEAN /\ (offered => Offered(layout))
      BY <1>0, <1>1, Validated
    <2> QED
      BY <2>1, ReportAccepts
  <1>2. CASE Adopt
    <2>1. PICK r \in report : r.validity = "valid" /\ asked' = r.layout
      BY <1>2 DEF Adopt
    <2>2. Accepted(scene, r.layout)
      BY <2>1 DEF AcceptedInv, PlacedExactly
    <2>3. scene' = scene /\ live' = live /\ report' = {}
      BY <1>2 DEF Adopt
    <2>4. LivePoses' = LivePoses
      BY <2>3 DEF LivePoses
    <2> QED
      BY <2>1, <2>2, <2>3, <2>4 DEF AcceptedInv, PlacedExactly
  <1>3. CASE Discard
    <2>1. scene' = scene /\ live' = live /\ asked' = asked /\ report' = {}
      BY <1>3 DEF Discard
    <2>2. LivePoses' = LivePoses
      BY <2>1 DEF LivePoses
    <2> QED
      BY <2>1, <2>2 DEF AcceptedInv, PlacedExactly
  <1>4. CASE Prepare \/ MakeMask \/ Compare \/ RemoveOne \/ Removed \/ AddOne \/ Fail
    <2>1. scene' = scene /\ live' = live /\ report' = report
      BY <1>4 DEF Prepare, MakeMask, Compare, RemoveOne, Removed, AddOne, Fail
    <2>2. asked' = asked \/ asked' = {}
      BY <1>4 DEF Prepare, MakeMask, Compare, RemoveOne, Removed, AddOne, Fail, Drop
    <2>3. LivePoses' = LivePoses
      BY <2>1 DEF LivePoses
    <2> QED
      BY <2>1, <2>2, <2>3, NothingIsAccepted DEF AcceptedInv, PlacedExactly
  <1>5. CASE Publish
    <2>1. PICK b \in staged :
            live' = {[poses |-> asked, blocked |-> b,
                      occupied |-> {c \in Cells(Environment(scene)) : IsBlocked(b, c)}]}
      BY <1>5 DEF Publish
    <2>2. LivePoses' = asked
      BY <2>1 DEF LivePoses
    <2>3. scene' = scene /\ asked' = {} /\ report' = report
      BY <1>5 DEF Publish, Drop
    <2> QED
      BY <2>2, <2>3, NothingIsAccepted DEF AcceptedInv, PlacedExactly
  <1>6. CASE UNCHANGED vars
    <2>1. scene' = scene /\ live' = live /\ asked' = asked /\ report' = report
      BY <1>6 DEF vars
    <2>2. LivePoses' = LivePoses
      BY <2>1 DEF LivePoses
    <2> QED
      BY <2>1, <2>2 DEF AcceptedInv, PlacedExactly
  <1> QED
    BY <1>1, <1>2, <1>3, <1>4, <1>5, <1>6 DEF Next

(* A copy where the fields leave room keeps every clearance, and the kernel    *)
(* accepts it: never invalid, and valid where every copy is placed exactly.    *)
THEOREM OffersStayAccepted == Spec => []OffersAreAccepted
  <1>1. Init => UpdateInv /\ PackedInv /\ VerdictsAreTrue /\ AcceptedInv
    <2>1. ASSUME Init
          PROVE  PackedInv /\ VerdictsAreTrue /\ AcceptedInv
      <3>1. live = {} /\ asked = {} /\ report = {}
        BY <2>1 DEF Init
      <3>2. LivePoses = {}
        BY <3>1 DEF LivePoses
      <3> QED
        BY <3>1, <3>2, NothingIsPacked, NothingIsAccepted
           DEF PackedInv, ReportsArePacked, VerdictsAreTrue, AcceptedInv
    <2> QED
      BY <2>1, UpdatesStart
  <1>2. /\ UpdateInv /\ PackedInv /\ VerdictsAreTrue /\ AcceptedInv /\ [Next]_vars =>
             (UpdateInv /\ PackedInv /\ VerdictsAreTrue /\ AcceptedInv)'
    BY UpdatesInductive, PackedInductive, VerdictsInductive, AcceptedInductive
  <1>3. PackedInv /\ VerdictsAreTrue /\ AcceptedInv => OffersAreAccepted
    BY DEF PackedInv, ReportsArePacked, VerdictsAreTrue, AcceptedInv, OffersAreAccepted
  <1> QED
    BY <1>1, <1>2, <1>3, PTL DEF Spec

===============================================================================
