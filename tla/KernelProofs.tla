------------------------------ MODULE KernelProofs -----------------------------
(* What the verdicts of PlacementKernel say of the squares of the solids, for  *)
(* every scene: any solids of whole squares, any pitch and any clearances.     *)
(*                                                                             *)
(* A ray from a square crosses as many faces as the material changes along it, *)
(* so parity tells inside from outside.  A pair that the bounds, a strip or    *)
(* the layers accept keeps its clearance, whatever its surfaces are.  Of any   *)
(* other, blocks leave out no two faces that meet; where none do, a step from  *)
(* inside to outside would cross both surfaces, so that a witness of each      *)
(* shell tells whether the solids share anything, and the nearest squares lie  *)
(* at faces that face each other.  Hence what the kernel calls valid is packed.*)
(*                                                                             *)
(* A face has squares of its solid and others at each of its points, and the   *)
(* two sides of a crossing of manifold solids share a square: what the kernel  *)
(* calls invalid is not packed.  Of copies that have no point in common with   *)
(* each other or with what is outside, nothing is left undecided.              *)
EXTENDS PlacementKernel, FiniteSetTheorems, WellFoundedInduction, TLAPS

-----------------------------------------------------------------------------
(* Whole numbers                                                               *)

(* A set of numbers that has a member has a least one.                         *)
LEMMA LeastNat ==
  ASSUME NEW T \in SUBSET Nat, T # {}
  PROVE  \E m \in T : \A n \in T : m <= n
  <1> DEFINE R == OpToRel(<, Nat)
  <1>1. IsWellFoundedOn(R, Nat)
    BY NatLessThanWellFounded
  <1>2. PICK m \in T : \A n \in T : ~ (<<n, m>> \in R)
    <2> HIDE DEF R
    <2> QED BY <1>1, WFMin
  <1>3. \A n \in T : ~ (n < m)
    BY <1>2 DEF OpToRel
  <1> QED
    BY <1>3

(* A finite set of integers has a greatest and a least member: by the least    *)
(* size of a part of it that might have none.                                  *)
LEMMA Extreme ==
  ASSUME NEW T \in SUBSET Int, T # {}, IsFiniteSet(T), NEW sign \in {1, -1}
  PROVE  \E m \in T : \A n \in T : sign * n <= sign * m
  <1> DEFINE Topped(U) == \E m \in U : \A n \in U : sign * n <= sign * m
             bad == {c \in Nat : \E U \in SUBSET T : U # {} /\ Cardinality(U) = c /\ ~Topped(U)}
  <1>1. SUFFICES ASSUME bad # {}
                 PROVE  FALSE
    <2>1. Cardinality(T) \in Nat
      BY FS_CardinalityType
    <2> QED
      BY <2>1
  <1>2. PICK c \in bad : \A n \in bad : c <= n
    BY <1>1, LeastNat
  <1>3. PICK U \in SUBSET T : U # {} /\ Cardinality(U) = c /\ ~Topped(U)
    BY <1>2
  <1>4. PICK x \in U : x \in Int
    BY <1>3
  <1>5. /\ IsFiniteSet(U \ {x}) /\ Cardinality(U \ {x}) = c - 1
        /\ Cardinality(U \ {x}) \in Nat /\ c \in Nat
    BY <1>2, <1>3, FS_Subset, FS_RemoveElement, FS_CardinalityType
  <1>6. CASE U \ {x} = {}
    <2>1. U = {x}
      BY <1>6
    <2> QED
      BY <1>3, <1>4, <2>1
  <1>7. CASE U \ {x} # {}
    <2>1. Topped(U \ {x})
      <3>1. c - 1 \notin bad
        BY <1>2, <1>5
      <3> QED
        BY <1>5, <1>7, <3>1
    <2>2. PICK m \in U \ {x} : \A n \in U \ {x} : sign * n <= sign * m
      BY <2>1
    <2>3. m \in Int /\ U \subseteq Int
      BY <1>3
    <2>4. CASE sign * x <= sign * m
      <3>1. \A n \in U : sign * n <= sign * m
        BY <2>2, <2>4
      <3> QED
        BY <1>3, <3>1
    <2>5. CASE sign * m <= sign * x
      <3>1. \A n \in U : sign * n <= sign * x
        BY <1>4, <2>2, <2>3, <2>5
      <3> QED
        BY <1>3, <3>1
    <2> QED
      BY <1>4, <2>3, <2>4, <2>5
  <1> QED
    BY <1>6, <1>7

(* They are what Max and Min choose.                                           *)
LEMMA MaxIsGreatest ==
  ASSUME NEW T \in SUBSET Int, T # {}, IsFiniteSet(T)
  PROVE  Max(T) \in T /\ Max(T) \in Int /\ \A n \in T : n <= Max(T)
  <1>1. PICK m \in T : \A n \in T : 1 * n <= 1 * m
    BY Extreme
  <1>2. \E l \in T : \A n \in T : l >= n
    BY <1>1
  <1>3. Max(T) \in T /\ \A n \in T : Max(T) >= n
    BY <1>2 DEF Max
  <1> QED
    BY <1>3

(* The least of a finite set of integers.                                      *)
LEMMA MinIsLeast ==
  ASSUME NEW T \in SUBSET Int, T # {}, IsFiniteSet(T)
  PROVE  Min(T) \in T /\ Min(T) \in Int /\ \A n \in T : Min(T) <= n
  <1>1. PICK m \in T : \A n \in T : (-1) * n <= (-1) * m
    BY Extreme
  <1>2. \E l \in T : \A n \in T : l =< n
    BY <1>1
  <1>3. Min(T) \in T /\ \A n \in T : Min(T) =< n
    BY <1>2 DEF Min
  <1> QED
    BY <1>3

(* The larger and the smaller of two.                                          *)
LEMMA OfTwo ==
  ASSUME NEW a \in Int, NEW b \in Int
  PROVE  /\ Max({a, b}) = (IF a > b THEN a ELSE b)
         /\ Min({a, b}) = (IF a < b THEN a ELSE b)
  <1>1. {a, b} \in SUBSET Int /\ {a, b} # {} /\ IsFiniteSet({a, b})
    <2>1. {a, b} = {a} \cup {b}
      OBVIOUS
    <2>2. IsFiniteSet({a})
      BY FS_Singleton
    <2>3. IsFiniteSet({a} \cup {b})
      BY <2>2, FS_AddElement
    <2> QED
      BY <2>1, <2>3
  <1> QED
    BY <1>1, MaxIsGreatest, MinIsLeast

(* What never changes along a line is the same all along.                      *)
LEMMA AlongLine ==
  ASSUME NEW lo \in Int, NEW hi \in Int, NEW T,
         \A i \in (lo + 1)..hi : (i \in T) <=> (i - 1 \in T)
  PROVE  \A i \in lo..hi : (i \in T) <=> (lo \in T)
  <1> DEFINE bad == {n \in Nat : lo + n <= hi /\ ~((lo + n \in T) <=> (lo \in T))}
  <1>1. bad = {}
    <2>1. SUFFICES ASSUME bad # {}
                   PROVE  FALSE
      OBVIOUS
    <2>2. PICK n \in bad : \A m \in bad : n <= m
      <3>1. bad \in SUBSET Nat
        OBVIOUS
      <3> QED
        BY <2>1, <3>1, LeastNat
    <2>3. n \in Nat \ {0} /\ lo + n <= hi /\ ~((lo + n \in T) <=> (lo \in T))
      BY <2>2
    <2>4. n - 1 \in Nat /\ n - 1 \notin bad /\ lo + (n - 1) <= hi
      BY <2>2, <2>3
    <2>5. (lo + n) - 1 = lo + (n - 1) /\ lo + n \in (lo + 1)..hi
      BY <2>3
    <2>6. (lo + n \in T) <=> (lo + (n - 1) \in T)
      BY <2>5
    <2> QED
      BY <2>3, <2>4, <2>6
  <1>2. ASSUME NEW i \in lo..hi
        PROVE  (i \in T) <=> (lo \in T)
    <2>1. i - lo \in Nat /\ lo + (i - lo) = i /\ i <= hi
      OBVIOUS
    <2>2. i - lo \notin bad
      BY <1>1
    <2> QED
      BY <2>1, <2>2
  <1> QED
    BY <1>2

(* A quotient and its remainder.                                               *)
LEMMA QuotientBounds ==
  ASSUME NEW a \in Int, NEW p \in Nat \ {0}
  PROVE  /\ a \div p \in Int
         /\ (a \div p) * p <= a /\ a < (a \div p) * p + p
  OBVIOUS

(* The order of multiples is that of the numbers.                              *)
LEMMA MultiplesInOrder ==
  ASSUME NEW i \in Int, NEW j \in Int, NEW p \in Nat \ {0}
  PROVE  (i * p <= j * p) <=> (i <= j)
  <1>1. i <= j => (j - i) * p >= 0
    OBVIOUS
  <1>2. j < i => (i - j) * p >= p
    OBVIOUS
  <1>3. (j - i) * p = j * p - i * p /\ (i - j) * p = i * p - j * p
    OBVIOUS
  <1> DEFINE a == i * p
             b == j * p
  <1>4. a \in Int /\ b \in Int /\ (i <= j => b - a >= 0) /\ (j < i => a - b >= p)
    BY <1>1, <1>2, <1>3
  <1> HIDE DEF a, b
  <1>5. (a <= b) <=> (i <= j)
    BY <1>4
  <1> QED
    BY <1>5 DEF a, b
-----------------------------------------------------------------------------
(* Points, solids and walls                                                    *)

(* The point with another coordinate along one axis.                           *)
At(u, k, i) == IF k = 1 THEN <<i, u[2]>> ELSE <<u[1], i>>

(* A point has two coordinates; the other axis is 3 - k.                       *)
LEMMA Coordinates ==
  ASSUME NEW u \in Points, NEW k \in Axes
  PROVE  /\ u[k] \in Int /\ u[3 - k] \in Int
         /\ 3 - k \in Axes /\ 3 - (3 - k) = k /\ k # 3 - k
  BY DEF Points, Axes

(* Setting one coordinate leaves the other.                                    *)
LEMMA AtIs ==
  ASSUME NEW u \in Points, NEW k \in Axes, NEW i \in Int
  PROVE  At(u, k, i) \in Points /\ At(u, k, i)[k] = i /\ At(u, k, i)[3 - k] = u[3 - k]
  BY DEF At, Points, Axes

(* A point is where its own coordinate puts it.                                *)
LEMMA AtSame ==
  ASSUME NEW u \in Points, NEW k \in Axes
  PROVE  At(u, k, u[k]) = u
  BY DEF At, Points, Axes

(* EXCEPT, as the model writes it, is At.                                      *)
LEMMA AtExcept ==
  ASSUME NEW u \in Points, NEW k \in Axes, NEW i \in Int
  PROVE  [u EXCEPT ![k] = i] = At(u, k, i)
  <1>1. PICK a \in Int, b \in Int : u = <<a, b>>
    BY DEF Points
  <1>2. CASE k = 1
    <2>1. [<<a, b>> EXCEPT ![1] = i] = <<i, b>>
      OBVIOUS
    <2> QED
      BY <1>1, <1>2, <2>1 DEF At
  <1>3. CASE k = 2
    <2>1. [<<a, b>> EXCEPT ![2] = i] = <<a, i>>
      OBVIOUS
    <2> QED
      BY <1>1, <1>3, <2>1 DEF At
  <1> QED
    BY <1>2, <1>3 DEF Axes

(* Two coordinates make a point.                                               *)
LEMMA SamePoint ==
  ASSUME NEW u \in Points, NEW v \in Points, NEW k \in Axes,
         u[k] = v[k], u[3 - k] = v[3 - k]
  PROVE  u = v
  BY DEF Points, Axes

(* What a function makes of a finite set is finite.                            *)
LEMMA ImageIsFinite ==
  ASSUME NEW U, IsFiniteSet(U), NEW f, f = [x \in U |-> f[x]]
  PROVE  IsFiniteSet({f[x] : x \in U})
  <1> DEFINE I == {f[x] : x \in U}
  <1>1. f \in Surjection(U, I)
    BY DEF Surjection
  <1> QED
    BY <1>1, FS_Surjection

(* The squares of a solid lie between its bounds.                              *)
LEMMA SolidBounds ==
  ASSUME NEW solid, IsSolid(solid), NEW k \in Axes
  PROVE  /\ Low(solid, k) \in Int /\ High(solid, k) \in Int
         /\ \A u \in solid : /\ u \in Points /\ u[k] \in Int
                             /\ Low(solid, k) <= u[k] /\ u[k] + 1 <= High(solid, k)
  <1> DEFINE f == [u \in solid |-> u[k]]
             T == {u[k] : u \in solid}
  <1>1. T = {f[u] : u \in solid}
    OBVIOUS
  <1>2. IsFiniteSet({f[u] : u \in solid})
    <2>1. f = [u \in solid |-> f[u]]
      OBVIOUS
    <2> HIDE DEF f
    <2> QED
      BY <2>1, ImageIsFinite DEF IsSolid
  <1>3. T # {} /\ T \in SUBSET Int
    BY DEF IsSolid, Points, Axes
  <1>4. /\ Max(T) \in Int /\ Min(T) \in Int
        /\ \A n \in T : Min(T) <= n /\ n <= Max(T)
    BY <1>1, <1>2, <1>3, MaxIsGreatest, MinIsLeast
  <1>5. Low(solid, k) = Min(T) /\ High(solid, k) = Max(T) + 1
    BY DEF Low, High
  <1>6. ASSUME NEW u \in solid
        PROVE  u \in Points /\ u[k] \in T
    BY DEF IsSolid
  <1> HIDE DEF T
  <1>7. \A n \in T : n \in Int
    BY <1>3
  <1> QED
    BY <1>4, <1>5, <1>6, <1>7

(* A wall is between a square of the solid and one that is not, in the order   *)
(* of the axis or against it.                                                  *)
LEMMA WallsAre ==
  ASSUME NEW solid, IsSolid(solid), NEW k \in Axes, NEW u \in Points
  PROVE  (u \in Walls(solid, k)) <=> ~((u \in solid) <=> (At(u, k, u[k] - 1) \in solid))
  <1> DEFINE Back(v) == [v EXCEPT ![k] = @ - 1]
             Forth(v) == [v EXCEPT ![k] = @ + 1]
             low == {v \in solid : Back(v) \notin solid}
             high == {Forth(v) : v \in {w \in solid : Forth(w) \notin solid}}
  <1>1. Walls(solid, k) = low \cup high
    BY DEF Walls
  <1>2. ASSUME NEW v \in Points
        PROVE  Back(v) = At(v, k, v[k] - 1) /\ Forth(v) = At(v, k, v[k] + 1)
    <2>1. v[k] \in Int
      BY Coordinates
    <2>2. ASSUME NEW i \in Int
          PROVE  [v EXCEPT ![k] = i] = At(v, k, i)
      BY AtExcept
    <2>3. v[k] - 1 \in Int /\ v[k] + 1 \in Int
      BY <2>1
    <2>4. /\ [v EXCEPT ![k] = v[k] - 1] = At(v, k, v[k] - 1)
          /\ [v EXCEPT ![k] = v[k] + 1] = At(v, k, v[k] + 1)
      BY <2>2, <2>3
    <2> QED
      BY <2>4
  <1>3. solid \subseteq Points
    BY DEF IsSolid
  <1>4. (u \in low) <=> (u \in solid /\ At(u, k, u[k] - 1) \notin solid)
    BY <1>2
  <1>5. (u \in high) <=> (u \notin solid /\ At(u, k, u[k] - 1) \in solid)
    <2>1. ASSUME u \in high
          PROVE  u \notin solid /\ At(u, k, u[k] - 1) \in solid
      <3>1. PICK v \in solid : v \in Points /\ u = At(v, k, v[k] + 1) /\ u \notin solid
        BY <1>2, <1>3, <2>1
      <3>2. v[k] \in Int /\ u[k] = v[k] + 1 /\ u[3 - k] = v[3 - k]
        <4>1. v[k] \in Int
          BY <3>1, Coordinates
        <4>2. v[k] + 1 \in Int
          BY <4>1
        <4> QED
          BY <3>1, <4>1, <4>2, AtIs
      <3>3. At(u, k, u[k] - 1) = v
        <4>1. u[k] - 1 = v[k]
          BY <3>2
        <4>2. /\ At(u, k, v[k]) \in Points /\ At(u, k, v[k])[k] = v[k]
              /\ At(u, k, v[k])[3 - k] = u[3 - k]
          BY <3>2, AtIs
        <4> QED
          BY <3>1, <3>2, <4>1, <4>2, SamePoint
      <3> QED
        BY <3>1, <3>3
    <2>2. ASSUME u \notin solid, At(u, k, u[k] - 1) \in solid
          PROVE  u \in high
      <3> DEFINE v == At(u, k, u[k] - 1)
      <3>1. v \in Points /\ u[k] \in Int /\ v[k] = u[k] - 1 /\ v[3 - k] = u[3 - k]
        <4>1. u[k] - 1 \in Int /\ u[k] \in Int
          BY Coordinates
        <4> QED
          BY <4>1, AtIs
      <3>2. v \in solid
        BY <2>2
      <3> HIDE DEF v
      <3>3. Forth(v) = At(v, k, v[k] + 1) /\ v[k] + 1 = u[k]
        <4>1. Forth(v) = At(v, k, v[k] + 1)
          BY <1>2, <3>1
        <4> QED
          BY <3>1, <4>1
      <3>4. At(v, k, u[k]) = u
        <4>1. At(v, k, u[k]) \in Points /\ At(v, k, u[k])[k] = u[k]
              /\ At(v, k, u[k])[3 - k] = v[3 - k]
          BY <3>1, AtIs
        <4> QED
          BY <3>1, <4>1, SamePoint
      <3> QED
        BY <2>2, <3>2, <3>3, <3>4
    <2> QED
      BY <2>1, <2>2
  <1> QED
    BY <1>1, <1>4, <1>5

(* A wall is named by a point.                                                 *)
LEMMA WallsArePoints ==
  ASSUME NEW solid, IsSolid(solid), NEW k \in Axes
  PROVE  Walls(solid, k) \subseteq Points
  <1>1. ASSUME NEW v \in Points
        PROVE  [v EXCEPT ![k] = v[k] + 1] \in Points
    <2>1. v[k] \in Int
      BY Coordinates
    <2>2. v[k] + 1 \in Int
      BY <2>1
    <2> QED
      BY <2>2, AtIs, AtExcept
  <1>2. solid \subseteq Points
    BY DEF IsSolid
  <1> QED
    BY <1>1, <1>2 DEF Walls

(* The walls of a solid lie between its bounds.                                *)
LEMMA WallBounds ==
  ASSUME NEW solid, IsSolid(solid), NEW k \in Axes, NEW w \in Walls(solid, k)
  PROVE  /\ w \in Points /\ w[k] \in Int /\ w[3 - k] \in Int
         /\ Low(solid, k) <= w[k] /\ w[k] <= High(solid, k)
         /\ Low(solid, 3 - k) <= w[3 - k] /\ w[3 - k] < High(solid, 3 - k)
  <1>1. w \in Points
    BY WallsArePoints
  <1>2. w[k] \in Int /\ w[3 - k] \in Int /\ 3 - k \in Axes
    BY <1>1, Coordinates
  <1>3. PICK b \in Int : b = w[k] - 1
    BY <1>2
  <1>4. At(w, k, b) \in Points /\ At(w, k, b)[k] = b /\ At(w, k, b)[3 - k] = w[3 - k]
    BY <1>1, AtIs
  <1>5. w \in solid \/ At(w, k, b) \in solid
    BY <1>1, <1>3, WallsAre
  <1>6. PICK v \in solid : (v[k] = w[k] \/ v[k] = b) /\ v[3 - k] = w[3 - k]
    BY <1>4, <1>5
  <1>7. /\ Low(solid, k) \in Int /\ High(solid, k) \in Int
        /\ Low(solid, k) <= v[k] /\ v[k] + 1 <= High(solid, k)
    BY SolidBounds
  <1>8. /\ Low(solid, 3 - k) \in Int /\ High(solid, 3 - k) \in Int
        /\ Low(solid, 3 - k) <= v[3 - k] /\ v[3 - k] + 1 <= High(solid, 3 - k)
    BY <1>2, SolidBounds
  <1> QED
    BY <1>1, <1>2, <1>3, <1>6, <1>7, <1>8

-----------------------------------------------------------------------------
(* Faces                                                                       *)

(* A face across an axis is a row of walls that goes on at neither end.        *)
IsFace(solid, k, f) ==
  LET j == 3 - k
  IN /\ f.first \in Points /\ f.last \in Points
     /\ f = Box(f.first, f.last)
     /\ f.last[k] = f.first[k] /\ f.first[j] < f.last[j]
     /\ \A i \in f.first[j]..(f.last[j] - 1) : At(f.first, j, i) \in Walls(solid, k)
     /\ At(f.first, j, f.first[j] - 1) \notin Walls(solid, k)
     /\ At(f.first, j, f.last[j]) \notin Walls(solid, k)

(* The next walls along a face lie across the axis.                            *)
LEMMA AcrossIs ==
  ASSUME NEW u \in Points, NEW k \in Axes, NEW i \in Int
  PROVE  /\ [u EXCEPT ![3 - k] = i] = At(u, 3 - k, i)
         /\ At(u, 3 - k, i) \in Points /\ At(u, 3 - k, i)[3 - k] = i
         /\ At(u, 3 - k, i)[k] = u[k]
  <1>1. PICK j \in Axes : j = 3 - k /\ 3 - j = k
    BY DEF Axes
  <1>2. [u EXCEPT ![j] = i] = At(u, j, i)
    BY AtExcept
  <1>3. At(u, j, i) \in Points /\ At(u, j, i)[j] = i /\ At(u, j, i)[3 - j] = u[3 - j]
    BY AtIs
  <1> QED
    BY <1>1, <1>2, <1>3

(* A face ends where the boundary does not go straight on.                     *)
LEMMA EndIs ==
  ASSUME NEW solid, IsSolid(solid), NEW k \in Axes, NEW j, j = 3 - k,
         NEW u \in Walls(solid, k), NEW e,
         e = Min({i \in u[j]..High(solid, j) : [u EXCEPT ![j] = i] \notin Walls(solid, k)})
  PROVE  /\ e \in Int /\ u[j] < e
         /\ At(u, j, e) \notin Walls(solid, k)
         /\ \A i \in u[j]..(e - 1) : At(u, j, i) \in Walls(solid, k)
  <1> DEFINE T == {i \in u[j]..High(solid, j) : At(u, j, i) \notin Walls(solid, k)}
  <1>1. /\ u \in Points /\ u[j] \in Int /\ u[j] < High(solid, j)
        /\ j \in Axes /\ 3 - j = k /\ High(solid, j) \in Int
    BY WallBounds, Coordinates, SolidBounds
  <1>2. ASSUME NEW i \in Int
        PROVE  [u EXCEPT ![j] = i] = At(u, j, i) /\ At(u, j, i) \in Points /\ At(u, j, i)[j] = i
    <2>1. u \in Points /\ j \in Axes
      BY <1>1
    <2>2. At(u, j, i) \in Points /\ At(u, j, i)[j] = i
      BY <2>1, AtIs
    <2>3. [u EXCEPT ![j] = i] = At(u, j, i)
      BY <2>1, AtExcept
    <2> QED
      BY <2>2, <2>3
  <1>3. At(u, j, High(solid, j)) \notin Walls(solid, k)
    <2>1. At(u, j, High(solid, j))[j] = High(solid, j)
      BY <1>1, <1>2
    <2> QED
      BY <1>1, <2>1, WallBounds
  <1>4. High(solid, j) \in T
    BY <1>1, <1>2, <1>3
  <1>5. IsFiniteSet(T) /\ T \in SUBSET Int
    <2>1. IsFiniteSet(u[j]..High(solid, j)) /\ u[j]..High(solid, j) \subseteq Int
      BY <1>1, FS_Interval
    <2>2. T \in SUBSET (u[j]..High(solid, j))
      OBVIOUS
    <2> HIDE DEF T
    <2> QED
      BY <2>1, <2>2, FS_Subset
  <1>6. e \in T /\ \A n \in T : e <= n
    <2>1. T = {i \in u[j]..High(solid, j) : [u EXCEPT ![j] = i] \notin Walls(solid, k)}
      BY <1>1, <1>2
    <2>2. e = Min(T)
      BY <2>1
    <2> HIDE DEF T
    <2>3. T \in SUBSET Int /\ T # {} /\ IsFiniteSet(T)
      BY <1>4, <1>5
    <2>4. Min(T) \in T /\ \A n \in T : Min(T) <= n
      BY <2>3, MinIsLeast
    <2> QED
      BY <2>2, <2>4
  <1>7. e \in Int /\ u[j] <= e /\ e <= High(solid, j) /\ At(u, j, e) \notin Walls(solid, k)
    BY <1>1, <1>2, <1>6
  <1>8. u[j] # e
    BY <1>1, <1>7, AtSame
  <1>9. ASSUME NEW i \in u[j]..(e - 1)
        PROVE  At(u, j, i) \in Walls(solid, k)
    <2>1. i \in Int /\ i < e /\ i \in u[j]..High(solid, j)
      BY <1>1, <1>7
    <2>2. i \notin T
      BY <1>6, <2>1
    <2> QED
      BY <1>2, <2>1, <2>2
  <1> QED
    BY <1>1, <1>7, <1>8, <1>9

(* The faces of the model are the longest runs of walls.                       *)
LEMMA FacesAre ==
  ASSUME NEW solid, IsSolid(solid), NEW f
  PROVE  (f \in Faces(solid)) <=> \E k \in Axes : IsFace(solid, k, f)
  <1> DEFINE End(u, k) == Min({i \in u[3 - k]..High(solid, 3 - k) :
                                 [u EXCEPT ![3 - k] = i] \notin Walls(solid, k)})
             Starts(k) == {v \in Walls(solid, k) :
                             [v EXCEPT ![3 - k] = @ - 1] \notin Walls(solid, k)}
             Rows(k) == {Box(u, [u EXCEPT ![3 - k] = End(u, k)]) : u \in Starts(k)}
  <1>1. Faces(solid) = UNION {Rows(k) : k \in Axes}
    BY DEF Faces
  <1>2. ASSUME NEW k \in Axes, NEW u \in Walls(solid, k)
        PROVE  /\ End(u, k) \in Int /\ u[3 - k] < End(u, k)
               /\ At(u, 3 - k, End(u, k)) \notin Walls(solid, k)
               /\ \A i \in u[3 - k]..(End(u, k) - 1) : At(u, 3 - k, i) \in Walls(solid, k)
    <2> DEFINE e == End(u, k)
    <2>1. e = End(u, k)
      OBVIOUS
    <2> QED
      BY <2>1, EndIs
  <1>3. ASSUME NEW k \in Axes, NEW u \in Walls(solid, k)
        PROVE  /\ [u EXCEPT ![3 - k] = u[3 - k] - 1] = At(u, 3 - k, u[3 - k] - 1)
               /\ u \in Points /\ u[3 - k] \in Int /\ 3 - k \in Axes /\ 3 - (3 - k) = k
    <2>1. u \in Points
      BY WallsArePoints
    <2>2. u[3 - k] \in Int /\ 3 - k \in Axes
      BY <2>1, Coordinates
    <2>3. ASSUME NEW i \in Int
          PROVE  [u EXCEPT ![3 - k] = i] = At(u, 3 - k, i)
      BY <2>1, AcrossIs
    <2>4. u[3 - k] - 1 \in Int /\ 3 - (3 - k) = k
      BY <2>2 DEF Axes
    <2>5. [u EXCEPT ![3 - k] = u[3 - k] - 1] = At(u, 3 - k, u[3 - k] - 1)
      BY <2>3, <2>4
    <2> QED
      BY <2>1, <2>2, <2>4, <2>5
  <1>4. ASSUME NEW k \in Axes, f \in Rows(k)
        PROVE  IsFace(solid, k, f)
    <2>1. PICK u \in Walls(solid, k) :
            /\ [u EXCEPT ![3 - k] = u[3 - k] - 1] \notin Walls(solid, k)
            /\ f = Box(u, [u EXCEPT ![3 - k] = End(u, k)])
      BY <1>4
    <2>2. PICK e \in Int : e = End(u, k)
      BY <1>2
    <2>3. /\ u[3 - k] < e /\ At(u, 3 - k, e) \notin Walls(solid, k)
          /\ \A i \in u[3 - k]..(e - 1) : At(u, 3 - k, i) \in Walls(solid, k)
      BY <1>2, <2>2
    <2>4. /\ [u EXCEPT ![3 - k] = e] = At(u, 3 - k, e)
          /\ At(u, 3 - k, e) \in Points /\ At(u, 3 - k, e)[3 - k] = e
          /\ At(u, 3 - k, e)[k] = u[k]
      <3>1. u \in Points
        BY <1>3
      <3> HIDE DEF End, Starts, Rows
      <3> QED
        BY <3>1, AcrossIs
    <2>5. f.first = u /\ f.last = At(u, 3 - k, e)
      BY <2>1, <2>2, <2>4 DEF Box
    <2>6. At(u, 3 - k, u[3 - k] - 1) \notin Walls(solid, k)
      BY <1>3, <2>1
    <2>7. f = Box(f.first, f.last)
      BY <2>1, <2>2, <2>4, <2>5
    <2> QED
      BY <1>3, <2>3, <2>4, <2>5, <2>6, <2>7 DEF IsFace
  <1>5. ASSUME NEW k \in Axes, IsFace(solid, k, f)
        PROVE  f \in Rows(k)
    <2>1. PICK u : u = f.first
      OBVIOUS
    <2>2. PICK e : e = f.last[3 - k]
      OBVIOUS
    <2>3. /\ u \in Points /\ f.last \in Points /\ f.last[k] = u[k] /\ u[3 - k] < e
          /\ \A i \in u[3 - k]..(e - 1) : At(u, 3 - k, i) \in Walls(solid, k)
          /\ At(u, 3 - k, u[3 - k] - 1) \notin Walls(solid, k)
          /\ At(u, 3 - k, e) \notin Walls(solid, k)
          /\ f = Box(u, f.last)
      BY <1>5, <2>1, <2>2 DEF IsFace
    <2>4. u[3 - k] \in Int /\ e \in Int /\ 3 - k \in Axes /\ 3 - (3 - k) = k
      BY <2>2, <2>3, Coordinates
    <2>5. u \in Walls(solid, k)
      <3>1. At(u, 3 - k, u[3 - k]) \in Walls(solid, k)
        BY <2>3, <2>4
      <3>2. At(u, 3 - k, u[3 - k]) = u
        BY <2>3, <2>4, AtSame
      <3> QED
        BY <3>1, <3>2
    <2>6. u \in Starts(k)
      BY <1>3, <2>3, <2>5
    <2>7. PICK d \in Int : d = End(u, k)
      BY <1>2, <2>5
    <2>8. /\ u[3 - k] < d /\ At(u, 3 - k, d) \notin Walls(solid, k)
          /\ \A i \in u[3 - k]..(d - 1) : At(u, 3 - k, i) \in Walls(solid, k)
      BY <1>2, <2>5, <2>7
    <2>9. d = e
      <3>1. ~(d < e)
        <4>1. d < e => d \in u[3 - k]..(e - 1)
          BY <2>4, <2>8
        <4> QED
          BY <2>3, <2>8, <4>1
      <3>2. ~(e < d)
        <4>1. e < d => e \in u[3 - k]..(d - 1)
          BY <2>3, <2>4
        <4> QED
          BY <2>3, <2>8, <4>1
      <3> QED
        BY <2>4, <3>1, <3>2
    <2>10. f.last = [u EXCEPT ![3 - k] = d]
      <3>1. /\ At(u, 3 - k, d) \in Points /\ At(u, 3 - k, d)[3 - k] = d
            /\ At(u, 3 - k, d)[k] = u[k] /\ At(u, 3 - k, d) = [u EXCEPT ![3 - k] = d]
        BY <2>3, <2>4, AcrossIs
      <3>2. f.last = At(u, 3 - k, d)
        BY <2>2, <2>3, <2>9, <3>1, SamePoint
      <3> QED
        BY <3>1, <3>2
    <2>11. f = Box(u, [u EXCEPT ![3 - k] = End(u, k)])
      BY <2>3, <2>7, <2>10
    <2> QED
      BY <2>6, <2>11
  <1> HIDE DEF Rows
  <1> QED
    BY <1>1, <1>4, <1>5

(* A wall is part of a face, and of no other across that axis.                 *)
Covers(f, k, w) ==
  /\ f.first[k] = w[k] /\ f.first[3 - k] <= w[3 - k] /\ w[3 - k] < f.last[3 - k]

(* Every wall is part of a face ...                                            *)
LEMMA WallHasFace ==
  ASSUME NEW solid, IsSolid(solid), NEW k \in Axes, NEW w \in Walls(solid, k)
  PROVE  \E f \in Faces(solid) : IsFace(solid, k, f) /\ Covers(f, k, w)
  <1>1. PICK j \in Axes : j = 3 - k /\ 3 - j = k
    BY DEF Axes
  <1>2. w \in Points /\ w[j] \in Int /\ Low(solid, j) <= w[j]
    BY <1>1, WallBounds
  <1>3. Low(solid, j) \in Int
    BY <1>1, SolidBounds
  <1> DEFINE T == {i \in (Low(solid, j) - 1)..w[j] : At(w, j, i) \notin Walls(solid, k)}
  <1>4. /\ T \in SUBSET Int /\ IsFiniteSet(T)
        /\ T \in SUBSET ((Low(solid, j) - 1)..w[j])
    <2>1. /\ IsFiniteSet((Low(solid, j) - 1)..w[j])
          /\ (Low(solid, j) - 1)..w[j] \subseteq Int
      BY <1>2, <1>3, FS_Interval
    <2>2. T \in SUBSET ((Low(solid, j) - 1)..w[j])
      OBVIOUS
    <2> HIDE DEF T
    <2> QED
      BY <2>1, <2>2, FS_Subset
  <1>5. Low(solid, j) - 1 \in T
    <2>1. PICK b \in Int : b = Low(solid, j) - 1
      BY <1>3
    <2>2. At(w, j, b)[j] = b
      BY <1>2, AtIs
    <2>3. At(w, j, b) \notin Walls(solid, k)
      BY <1>1, <1>3, <2>1, <2>2, WallBounds
    <2> QED
      BY <1>2, <1>3, <2>1, <2>3
  <1>6. PICK m \in Int : m = Max(T)
    BY <1>4, <1>5, MaxIsGreatest
  <1>7. m \in T /\ \A i \in T : i <= m
    <2> HIDE DEF T
    <2>1. T # {}
      BY <1>5
    <2> QED
      BY <1>4, <1>6, <2>1, MaxIsGreatest
  <1>8. At(w, j, m) \notin Walls(solid, k) /\ m <= w[j] /\ Low(solid, j) - 1 <= m
    BY <1>2, <1>3, <1>7
  <1>9. m < w[j]
    <2>1. m # w[j]
      BY <1>2, <1>8, AtSame
    <2> QED
      BY <1>2, <1>8, <2>1
  <1>10. PICK u : u = At(w, j, m + 1)
    OBVIOUS
  <1>11. u \in Points /\ u[j] = m + 1 /\ u[k] = w[k]
    <2>1. PICK i \in Int : i = m + 1
      OBVIOUS
    <2>2. At(w, j, i) \in Points /\ At(w, j, i)[j] = i /\ At(w, j, i)[3 - j] = w[3 - j]
      BY <1>2, AtIs
    <2> QED
      BY <1>1, <1>10, <2>1, <2>2
  <1>12. ASSUME NEW i \in Int
         PROVE  At(u, j, i) = At(w, j, i)
    <2>1. /\ At(u, j, i) \in Points /\ At(u, j, i)[j] = i /\ At(u, j, i)[3 - j] = u[3 - j]
      BY <1>11, AtIs
    <2>2. /\ At(w, j, i) \in Points /\ At(w, j, i)[j] = i /\ At(w, j, i)[3 - j] = w[3 - j]
      BY <1>2, AtIs
    <2> QED
      BY <1>1, <1>11, <2>1, <2>2, SamePoint
  <1>13. ASSUME NEW i \in Int, m < i, i <= w[j]
         PROVE  At(u, j, i) \in Walls(solid, k)
    <2>1. i \notin T
      BY <1>7, <1>13
    <2>2. i \in (Low(solid, j) - 1)..w[j]
      BY <1>2, <1>3, <1>8, <1>13
    <2> QED
      BY <1>12, <2>1, <2>2
  <1>14. u \in Walls(solid, k)
    <2>1. m + 1 \in Int /\ m < m + 1 /\ m + 1 <= w[j]
      BY <1>2, <1>9
    <2>2. At(u, j, m + 1) \in Walls(solid, k)
      BY <1>13, <2>1
    <2> QED
      BY <1>11, <2>2, AtSame
  <1>15. PICK e : e = Min({i \in u[j]..High(solid, j) : [u EXCEPT ![j] = i] \notin Walls(solid, k)})
    OBVIOUS
  <1>16. /\ e \in Int /\ u[j] < e /\ At(u, j, e) \notin Walls(solid, k)
         /\ \A i \in u[j]..(e - 1) : At(u, j, i) \in Walls(solid, k)
    BY <1>1, <1>14, <1>15, EndIs
  <1>17. w[j] < e
    <2>1. SUFFICES ASSUME e <= w[j]
                   PROVE  FALSE
      BY <1>2, <1>16
    <2>2. m < e
      BY <1>11, <1>16
    <2> QED
      BY <1>13, <1>16, <2>1, <2>2
  <1>18. PICK f : f = Box(u, At(u, j, e))
    OBVIOUS
  <1>19. /\ At(u, j, e) \in Points /\ At(u, j, e)[j] = e /\ At(u, j, e)[k] = u[k]
    BY <1>1, <1>11, <1>16, AtIs
  <1>20. f.first = u /\ f.last = At(u, j, e)
    BY <1>18 DEF Box
  <1>21. At(u, j, u[j] - 1) \notin Walls(solid, k)
    <2>1. u[j] - 1 = m
      BY <1>11
    <2> QED
      BY <1>8, <1>12, <2>1
  <1>22. IsFace(solid, k, f)
    BY <1>1, <1>11, <1>16, <1>18, <1>19, <1>20, <1>21 DEF IsFace
  <1>23. Covers(f, k, w)
    BY <1>1, <1>2, <1>9, <1>11, <1>17, <1>19, <1>20 DEF Covers
  <1>24. f \in Faces(solid)
    BY <1>22, FacesAre
  <1> QED
    BY <1>22, <1>23, <1>24

(* ... of one face only.                                                       *)
LEMMA OneFace ==
  ASSUME NEW solid, IsSolid(solid), NEW k \in Axes, NEW w \in Points,
         NEW f, NEW g, IsFace(solid, k, f), IsFace(solid, k, g),
         Covers(f, k, w), Covers(g, k, w)
  PROVE  f = g
  <1>1. PICK j \in Axes : j = 3 - k /\ 3 - j = k
    BY DEF Axes
  <1>2. w[j] \in Int
    BY Coordinates
  <1>3. ASSUME NEW h, IsFace(solid, k, h), Covers(h, k, w)
        PROVE  /\ h.first \in Points /\ h.last \in Points /\ h = Box(h.first, h.last)
               /\ h.first[j] \in Int /\ h.last[j] \in Int
               /\ h.first[k] = w[k] /\ h.last[k] = w[k]
               /\ h.first[j] <= w[j] /\ w[j] < h.last[j]
               /\ At(w, j, h.first[j] - 1) \notin Walls(solid, k)
               /\ At(w, j, h.last[j]) \notin Walls(solid, k)
               /\ \A i \in h.first[j]..(h.last[j] - 1) : At(w, j, i) \in Walls(solid, k)
    <2>1. /\ h.first \in Points /\ h.last \in Points /\ h = Box(h.first, h.last)
          /\ h.last[k] = h.first[k]
          /\ \A i \in h.first[j]..(h.last[j] - 1) : At(h.first, j, i) \in Walls(solid, k)
          /\ At(h.first, j, h.first[j] - 1) \notin Walls(solid, k)
          /\ At(h.first, j, h.last[j]) \notin Walls(solid, k)
      BY <1>1, <1>3 DEF IsFace
    <2>2. h.first[k] = w[k] /\ h.first[j] <= w[j] /\ w[j] < h.last[j]
      BY <1>1, <1>3 DEF Covers
    <2>3. h.first[j] \in Int /\ h.last[j] \in Int
      BY <2>1, Coordinates
    <2>4. ASSUME NEW i \in Int
          PROVE  At(h.first, j, i) = At(w, j, i)
      <3>1. /\ At(h.first, j, i) \in Points /\ At(h.first, j, i)[j] = i
            /\ At(h.first, j, i)[3 - j] = h.first[3 - j]
        BY <2>1, AtIs
      <3>2. /\ At(w, j, i) \in Points /\ At(w, j, i)[j] = i /\ At(w, j, i)[3 - j] = w[3 - j]
        BY AtIs
      <3> QED
        BY <1>1, <2>2, <3>1, <3>2, SamePoint
    <2>5. h.first[j] - 1 \in Int
      BY <2>3
    <2> QED
      BY <2>1, <2>2, <2>3, <2>4, <2>5
  <1>4. ASSUME NEW a, NEW b, IsFace(solid, k, a), Covers(a, k, w),
               IsFace(solid, k, b), Covers(b, k, w)
        PROVE  ~(a.first[j] < b.first[j]) /\ ~(a.last[j] < b.last[j])
    <2>1. PICK i \in Int : i = b.first[j] - 1
      BY <1>3, <1>4
    <2>2. a.first[j] < b.first[j] => i \in a.first[j]..(a.last[j] - 1)
      BY <1>2, <1>3, <1>4, <2>1
    <2>3. a.last[j] < b.last[j] => a.last[j] \in b.first[j]..(b.last[j] - 1)
      BY <1>2, <1>3, <1>4
    <2> QED
      BY <1>3, <1>4, <2>1, <2>2, <2>3
  <1>5. f.first[j] = g.first[j] /\ f.last[j] = g.last[j]
    BY <1>3, <1>4
  <1>6. f.first = g.first /\ f.last = g.last
    BY <1>1, <1>3, <1>5, SamePoint
  <1> QED
    BY <1>3, <1>6

(* A mesh is finite.                                                           *)
LEMMA FacesFinite ==
  ASSUME NEW solid, IsSolid(solid)
  PROVE  IsFiniteSet(Faces(solid))
  <1> DEFINE Side(k) == Low(solid, k)..High(solid, k)
             B == Side(1) \X Side(2)
             pack == [ab \in B \X B |-> Box(ab[1], ab[2])]
  <1>1. IsFiniteSet(B)
    <2>1. IsFiniteSet(Side(1)) /\ IsFiniteSet(Side(2))
      BY SolidBounds, FS_Interval DEF Axes
    <2> HIDE DEF Side
    <2> QED
      BY <2>1, FS_Product
  <1>2. IsFiniteSet(B \X B)
    BY <1>1, FS_Product
  <1>3. IsFiniteSet({pack[ab] : ab \in B \X B})
    <2>1. pack = [ab \in B \X B |-> pack[ab]]
      OBVIOUS
    <2> HIDE DEF pack, B
    <2> QED
      BY <1>2, <2>1, ImageIsFinite
  <1>4. ASSUME NEW f \in Faces(solid)
        PROVE  f \in {pack[ab] : ab \in B \X B}
    <2>1. PICK k \in Axes : IsFace(solid, k, f)
      BY FacesAre
    <2>2. PICK j \in Axes : j = 3 - k /\ 3 - j = k /\ {j, k} = {1, 2}
      BY DEF Axes
    <2>3. /\ f.first \in Points /\ f.last \in Points /\ f = Box(f.first, f.last)
          /\ f.last[k] = f.first[k] /\ f.first[j] < f.last[j]
          /\ \A i \in f.first[j]..(f.last[j] - 1) : At(f.first, j, i) \in Walls(solid, k)
      BY <2>1, <2>2 DEF IsFace
    <2>4. /\ f.first[j] \in Int /\ f.last[j] \in Int /\ f.first[k] \in Int
      BY <2>3, Coordinates
    <2>5. /\ At(f.first, j, f.first[j]) \in Walls(solid, k)
          /\ At(f.first, j, f.last[j] - 1) \in Walls(solid, k)
      BY <2>3, <2>4
    <2>6. ASSUME NEW i \in Int, At(f.first, j, i) \in Walls(solid, k)
          PROVE  /\ Low(solid, j) <= i /\ i < High(solid, j)
                 /\ f.first[k] \in Side(k)
      <3>1. At(f.first, j, i)[j] = i /\ At(f.first, j, i)[k] = f.first[k]
        BY <2>2, <2>3, AtIs
      <3>2. Low(solid, k) \in Int /\ High(solid, k) \in Int
        BY SolidBounds
      <3> QED
        BY <2>2, <2>4, <2>6, <3>1, <3>2, WallBounds
    <2>7. /\ f.first[j] \in Side(j) /\ f.last[j] \in Side(j)
          /\ f.first[k] \in Side(k) /\ f.last[k] \in Side(k)
      <3>1. f.last[j] - 1 \in Int
        BY <2>4
      <3>2. Low(solid, j) \in Int /\ High(solid, j) \in Int
        BY SolidBounds
      <3>3. /\ Low(solid, j) <= f.first[j] /\ f.first[j] < High(solid, j)
            /\ f.first[k] \in Side(k)
        BY <2>4, <2>5, <2>6
      <3>4. Low(solid, j) <= f.last[j] - 1 /\ f.last[j] - 1 < High(solid, j)
        BY <2>5, <2>6, <3>1
      <3> QED
        BY <2>3, <2>4, <3>2, <3>3, <3>4
    <2>8. f.first \in B /\ f.last \in B
      <3> HIDE DEF Side
      <3> QED
        BY <2>2, <2>3, <2>7 DEF Points
    <2>9. PICK a, b : a = f.first /\ b = f.last
      OBVIOUS
    <2>10. <<a, b>> \in B \X B /\ f = Box(a, b)
      BY <2>3, <2>8, <2>9
    <2>11. pack[<<a, b>>] = Box(a, b)
      BY <2>10
    <2> QED
      BY <2>10, <2>11
  <1>5. Faces(solid) \in SUBSET {pack[ab] : ab \in B \X B}
    <2> HIDE DEF pack, B
    <2> QED
      BY <1>4
  <1> HIDE DEF pack, B
  <1> QED
    BY <1>3, <1>5, FS_Subset
-----------------------------------------------------------------------------
(* Crossings                                                                   *)

(* The walls that a face is made of.                                           *)
LEMMA CoveredAreWalls ==
  ASSUME NEW solid, IsSolid(solid), NEW k \in Axes, NEW f, IsFace(solid, k, f),
         NEW w \in Points, Covers(f, k, w)
  PROVE  w \in Walls(solid, k)
  <1>1. PICK j \in Axes : j = 3 - k /\ 3 - j = k
    BY DEF Axes
  <1>2. /\ f.first \in Points /\ f.last \in Points
        /\ \A i \in f.first[j]..(f.last[j] - 1) : At(f.first, j, i) \in Walls(solid, k)
    BY <1>1 DEF IsFace
  <1>3. f.first[k] = w[k] /\ f.first[j] <= w[j] /\ w[j] < f.last[j]
    BY <1>1 DEF Covers
  <1>4. f.first[j] \in Int /\ f.last[j] \in Int /\ w[j] \in Int
    BY <1>2, Coordinates
  <1>5. PICK i \in Int : i = w[j]
    BY <1>4
  <1>6. At(f.first, j, i) \in Walls(solid, k)
    BY <1>2, <1>3, <1>4, <1>5
  <1>7. /\ At(f.first, j, i) \in Points /\ At(f.first, j, i)[j] = i
        /\ At(f.first, j, i)[3 - j] = f.first[3 - j]
    BY <1>2, AtIs
  <1> QED
    BY <1>1, <1>3, <1>5, <1>6, <1>7, SamePoint

(* The faces a ray crosses are those across the first axis.                    *)
LEMMA CrossingsAre ==
  ASSUME NEW solid, IsSolid(solid), NEW x \in Int, NEW y \in Int, NEW f
  PROVE  (f \in Crossings(<<x, y>>, Faces(solid))) <=>
           /\ f \in Faces(solid) /\ IsFace(solid, 1, f)
           /\ f.first[1] \in Int /\ f.first[2] \in Int /\ f.last[2] \in Int
           /\ f.first[1] > x /\ f.first[2] <= y /\ y < f.last[2]
  <1>1. (f \in Crossings(<<x, y>>, Faces(solid))) <=>
          /\ f \in Faces(solid) /\ f.first[1] = f.last[1]
          /\ f.first[1] > x /\ f.first[2] <= y /\ y < f.last[2]
    BY DEF Crossings
  <1>2. ASSUME NEW k \in Axes, IsFace(solid, k, f)
        PROVE  /\ f.first \in Points /\ f.last \in Points
               /\ f.last[k] = f.first[k] /\ f.first[3 - k] < f.last[3 - k]
    BY <1>2 DEF IsFace
  <1>3. ASSUME f \in Faces(solid), f.first[1] = f.last[1]
        PROVE  IsFace(solid, 1, f)
    <2>1. PICK k \in Axes : IsFace(solid, k, f)
      BY <1>3, FacesAre
    <2>2. k # 2
      <3>1. SUFFICES ASSUME k = 2
                     PROVE  FALSE
        OBVIOUS
      <3>2. f.first[3 - 2] < f.last[3 - 2] /\ f.first \in Points /\ f.last \in Points
        BY <1>2, <2>1, <3>1
      <3> QED
        BY <1>3, <3>2 DEF Points
    <2> QED
      BY <2>1, <2>2 DEF Axes
  <1>4. IsFace(solid, 1, f) =>
          /\ f.first[1] = f.last[1] /\ f.first[1] \in Int /\ f.first[2] \in Int
          /\ f.last[2] \in Int
    <2>1. ASSUME IsFace(solid, 1, f)
          PROVE  f.first \in Points /\ f.last \in Points /\ f.last[1] = f.first[1]
      BY <1>2, <2>1 DEF Axes
    <2> QED
      BY <2>1 DEF Points
  <1> QED
    BY <1>1, <1>3, <1>4

(* One square to the left, a ray crosses one more face if there is a wall.     *)
LEMMA OneMoreCrossing ==
  ASSUME NEW solid, IsSolid(solid), NEW x \in Int, NEW y \in Int
  PROVE  /\ IsFiniteSet(Crossings(<<x, y>>, Faces(solid)))
         /\ IsFiniteSet(Crossings(<<x - 1, y>>, Faces(solid)))
         /\ Cardinality(Crossings(<<x - 1, y>>, Faces(solid)))
              = Cardinality(Crossings(<<x, y>>, Faces(solid)))
                + (IF <<x, y>> \in Walls(solid, 1) THEN 1 ELSE 0)
  <1> DEFINE more == Crossings(<<x - 1, y>>, Faces(solid))
             less == Crossings(<<x, y>>, Faces(solid))
             here == {f \in Faces(solid) : IsFace(solid, 1, f) /\ Covers(f, 1, <<x, y>>)}
  <1>1. IsFiniteSet(more) /\ IsFiniteSet(less)
    <2>1. more \in SUBSET Faces(solid) /\ less \in SUBSET Faces(solid)
      BY DEF Crossings
    <2> HIDE DEF more, less
    <2> QED
      BY <2>1, FacesFinite, FS_Subset
  <1>2. more = less \cup here /\ less \cap here = {}
    <2>1. ASSUME NEW f
          PROVE  /\ (f \in more) <=> (f \in less \/ f \in here)
                 /\ ~(f \in less /\ f \in here)
      <3>1. (f \in here) <=> /\ f \in Faces(solid) /\ IsFace(solid, 1, f)
                             /\ f.first[1] = x /\ f.first[2] <= y /\ y < f.last[2]
        <4>1. 3 - 1 = 2
          OBVIOUS
        <4> QED
          BY <4>1 DEF Covers
      <3>2. IsFace(solid, 1, f) => f.first \in Points /\ f.last \in Points
        BY DEF IsFace
      <3>3. IsFace(solid, 1, f) => /\ f.first[1] \in Int /\ f.first[2] \in Int
                                   /\ f.last[2] \in Int
        BY <3>2 DEF Points
      <3>4. (f \in less) <=>
              /\ f \in Faces(solid) /\ IsFace(solid, 1, f)
              /\ f.first[1] \in Int /\ f.first[2] \in Int /\ f.last[2] \in Int
              /\ f.first[1] > x /\ f.first[2] <= y /\ y < f.last[2]
        BY CrossingsAre
      <3>5. PICK z \in Int : z = x - 1
        OBVIOUS
      <3>6. (f \in Crossings(<<z, y>>, Faces(solid))) <=>
              /\ f \in Faces(solid) /\ IsFace(solid, 1, f)
              /\ f.first[1] \in Int /\ f.first[2] \in Int /\ f.last[2] \in Int
              /\ f.first[1] > z /\ f.first[2] <= y /\ y < f.last[2]
        BY CrossingsAre
      <3>7. (f \in more) <=> (f \in Crossings(<<z, y>>, Faces(solid)))
        BY <3>5
      <3> HIDE DEF more, less, here
      <3> QED
        BY <3>1, <3>3, <3>4, <3>5, <3>6, <3>7
    <2> HIDE DEF more, less, here
    <2> QED
      BY <2>1
  <1>3. <<x, y>> \in Points /\ 1 \in Axes
    BY DEF Points, Axes
  <1>4. CASE <<x, y>> \in Walls(solid, 1)
    <2>1. PICK f \in Faces(solid) : IsFace(solid, 1, f) /\ Covers(f, 1, <<x, y>>)
      BY <1>3, <1>4, WallHasFace
    <2>2. ASSUME NEW g \in here
          PROVE  g = f
      BY <1>3, <2>1, <2>2, OneFace
    <2>3. here = {f}
      BY <2>1, <2>2
    <2>4. more = less \cup {f} /\ f \notin less
      BY <1>2, <2>3
    <2> HIDE DEF more, less, here
    <2>5. Cardinality(less \cup {f}) = Cardinality(less) + 1
      BY <1>1, <2>4, FS_AddElement
    <2> QED
      BY <1>1, <1>4, <2>4, <2>5 DEF more, less
  <1>5. CASE <<x, y>> \notin Walls(solid, 1)
    <2>1. here = {}
      BY <1>3, <1>5, CoveredAreWalls
    <2>2. more = less
      BY <1>2, <2>1
    <2>3. Cardinality(less) \in Nat
      <3> HIDE DEF less
      <3> QED
        BY <1>1, FS_CardinalityType
    <2> HIDE DEF more, less, here
    <2>4. Cardinality(more) = Cardinality(less) + 0
      BY <2>2, <2>3
    <2> QED
      BY <1>1, <1>5, <2>4 DEF more, less
  <1> QED
    BY <1>4, <1>5

(* The parity of the crossings tells the squares of a solid: to the right of   *)
(* it there is none, and every step to the left that goes through a wall       *)
(* changes both.                                                               *)
LEMMA ParityIsMaterial ==
  ASSUME NEW solid, IsSolid(solid), NEW x \in Int, NEW y \in Int
  PROVE  /\ Cardinality(Crossings(<<x, y>>, Faces(solid))) \in Nat
         /\ (Cardinality(Crossings(<<x, y>>, Faces(solid))) % 2 = 0) <=> (<<x, y>> \notin solid)
  <1> DEFINE N(a) == Cardinality(Crossings(<<a, y>>, Faces(solid)))
             Right(a) == (N(a) % 2 = 0) <=> (<<a, y>> \notin solid)
             edge == High(solid, 1)
             bad == {n \in Nat : ~Right(edge - n)}
  <1>1. edge \in Int
    BY SolidBounds DEF Axes
  <1>2. ASSUME NEW a \in Int, a >= edge
        PROVE  Right(a) /\ N(a) = 0
    <2>1. <<a, y>> \notin solid
      <3>1. SUFFICES ASSUME <<a, y>> \in solid
                     PROVE  FALSE
        OBVIOUS
      <3>2. <<a, y>>[1] + 1 <= edge
        BY <3>1, SolidBounds DEF Axes
      <3> QED
        BY <1>1, <1>2, <3>2
    <2>2. Crossings(<<a, y>>, Faces(solid)) = {}
      <3>1. SUFFICES ASSUME NEW f \in Crossings(<<a, y>>, Faces(solid))
                     PROVE  FALSE
        OBVIOUS
      <3>2. /\ IsFace(solid, 1, f) /\ f.first[1] \in Int /\ f.first[1] > a
            /\ f.first[2] \in Int /\ f.last[2] \in Int /\ f.first[2] < f.last[2]
        BY <3>1, CrossingsAre
      <3>3. f.first \in Points /\ Covers(f, 1, f.first)
        <4>1. f.first \in Points /\ 3 - 1 = 2
          BY <3>2 DEF IsFace
        <4> QED
          BY <3>2, <4>1 DEF Covers
      <3>4. f.first \in Walls(solid, 1)
        BY <3>2, <3>3, CoveredAreWalls DEF Axes
      <3>5. f.first[1] <= edge
        BY <3>4, WallBounds DEF Axes
      <3> QED
        BY <1>1, <1>2, <3>2, <3>5
    <2>3. N(a) = 0
      BY <2>2, FS_EmptySet
    <2> QED
      BY <2>1, <2>3
  <1>3. bad = {}
    <2>1. SUFFICES ASSUME bad # {}
                   PROVE  FALSE
      OBVIOUS
    <2>2. PICK n \in bad : \A m \in bad : n <= m
      <3>1. bad \in SUBSET Nat
        OBVIOUS
      <3> HIDE DEF bad
      <3> QED
        BY <2>1, <3>1, LeastNat
    <2>3. n \in Nat /\ ~Right(edge - n)
      BY <2>2
    <2>4. n # 0
      <3>1. Right(edge)
        BY <1>1, <1>2
      <3>2. edge - 0 = edge
        BY <1>1
      <3> QED
        BY <2>3, <3>1, <3>2
    <2>5. n - 1 \in Nat /\ n - 1 \notin bad
      BY <2>2, <2>3, <2>4
    <2>6. PICK a \in Int : a = edge - (n - 1) /\ a - 1 = edge - n
      BY <1>1, <2>3
    <2>7. Right(a)
      BY <2>5, <2>6
    <2>8. N(a - 1) = N(a) + (IF <<a, y>> \in Walls(solid, 1) THEN 1 ELSE 0)
      BY OneMoreCrossing
    <2>9. N(a) \in Nat
      <3>1. IsFiniteSet(Crossings(<<a, y>>, Faces(solid)))
        BY OneMoreCrossing
      <3> QED
        BY <3>1, FS_CardinalityType
    <2>10. (<<a, y>> \in Walls(solid, 1)) <=> ~((<<a, y>> \in solid) <=> (<<a - 1, y>> \in solid))
      <3>1. <<a, y>> \in Points /\ 1 \in Axes
        BY DEF Points, Axes
      <3>2. At(<<a, y>>, 1, <<a, y>>[1] - 1) = <<a - 1, y>>
        BY DEF At
      <3> QED
        BY <3>1, <3>2, WallsAre
    <2>11. Right(a - 1)
      <3> DEFINE before == N(a)
                 after == N(a - 1)
      <3>1. /\ before \in Nat
            /\ after = before + (IF <<a, y>> \in Walls(solid, 1) THEN 1 ELSE 0)
            /\ (before % 2 = 0) <=> (<<a, y>> \notin solid)
        BY <2>7, <2>8, <2>9
      <3>2. SUFFICES (after % 2 = 0) <=> (<<a - 1, y>> \notin solid)
        OBVIOUS
      <3> HIDE DEF before, after
      <3>3. ((before + 1) % 2 = 0) <=> ~(before % 2 = 0)
        BY <3>1
      <3>4. before + 0 = before
        BY <3>1
      <3> QED
        BY <2>10, <3>1, <3>3, <3>4
    <2> QED
      BY <2>3, <2>6, <2>11
  <1>4. Right(x)
    <2>1. CASE x >= edge
      BY <1>2, <2>1
    <2>2. CASE x < edge
      <3>1. PICK n \in Nat : n = edge - x
        BY <1>1, <2>2
      <3>2. n \notin bad /\ edge - n = x
        BY <1>1, <1>3, <3>1
      <3> QED
        BY <3>1, <3>2
    <2> QED
      BY <1>1, <2>1, <2>2
  <1>5. N(x) \in Nat
    <2>1. IsFiniteSet(Crossings(<<x, y>>, Faces(solid)))
      BY OneMoreCrossing
    <2> QED
      BY <2>1, FS_CardinalityType
  <1> QED
    BY <1>4, <1>5
-----------------------------------------------------------------------------
(* Cells                                                                       *)

(* The planes of the lattice are a pitch apart.                                *)
LEMMA Multiples ==
  ASSUME NEW i \in Int, NEW p \in Nat \ {0}
  PROVE  i * p \in Int /\ (i + 1) * p \in Int /\ (i + 1) * p = i * p + p
  OBVIOUS

(* The cells that meet a stretch of a line.                                    *)
LEMMA CellRange ==
  ASSUME NEW a \in Int, NEW b \in Int, NEW i \in Int, NEW p \in Nat \ {0},
         i * p <= b, a <= (i + 1) * p
  PROVE  (a \div p) - 1 <= i /\ i <= b \div p
  <1> DEFINE c == a \div p
             d == b \div p
  <1>1. /\ c \in Int /\ d \in Int
        /\ c * p <= a /\ b < d * p + p
    BY QuotientBounds
  <1> HIDE DEF c, d
  <1>2. PICK j \in Int : j = i + 1
    OBVIOUS
  <1>3. PICK e \in Int : e = d + 1
    BY <1>1
  <1>4. /\ c * p \in Int /\ e * p \in Int /\ e * p = d * p + p /\ d * p \in Int
        /\ i * p \in Int /\ j * p \in Int
    BY <1>1, <1>2, <1>3, Multiples
  <1>5. c * p <= j * p
    BY <1>1, <1>2, <1>4
  <1>6. c <= j
    BY <1>1, <1>2, <1>5, MultiplesInOrder
  <1>7. ~(e * p <= i * p)
    BY <1>1, <1>3, <1>4
  <1>8. ~(e <= i)
    BY <1>3, <1>7, MultiplesInOrder
  <1>9. c - 1 <= i /\ i <= d
    BY <1>1, <1>2, <1>3, <1>6, <1>8
  <1> QED
    BY <1>9 DEF c, d

(* A cell, a closed square, meets a closed unit square or a wall.              *)
Meets(u, c, p) == \A k \in Axes : c[k] * p <= u[k] + 1 /\ u[k] <= (c[k] + 1) * p

MeetsWall(w, k, c, p) ==
  /\ c[k] * p <= w[k] /\ w[k] <= (c[k] + 1) * p
  /\ c[3 - k] * p <= w[3 - k] + 1 /\ w[3 - k] <= (c[3 - k] + 1) * p

Touched(solid, p) == {c \in Points : \E u \in solid : Meets(u, c, p)}

(* The cells next to a wall.                                                   *)
Edged(solid, p) == {c \in Points : \E k \in Axes : \E w \in Walls(solid, k) : MeetsWall(w, k, c, p)}

(* The bounds of a unit square.                                                *)
LEMMA SquareBounds ==
  ASSUME NEW u \in Points, NEW k \in Axes
  PROVE  Low({u}, k) = u[k] /\ High({u}, k) = u[k] + 1
  <1>1. {v[k] : v \in {u}} = {u[k]}
    OBVIOUS
  <1>2. u[k] \in Int
    BY Coordinates
  <1>3. Min({u[k]}) = u[k] /\ Max({u[k]}) = u[k]
    BY <1>2 DEF Min, Max
  <1> QED
    BY <1>1, <1>3 DEF Low, High

(* A wall belongs to a square of the solid, on the one side or on the other.   *)
LEMMA EdgedAreTouched ==
  ASSUME NEW solid, IsSolid(solid), NEW p \in Nat \ {0}
  PROVE  Edged(solid, p) \subseteq Touched(solid, p)
  <1> SUFFICES ASSUME NEW c \in Points, NEW k \in Axes, NEW w \in Walls(solid, k),
                      MeetsWall(w, k, c, p)
               PROVE  \E u \in solid : Meets(u, c, p)
    BY DEF Edged, Touched
  <1>1. PICK j \in Axes : j = 3 - k /\ 3 - j = k /\ Axes = {j, k}
    BY DEF Axes
  <1>2. w \in Points /\ w[k] \in Int /\ w[j] \in Int
    BY <1>1, WallBounds
  <1>3. PICK b \in Int : b = w[k] - 1
    BY <1>2
  <1>4. At(w, k, b) \in Points /\ At(w, k, b)[k] = b /\ At(w, k, b)[3 - k] = w[3 - k]
    BY <1>2, AtIs
  <1>5. PICK u \in solid : (u[k] = w[k] \/ u[k] = b) /\ u[j] = w[j]
    <2>1. w \in solid \/ At(w, k, b) \in solid
      BY <1>2, <1>3, WallsAre
    <2> QED
      BY <1>1, <1>4, <2>1
  <1>6. c[k] \in Int /\ c[j] \in Int
    BY Coordinates
  <1>7. c[k] * p \in Int /\ (c[k] + 1) * p \in Int
    BY <1>6, Multiples
  <1>8. /\ c[k] * p <= w[k] /\ w[k] <= (c[k] + 1) * p
        /\ c[j] * p <= w[j] + 1 /\ w[j] <= (c[j] + 1) * p
    BY <1>1 DEF MeetsWall
  <1>9. c[k] * p <= u[k] + 1 /\ u[k] <= (c[k] + 1) * p
    BY <1>2, <1>3, <1>5, <1>7, <1>8
  <1>10. c[j] * p <= u[j] + 1 /\ u[j] <= (c[j] + 1) * p
    BY <1>5, <1>8
  <1>11. Meets(u, c, p)
    BY <1>1, <1>9, <1>10 DEF Meets
  <1> QED
    BY <1>11

(* The lines of a cell that no wall meets.                                     *)
LEMMA RowIsUniform ==
  ASSUME NEW solid, IsSolid(solid), NEW p \in Nat \ {0},
         NEW c \in Points \ Edged(solid, p), NEW k \in Axes,
         NEW u \in Points, NEW v \in Points, Meets(u, c, p), Meets(v, c, p),
         u[3 - k] = v[3 - k]
  PROVE  (u \in solid) <=> (v \in solid)
  <1>1. PICK j \in Axes : j = 3 - k /\ 3 - j = k /\ Axes = {j, k}
    BY DEF Axes
  <1>2. /\ u[k] \in Int /\ v[k] \in Int /\ u[j] \in Int /\ v[j] = u[j]
        /\ c[k] \in Int /\ c[j] \in Int
    BY <1>1, Coordinates
  <1>3. PICK lo \in Int, hi \in Int : lo = c[k] * p - 1 /\ hi = (c[k] + 1) * p
    BY <1>2, Multiples
  <1>4. /\ c[j] * p <= u[j] + 1 /\ u[j] <= (c[j] + 1) * p
        /\ u[k] \in lo..hi /\ v[k] \in lo..hi
    <2>1. c[k] * p \in Int /\ (c[k] + 1) * p \in Int
      BY <1>2, Multiples
    <2>2. /\ c[k] * p <= u[k] + 1 /\ u[k] <= (c[k] + 1) * p
          /\ c[k] * p <= v[k] + 1 /\ v[k] <= (c[k] + 1) * p
          /\ c[j] * p <= u[j] + 1 /\ u[j] <= (c[j] + 1) * p
      BY <1>1 DEF Meets
    <2> QED
      BY <1>2, <1>3, <2>1, <2>2
  <1> DEFINE T == {i \in Int : At(u, k, i) \in solid}
  <1>5. ASSUME NEW i \in (lo + 1)..hi
        PROVE  (i \in T) <=> (i - 1 \in T)
    <2>1. PICK w : w = At(u, k, i)
      OBVIOUS
    <2>2. i \in Int /\ i - 1 \in Int /\ c[k] * p \in Int
      BY <1>2, Multiples
    <2>3. w \in Points /\ w[k] = i /\ w[3 - k] = u[3 - k]
      BY <2>1, <2>2, AtIs
    <2>4. MeetsWall(w, k, c, p)
      BY <1>1, <1>3, <1>4, <2>2, <2>3 DEF MeetsWall
    <2>5. w \notin Walls(solid, k)
      BY <2>4 DEF Edged
    <2>6. (w \in solid) <=> (At(w, k, w[k] - 1) \in solid)
      BY <2>3, <2>5, WallsAre
    <2>7. At(w, k, i - 1) = At(u, k, i - 1)
      <3>1. PICK e \in Int : e = i - 1
        BY <2>2
      <3>2. At(w, k, e) \in Points /\ At(w, k, e)[k] = e /\ At(w, k, e)[3 - k] = w[3 - k]
        BY <2>3, AtIs
      <3>3. At(u, k, e) \in Points /\ At(u, k, e)[k] = e /\ At(u, k, e)[3 - k] = u[3 - k]
        BY AtIs
      <3> QED
        BY <2>3, <3>1, <3>2, <3>3, SamePoint
    <2> QED
      BY <2>1, <2>2, <2>3, <2>6, <2>7
  <1>6. \A i \in lo..hi : (i \in T) <=> (lo \in T)
    <2> HIDE DEF T
    <2> QED
      BY <1>5, AlongLine
  <1>7. At(u, k, u[k]) = u /\ At(u, k, v[k]) = v
    <2>1. At(u, k, u[k]) = u
      BY AtSame
    <2>2. /\ At(u, k, v[k]) \in Points /\ At(u, k, v[k])[k] = v[k]
          /\ At(u, k, v[k])[3 - k] = u[3 - k]
      BY <1>2, AtIs
    <2> QED
      BY <2>1, <2>2, SamePoint
  <1> QED
    BY <1>2, <1>4, <1>6, <1>7

(* All the squares that such a cell meets are of the solid, or none is.        *)
LEMMA CellIsUniform ==
  ASSUME NEW solid, IsSolid(solid), NEW p \in Nat \ {0},
         NEW c \in Points \ Edged(solid, p),
         NEW u \in Points, NEW v \in Points, Meets(u, c, p), Meets(v, c, p)
  PROVE  (u \in solid) <=> (v \in solid)
  <1>1. PICK w : w = <<u[1], v[2]>>
    OBVIOUS
  <1>2. w \in Points /\ w[1] = u[1] /\ w[2] = v[2]
    BY <1>1 DEF Points
  <1>3. Meets(w, c, p)
    BY <1>2 DEF Meets, Axes
  <1>4. 2 \in Axes /\ 1 \in Axes /\ 3 - 2 = 1 /\ 3 - 1 = 2
    BY DEF Axes
  <1>5. (u \in solid) <=> (w \in solid)
    BY <1>2, <1>3, <1>4, RowIsUniform
  <1>6. (w \in solid) <=> (v \in solid)
    BY <1>2, <1>3, <1>4, RowIsUniform
  <1> QED
    BY <1>5, <1>6

(* The corner decides.                                                         *)
Corner(c, p) == <<c[1] * p, c[2] * p>>

(* The square at the low corner of a cell meets the cell.                      *)
LEMMA CornerMeets ==
  ASSUME NEW c \in Points, NEW p \in Nat \ {0}
  PROVE  Corner(c, p) \in Points /\ Meets(Corner(c, p), c, p)
  <1>1. c[1] \in Int /\ c[2] \in Int
    BY DEF Points
  <1>2. /\ c[1] * p \in Int /\ c[2] * p \in Int
        /\ (c[1] + 1) * p = c[1] * p + p /\ (c[2] + 1) * p = c[2] * p + p
    BY <1>1, Multiples
  <1>3. /\ c[1] * p <= c[1] * p + 1 /\ c[1] * p <= (c[1] + 1) * p
        /\ c[2] * p <= c[2] * p + 1 /\ c[2] * p <= (c[2] + 1) * p
    BY <1>2
  <1> QED
    BY <1>2, <1>3 DEF Corner, Points, Meets, Axes

(* A cell that no edge of the solid meets is all inside or all outside: the    *)
(* square at its low corner tells which.                                       *)
LEMMA CornerDecides ==
  ASSUME NEW solid, IsSolid(solid), NEW p \in Nat \ {0},
         NEW c \in Points \ Edged(solid, p)
  PROVE  (c \in Touched(solid, p)) <=> (Corner(c, p) \in solid)
  <1>1. Corner(c, p) \in Points /\ Meets(Corner(c, p), c, p)
    BY CornerMeets
  <1>2. ASSUME NEW u \in solid, Meets(u, c, p)
        PROVE  Corner(c, p) \in solid
    <2>1. u \in Points
      BY DEF IsSolid
    <2> QED
      BY <1>1, <1>2, <2>1, CellIsUniform
  <1> QED
    BY <1>1, <1>2 DEF Touched

-----------------------------------------------------------------------------
(* The raw field                                                               *)

(* What is assumed of the problem.                                             *)
LEMMA SceneIs ==
  ASSUME NEW s \in Scenes
  PROVE  /\ s.pitch \in Nat \ {0} /\ s.pair \in Nat /\ s.wall \in Nat
         /\ IsSolid(s.container) /\ s.pose \in [DOMAIN s.object -> Poses]
  BY SceneAssumption

-----------------------------------------------------------------------------
(* The fields                                                                  *)

(* What is moved.                                                              *)
LEMMA MovedIs ==
  ASSUME NEW cells, NEW d, NEW c
  PROVE  (c \in Moved(cells, d)) <=> \E u \in cells : c = <<u[1] + d[1], u[2] + d[2]>>
  BY DEF Moved

(* A solid that is moved is a solid.                                           *)
LEMMA MovedIsSolid ==
  ASSUME NEW solid, IsSolid(solid), NEW d \in Points
  PROVE  IsSolid(Moved(solid, d))
  <1> DEFINE f == [u \in solid |-> <<u[1] + d[1], u[2] + d[2]>>]
  <1>1. Moved(solid, d) = {f[u] : u \in solid}
    BY DEF Moved
  <1>2. f = [u \in solid |-> f[u]]
    OBVIOUS
  <1>3. \A u \in solid : f[u] \in Points
    BY DEF IsSolid, Points
  <1> HIDE DEF f
  <1>4. IsFiniteSet({f[u] : u \in solid})
    BY <1>2, ImageIsFinite DEF IsSolid
  <1> QED
    BY <1>1, <1>3, <1>4 DEF IsSolid

(* The copies of a scene are solids.                                           *)
LEMMA SolidIs ==
  ASSUME NEW s \in Scenes, NEW copy \in Copies(s)
  PROVE  IsSolid(Solid(s, copy)) /\ copy.turn \in DOMAIN s.object /\ copy.at \in Points
         /\ IsSolid(s.object[copy.turn])
  <1>1. copy.turn \in DOMAIN s.object /\ copy.at \in s.places
    BY DEF Copies
  <1>2. IsSolid(s.object[copy.turn]) /\ copy.at \in Points
    BY <1>1, SceneAssumption
  <1> QED
    BY <1>1, <1>2, MovedIsSolid DEF Solid

(* The part of the window that is made is one of two, and all that the solid   *)
(* meets in the window is in it.                                               *)
IsWindow(box) == \E x, y \in [Axes -> Int] : box = Box(x, y)

-----------------------------------------------------------------------------
(* The update of the workspace                                                 *)

(* Copies with different names are finitely many.                              *)
LEMMA LayoutFinite ==
  ASSUME NEW s, NEW layout \in Layouts(s)
  PROVE  IsFiniteSet(layout)
  <1> DEFINE f == [p \in layout |-> p.id]
  <1>1. \A p \in layout : p.id \in Ids
    BY DEF Layouts, Copies
  <1>2. \A p, q \in layout : p.id = q.id => p = q
    BY DEF Layouts
  <1>3. f \in Injection(layout, Ids)
    BY <1>1, <1>2 DEF Injection, IsInjective
  <1> QED
    BY <1>3, KernelAssumption, FS_Injection

(* A part of a layout is a layout.                                             *)
LEMMA PartOfLayout ==
  ASSUME NEW s, NEW layout \in Layouts(s), NEW part, part \subseteq layout
  PROVE  part \in Layouts(s)
  BY DEF Layouts

-----------------------------------------------------------------------------
(* What is offered                                                             *)

(* The cell that has all of a square.                                          *)
Holds(c, u, p) == \A k \in Axes : c[k] * p <= u[k] /\ u[k] + 1 <= (c[k] + 1) * p

(* Every square is in a cell.                                                  *)
LEMMA SomeCellHolds ==
  ASSUME NEW u \in Points, NEW p \in Nat \ {0}
  PROVE  \E c \in Points : Holds(c, u, p) /\ Meets(u, c, p)
  <1> DEFINE c == <<u[1] \div p, u[2] \div p>>
  <1>1. ASSUME NEW k \in Axes
        PROVE  /\ c[k] \in Int /\ u[k] \in Int
               /\ c[k] * p <= u[k] /\ u[k] + 1 <= (c[k] + 1) * p
               /\ c[k] * p <= u[k] + 1 /\ u[k] <= (c[k] + 1) * p
    <2>1. PICK x \in Int : x = u[k]
      BY Coordinates
    <2>2. PICK q \in Int : q = x \div p /\ q * p <= x /\ x < q * p + p
      BY <2>1, QuotientBounds
    <2>3. c[k] = q
      BY <2>1, <2>2 DEF Axes
    <2>4. q * p \in Int /\ (q + 1) * p \in Int /\ (q + 1) * p = q * p + p
      BY Multiples
    <2> HIDE DEF c
    <2> QED
      BY <2>1, <2>2, <2>3, <2>4
  <1>2. c \in Points
    <2>1. c[1] \in Int /\ c[2] \in Int
      BY <1>1 DEF Axes
    <2> QED
      BY <2>1 DEF Points
  <1> HIDE DEF c
  <1> QED
    BY <1>1, <1>2 DEF Holds, Meets

(* The square of a number, and of a larger one.                                *)
LEMMA SquaresInOrder ==
  ASSUME NEW x \in Nat, NEW y \in Nat, x <= y
  PROVE  Squared(x) \in Nat /\ Squared(y) \in Nat /\ Squared(x) <= Squared(y)
  BY DEF Squared

(* How far two squares are apart along an axis.                                *)
Apart(x, y) == IF x < y THEN y - x - 1 ELSE IF y < x THEN x - y - 1 ELSE 0

(* The distance of two squares.                                                *)
LEMMA DistanceIs ==
  ASSUME NEW u \in Points, NEW v \in Points
  PROVE  /\ Apart(u[1], v[1]) \in Nat /\ Apart(u[2], v[2]) \in Nat
         /\ Distance(u, v) = Squared(Apart(u[1], v[1])) + Squared(Apart(u[2], v[2]))
         /\ Distance(u, v) \in Nat
  <1> DEFINE a == Box(u, <<u[1] + 1, u[2] + 1>>)
             b == Box(v, <<v[1] + 1, v[2] + 1>>)
  <1>1. ASSUME NEW k \in Axes
        PROVE  Max({0, AxisGap(a, b, k)}) = Apart(u[k], v[k]) /\ Apart(u[k], v[k]) \in Nat
    <2>1. PICK x \in Int, y \in Int : x = u[k] /\ y = v[k]
      BY Coordinates
    <2>2. a.first[k] = x /\ a.last[k] = x + 1 /\ b.first[k] = y /\ b.last[k] = y + 1
      BY <2>1 DEF Box, Axes
    <2>3. PICK m \in Int, n \in Int : m = y - (x + 1) /\ n = x - (y + 1)
      OBVIOUS
    <2>4. AxisGap(a, b, k) = Max({m, n})
      BY <2>2, <2>3 DEF AxisGap
    <2>5. PICK g \in Int : g = AxisGap(a, b, k) /\ g = (IF m > n THEN m ELSE n)
      BY <2>4, OfTwo
    <2>6. Max({0, g}) = (IF 0 > g THEN 0 ELSE g)
      <3>1. PICK zero \in Int : zero = 0
        OBVIOUS
      <3>2. Max({zero, g}) = (IF zero > g THEN zero ELSE g)
        BY <2>5, OfTwo
      <3> QED
        BY <3>1, <3>2
    <2> HIDE DEF a, b
    <2> QED
      BY <2>1, <2>3, <2>5, <2>6 DEF Apart
  <1>2. Distance(u, v) = SumOfSquares([k \in Axes |-> Max({0, AxisGap(a, b, k)})])
    BY DEF Distance, SquaredGap
  <1> HIDE DEF a, b
  <1>3. Distance(u, v) = Squared(Apart(u[1], v[1])) + Squared(Apart(u[2], v[2]))
    BY <1>1, <1>2 DEF SumOfSquares, Axes
  <1>4. Apart(u[1], v[1]) \in Nat /\ Apart(u[2], v[2]) \in Nat
    BY <1>1 DEF Axes
  <1>5. Squared(Apart(u[1], v[1])) \in Nat /\ Squared(Apart(u[2], v[2])) \in Nat
    BY <1>4, SquaresInOrder
  <1> QED
    BY <1>3, <1>4, <1>5

(* A number whose square is less than that of another is less.                 *)
LEMMA SquareLess ==
  ASSUME NEW x \in Nat, NEW y \in Nat, Squared(x) < Squared(y)
  PROVE  x < y
  <1>1. ~(y <= x)
    <2> SUFFICES ASSUME y <= x
                 PROVE  FALSE
      OBVIOUS
    <2>1. PICK m \in Nat, n \in Nat : m = Squared(x) /\ n = Squared(y) /\ n <= m
      BY SquaresInOrder
    <2> QED
      BY <2>1
  <1> QED
    BY <1>1

(* A square is in one cell only.                                               *)
LEMMA OneCellHolds ==
  ASSUME NEW i \in Int, NEW j \in Int, NEW x \in Int, NEW p \in Nat \ {0},
         i * p <= x, x + 1 <= (j + 1) * p
  PROVE  i <= j
  <1>1. PICK n \in Int : n = j + 1
    OBVIOUS
  <1>2. i * p \in Int /\ n * p \in Int
    BY <1>1, Multiples
  <1>3. ~(n * p <= i * p)
    BY <1>1, <1>2
  <1>4. ~(n <= i)
    BY <1>1, <1>3, MultiplesInOrder
  <1> QED
    BY <1>1, <1>4

(* The distance of two squares is the same both ways.                          *)
LEMMA DistanceBothWays ==
  ASSUME NEW u \in Points, NEW v \in Points
  PROVE  Distance(u, v) = Distance(v, u)
  <1>1. /\ u[1] \in Int /\ u[2] \in Int /\ v[1] \in Int /\ v[2] \in Int
    BY DEF Points
  <1>2. Apart(u[1], v[1]) = Apart(v[1], u[1]) /\ Apart(u[2], v[2]) = Apart(v[2], u[2])
    BY <1>1 DEF Apart
  <1> QED
    BY <1>2, DistanceIs

-----------------------------------------------------------------------------
(* What accepts a pair before its surfaces are looked at                       *)

(* Along an axis, the ends of two squares that are nearest.                    *)
LEMMA NearestEnds ==
  ASSUME NEW a \in Int, NEW b \in Int
  PROVE  \E x, y \in Int : /\ a <= x /\ x <= a + 1 /\ b <= y /\ y <= b + 1
                           /\ Apart(a, b) \in Nat
                           /\ y - x = Apart(a, b) \/ x - y = Apart(a, b)
                           /\ a = b => x = y
  <1>1. CASE a < b
    <2>1. a + 1 \in Int /\ b - (a + 1) = Apart(a, b) /\ Apart(a, b) \in Nat
      BY <1>1 DEF Apart
    <2>2. PICK x \in Int : x = a + 1
      OBVIOUS
    <2> QED
      BY <1>1, <2>1, <2>2
  <1>2. CASE b < a
    <2>1. b + 1 \in Int /\ a - (b + 1) = Apart(a, b) /\ Apart(a, b) \in Nat
      BY <1>2 DEF Apart
    <2>2. PICK y \in Int : y = b + 1
      OBVIOUS
    <2> QED
      BY <1>2, <2>1, <2>2
  <1>3. CASE a = b
    <2>1. Apart(a, b) = 0 /\ b - a = 0
      BY <1>3 DEF Apart
    <2> QED
      BY <1>3, <2>1
  <1> QED
    BY <1>1, <1>2, <1>3

(* A point of the closed square.                                               *)
Within(x, u) == \A k \in Axes : u[k] <= x[k] /\ x[k] <= u[k] + 1

(* The squares of a number and of its opposite.                                *)
LEMMA SquareOfOpposite ==
  ASSUME NEW x \in Int
  PROVE  Squared(-x) = Squared(x) /\ Squared(x) \in Nat
  BY DEF Squared

(* The points of two squares that are nearest.                                 *)
LEMMA NearestPoints ==
  ASSUME NEW u \in Points, NEW v \in Points
  PROVE  \E x, y \in Points :
           /\ Within(x, u) /\ Within(y, v)
           /\ u = v => x = y
           /\ Distance(u, v) = Squared(y[1] - x[1]) + Squared(y[2] - x[2])
  <1>1. PICK a1 \in Int, a2 \in Int, b1 \in Int, b2 \in Int :
          u = <<a1, a2>> /\ v = <<b1, b2>>
    BY DEF Points
  <1>2. PICK x1 \in Int, y1 \in Int :
          /\ a1 <= x1 /\ x1 <= a1 + 1 /\ b1 <= y1 /\ y1 <= b1 + 1
          /\ y1 - x1 = Apart(a1, b1) \/ x1 - y1 = Apart(a1, b1)
          /\ a1 = b1 => x1 = y1
    BY NearestEnds
  <1>3. PICK x2 \in Int, y2 \in Int :
          /\ a2 <= x2 /\ x2 <= a2 + 1 /\ b2 <= y2 /\ y2 <= b2 + 1
          /\ y2 - x2 = Apart(a2, b2) \/ x2 - y2 = Apart(a2, b2)
          /\ a2 = b2 => x2 = y2
    BY NearestEnds
  <1>4. PICK x \in Points, y \in Points : x = <<x1, x2>> /\ y = <<y1, y2>>
    BY DEF Points
  <1>5. Within(x, u) /\ Within(y, v) /\ (u = v => x = y)
    BY <1>1, <1>2, <1>3, <1>4 DEF Within, Axes
  <1>6. ASSUME NEW i \in Int, NEW j \in Int, NEW g, g = Apart(i, j), NEW m \in Int, NEW n \in Int,
               n - m = g \/ m - n = g
        PROVE  Squared(g) = Squared(n - m)
    <2>1. PICK d \in Int : d = n - m
      OBVIOUS
    <2>2. d = g \/ -d = g
      BY <1>6, <2>1
    <2> QED
      BY <2>1, <2>2, SquareOfOpposite
  <1>7. Squared(Apart(a1, b1)) = Squared(y1 - x1) /\ Squared(Apart(a2, b2)) = Squared(y2 - x2)
    BY <1>2, <1>3, <1>6
  <1>8. Distance(u, v) = Squared(Apart(u[1], v[1])) + Squared(Apart(u[2], v[2]))
    BY DistanceIs
  <1>9. Distance(u, v) = Squared(y[1] - x[1]) + Squared(y[2] - x[2])
    BY <1>1, <1>4, <1>7, <1>8
  <1> QED
    BY <1>5, <1>9

(* Inside a box.                                                               *)
InBox(x, box) == \A k \in Axes : box.first[k] <= x[k] /\ x[k] <= box.last[k]

(* The gap of two boxes is at most that of a point of each.                    *)
LEMMA GapWithin ==
  ASSUME NEW p, IsWindow(p), NEW q, IsWindow(q), NEW x, NEW y,
         \A k \in Axes : x[k] \in Int /\ y[k] \in Int, InBox(x, p), InBox(y, q)
  PROVE  /\ \A k \in Axes : AxisGap(p, q, k) \in Int
         /\ SquaredGap(p, q) \in Nat
         /\ SquaredGap(p, q) <= Squared(y[1] - x[1]) + Squared(y[2] - x[2])
         /\ \A k \in Axes : AxisGap(p, q, k) >= 0 => Squared(AxisGap(p, q, k)) <= SquaredGap(p, q)
         /\ bounds_disjoint(p, q) => \E k \in Axes : x[k] # y[k]
  <1>1. PICK a \in [Axes -> Int], b \in [Axes -> Int] : p.first = a /\ p.last = b
    BY DEF IsWindow, Box
  <1>2. PICK c \in [Axes -> Int], d \in [Axes -> Int] : q.first = c /\ q.last = d
    BY DEF IsWindow, Box
  <1>3. ASSUME NEW k \in Axes
        PROVE  /\ AxisGap(p, q, k) \in Int /\ Max({0, AxisGap(p, q, k)}) \in Nat
               /\ y[k] - x[k] \in Int
               /\ Squared(Max({0, AxisGap(p, q, k)})) <= Squared(y[k] - x[k])
               /\ AxisGap(p, q, k) >= 0 => Max({0, AxisGap(p, q, k)}) = AxisGap(p, q, k)
               /\ AxisGap(p, q, k) > 0 => x[k] # y[k]
    <2>1. PICK m \in Int, n \in Int : m = c[k] - b[k] /\ n = a[k] - d[k]
      OBVIOUS
    <2>2. AxisGap(p, q, k) = Max({m, n})
      BY <1>1, <1>2, <2>1 DEF AxisGap
    <2>3. PICK g \in Int : g = AxisGap(p, q, k) /\ g = (IF m > n THEN m ELSE n)
      BY <2>2, OfTwo
    <2>4. PICK h \in Nat : h = Max({0, g}) /\ h = (IF 0 > g THEN 0 ELSE g)
      <3>1. PICK zero \in Int : zero = 0
        OBVIOUS
      <3>2. Max({zero, g}) = (IF zero > g THEN zero ELSE g)
        BY <2>3, OfTwo
      <3> QED
        BY <2>3, <3>1, <3>2
    <2>5. PICK i \in Int, j \in Int, e \in Int : i = x[k] /\ j = y[k] /\ e = j - i
      <3>1. PICK i \in Int, j \in Int : i = x[k] /\ j = y[k]
        OBVIOUS
      <3>2. PICK e \in Int : e = j - i
        OBVIOUS
      <3> QED
        BY <3>1, <3>2
    <2>6. a[k] <= i /\ i <= b[k] /\ c[k] <= j /\ j <= d[k]
      BY <1>1, <1>2, <2>5 DEF InBox
    <2>7. h <= e \/ h <= -e
      <3>1. m <= e /\ n <= -e
        BY <2>1, <2>5, <2>6
      <3>2. g <= e \/ g <= -e
        BY <2>1, <2>3, <2>5, <3>1
      <3>3. h = g \/ h = 0
        BY <2>4
      <3>4. 0 <= e \/ 0 <= -e
        BY <2>5
      <3> QED
        BY <3>2, <3>3, <3>4
    <2>8. Squared(h) <= Squared(e)
      <3>1. CASE h <= e
        BY <2>5, <3>1, SquaresInOrder
      <3>2. CASE h <= -e
        <4>1. -e \in Nat
          BY <2>5, <3>2
        <4>2. Squared(h) <= Squared(-e) /\ Squared(-e) = Squared(e)
          BY <3>2, <4>1, SquaresInOrder, SquareOfOpposite
        <4> QED
          BY <4>2
      <3> QED
        BY <2>7, <3>1, <3>2
    <2>9. g > 0 => i # j
      <3>1. m <= e /\ n <= -e
        BY <2>1, <2>5, <2>6
      <3> QED
        BY <2>3, <2>5, <3>1
    <2> QED
      BY <2>3, <2>4, <2>5, <2>8, <2>9
  <1>4. PICK g \in [Axes -> Nat] : g = [k \in Axes |-> Max({0, AxisGap(p, q, k)})]
    BY <1>3
  <1>5. PICK s1 \in Nat, s2 \in Nat : s1 = Squared(g[1]) /\ s2 = Squared(g[2])
    <2>1. g[1] \in Int /\ g[2] \in Int
      BY DEF Axes
    <2> QED
      BY <2>1, SquareOfOpposite
  <1>6. SquaredGap(p, q) = s1 + s2
    BY <1>4, <1>5 DEF SquaredGap, SumOfSquares
  <1>7. PICK t1 \in Nat, t2 \in Nat : t1 = Squared(y[1] - x[1]) /\ t2 = Squared(y[2] - x[2])
    <2>1. y[1] - x[1] \in Int /\ y[2] - x[2] \in Int
      BY DEF Axes
    <2> QED
      BY <2>1, SquareOfOpposite
  <1>8. s1 <= t1 /\ s2 <= t2
    BY <1>3, <1>4, <1>5, <1>7 DEF Axes
  <1>9. ASSUME NEW k \in Axes, AxisGap(p, q, k) >= 0
        PROVE  Squared(AxisGap(p, q, k)) <= SquaredGap(p, q)
    <2>1. g[k] = AxisGap(p, q, k)
      BY <1>3, <1>4, <1>9
    <2>2. Squared(g[k]) = s1 \/ Squared(g[k]) = s2
      BY <1>5 DEF Axes
    <2> QED
      BY <1>5, <1>6, <2>1, <2>2
  <1>10. bounds_disjoint(p, q) => \E k \in Axes : x[k] # y[k]
    BY <1>3 DEF bounds_disjoint
  <1>11. SquaredGap(p, q) \in Nat /\ SquaredGap(p, q) <= t1 + t2
    BY <1>5, <1>6, <1>7, <1>8
  <1>12. \A k \in Axes : AxisGap(p, q, k) \in Int
    BY <1>3
  <1> QED
    BY <1>7, <1>9, <1>10, <1>11, <1>12
-----------------------------------------------------------------------------
(* A pose that is exact leaves the axes in place and moves nothing; no other   *)
(* moves anything by more than a unit.                                         *)
LEMMA PoseIs ==
  ASSUME NEW pose \in Poses
  PROVE  /\ pose.cardinal \in BOOLEAN /\ pose.exact \in BOOLEAN
         /\ pose.slip \in Points
         /\ \A k \in Axes : pose.slip[k] \in Int /\ -1 <= pose.slip[k] /\ pose.slip[k] <= 1
         /\ pose.exact => pose.cardinal /\ \A k \in Axes : pose.slip[k] = 0
  <1>1. /\ pose \in [cardinal : BOOLEAN, exact : BOOLEAN, slip : Near(<<0, 0>>, 1)]
        /\ pose.exact => pose.cardinal /\ pose.slip = <<0, 0>>
    BY DEF Poses
  <1>2. /\ pose.cardinal \in BOOLEAN /\ pose.exact \in BOOLEAN
        /\ pose.slip \in Near(<<0, 0>>, 1)
    BY <1>1
  <1>3. PICK i \in -1..1, j \in -1..1 : pose.slip = <<i, j>>
    <2>1. pose.slip \in (0 - 1..0 + 1) \X (0 - 1..0 + 1)
      BY <1>2 DEF Near
    <2>2. PICK i \in (0 - 1)..(0 + 1), j \in (0 - 1)..(0 + 1) : pose.slip = <<i, j>>
      BY <2>1
    <2>3. i \in -1..1 /\ j \in -1..1
      OBVIOUS
    <2> QED
      BY <2>2, <2>3
  <1>4. \A k \in Axes : pose.slip[k] = i \/ pose.slip[k] = j
    BY <1>3 DEF Axes
  <1>5. pose.exact => \A k \in Axes : pose.slip[k] = 0
    BY <1>1 DEF Axes
  <1> QED
    BY <1>1, <1>2, <1>3, <1>4, <1>5 DEF Points

(* The exact pose.                                                             *)
LEMMA IdentityIs == identity \in Poses /\ identity.exact /\ identity.cardinal
  BY DEF identity, Poses, Near

(* An outward interval holds what it is of, wherever that was rounded to.      *)
LEMMA OutwardIs ==
  ASSUME NEW pose \in Poses, NEW box, IsWindow(box)
  PROVE  /\ IsWindow(Outward(box, pose))
         /\ \E by \in {0, 1} :
              /\ pose.exact <=> by = 0
              /\ \A k \in Axes : /\ box.first[k] \in Int /\ box.last[k] \in Int
                                 /\ Outward(box, pose).first[k] = box.first[k] + pose.slip[k] - by
                                 /\ Outward(box, pose).last[k] = box.last[k] + pose.slip[k] + by
         /\ \A k \in Axes : /\ Outward(box, pose).first[k] <= box.first[k]
                            /\ box.last[k] <= Outward(box, pose).last[k]
                            /\ pose.exact => /\ Outward(box, pose).first[k] = box.first[k]
                                             /\ box.last[k] = Outward(box, pose).last[k]
  <1>1. PICK by \in {0, 1} : by = (IF pose.exact THEN 0 ELSE 1) /\ (pose.exact <=> by = 0)
    BY PoseIs
  <1>2. PICK a \in [Axes -> Int], b \in [Axes -> Int] : box = Box(a, b)
    BY DEF IsWindow
  <1>3. box.first = a /\ box.last = b
    BY <1>2 DEF Box
  <1>4. PICK t \in [Axes -> Int] : /\ \A k \in Axes : t[k] = pose.slip[k]
                                  /\ \A k \in Axes : -1 <= t[k] /\ t[k] <= 1
    <2>1. \A k \in Axes : pose.slip[k] \in Int /\ -1 <= pose.slip[k] /\ pose.slip[k] <= 1
      BY PoseIs
    <2>2. [k \in Axes |-> pose.slip[k]] \in [Axes -> Int]
      BY <2>1
    <2> QED
      BY <2>1, <2>2
  <1>5. PICK e \in [Axes -> Int], f \in [Axes -> Int] :
           /\ e = [k \in Axes |-> a[k] + pose.slip[k]]
           /\ f = [k \in Axes |-> b[k] + pose.slip[k]]
    <2>1. \A k \in Axes : a[k] + pose.slip[k] \in Int /\ b[k] + pose.slip[k] \in Int
      BY <1>4
    <2> QED
      BY <2>1
  <1>6. PICK c \in [Axes -> Int], d \in [Axes -> Int] :
          /\ c = [k \in Axes |-> e[k] - by]
          /\ d = [k \in Axes |-> f[k] + by]
    <2>1. \A k \in Axes : e[k] - by \in Int /\ f[k] + by \in Int
      OBVIOUS
    <2> QED
      BY <2>1
  <1>7. Outward(box, pose) = Box(c, d) /\ Box(c, d).first = c /\ Box(c, d).last = d
    <2>1. Shifted(box, pose.slip) = Box(e, f) /\ Box(e, f).first = e /\ Box(e, f).last = f
      BY <1>3, <1>5 DEF Shifted, Box
    <2>2. Outward(box, pose) = Widened(Box(e, f), by)
      BY <1>1, <2>1 DEF Outward
    <2> QED
      BY <1>6, <2>1, <2>2 DEF Widened, Box
  <1>8. IsWindow(Outward(box, pose))
    BY <1>6, <1>7 DEF IsWindow
  <1>9. ASSUME NEW k \in Axes
        PROVE  /\ box.first[k] \in Int /\ box.last[k] \in Int
               /\ Outward(box, pose).first[k] = box.first[k] + pose.slip[k] - by
               /\ Outward(box, pose).last[k] = box.last[k] + pose.slip[k] + by
    <2>1. e[k] = a[k] + pose.slip[k] /\ f[k] = b[k] + pose.slip[k]
      BY <1>5
    <2>2. c[k] = e[k] - by /\ d[k] = f[k] + by
      BY <1>6
    <2>3. PICK i \in Int, j \in Int, l \in Int, n \in Int :
            i = a[k] /\ j = b[k] /\ l = pose.slip[k] /\ n = by
      <3>1. a[k] \in Int /\ b[k] \in Int
        OBVIOUS
      <3>2. pose.slip[k] \in Int
        BY PoseIs
      <3>3. by \in Int
        OBVIOUS
      <3> QED
        BY <3>1, <3>2, <3>3, Zenon
    <2>4. e[k] = i + l /\ f[k] = j + l
      BY <2>1, <2>3, Zenon
    <2>5. c[k] = (i + l) - n /\ d[k] = (j + l) + n
      BY <2>2, <2>3, <2>4, Zenon
    <2>6. /\ Outward(box, pose).first[k] = c[k] /\ Outward(box, pose).last[k] = d[k]
          /\ box.first[k] = i /\ box.last[k] = j
      BY <1>3, <1>7, <2>3, Zenon
    <2>7. /\ Outward(box, pose).first[k] = i + l - n
          /\ Outward(box, pose).last[k] = j + l + n
      BY <2>5, <2>6
    <2> QED
      BY <2>3, <2>6, <2>7, Zenon
  <1>10. pose.exact => \A k \in Axes : pose.slip[k] = 0
    BY PoseIs
  <1>11. ASSUME NEW k \in Axes
         PROVE  /\ Outward(box, pose).first[k] <= box.first[k]
                /\ box.last[k] <= Outward(box, pose).last[k]
                /\ pose.exact => /\ Outward(box, pose).first[k] = box.first[k]
                                 /\ box.last[k] = Outward(box, pose).last[k]
    <2>1. /\ box.first[k] \in Int /\ box.last[k] \in Int
          /\ pose.slip[k] \in Int /\ -1 <= pose.slip[k] /\ pose.slip[k] <= 1
      BY <1>9, PoseIs
    <2>2. pose.exact => pose.slip[k] = 0
      BY <1>10
    <2>3. PICK x \in Int, y \in Int, z \in Int :
            /\ x = box.first[k] /\ y = box.last[k] /\ z = pose.slip[k] /\ -1 <= z /\ z <= 1
            /\ pose.exact => z = 0
      BY <2>1, <2>2
    <2>4. /\ Outward(box, pose).first[k] = x + z - by
          /\ Outward(box, pose).last[k] = y + z + by
      BY <1>9, <2>3
    <2>5. CASE pose.exact
      <3>1. by = 0 /\ z = 0
        BY <1>1, <2>3, <2>5
      <3>2. x + z - by = x /\ y + z + by = y
        BY <3>1
      <3> QED
        BY <2>3, <2>4, <3>2
    <2>6. CASE ~pose.exact
      <3>1. by = 1
        BY <1>1, <2>6
      <3>2. x + z - by <= x /\ y <= y + z + by
        BY <2>3, <3>1
      <3> QED
        BY <2>3, <2>4, <2>6, <3>2
    <2>7. pose.exact \in BOOLEAN
      BY PoseIs
    <2> QED
      BY <2>5, <2>6, <2>7
  <1> QED
    BY <1>1, <1>8, <1>9, <1>11

(* The bounds of a solid hold the points of its squares, in any pose.          *)
LEMMA BoundsHold ==
  ASSUME NEW solid, IsSolid(solid), NEW pose \in Poses
  PROVE  /\ IsWindow(Outward(Extent(solid), pose)) /\ IsWindow(Extent(solid))
         /\ \A k \in Axes : /\ Extent(solid).first[k] = Low(solid, k)
                            /\ Extent(solid).last[k] = High(solid, k)
         /\ \A u \in solid : \A x \in Points :
              Within(x, u) => InBox(x, Outward(Extent(solid), pose)) /\ InBox(x, Extent(solid))
  <1>1. PICK a \in [Axes -> Int], b \in [Axes -> Int] :
          /\ a = [k \in Axes |-> Low(solid, k)] /\ b = [k \in Axes |-> High(solid, k)]
    <2>1. \A k \in Axes : Low(solid, k) \in Int /\ High(solid, k) \in Int
      BY SolidBounds
    <2> QED
      BY <2>1
  <1>2. Extent(solid) = Box(a, b) /\ Box(a, b).first = a /\ Box(a, b).last = b
    BY <1>1 DEF Extent, Box
  <1>3. IsWindow(Extent(solid))
    BY <1>2 DEF IsWindow
  <1>4. PICK c \in [Axes -> Int], d \in [Axes -> Int] :
          Outward(Extent(solid), pose) = Box(c, d) /\ Box(c, d).first = c /\ Box(c, d).last = d
    <2>1. IsWindow(Outward(Extent(solid), pose))
      BY <1>3, OutwardIs
    <2>2. PICK c \in [Axes -> Int], d \in [Axes -> Int] : Outward(Extent(solid), pose) = Box(c, d)
      BY <2>1 DEF IsWindow
    <2>3. Box(c, d).first = c /\ Box(c, d).last = d
      BY DEF Box
    <2> QED
      BY <2>2, <2>3
  <1>5. ASSUME NEW u \in solid, NEW x \in Points, Within(x, u), NEW k \in Axes
        PROVE  /\ a[k] <= x[k] /\ x[k] <= b[k]
               /\ c[k] <= x[k] /\ x[k] <= d[k]
    <2>1. PICK i \in Int, j \in Int : i = x[k] /\ j = u[k]
      BY Coordinates, SolidBounds
    <2>2. a[k] <= j /\ j + 1 <= b[k] /\ a[k] \in Int /\ b[k] \in Int
      BY <1>1, <2>1, SolidBounds
    <2>3. j <= i /\ i <= j + 1
      BY <1>5, <2>1 DEF Within
    <2>4. c[k] <= a[k] /\ b[k] <= d[k] /\ c[k] \in Int /\ d[k] \in Int
      BY <1>2, <1>3, <1>4, OutwardIs
    <2> QED
      BY <2>1, <2>2, <2>3, <2>4
  <1> QED
    BY <1>1, <1>2, <1>3, <1>4, <1>5, OutwardIs DEF InBox

(* Bounds that are apart, or, in cardinal poses, as far from each other as the *)
(* clearance.                                                                  *)
LEMMA BoundsAccept ==
  ASSUME NEW a, IsSolid(a), NEW b, IsSolid(b), NEW x0 \in Poses, NEW y0 \in Poses,
         NEW clearance \in Nat,
         bounds_pair_certificate(posed_bounds(a, x0), posed_bounds(b, y0), clearance),
         NEW u \in a, NEW v \in b
  PROVE  u # v /\ Distance(u, v) >= Squared(clearance)
  <1>1. u \in Points /\ v \in Points
    BY DEF IsSolid
  <1>2. PICK x \in Points, y \in Points :
          /\ Within(x, u) /\ Within(y, v) /\ (u = v => x = y)
          /\ Distance(u, v) = Squared(y[1] - x[1]) + Squared(y[2] - x[2])
    BY <1>1, NearestPoints
  <1>3. \A k \in Axes : x[k] \in Int /\ y[k] \in Int
    BY Coordinates
  <1>5. PICK p, q : p = Outward(Extent(a), x0) /\ q = Outward(Extent(b), y0)
    OBVIOUS
  <1>6. PICK m, n : m = Extent(a) /\ n = Extent(b)
    OBVIOUS
  <1>7. /\ IsWindow(p) /\ IsWindow(q) /\ InBox(x, p) /\ InBox(y, q)
        /\ IsWindow(m) /\ IsWindow(n) /\ InBox(x, m) /\ InBox(y, n)
    BY <1>2, <1>5, <1>6, BoundsHold
  <1>8. PICK far \in Nat : far = Distance(u, v)
    BY <1>1, DistanceIs
  <1>9. (\E k \in Axes : AxisGap(p, q, k) > clearance)
          \/ (\E k \in Axes : AxisGap(m, n, k) >= clearance)
    BY <1>5, <1>6
       DEF bounds_pair_certificate, separated_by_bounds, cardinal_bounds_clearance_proof,
           posed_bounds
  <1>10. CASE \E k \in Axes : AxisGap(p, q, k) > clearance
    <2>1. PICK k \in Axes : AxisGap(p, q, k) > clearance
      BY <1>10
    <2>2. PICK g \in Int : g = AxisGap(p, q, k) /\ Squared(g) <= SquaredGap(p, q)
      BY <1>3, <1>7, <2>1, GapWithin
    <2>3. SquaredGap(p, q) \in Nat /\ SquaredGap(p, q) <= far
      BY <1>2, <1>3, <1>7, <1>8, GapWithin
    <2>4. g \in Nat /\ clearance <= g /\ g > 0
      BY <2>1, <2>2
    <2>5. PICK c \in Nat, d \in Nat : c = Squared(clearance) /\ d = Squared(g) /\ c <= d
      BY <2>4, SquaresInOrder
    <2>6. bounds_disjoint(p, q)
      BY <2>2, <2>4 DEF bounds_disjoint
    <2>7. x # y
      BY <1>3, <1>7, <2>6, GapWithin
    <2> QED
      BY <1>2, <1>8, <2>2, <2>3, <2>5, <2>7
  <1>11. CASE \E k \in Axes : AxisGap(m, n, k) >= clearance
    <2>1. PICK k \in Axes : AxisGap(m, n, k) >= clearance
      BY <1>11
    <2>2. PICK g \in Int : g = AxisGap(m, n, k) /\ Squared(g) <= SquaredGap(m, n)
      BY <1>3, <1>7, <2>1, GapWithin
    <2>3. SquaredGap(m, n) \in Nat /\ SquaredGap(m, n) <= far
      BY <1>2, <1>3, <1>7, <1>8, GapWithin
    <2>4. g \in Nat /\ clearance <= g
      BY <2>1, <2>2
    <2>5. PICK c \in Nat, d \in Nat : c = Squared(clearance) /\ d = Squared(g) /\ c <= d
      BY <2>4, SquaresInOrder
    <2>6. u # v
      <3>1. PICK i \in Int, j \in Int, e \in Int, f \in Int :
              /\ i = Low(a, k) /\ j = High(a, k) /\ e = Low(b, k) /\ f = High(b, k)
        BY SolidBounds
      <3>2. g = Max({e - j, i - f})
        BY <1>6, <2>2, <3>1 DEF AxisGap, Extent, Box
      <3>3. e - j >= 0 \/ i - f >= 0
        BY <2>4, <3>1, <3>2, OfTwo
      <3>4. PICK r \in Int, s \in Int :
              /\ r = u[k] /\ i <= r /\ r + 1 <= j
              /\ s = v[k] /\ e <= s /\ s + 1 <= f
        BY <3>1, SolidBounds
      <3>5. r # s
        BY <3>1, <3>3, <3>4
      <3> QED
        BY <3>4, <3>5
    <2> QED
      BY <1>8, <2>2, <2>3, <2>5, <2>6
  <1> QED
    BY <1>9, <1>10, <1>11

(* The corners of a solid span its projection.                                 *)
LEMMA ProjectionHolds ==
  ASSUME NEW solid, IsSolid(solid), NEW d \in Points
  PROVE  /\ support_projection(solid, d).first \in Int
         /\ support_projection(solid, d).last \in Int
         /\ \A u \in solid : \A x \in Points :
              Within(x, u) => LET z == d[1] * x[1] + d[2] * x[2]
                              IN /\ z \in Int
                                 /\ support_projection(solid, d).first <= z
                                 /\ z <= support_projection(solid, d).last
  <1> DEFINE Span(u) == {d[1] * (u[1] + i) + d[2] * (u[2] + j) : i, j \in 0..1}
             values == UNION {Span(u) : u \in solid}
             corners == solid \X ((0..1) \X (0..1))
             f == [c \in corners |-> d[1] * (c[1][1] + c[2][1]) + d[2] * (c[1][2] + c[2][2])]
  <1>1. values = {f[c] : c \in corners}
    <2>1. ASSUME NEW z \in values
          PROVE  z \in {f[c] : c \in corners}
      <3>1. PICK u \in solid, i \in 0..1, j \in 0..1 :
              z = d[1] * (u[1] + i) + d[2] * (u[2] + j)
        BY <2>1
      <3>2. <<u, <<i, j>>>> \in corners /\ f[<<u, <<i, j>>>>] = z
        BY <3>1
      <3> QED
        BY <3>2
    <2>2. ASSUME NEW c \in corners
          PROVE  f[c] \in values
      <3>1. PICK u \in solid, i \in 0..1, j \in 0..1 : c = <<u, <<i, j>>>>
        OBVIOUS
      <3>2. f[c] \in Span(u)
        BY <3>1
      <3> QED
        BY <3>2
    <2> HIDE DEF values, f, corners
    <2> QED
      BY <2>1, <2>2
  <1>2. IsFiniteSet(corners) /\ corners # {}
    <2>1. IsFiniteSet(0..1)
      <3>1. 0 \in Int /\ 1 \in Int
        OBVIOUS
      <3> QED
        BY <3>1, FS_Interval
    <2>2. IsFiniteSet((0..1) \X (0..1))
      BY <2>1, FS_Product
    <2>3. IsFiniteSet(corners)
      BY <2>2, FS_Product DEF IsSolid
    <2>4. PICK u \in solid : TRUE
      BY DEF IsSolid
    <2>5. <<u, <<0, 0>>>> \in corners
      OBVIOUS
    <2> QED
      BY <2>3, <2>5
  <1>3. IsFiniteSet(values)
    <2>1. f = [c \in corners |-> f[c]]
      OBVIOUS
    <2> HIDE DEF f, corners
    <2>2. IsFiniteSet({f[c] : c \in corners})
      BY <1>2, <2>1, ImageIsFinite
    <2> QED
      BY <1>1, <2>2
  <1>4. ASSUME NEW u \in solid, NEW i \in 0..1, NEW j \in 0..1
        PROVE  d[1] * (u[1] + i) + d[2] * (u[2] + j) \in values \cap Int
    <2>1. u[1] \in Int /\ u[2] \in Int /\ d[1] \in Int /\ d[2] \in Int
      BY DEF IsSolid, Points
    <2> QED
      BY <2>1
  <1>5. values \in SUBSET Int /\ values # {}
    <2>1. values \subseteq Int
      BY <1>4
    <2>2. PICK u \in solid : TRUE
      BY DEF IsSolid
    <2>3. 0 \in 0..1
      OBVIOUS
    <2>4. d[1] * (u[1] + 0) + d[2] * (u[2] + 0) \in values
      BY <1>4, <2>3
    <2> QED
      BY <2>1, <2>4
  <1>6. /\ support_projection(solid, d).first = Min(values)
        /\ support_projection(solid, d).last = Max(values)
    BY DEF support_projection
  <1>7. ASSUME NEW u \in solid, NEW x \in Points, Within(x, u)
        PROVE  d[1] * x[1] + d[2] * x[2] \in values
    <2>1. u[1] \in Int /\ u[2] \in Int /\ x[1] \in Int /\ x[2] \in Int
      BY DEF IsSolid, Points
    <2>2. u[1] <= x[1] /\ x[1] <= u[1] + 1 /\ u[2] <= x[2] /\ x[2] <= u[2] + 1
      BY <1>7 DEF Within, Axes
    <2>3. PICK i \in 0..1, j \in 0..1 : x[1] = u[1] + i /\ x[2] = u[2] + j
      <3>1. x[1] - u[1] \in 0..1 /\ x[2] - u[2] \in 0..1
        BY <2>1, <2>2
      <3>2. x[1] = u[1] + (x[1] - u[1]) /\ x[2] = u[2] + (x[2] - u[2])
        BY <2>1
      <3> QED
        BY <3>1, <3>2
    <2> HIDE DEF values
    <2> QED
      BY <1>4, <2>3
  <1> HIDE DEF values
  <1>8. /\ Min(values) \in Int /\ Max(values) \in Int
        /\ \A z \in values : z \in Int /\ Min(values) <= z /\ z <= Max(values)
    BY <1>3, <1>5, MinIsLeast, MaxIsGreatest
  <1> QED
    BY <1>6, <1>7, <1>8
-----------------------------------------------------------------------------
(* What a vector spans along a direction is at most its length times that of   *)
(* the direction.                                                              *)
LEMMA SpanIsBounded ==
  ASSUME NEW a \in Int, NEW b \in Int, NEW x \in Int, NEW y \in Int
  PROVE  Squared(a * x + b * y) <= (Squared(a) + Squared(b)) * (Squared(x) + Squared(y))
  <1>1. (Squared(a) + Squared(b)) * (Squared(x) + Squared(y))
          = Squared(a * x + b * y) + Squared(a * y - b * x)
    BY DEF Squared
  <1>2. a * x + b * y \in Int /\ a * y - b * x \in Int
    OBVIOUS
  <1>3. PICK m \in Nat, n \in Nat : m = Squared(a * x + b * y) /\ n = Squared(a * y - b * x)
    BY <1>2, SquareOfOpposite
  <1> QED
    BY <1>1, <1>3

(* A strip between the solids that is as wide as the clearance.                *)
LEMMA SupportsApart ==
  ASSUME NEW a, IsSolid(a), NEW b, IsSolid(b), NEW clearance \in Nat,
         support_pair_certificate(a, b, clearance), NEW u \in a, NEW v \in b
  PROVE  u # v /\ Distance(u, v) >= Squared(clearance)
  <1>1. u \in Points /\ v \in Points
    BY DEF IsSolid
  <1>2. PICK x \in Points, y \in Points :
          /\ Within(x, u) /\ Within(y, v) /\ (u = v => x = y)
          /\ Distance(u, v) = Squared(y[1] - x[1]) + Squared(y[2] - x[2])
    BY <1>1, NearestPoints
  <1>3. PICK d, p, q :
          /\ d \in support_directions
          /\ p = support_projection(a, d) /\ q = support_projection(b, d)
          /\ Max({q.first - p.last, p.first - q.last}) > 0
          /\ Squared(Max({q.first - p.last, p.first - q.last}))
               >= Squared(clearance) * SumOfSquares(d)
    BY DEF support_pair_certificate
  <1>4. d \in Points
    <2>1. support_directions \subseteq Points
      BY DEF support_directions, Points
    <2> QED
      BY <1>3, <2>1
  <1>5. PICK d1 \in Int, d2 \in Int, e1 \in Int, e2 \in Int :
          d1 = d[1] /\ d2 = d[2] /\ e1 = y[1] - x[1] /\ e2 = y[2] - x[2]
    BY <1>4 DEF Points
  <1>6. PICK i \in Int, j \in Int : i = d1 * x[1] + d2 * x[2] /\ j = d1 * y[1] + d2 * y[2]
    <2>1. x[1] \in Int /\ x[2] \in Int /\ y[1] \in Int /\ y[2] \in Int
      BY DEF Points
    <2> QED
      BY <2>1
  <1>7. PICK pf \in Int, pl \in Int, qf \in Int, ql \in Int :
          /\ pf = p.first /\ pl = p.last /\ qf = q.first /\ ql = q.last
          /\ pf <= i /\ i <= pl /\ qf <= j /\ j <= ql
    BY <1>2, <1>3, <1>4, <1>5, <1>6, ProjectionHolds
  <1>8. PICK gap \in Int : /\ gap = Max({qf - pl, pf - ql})
                           /\ gap = qf - pl \/ gap = pf - ql
    <2>1. PICK m \in Int, n \in Int : m = qf - pl /\ n = pf - ql
      OBVIOUS
    <2>2. Max({m, n}) = (IF m > n THEN m ELSE n)
      BY OfTwo
    <2> QED
      BY <2>1, <2>2
  <1>9. gap > 0 /\ Squared(gap) >= Squared(clearance) * SumOfSquares(d)
    BY <1>3, <1>7, <1>8
  <1>10. PICK z \in Int : z = d1 * e1 + d2 * e2
    OBVIOUS
  <1>11. z = j - i
    <2>1. PICK x1 \in Int, x2 \in Int, y1 \in Int, y2 \in Int :
            x1 = x[1] /\ x2 = x[2] /\ y1 = y[1] /\ y2 = y[2]
      BY DEF Points
    <2>2. d1 * (y1 - x1) + d2 * (y2 - x2) = (d1 * y1 + d2 * y2) - (d1 * x1 + d2 * x2)
      OBVIOUS
    <2> QED
      BY <1>5, <1>6, <1>10, <2>1, <2>2
  <1>12. gap <= z \/ gap <= -z
    BY <1>7, <1>8, <1>11
  <1>13. PICK s \in Nat, t \in Nat : s = Squared(gap) /\ t = Squared(z) /\ s <= t /\ s > 0
    <2>1. gap \in Nat /\ gap > 0
      BY <1>9
    <2>2. CASE gap <= z
      <3>1. z \in Nat
        BY <2>1, <2>2
      <3>2. Squared(gap) <= Squared(z) /\ Squared(gap) \in Nat /\ Squared(z) \in Nat
        BY <2>1, <2>2, <3>1, SquaresInOrder
      <3>3. Squared(gap) > 0
        BY <2>1 DEF Squared
      <3> QED
        BY <3>2, <3>3
    <2>3. CASE gap <= -z
      <3>1. -z \in Nat
        BY <2>1, <2>3
      <3>2. Squared(gap) <= Squared(-z) /\ Squared(gap) \in Nat /\ Squared(-z) \in Nat
        BY <2>1, <2>3, <3>1, SquaresInOrder
      <3>3. Squared(gap) > 0 /\ Squared(-z) = Squared(z)
        BY <2>1, SquareOfOpposite DEF Squared
      <3> QED
        BY <3>2, <3>3
    <2> QED
      BY <1>12, <2>2, <2>3
  <1>14. PICK size \in Nat, far \in Nat, c \in Nat :
           /\ size = Squared(d1) + Squared(d2) /\ far = Squared(e1) + Squared(e2)
           /\ c = Squared(clearance)
    <2>1. /\ Squared(d1) \in Nat /\ Squared(d2) \in Nat /\ Squared(e1) \in Nat
          /\ Squared(e2) \in Nat /\ Squared(clearance) \in Nat
      BY SquareOfOpposite
    <2> QED
      BY <2>1
  <1>15. t <= size * far
    BY <1>10, <1>13, <1>14, SpanIsBounded
  <1>16. c * size <= s
    <2>1. SumOfSquares(d) = size
      BY <1>5, <1>14 DEF SumOfSquares
    <2> QED
      BY <1>9, <1>13, <1>14, <2>1
  <1>17. size # 0
    <2>1. size = 0 => size * far = 0
      OBVIOUS
    <2> QED
      BY <1>13, <1>15, <2>1
  <1>18. c * size <= far * size
    <2>1. c * size \in Int /\ size * far \in Int /\ size * far = far * size
      OBVIOUS
    <2> QED
      BY <1>13, <1>15, <1>16, <2>1
  <1>19. c <= far
    <2>1. size \in Nat \ {0} /\ c \in Int /\ far \in Int
      BY <1>17
    <2> QED
      BY <1>18, <2>1, MultiplesInOrder
  <1>20. u # v
    <2>1. x = y => z = 0
      <3>1. x[1] \in Int /\ x[2] \in Int
        BY DEF Points
      <3>2. x = y => e1 = 0 /\ e2 = 0
        BY <1>5, <3>1
      <3> QED
        BY <1>10, <3>2
    <2>2. z # 0
      BY <1>9, <1>12
    <2> QED
      BY <1>2, <2>1, <2>2
  <1>21. Distance(u, v) = far
    BY <1>2, <1>5, <1>14
  <1> QED
    BY <1>14, <1>19, <1>20, <1>21
-----------------------------------------------------------------------------
(* A line through a square of a solid meets a wall on either side of it.       *)
LEMMA WallsBeside ==
  ASSUME NEW solid, IsSolid(solid), NEW k \in Axes, NEW u \in solid
  PROVE  /\ \E w \in Walls(solid, k) : w[k] <= u[k] /\ w[3 - k] = u[3 - k]
         /\ \E w \in Walls(solid, k) : u[k] + 1 <= w[k] /\ w[3 - k] = u[3 - k]
  <1>1. /\ u \in Points /\ u[k] \in Int /\ Low(solid, k) \in Int /\ High(solid, k) \in Int
        /\ Low(solid, k) <= u[k] /\ u[k] + 1 <= High(solid, k)
    BY SolidBounds
  <1>2. PICK lo \in Int, hi \in Int, i \in Int :
          lo = Low(solid, k) - 1 /\ hi = High(solid, k) /\ i = u[k]
    BY <1>1
  <1> DEFINE T == {j \in Int : At(u, k, j) \in solid}
  <1>3. ASSUME NEW j \in Int
        PROVE  /\ At(u, k, j) \in Points /\ At(u, k, j)[k] = j
               /\ At(u, k, j)[3 - k] = u[3 - k]
               /\ (At(u, k, j) \in Walls(solid, k)) <=> ~((j \in T) <=> (j - 1 \in T))
    <2>1. PICK w : w = At(u, k, j)
      OBVIOUS
    <2>2. w \in Points /\ w[k] = j /\ w[3 - k] = u[3 - k]
      BY <1>1, <2>1, AtIs
    <2>3. PICK e \in Int : e = j - 1
      OBVIOUS
    <2>4. At(w, k, e) = At(u, k, e)
      <3>1. At(w, k, e) \in Points /\ At(w, k, e)[k] = e /\ At(w, k, e)[3 - k] = w[3 - k]
        BY <2>2, AtIs
      <3>2. At(u, k, e) \in Points /\ At(u, k, e)[k] = e /\ At(u, k, e)[3 - k] = u[3 - k]
        BY <1>1, AtIs
      <3> QED
        BY <2>2, <3>1, <3>2, SamePoint
    <2>5. (w \in Walls(solid, k)) <=> ~((w \in solid) <=> (At(w, k, e) \in solid))
      BY <2>2, <2>3, WallsAre
    <2> QED
      BY <2>1, <2>2, <2>3, <2>4, <2>5
  <1>4. i \in T /\ lo \notin T /\ hi \notin T
    <2>1. At(u, k, i) = u
      BY <1>1, <1>2, AtSame
    <2>2. \A w \in solid : lo < w[k] /\ w[k] < hi
      <3>1. ASSUME NEW w \in solid
            PROVE  lo < w[k] /\ w[k] < hi
        <4>1. w[k] \in Int /\ Low(solid, k) <= w[k] /\ w[k] + 1 <= High(solid, k)
          BY SolidBounds
        <4> QED
          BY <1>1, <1>2, <4>1
      <3> QED
        BY <3>1
    <2>3. At(u, k, lo)[k] = lo /\ At(u, k, hi)[k] = hi
      BY <1>3
    <2> QED
      BY <1>2, <2>1, <2>2, <2>3
  <1>5. \E j \in (lo + 1)..i : At(u, k, j) \in Walls(solid, k)
    <2> SUFFICES ASSUME \A j \in (lo + 1)..i : At(u, k, j) \notin Walls(solid, k)
                 PROVE  FALSE
      OBVIOUS
    <2>1. \A j \in (lo + 1)..i : (j \in T) <=> (j - 1 \in T)
      BY <1>3
    <2>2. lo <= i
      BY <1>1, <1>2
    <2> HIDE DEF T
    <2>3. \A j \in lo..i : (j \in T) <=> (lo \in T)
      BY <2>1, AlongLine
    <2>4. i \in lo..i
      BY <2>2
    <2> QED
      BY <1>4, <2>3, <2>4
  <1>6. \E j \in (i + 1)..hi : At(u, k, j) \in Walls(solid, k)
    <2> SUFFICES ASSUME \A j \in (i + 1)..hi : At(u, k, j) \notin Walls(solid, k)
                 PROVE  FALSE
      OBVIOUS
    <2>1. \A j \in (i + 1)..hi : (j \in T) <=> (j - 1 \in T)
      BY <1>3
    <2>2. i <= hi
      BY <1>1, <1>2
    <2> HIDE DEF T
    <2>3. \A j \in i..hi : (j \in T) <=> (i \in T)
      BY <2>1, AlongLine
    <2>4. hi \in i..hi
      BY <2>2
    <2> QED
      BY <1>4, <2>3, <2>4
  <1>7. PICK j \in (lo + 1)..i : At(u, k, j) \in Walls(solid, k)
    BY <1>5
  <1>8. PICK n \in (i + 1)..hi : At(u, k, n) \in Walls(solid, k)
    BY <1>6
  <1>9. j \in Int /\ n \in Int /\ j <= u[k] /\ u[k] + 1 <= n
    BY <1>2
  <1> QED
    BY <1>3, <1>7, <1>8, <1>9

(* Every part of a range cut in layers is between two cuts.                    *)
LEMMA SomeLayer ==
  ASSUME NEW lo \in Int, NEW hi \in Int, NEW x \in Int, lo < hi, lo <= x, x <= hi,
         NEW n \in Nat \ {0}
  PROVE  \E i \in 0..(n - 1) : /\ lo * n + i * (hi - lo) <= x * n
                               /\ x * n <= lo * n + (i + 1) * (hi - lo)
  <1>1. PICK h \in Nat \ {0}, w \in Nat : h = hi - lo /\ w = x - lo /\ w <= h
    OBVIOUS
  <1>2. PICK m \in Int, b \in Int : m = w * n /\ b = lo * n /\ x * n = b + m /\ m >= 0
    BY <1>1
  <1>3. \E i \in 0..(n - 1) : i * h <= m /\ m <= (i + 1) * h
    <2>1. CASE w = h
      <3>1. PICK i \in 0..(n - 1) : i = n - 1
        OBVIOUS
      <3>2. i \in Int /\ i + 1 = n /\ i * h <= n * h /\ (i + 1) * h = n * h
        <4>1. i \in Int /\ i + 1 = n /\ i <= n
          BY <3>1
        <4> QED
          BY <4>1, MultiplesInOrder
      <3>3. m = n * h
        BY <1>2, <2>1
      <3> QED
        BY <3>2, <3>3
    <2>2. CASE w < h
      <3>1. PICK i \in Int : i = m \div h /\ i * h <= m /\ m < i * h + h
        BY <1>2, QuotientBounds
      <3>2. i * h \in Int /\ (i + 1) * h \in Int /\ (i + 1) * h = i * h + h
        BY Multiples
      <3>3. m < n * h
        <4>1. ~(h * n <= w * n)
          BY <2>2, MultiplesInOrder
        <4>2. h * n \in Int /\ w * n \in Int /\ h * n = n * h
          OBVIOUS
        <4> QED
          BY <1>2, <4>1, <4>2
      <3>4. i < n
        <4>1. ~(n * h <= i * h)
          <5>1. n * h \in Int
            OBVIOUS
          <5> QED
            BY <3>1, <3>2, <3>3, <5>1
        <4>2. ~(n <= i)
          BY <3>1, <4>1, MultiplesInOrder
        <4> QED
          BY <3>1, <4>2
      <3>5. 0 <= i
        <4>1. ~((i + 1) * h <= 0 * h)
          BY <1>2, <3>1, <3>2
        <4>2. 0 \in Int /\ i + 1 \in Int
          BY <3>1
        <4>3. ~(i + 1 <= 0)
          BY <4>1, <4>2, MultiplesInOrder
        <4> QED
          BY <3>1, <4>3
      <3>6. i \in 0..(n - 1)
        BY <3>1, <3>4, <3>5
      <3>7. i * h <= m /\ m <= (i + 1) * h
        BY <1>2, <3>1, <3>2
      <3> QED
        BY <3>6, <3>7
    <2> QED
      BY <1>1, <2>1, <2>2
  <1>4. PICK i \in 0..(n - 1) : i * h <= m /\ m <= (i + 1) * h
    BY <1>3
  <1>5. i * h \in Int /\ (i + 1) * h \in Int
    BY <1>4, Multiples
  <1> QED
    BY <1>1, <1>2, <1>4, <1>5
-----------------------------------------------------------------------------
(* Some slab holds each point of a solid: the faces on either side of it, on   *)
(* the line through its square, meet that slab.                                *)
LEMMA SomeSliceHolds ==
  ASSUME NEW solid, IsSolid(solid), NEW axis \in Axes, NEW u \in solid,
         NEW x \in Points, Within(x, u),
         NEW big, big = [k \in Axes |-> x[k] * Layers]
  PROVE  \E slice \in LayerSlices(solid, axis) : IsWindow(slice) /\ InBox(big, slice)
  <1>1. PICK o \in Axes : o = 3 - axis /\ 3 - o = axis /\ o # axis /\ Axes = {o, axis}
    BY DEF Axes
  <1>2. PICK n \in Nat \ {0} : n = Layers
    BY KernelAssumption
  <1>3. PICK lo \in Int, hi \in Int : lo = Low(solid, axis) /\ hi = High(solid, axis)
    BY SolidBounds
  <1>4. PICK xa \in Int, xo \in Int, ua \in Int, uo \in Int :
          /\ xa = x[axis] /\ xo = x[o] /\ ua = u[axis] /\ uo = u[o]
          /\ lo <= ua /\ ua + 1 <= hi /\ ua <= xa /\ xa <= ua + 1 /\ uo <= xo /\ xo <= uo + 1
    <2>1. /\ x[axis] \in Int /\ x[o] \in Int /\ u[axis] \in Int /\ u[o] \in Int
          /\ lo <= u[axis] /\ u[axis] + 1 <= hi
      BY <1>3, Coordinates, SolidBounds
    <2>2. /\ u[axis] <= x[axis] /\ x[axis] <= u[axis] + 1
          /\ u[o] <= x[o] /\ x[o] <= u[o] + 1
      BY DEF Within
    <2> QED
      BY <2>1, <2>2
  <1> DEFINE Cut(i) == lo * n + i * (hi - lo)
             Meeting(i) == {f \in Faces(solid) : /\ f.first[axis] * n <= Cut(i + 1)
                                                 /\ f.last[axis] * n >= Cut(i)}
  <1>5. PICK i \in 0..(n - 1) : Cut(i) <= xa * n /\ xa * n <= Cut(i + 1)
    <2>1. lo < hi /\ lo <= xa /\ xa <= hi
      BY <1>4
    <2> QED
      BY <2>1, SomeLayer
  <1>6. PICK a \in Int, b \in Int : a = Cut(i) /\ b = Cut(i + 1) /\ a <= xa * n /\ xa * n <= b
    <2>1. PICK h \in Int, r \in Int : h = hi - lo /\ r = i + 1
      BY <1>5
    <2>2. lo * n + i * h \in Int /\ lo * n + r * h \in Int
      BY <1>5, <2>1
    <2> QED
      BY <1>5, <2>1, <2>2
  <1>7. ASSUME NEW w \in Walls(solid, o), w[axis] = ua
        PROVE  \E f \in Meeting(i) : f.first[o] = w[o] /\ f.last[o] = w[o]
    <2>1. PICK f \in Faces(solid) : IsFace(solid, o, f) /\ Covers(f, o, w)
      BY WallHasFace
    <2>2. /\ f.first[o] = w[o] /\ f.last[o] = w[o]
          /\ f.first[axis] <= ua /\ ua < f.last[axis]
      BY <1>1, <1>7, <2>1 DEF IsFace, Covers
    <2>3. PICK c \in Int, d \in Int : c = f.first[axis] /\ d = f.last[axis]
      BY <2>1, Coordinates DEF IsFace
    <2>4. c <= xa /\ xa <= d
      BY <1>4, <2>2, <2>3
    <2>5. c * n <= xa * n /\ xa * n <= d * n
      BY <2>4, MultiplesInOrder
    <2>6. c * n \in Int /\ xa * n \in Int /\ d * n \in Int
      OBVIOUS
    <2>7. c * n <= b /\ d * n >= a
      BY <1>6, <2>5, <2>6
    <2>8. f \in Meeting(i)
      BY <1>6, <2>3, <2>7
    <2> QED
      BY <2>2, <2>8
  <1>8. PICK f \in Meeting(i) : f.first[o] \in Int /\ f.first[o] <= uo
    <2>1. PICK w \in Walls(solid, o) : w[o] <= u[o] /\ w[3 - o] = u[3 - o]
      BY WallsBeside
    <2>2. w[axis] = ua /\ w[o] \in Int
      BY <1>1, <1>4, <2>1, WallBounds
    <2>3. PICK f \in Meeting(i) : f.first[o] = w[o]
      BY <1>7, <2>2
    <2> QED
      BY <1>4, <2>1, <2>2, <2>3
  <1>9. PICK g \in Meeting(i) : g.last[o] \in Int /\ uo + 1 <= g.last[o]
    <2>1. PICK w \in Walls(solid, o) : u[o] + 1 <= w[o] /\ w[3 - o] = u[3 - o]
      BY WallsBeside
    <2>2. w[axis] = ua /\ w[o] \in Int
      BY <1>1, <1>4, <2>1, WallBounds
    <2>3. PICK g \in Meeting(i) : g.last[o] = w[o]
      BY <1>7, <2>2
    <2> QED
      BY <1>4, <2>1, <2>2, <2>3
  <1>10. IsFiniteSet(Meeting(i)) /\ Meeting(i) \subseteq Faces(solid)
    <2>1. Meeting(i) \in SUBSET Faces(solid)
      OBVIOUS
    <2> HIDE DEF Meeting
    <2> QED
      BY <2>1, FacesFinite, FS_Subset
  <1>11. ASSUME NEW h \in Faces(solid), NEW k \in Axes
         PROVE  h.first[k] \in Int /\ h.last[k] \in Int
    <2>1. PICK j \in Axes : IsFace(solid, j, h)
      BY FacesAre
    <2>2. h.first \in Points /\ h.last \in Points
      BY <2>1 DEF IsFace
    <2> QED
      BY <2>2, Coordinates
  <1>12. PICK M : M = Meeting(i)
    OBVIOUS
  <1> HIDE DEF Meeting, Cut
  <1>13. PICK p \in Int, q \in Int :
           /\ p = Min({h.first[o] : h \in M}) /\ p <= uo
           /\ q = Max({h.last[o] : h \in M}) /\ uo + 1 <= q
    <2> DEFINE F == [h \in M |-> h.first[o]]
               G == [h \in M |-> h.last[o]]
    <2>1. F = [h \in M |-> F[h]] /\ G = [h \in M |-> G[h]]
      OBVIOUS
    <2>2. {h.first[o] : h \in M} = {F[h] : h \in M} /\ {h.last[o] : h \in M} = {G[h] : h \in M}
      OBVIOUS
    <2>3. IsFiniteSet({F[h] : h \in M}) /\ IsFiniteSet({G[h] : h \in M})
      <3> HIDE DEF F, G
      <3> QED
        BY <1>10, <1>12, <2>1, ImageIsFinite
    <2> HIDE DEF F, G
    <2>4. /\ {h.first[o] : h \in M} \in SUBSET Int /\ {h.last[o] : h \in M} \in SUBSET Int
          /\ f.first[o] \in {h.first[o] : h \in M} /\ g.last[o] \in {h.last[o] : h \in M}
      BY <1>8, <1>9, <1>10, <1>11, <1>12
    <2>5. PICK S, T : S = {h.first[o] : h \in M} /\ T = {h.last[o] : h \in M}
      OBVIOUS
    <2>6. /\ Min(S) \in Int /\ Min(S) <= f.first[o]
          /\ Max(T) \in Int /\ g.last[o] <= Max(T)
      BY <2>2, <2>3, <2>4, <2>5, MinIsLeast, MaxIsGreatest
    <2>7. PICK p \in Int, q \in Int : p = Min(S) /\ q = Max(T)
      BY <2>6
    <2>8. PICK c \in Int, d \in Int : c = f.first[o] /\ d = g.last[o] /\ c <= uo /\ uo + 1 <= d
      BY <1>8, <1>9
    <2>9. p <= c /\ d <= q
      BY <2>6, <2>7, <2>8
    <2>10. p <= uo /\ uo + 1 <= q
      BY <1>4, <2>7, <2>8, <2>9
    <2> QED
      BY <2>5, <2>7, <2>10
  <1>14. PICK slice :
           /\ slice \in LayerSlices(solid, axis)
           /\ slice = Box([k \in Axes |-> IF k = axis THEN a ELSE Hull(M).first[k] * n],
                          [k \in Axes |-> IF k = axis THEN b ELSE Hull(M).last[k] * n])
    <2>1. M # {} /\ i \in 0..(Layers - 1)
      BY <1>2, <1>5, <1>8, <1>12
    <2> QED
      BY <1>2, <1>3, <1>6, <1>12, <2>1 DEF LayerSlices, Cut, Meeting
  <1>15. Hull(M).first[o] = p /\ Hull(M).last[o] = q
    BY <1>13 DEF Hull, Box
  <1>16. PICK c \in [Axes -> Int], d \in [Axes -> Int] :
           /\ slice = Box(c, d)
           /\ c[axis] = a /\ d[axis] = b /\ c[o] = p * n /\ d[o] = q * n
    <2> DEFINE c == [k \in Axes |-> IF k = axis THEN a ELSE Hull(M).first[k] * n]
               d == [k \in Axes |-> IF k = axis THEN b ELSE Hull(M).last[k] * n]
    <2>1. p * n \in Int /\ q * n \in Int
      OBVIOUS
    <2>2. ASSUME NEW k \in Axes
          PROVE  c[k] \in Int /\ d[k] \in Int
      <3>1. k = axis \/ k = o
        BY <1>1
      <3> QED
        BY <1>1, <1>15, <2>1, <3>1
    <2>3. c \in [Axes -> Int] /\ d \in [Axes -> Int]
      BY <2>2
    <2>4. c[axis] = a /\ d[axis] = b /\ c[o] = p * n /\ d[o] = q * n
      BY <1>1, <1>15
    <2>5. slice = Box(c, d)
      BY <1>14
    <2> HIDE DEF c, d
    <2> QED
      BY <2>3, <2>4, <2>5
  <1>17. p * n <= xo * n /\ xo * n <= q * n
    <2>1. p <= xo /\ xo <= q
      BY <1>4, <1>13
    <2> QED
      BY <2>1, MultiplesInOrder
  <1>18. big[axis] = xa * n /\ big[o] = xo * n
    BY <1>1, <1>2, <1>4
  <1>19. slice.first = c /\ slice.last = d
    BY <1>16 DEF Box
  <1>20. ASSUME NEW k \in Axes
         PROVE  slice.first[k] <= big[k] /\ big[k] <= slice.last[k]
    <2>1. k = axis \/ k = o
      BY <1>1
    <2> QED
      BY <1>6, <1>16, <1>17, <1>18, <1>19, <2>1
  <1> QED
    BY <1>14, <1>16, <1>20 DEF IsWindow, InBox
-----------------------------------------------------------------------------
(* Slabs that are all apart by the clearance, in the scale of the layers.      *)
LEMMA LayersApart ==
  ASSUME NEW a, IsSolid(a), NEW b, IsSolid(b), NEW clearance \in Nat,
         layer_support_pair_certificate(a, b, clearance), NEW u \in a, NEW v \in b
  PROVE  u # v /\ Distance(u, v) >= Squared(clearance)
  <1>1. u \in Points /\ v \in Points
    BY DEF IsSolid
  <1>2. PICK x \in Points, y \in Points :
          /\ Within(x, u) /\ Within(y, v) /\ (u = v => x = y)
          /\ Distance(u, v) = Squared(y[1] - x[1]) + Squared(y[2] - x[2])
    BY <1>1, NearestPoints
  <1>3. PICK n \in Nat \ {0} : n = Layers
    BY KernelAssumption
  <1>4. PICK z, w : z = [k \in Axes |-> x[k] * n] /\ w = [k \in Axes |-> y[k] * n]
    OBVIOUS
  <1>5. PICK axis \in Axes : axis = LayerAxis(a) /\ axis = LayerAxis(b)
    BY DEF layer_support_pair_certificate, LayerAxis, Axes
  <1>6. PICK p \in LayerSlices(a, axis) : IsWindow(p) /\ InBox(z, p)
    BY <1>2, <1>3, <1>4, SomeSliceHolds
  <1>7. PICK q \in LayerSlices(b, axis) : IsWindow(q) /\ InBox(w, q)
    BY <1>2, <1>3, <1>4, SomeSliceHolds
  <1>8. bounds_disjoint(p, q) /\ SquaredGap(p, q) >= Squared(clearance * n)
    BY <1>3, <1>5, <1>6, <1>7 DEF layer_support_pair_certificate
  <1>9. PICK x1 \in Int, x2 \in Int, y1 \in Int, y2 \in Int :
          /\ x1 = x[1] /\ x2 = x[2] /\ y1 = y[1] /\ y2 = y[2]
          /\ z[1] = x1 * n /\ z[2] = x2 * n /\ w[1] = y1 * n /\ w[2] = y2 * n
    BY <1>4 DEF Points, Axes
  <1>10. \A k \in Axes : z[k] \in Int /\ w[k] \in Int
    <2>1. x1 * n \in Int /\ x2 * n \in Int /\ y1 * n \in Int /\ y2 * n \in Int
      OBVIOUS
    <2> QED
      BY <1>9, <2>1 DEF Axes
  <1>11. /\ SquaredGap(p, q) \in Nat
         /\ SquaredGap(p, q) <= Squared(w[1] - z[1]) + Squared(w[2] - z[2])
         /\ \E k \in Axes : z[k] # w[k]
    BY <1>6, <1>7, <1>8, <1>10, GapWithin
  <1>12. u # v
    <2>1. x # y
      BY <1>4, <1>11
    <2> QED
      BY <1>2, <2>1
  <1>13. PICK far \in Nat, c \in Nat, s \in Nat :
           /\ far = Squared(y1 - x1) + Squared(y2 - x2)
           /\ c = Squared(clearance) /\ s = Squared(n)
    <2>1. y1 - x1 \in Int /\ y2 - x2 \in Int
      OBVIOUS
    <2>2. /\ Squared(y1 - x1) \in Nat /\ Squared(y2 - x2) \in Nat
          /\ Squared(clearance) \in Nat /\ Squared(n) \in Nat
      BY <2>1, SquareOfOpposite
    <2> QED
      BY <2>2
  <1>14. Squared(w[1] - z[1]) + Squared(w[2] - z[2]) = far * s
    <2>1. Squared(y1 * n - x1 * n) + Squared(y2 * n - x2 * n)
            = (Squared(y1 - x1) + Squared(y2 - x2)) * Squared(n)
      BY DEF Squared
    <2> QED
      BY <1>9, <1>13, <2>1
  <1>15. Squared(clearance * n) = c * s
    <2>1. Squared(clearance * n) = Squared(clearance) * Squared(n)
      BY DEF Squared
    <2> QED
      BY <1>13, <2>1
  <1>16. c * s <= far * s
    <2>1. c * s \in Int /\ far * s \in Int
      OBVIOUS
    <2> QED
      BY <1>8, <1>11, <1>14, <1>15, <2>1
  <1>17. c <= far
    <2>1. s # 0
      BY <1>13 DEF Squared
    <2>2. s \in Nat \ {0} /\ c \in Int /\ far \in Int
      BY <2>1
    <2> QED
      BY <1>16, <2>2, MultiplesInOrder
  <1>18. Distance(u, v) = far
    BY <1>2, <1>9, <1>13
  <1> QED
    BY <1>12, <1>13, <1>17, <1>18

(* What accepts a pair before the kernel places its solids and looks at their  *)
(* surfaces - bounds that are apart, a gap of bounds of at least the clearance,*)
(* a slanted strip, slabs that are apart one by one - is right: the solids     *)
(* share nothing and keep the clearance, whatever their shapes (validation.cpp *)
(* bounds_pair_certificate, support_pair_certificate and                       *)
(* layer_support_pair_certificate).                                            *)
THEOREM AcceptedPairsAreApart ==
  ASSUME NEW a, IsSolid(a), NEW b, IsSolid(b), NEW x \in Poses, NEW y \in Poses,
         NEW clearance \in Nat,
         \/ bounds_pair_certificate(posed_bounds(a, x), posed_bounds(b, y), clearance)
         \/ SupportsAccept(a, x, b, y, clearance)
  PROVE  KeepsApart(a, b, clearance)
  <1>1. SUFFICES ASSUME NEW u \in a, NEW v \in b
                 PROVE  u # v /\ Distance(u, v) >= Squared(clearance)
    BY DEF KeepsApart
  <1>2. CASE bounds_pair_certificate(posed_bounds(a, x), posed_bounds(b, y), clearance)
    BY <1>2, BoundsAccept
  <1>3. CASE support_pair_certificate(a, b, clearance)
    BY <1>3, SupportsApart
  <1>4. CASE layer_support_pair_certificate(a, b, clearance)
    BY <1>4, LayersApart
  <1> QED
    BY <1>2, <1>3, <1>4 DEF SupportsAccept
-----------------------------------------------------------------------------
(* Recursion over parts of a set                                               *)

(* What a step of a recursion makes of the results of its calls.               *)
Joined(kind, x, a, b) ==
  IF kind = "append" THEN Append(a, x)
  ELSE IF kind = "insert" THEN {x} \cup a
  ELSE IF kind = "union" THEN a \cup b
  ELSE a

(* The calls of a recursion are on smaller arguments.                          *)
Descends(D, size, top, stop, l, r) ==
  /\ size \in [D -> Nat] /\ top \in Nat /\ \A d \in D : size[d] < top
  /\ \A d \in D \ stop : /\ l[d] \in D /\ size[l[d]] < size[d]
                         /\ r[d] \in D /\ size[r[d]] < size[d]

IsSolution(f, D, kind, stop, base, x, l, r) ==
  /\ f = [d \in D |-> f[d]]
  /\ \A d \in D : f[d] = IF d \in stop THEN base[d]
                         ELSE Joined(kind, x[d], f[l[d]], f[r[d]])

(* A recursion that calls itself on smaller arguments only has a solution: it  *)
(* is made of those for the arguments below a size.                            *)
LEMMA SomeSolution ==
  ASSUME NEW D, NEW size, NEW top, NEW stop, NEW l, NEW r, Descends(D, size, top, stop, l, r),
         NEW kind, NEW base, NEW x
  PROVE  \E f : IsSolution(f, D, kind, stop, base, x, l, r)
  <1> DEFINE Step(f, d) == IF d \in stop THEN base[d] ELSE Joined(kind, x[d], f[l[d]], f[r[d]])
             Solves(f, n) == /\ f = [d \in D |-> f[d]]
                             /\ \A d \in D : size[d] < n => f[d] = Step(f, d)
             bad == {n \in Nat : ~\E f : Solves(f, n)}
  <1>0. /\ size \in [D -> Nat] /\ top \in Nat /\ \A d \in D : size[d] < top
        /\ \A d \in D \ stop : /\ l[d] \in D /\ size[l[d]] < size[d]
                               /\ r[d] \in D /\ size[r[d]] < size[d]
    BY DEF Descends
  <1>1. bad = {}
    <2>1. SUFFICES ASSUME bad # {}
                   PROVE  FALSE
      OBVIOUS
    <2>2. PICK n \in bad : \A m \in bad : n <= m
      <3>1. bad \in SUBSET Nat
        OBVIOUS
      <3> HIDE DEF bad
      <3> QED
        BY <2>1, <3>1, LeastNat
    <2>3. n \in Nat /\ ~\E f : Solves(f, n)
      BY <2>2
    <2>4. \A d \in D : size[d] \in Nat
      BY <1>0
    <2>5. CASE n = 0
      <3> DEFINE f == [d \in D |-> 0]
      <3>1. f = [d \in D |-> f[d]]
        OBVIOUS
      <3>2. \A d \in D : ~(size[d] < n)
        BY <2>4, <2>5
      <3>3. Solves(f, n)
        <4> HIDE DEF f, Step
        <4> QED
          BY <3>1, <3>2
      <3> HIDE DEF Solves, f
      <3> QED
        BY <2>3, <3>3
    <2>6. CASE n # 0
      <3>1. n - 1 \in Nat /\ n - 1 \notin bad
        <4> HIDE DEF bad
        <4> QED
          BY <2>2, <2>3, <2>6
      <3>2. PICK h : Solves(h, n - 1)
        <4> HIDE DEF Solves
        <4> QED
          BY <3>1
      <3> DEFINE g == [d \in D |-> Step(h, d)]
      <3>3. \A d \in D : g[d] = Step(h, d)
        <4> HIDE DEF Step
        <4> QED OBVIOUS
      <3>4. g = [d \in D |-> g[d]]
        <4> HIDE DEF Step
        <4> QED OBVIOUS
      <3>5. \A d \in D : size[d] < n - 1 => h[d] = Step(h, d)
        <4> HIDE DEF Step
        <4> QED
          BY <3>2
      <3>6. \A d \in D : size[d] < n - 1 => g[d] = h[d]
        <4> HIDE DEF Step, g
        <4> QED
          BY <3>3, <3>5
      <3>7. ASSUME NEW d \in D, size[d] < n
            PROVE  g[d] = Step(g, d)
        <4>1. CASE d \in stop
          <5> HIDE DEF g
          <5> QED
            BY <3>3, <4>1
        <4>2. CASE d \notin stop
          <5>1. /\ l[d] \in D /\ r[d] \in D
                /\ size[l[d]] < size[d] /\ size[r[d]] < size[d]
            BY <1>0, <4>2
          <5>2. size[l[d]] < n - 1 /\ size[r[d]] < n - 1
            <6>1. PICK i \in Nat, j \in Nat, m \in Nat :
                    i = size[l[d]] /\ j = size[r[d]] /\ m = size[d]
              BY <2>4, <5>1
            <6>2. i < m /\ j < m /\ m < n
              BY <3>7, <5>1, <6>1
            <6>3. i < n - 1 /\ j < n - 1
              BY <2>3, <6>1, <6>2
            <6> QED
              BY <6>1, <6>3
          <5>3. g[l[d]] = h[l[d]] /\ g[r[d]] = h[r[d]]
            <6> HIDE DEF g
            <6> QED
              BY <3>6, <5>1, <5>2
          <5> HIDE DEF g
          <5> QED
            BY <3>3, <4>2, <5>3
        <4> QED
          BY <4>1, <4>2
      <3>8. Solves(g, n)
        <4> HIDE DEF g, Step
        <4> QED
          BY <3>4, <3>7
      <3> HIDE DEF Solves, g
      <3> QED
        BY <2>3, <3>8
    <2> QED
      BY <2>5, <2>6
  <1>2. PICK f : Solves(f, top)
    <2> HIDE DEF Solves
    <2> QED
      BY <1>0, <1>1
  <1>3. f = [d \in D |-> f[d]] /\ \A d \in D : f[d] = Step(f, d)
    <2> HIDE DEF Step
    <2> QED
      BY <1>0, <1>2
  <1> QED
    BY <1>3 DEF IsSolution

(* Fewer than one more than there are.                                         *)
LEMMA SizesOfParts ==
  ASSUME NEW S, IsFiniteSet(S)
  PROVE  /\ [s \in SUBSET S |-> Cardinality(s)] \in [SUBSET S -> Nat]
         /\ Cardinality(S) + 1 \in Nat
         /\ \A s \in SUBSET S : /\ IsFiniteSet(s) /\ Cardinality(s) \in Nat
                                /\ Cardinality(s) < Cardinality(S) + 1
         /\ \A s \in SUBSET S : \A t \in SUBSET s :
              t # s => Cardinality(t) < Cardinality(s)
  <1>1. ASSUME NEW s \in SUBSET S
        PROVE  IsFiniteSet(s) /\ Cardinality(s) \in Nat /\ Cardinality(s) <= Cardinality(S)
    BY FS_Subset, FS_CardinalityType
  <1>2. Cardinality(S) \in Nat
    BY FS_CardinalityType
  <1>3. ASSUME NEW s \in SUBSET S, NEW t \in SUBSET s, t # s
        PROVE  Cardinality(t) < Cardinality(s)
    BY <1>1, <1>3, FS_Subset, FS_CardinalityType
  <1>4. \A s \in SUBSET S : Cardinality(s) < Cardinality(S) + 1
    BY <1>1, <1>2
  <1> QED
    BY <1>1, <1>2, <1>3, <1>4
-----------------------------------------------------------------------------
(* The mesh of a solid                                                         *)

(* A solution of the recursion that orders some faces, over all their parts.   *)
Orders(g, S) ==
  g = [s \in SUBSET S |-> IF s = {} THEN <<>>
                          ELSE Append(g[s \ {CHOOSE x \in s : TRUE}], CHOOSE x \in s : TRUE)]

(* The recursion that orders some faces has a solution.                        *)
LEMMA SomeOrder ==
  ASSUME NEW S, IsFiniteSet(S)
  PROVE  \E g : Orders(g, S)
  <1> DEFINE D == SUBSET S
             x == [s \in D |-> CHOOSE e \in s : TRUE]
             l == [s \in D |-> s \ {x[s]}]
             size == [s \in D |-> Cardinality(s)]
             base == [s \in D |-> <<>>]
             stop == {{}}
  <1>1. \A s \in D \ {{}} : x[s] = (CHOOSE e \in s : TRUE) /\ x[s] \in s
    OBVIOUS
  <1>2. \A s \in D \ {{}} : l[s] = s \ {x[s]} /\ l[s] \in D
    OBVIOUS
  <1>3. \A s \in D : size[s] = Cardinality(s) /\ base[s] = <<>>
    OBVIOUS
  <1>4. PICK top : top = Cardinality(S) + 1
    OBVIOUS
  <1>5. size \in [D -> Nat] /\ top \in Nat /\ \A s \in D : size[s] < top
    BY <1>3, <1>4, SizesOfParts
  <1>6. \A s \in D \ {{}} : size[l[s]] < size[s]
    <2>1. \A s \in D \ {{}} : l[s] \in SUBSET s /\ l[s] # s
      <3> HIDE DEF x, l
      <3> QED
        BY <1>1, <1>2
    <2> HIDE DEF x, l, size
    <2> QED
      BY <1>2, <1>3, <2>1, SizesOfParts
  <1>7. PICK g : /\ g = [s \in D |-> g[s]]
                 /\ \A s \in D : g[s] = IF s \in stop THEN base[s]
                                         ELSE Joined("append", x[s], g[l[s]], g[l[s]])
    <2>1. \A s \in D \ stop : l[s] \in D /\ size[l[s]] < size[s]
      <3> HIDE DEF x, l, size, D, base
      <3> QED
        BY <1>2, <1>6
    <2>2. Descends(D, size, top, stop, l, l)
      <3> HIDE DEF x, l, size, D, base, stop
      <3> QED
        BY <1>5, <2>1 DEF Descends
    <2>3. \E g : IsSolution(g, D, "append", stop, base, x, l, l)
      <3> HIDE DEF x, l, size, D, base, stop
      <3> QED
        BY <2>2, SomeSolution
    <2> HIDE DEF x, l, size, D, base, stop
    <2> QED
      BY <2>3 DEF IsSolution
  <1>8. ASSUME NEW s \in D
        PROVE  g[s] = IF s = {} THEN <<>>
                      ELSE Append(g[s \ {CHOOSE e \in s : TRUE}], CHOOSE e \in s : TRUE)
    <2>1. CASE s = {}
      <3> HIDE DEF x, l, D, base
      <3> QED
        BY <1>3, <1>7, <2>1
    <2>2. CASE s # {}
      <3>1. s \in D \ {{}} /\ s \notin stop
        BY <2>2
      <3>2. g[s] = Append(g[l[s]], x[s])
        <4> HIDE DEF x, l, D, base, stop
        <4> QED
          BY <1>7, <3>1 DEF Joined
      <3> HIDE DEF x, l, D, base, stop
      <3> QED
        BY <1>1, <1>2, <2>2, <3>1, <3>2
    <2> QED
      BY <2>1, <2>2
  <1>9. Orders(g, S)
    <2> HIDE DEF x, l, size, base
    <2> QED
      BY <1>7, <1>8 DEF Orders
  <1> QED
    BY <1>9

(* Every solution makes a sequence of all the faces.                           *)
LEMMA OrderHasAll ==
  ASSUME NEW S, IsFiniteSet(S), NEW g, Orders(g, S)
  PROVE  /\ g[S] \in Seq(S)
         /\ {g[S][i] : i \in 1..Len(g[S])} = S
  <1> DEFINE x(s) == CHOOSE e \in s : TRUE
             Right(s) == g[s] \in Seq(S) /\ {g[s][i] : i \in 1..Len(g[s])} = s
             bad == {n \in Nat : \E s \in SUBSET S : Cardinality(s) = n /\ ~Right(s)}
  <1>1. ASSUME NEW s \in SUBSET S
        PROVE  g[s] = IF s = {} THEN <<>> ELSE Append(g[s \ {x(s)}], x(s))
    BY DEF Orders
  <1>2. bad = {}
    <2>1. SUFFICES ASSUME bad # {}
                   PROVE  FALSE
      OBVIOUS
    <2>2. PICK n \in bad : \A m \in bad : n <= m
      <3>1. bad \in SUBSET Nat
        OBVIOUS
      <3> HIDE DEF bad
      <3> QED
        BY <2>1, <3>1, LeastNat
    <2>3. PICK s \in SUBSET S : Cardinality(s) = n /\ ~Right(s) /\ n \in Nat
      BY <2>2
    <2>4. CASE s = {}
      <3>1. g[s] = <<>>
        BY <1>1, <2>4
      <3>2. Len(<<>>) = 0 /\ <<>> \in Seq(S) /\ 1..0 = {}
        OBVIOUS
      <3> QED
        BY <2>3, <2>4, <3>1, <3>2
    <2>5. CASE s # {}
      <3>1. PICK e, t : e = x(s) /\ e \in s /\ t = s \ {e} /\ t \in SUBSET S
        <4>1. x(s) \in s
          BY <2>5
        <4>2. s \in SUBSET S
          BY <2>3
        <4> HIDE DEF x, bad, Right
        <4>3. PICK e : e = x(s)
          OBVIOUS
        <4>4. PICK t : t = s \ {e}
          OBVIOUS
        <4>5. t \in SUBSET S
          BY <4>2, <4>4
        <4> QED
          BY <4>1, <4>3, <4>4, <4>5
      <3>2. Cardinality(t) = n - 1 /\ n - 1 \in Nat
        <4>1. IsFiniteSet(s) /\ IsFiniteSet(t)
          BY <3>1, FS_Subset
        <4>2. Cardinality(t) = Cardinality(s) - 1 /\ Cardinality(t) \in Nat
          <5> HIDE DEF x
          <5> QED
            BY <3>1, <4>1, FS_RemoveElement, FS_CardinalityType
        <4> HIDE DEF x, Right, bad
        <4> QED
          BY <2>3, <4>2
      <3>3. Right(t)
        <4>1. n - 1 \notin bad
          <5> HIDE DEF bad
          <5> QED
            BY <2>2, <2>3, <3>2
        <4> QED
          BY <3>1, <3>2, <4>1
      <3>4. PICK q : q = g[t]
        OBVIOUS
      <3>5. q \in Seq(S) /\ {q[i] : i \in 1..Len(q)} = t /\ g[s] = Append(q, e)
        <4>1. g[s] = Append(g[t], e)
          <5> HIDE DEF x
          <5> QED
            BY <1>1, <2>3, <2>5, <3>1
        <4>2. g[t] \in Seq(S) /\ {g[t][i] : i \in 1..Len(g[t])} = t
          BY <3>3
        <4> QED
          BY <3>4, <4>1, <4>2
      <3>6. PICK m \in Nat : m = Len(q)
        BY <3>5
      <3>7. /\ Append(q, e) \in Seq(S) /\ Len(Append(q, e)) = m + 1
            /\ \A i \in 1..m : Append(q, e)[i] = q[i]
            /\ Append(q, e)[m + 1] = e
        BY <3>1, <3>5, <3>6
      <3>8. {Append(q, e)[i] : i \in 1..(m + 1)} = s
        <4>1. ASSUME NEW i \in 1..(m + 1)
              PROVE  Append(q, e)[i] \in s
          <5>1. i \in 1..m \/ i = m + 1
            BY <3>6
          <5>2. ASSUME i \in 1..m
                PROVE  Append(q, e)[i] \in t
            BY <3>5, <3>6, <3>7, <5>2
          <5> QED
            BY <3>1, <3>7, <5>1, <5>2
        <4>2. ASSUME NEW y \in s
              PROVE  \E i \in 1..(m + 1) : Append(q, e)[i] = y
          <5>1. CASE y = e
            <6>1. m + 1 \in 1..(m + 1)
              BY <3>6
            <6> QED
              BY <3>7, <5>1, <6>1
          <5>2. CASE y # e
            <6>1. PICK i \in 1..m : q[i] = y
              BY <3>1, <3>5, <3>6, <5>2
            <6>2. i \in 1..(m + 1)
              BY <3>6
            <6> QED
              BY <3>7, <6>1, <6>2
          <5> QED
            BY <5>1, <5>2
        <4> QED
          BY <4>1, <4>2
      <3>9. Right(s)
        BY <3>5, <3>7, <3>8
      <3> QED
        BY <2>3, <3>9
    <2> QED
      BY <2>4, <2>5
  <1>3. Right(S)
    <2>1. Cardinality(S) \in Nat /\ S \in SUBSET S
      BY FS_CardinalityType
    <2> HIDE DEF Right
    <2> QED
      BY <1>2, <2>1
  <1> QED
    BY <1>3

(* What a placed solid is known by.                                            *)
IsPlaced(p, solid, pose) ==
  /\ p.solid = solid /\ p.pose = pose /\ p.extent = Extent(solid)
  /\ p.bounds = Outward(Extent(solid), pose)
  /\ p.cuboid <=> certify_cuboid(solid) /\ pose.cardinal
  /\ p.witnesses = shell_witnesses(Faces(solid))
  /\ p.mesh \in Seq(Faces(solid)) /\ DOMAIN p.mesh \subseteq Nat
  /\ IsFiniteSet(DOMAIN p.mesh) /\ {p.mesh[i] : i \in DOMAIN p.mesh} = Faces(solid)

(* A placed solid is known by its bounds, its witnesses and a mesh of its      *)
(* faces (prepare, place).                                                     *)
LEMMA PlacedIs ==
  ASSUME NEW solid, IsSolid(solid), NEW pose \in Poses
  PROVE  IsPlaced(place(solid, pose), solid, pose)
  <1>0. PICK p : p = place(solid, pose)
    OBVIOUS
  <1>1. PICK S : S = Faces(solid) /\ IsFiniteSet(S)
    BY FacesFinite
  <1>2. PICK g : g = CHOOSE h : Orders(h, S)
    OBVIOUS
  <1>3. FoldSet(LAMBDA f, mesh : Append(mesh, f), <<>>, S) = g[S]
    BY <1>2 DEF FoldSet, MapThenFoldSet, Orders
  <1>4. g[S] \in Seq(S) /\ {g[S][i] : i \in 1..Len(g[S])} = S
    <2>1. Orders(g, S)
      BY <1>1, <1>2, SomeOrder
    <2> QED
      BY <1>1, <2>1, OrderHasAll
  <1>5. /\ p.solid = solid /\ p.pose = pose /\ p.extent = Extent(solid)
        /\ p.bounds = Outward(Extent(solid), pose)
        /\ p.cuboid <=> certify_cuboid(solid) /\ pose.cardinal
        /\ p.witnesses = shell_witnesses(Faces(solid))
        /\ p.mesh = FoldSet(LAMBDA f, mesh : Append(mesh, f), <<>>, Faces(solid))
    BY <1>0 DEF place, posed_bounds, prepare
  <1>6. p.mesh = g[S]
    BY <1>1, <1>3, <1>5
  <1>7. DOMAIN p.mesh = 1..Len(g[S]) /\ IsFiniteSet(DOMAIN p.mesh)
    <2>1. DOMAIN p.mesh = 1..Len(g[S]) /\ Len(g[S]) \in Nat
      BY <1>4, <1>6
    <2>2. 1 \in Int /\ Len(g[S]) \in Int
      BY <2>1
    <2> QED
      BY <2>1, <2>2, FS_Interval
  <1>8. p.mesh \in Seq(Faces(solid)) /\ {p.mesh[i] : i \in DOMAIN p.mesh} = Faces(solid)
    <2>1. {p.mesh[i] : i \in DOMAIN p.mesh} = {g[S][i] : i \in 1..Len(g[S])}
      BY <1>6, <1>7
    <2> QED
      BY <1>1, <1>4, <1>6, <2>1
  <1>9. DOMAIN p.mesh \subseteq Nat
    BY <1>7
  <1> QED
    BY <1>0, <1>5, <1>7, <1>8, <1>9 DEF IsPlaced
-----------------------------------------------------------------------------
(* The blocks of a mesh                                                        *)

(* Where the faces of a mesh are.                                              *)
LEMMA MeshHasFaces ==
  ASSUME NEW solid, IsSolid(solid), NEW pose, NEW p, IsPlaced(p, solid, pose)
  PROVE  /\ \A i \in DOMAIN p.mesh :
              /\ p.mesh[i] \in Faces(solid) /\ p.mesh[i].first \in Points
              /\ p.mesh[i].last \in Points
              /\ \A k \in Axes : p.mesh[i].first[k] \in Int /\ p.mesh[i].last[k] \in Int
         /\ \A f \in Faces(solid) : \E i \in DOMAIN p.mesh : p.mesh[i] = f
         /\ DOMAIN p.mesh \subseteq Nat /\ IsFiniteSet(DOMAIN p.mesh)
  <1>1. \A i \in DOMAIN p.mesh : p.mesh[i] \in Faces(solid)
    BY DEF IsPlaced
  <1>2. ASSUME NEW f \in Faces(solid)
        PROVE  /\ f.first \in Points /\ f.last \in Points
               /\ \A k \in Axes : f.first[k] \in Int /\ f.last[k] \in Int
    <2>1. f.first \in Points /\ f.last \in Points
      BY FacesAre DEF IsFace
    <2> QED
      BY <2>1 DEF Points, Axes
  <1>3. \A f \in Faces(solid) : \E i \in DOMAIN p.mesh : p.mesh[i] = f
    BY DEF IsPlaced
  <1> QED
    BY <1>1, <1>2, <1>3 DEF IsPlaced

(* Among some faces one comes first, and one last.                             *)
LEMMA FirstAndLast ==
  ASSUME NEW part, part \subseteq Nat, IsFiniteSet(part), part # {},
         NEW p, NEW axis, \A i \in part : p.mesh[i].first[axis] \in Int
  PROVE  /\ \E m \in part : \A i \in part : ~Before(p, i, m, axis)
         /\ \E m \in part : /\ ~Before(p, m, m, axis)
                            /\ \A i \in part \ {m} : Before(p, i, m, axis)
  <1>1. PICK a : a = [i \in part |-> p.mesh[i].first[axis]]
    OBVIOUS
  <1>2. \A i \in part : a[i] = p.mesh[i].first[axis] /\ a[i] \in Int /\ i \in Nat
    BY <1>1
  <1>3. ASSUME NEW sign \in {1, -1}
        PROVE  \E m \in part : \A i \in part : /\ sign * a[i] <= sign * a[m]
                                               /\ a[i] = a[m] => sign * i <= sign * m
    <2>1. PICK values : values = {a[i] : i \in part}
      OBVIOUS
    <2>2. IsFiniteSet(values)
      BY <1>1, <2>1, ImageIsFinite
    <2>3. values \in SUBSET Int /\ values # {}
      BY <1>2, <2>1
    <2>4. PICK v \in values : \A w \in values : sign * w <= sign * v
      BY <2>2, <2>3, Extreme
    <2>5. PICK ties : ties = {i \in part : a[i] = v}
      OBVIOUS
    <2>6. ties # {} /\ ties \in SUBSET Int /\ IsFiniteSet(ties)
      <3>1. ties # {}
        BY <2>1, <2>5
      <3>2. ties \in SUBSET part /\ part \in SUBSET Int
        BY <2>5
      <3> QED
        BY <3>1, <3>2, FS_Subset
    <2>7. PICK m \in ties : \A i \in ties : sign * i <= sign * m
      BY <2>6, Extreme
    <2> QED
      BY <2>1, <2>4, <2>5, <2>7
  <1>4. \E m \in part : \A i \in part : ~Before(p, i, m, axis)
    <2>0. PICK sign \in {1, -1} : sign = -1
      OBVIOUS
    <2>1. PICK m \in part : \A i \in part : /\ sign * a[i] <= sign * a[m]
                                            /\ a[i] = a[m] => sign * i <= sign * m
      BY <1>3
    <2>2. ASSUME NEW i \in part
          PROVE  ~(a[i] < a[m] \/ (a[i] = a[m] /\ i < m))
      BY <1>2, <2>0, <2>1
    <2> QED
      BY <1>2, <2>2 DEF Before
  <1>5. \E m \in part : /\ ~Before(p, m, m, axis)
                        /\ \A i \in part \ {m} : Before(p, i, m, axis)
    <2>1. PICK m \in part : \A i \in part : /\ 1 * a[i] <= 1 * a[m]
                                            /\ a[i] = a[m] => 1 * i <= 1 * m
      BY <1>3
    <2>2. ASSUME NEW i \in part \ {m}
          PROVE  a[i] < a[m] \/ (a[i] = a[m] /\ i < m)
      BY <1>2, <2>1
    <2>3. ~(a[m] < a[m]) /\ ~(m < m)
      BY <1>2
    <2> QED
      BY <1>2, <2>2, <2>3 DEF Before
  <1> QED
    BY <1>4, <1>5

(* The lower half of too many faces has some of them, but not all.             *)
LEMMA HalvesAreParts ==
  ASSUME NEW solid, IsSolid(solid), NEW pose, NEW p, IsPlaced(p, solid, pose),
         NEW part \in SUBSET (DOMAIN p.mesh), ~(Cardinality(part) <= BlockSize)
  PROVE  /\ LowerHalf(p, part) \in SUBSET part
         /\ LowerHalf(p, part) # part /\ LowerHalf(p, part) # {}
  <1>1. /\ part \subseteq Nat /\ IsFiniteSet(part)
        /\ \A i \in part : \A k \in Axes : p.mesh[i].first[k] \in Int
    BY MeshHasFaces, FS_Subset
  <1>2. PICK n \in Nat : n = Cardinality(part)
    BY <1>1, FS_CardinalityType
  <1>3. PICK axis \in Axes : axis = LongAxis(Hull({FaceBounds(p, i) : i \in part}))
    BY DEF LongAxis, Axes
  <1>4. PICK middle \in Int :
          /\ middle = Max({BlockSize, (n \div (2 * BlockSize)) * BlockSize})
          /\ 0 < middle /\ middle < n
    <2>1. PICK b \in Nat \ {0} : b = BlockSize
      BY KernelAssumption
    <2>2. b < n
      BY <1>2, <2>1
    <2>3. PICK d \in Nat \ {0} : d = 2 * b
      BY <2>1
    <2>4. PICK q \in Int : q = n \div d /\ q * d <= n
      BY <1>2, <2>3, QuotientBounds
    <2>5. PICK x \in Int : x = q * b
      BY <2>1, <2>4
    <2>6. q * d = 2 * x
      BY <2>3, <2>4, <2>5
    <2>7. x < n
      BY <1>2, <2>2, <2>4, <2>5, <2>6
    <2>8. Max({b, x}) = IF b > x THEN b ELSE x
      BY <2>1, <2>5, OfTwo
    <2>9. Max({b, x}) \in Int /\ 0 < Max({b, x}) /\ Max({b, x}) < n
      BY <2>1, <2>2, <2>5, <2>7, <2>8
    <2> QED
      BY <2>1, <2>3, <2>4, <2>5, <2>9
  <1>5. LowerHalf(p, part)
          = {j \in part : Cardinality({i \in part : Before(p, i, j, axis)}) < middle}
    BY <1>2, <1>3, <1>4 DEF LowerHalf
  <1>6. part # {}
    <2>1. ASSUME part = {}
          PROVE  Cardinality(part) = 0
      BY <2>1, FS_EmptySet
    <2>2. n # 0
      BY <1>2, <1>4
    <2> QED
      BY <1>2, <2>1, <2>2
  <1>7. \A i \in part : p.mesh[i].first[axis] \in Int
    BY <1>1
  <1>8. LowerHalf(p, part) # {}
    <2>1. PICK m \in part : \A i \in part : ~Before(p, i, m, axis)
      BY <1>1, <1>6, <1>7, FirstAndLast
    <2>2. {i \in part : Before(p, i, m, axis)} = {}
      BY <2>1
    <2>3. Cardinality({i \in part : Before(p, i, m, axis)}) = 0
      BY <2>2, FS_EmptySet
    <2> QED
      BY <1>4, <1>5, <2>3
  <1>9. LowerHalf(p, part) # part
    <2>1. PICK m \in part : /\ ~Before(p, m, m, axis)
                            /\ \A i \in part \ {m} : Before(p, i, m, axis)
      BY <1>1, <1>6, <1>7, FirstAndLast
    <2>2. {i \in part : Before(p, i, m, axis)} = part \ {m}
      BY <2>1
    <2>3. Cardinality(part \ {m}) = n - 1
      BY <1>1, <1>2, FS_RemoveElement
    <2>4. ~(n - 1 < middle)
      BY <1>2, <1>4
    <2>5. m \notin LowerHalf(p, part)
      BY <1>5, <2>2, <2>3, <2>4
    <2> QED
      BY <2>5
  <1> QED
    BY <1>5, <1>8, <1>9

(* A solution of the recursion that divides a mesh.                            *)
Divides(g, p) ==
  g = [part \in SUBSET (DOMAIN p.mesh) |->
         IF Cardinality(part) <= BlockSize THEN {part}
         ELSE g[LowerHalf(p, part)] \cup g[part \ LowerHalf(p, part)]]

(* The recursion that divides a mesh has a solution.                           *)
LEMMA SomeDivision ==
  ASSUME NEW solid, IsSolid(solid), NEW pose, NEW p, IsPlaced(p, solid, pose)
  PROVE  \E g : Divides(g, p)
  <1>1. PICK S : S = DOMAIN p.mesh /\ IsFiniteSet(S)
    BY DEF IsPlaced
  <1> DEFINE D == SUBSET S
             stop == {part \in D : Cardinality(part) <= BlockSize}
             l == [part \in D |-> LowerHalf(p, part)]
             r == [part \in D |-> part \ LowerHalf(p, part)]
             size == [part \in D |-> Cardinality(part)]
             base == [part \in D |-> {part}]
  <1>2. \A part \in D : /\ l[part] = LowerHalf(p, part) /\ r[part] = part \ LowerHalf(p, part)
                        /\ size[part] = Cardinality(part) /\ base[part] = {part}
                        /\ part \in stop <=> Cardinality(part) <= BlockSize
    OBVIOUS
  <1>3. PICK top : top = Cardinality(S) + 1
    OBVIOUS
  <1>4. size \in [D -> Nat] /\ top \in Nat /\ \A part \in D : size[part] < top
    BY <1>1, <1>2, <1>3, SizesOfParts
  <1>5. ASSUME NEW part \in D \ stop
        PROVE  /\ l[part] \in D /\ size[l[part]] < size[part]
               /\ r[part] \in D /\ size[r[part]] < size[part]
    <2>1. part \in D /\ ~(Cardinality(part) <= BlockSize)
      OBVIOUS
    <2>2. PICK lower : lower = LowerHalf(p, part)
      OBVIOUS
    <2>3. lower \in SUBSET part /\ lower # part /\ lower # {}
      BY <1>1, <2>1, <2>2, HalvesAreParts
    <2>4. part \ lower \in SUBSET part /\ part \ lower # part /\ lower \in D /\ part \ lower \in D
      BY <2>1, <2>3
    <2>5. Cardinality(lower) < Cardinality(part) /\ Cardinality(part \ lower) < Cardinality(part)
      BY <1>1, <2>1, <2>3, <2>4, SizesOfParts
    <2> HIDE DEF l, r, size, D, stop
    <2> QED
      BY <1>2, <2>1, <2>2, <2>4, <2>5
  <1>6. Descends(D, size, top, stop, l, r)
    <2> HIDE DEF l, r, size, D, stop
    <2> QED
      BY <1>4, <1>5 DEF Descends
  <1>7. PICK g : IsSolution(g, D, "union", stop, base, base, l, r)
    <2> HIDE DEF l, r, size, D, stop, base
    <2> QED
      BY <1>6, SomeSolution
  <1>8. g = [part \in D |-> g[part]]
    <2> HIDE DEF l, r, D, stop, base
    <2> QED
      BY <1>7 DEF IsSolution
  <1>9. ASSUME NEW part \in D
        PROVE  g[part] = IF Cardinality(part) <= BlockSize THEN {part}
                         ELSE g[LowerHalf(p, part)] \cup g[part \ LowerHalf(p, part)]
    <2>1. g[part] = IF part \in stop THEN base[part] ELSE g[l[part]] \cup g[r[part]]
      <3> HIDE DEF l, r, D, stop, base
      <3> QED
        BY <1>7 DEF IsSolution, Joined
    <2> HIDE DEF l, r, D, stop, base
    <2> QED
      BY <1>2, <2>1
  <1>10. Divides(g, p)
    <2> HIDE DEF l, r, stop, base, size
    <2> QED
      BY <1>1, <1>8, <1>9 DEF Divides
  <1> QED
    BY <1>10

(* Every face is in a block.                                                   *)
LEMMA BlocksCover ==
  ASSUME NEW solid, IsSolid(solid), NEW pose, NEW p, IsPlaced(p, solid, pose)
  PROVE  /\ partition_triangle_bounds(p) \subseteq SUBSET (DOMAIN p.mesh)
         /\ \A i \in DOMAIN p.mesh : \E block \in partition_triangle_bounds(p) : i \in block
  <1>1. PICK S : S = DOMAIN p.mesh /\ IsFiniteSet(S)
    BY DEF IsPlaced
  <1>2. PICK g : g = CHOOSE h : Divides(h, p)
    OBVIOUS
  <1>3. partition_triangle_bounds(p) = g[S]
    BY <1>1, <1>2 DEF partition_triangle_bounds, Divides
  <1>4. Divides(g, p)
    BY <1>2, SomeDivision
  <1>5. ASSUME NEW part \in SUBSET S
        PROVE  g[part] = IF Cardinality(part) <= BlockSize THEN {part}
                         ELSE g[LowerHalf(p, part)] \cup g[part \ LowerHalf(p, part)]
    BY <1>1, <1>4 DEF Divides
  <1> DEFINE Right(part) == /\ g[part] \subseteq SUBSET part
                            /\ \A i \in part : \E block \in g[part] : i \in block
             bad == {n \in Nat : \E part \in SUBSET S : Cardinality(part) = n /\ ~Right(part)}
  <1>6. bad = {}
    <2>1. SUFFICES ASSUME bad # {}
                   PROVE  FALSE
      OBVIOUS
    <2>2. PICK n \in bad : \A m \in bad : n <= m
      <3>1. bad \in SUBSET Nat
        OBVIOUS
      <3> HIDE DEF bad
      <3> QED
        BY <2>1, <3>1, LeastNat
    <2>3. PICK part \in SUBSET S : Cardinality(part) = n /\ ~Right(part) /\ n \in Nat
      BY <2>2
    <2>4. CASE Cardinality(part) <= BlockSize
      <3>1. g[part] = {part}
        BY <1>5, <2>3, <2>4
      <3> QED
        BY <2>3, <3>1
    <2>5. CASE ~(Cardinality(part) <= BlockSize)
      <3>1. PICK lower, upper : lower = LowerHalf(p, part) /\ upper = part \ lower
        OBVIOUS
      <3>2. lower \in SUBSET part /\ lower # part /\ lower # {}
        BY <1>1, <2>3, <2>5, <3>1, HalvesAreParts
      <3>3. /\ upper \in SUBSET part /\ upper # part
            /\ lower \in SUBSET S /\ upper \in SUBSET S
        BY <2>3, <3>1, <3>2
      <3>4. ASSUME NEW t \in {lower, upper}
            PROVE  Right(t)
        <4>1. t \in SUBSET S /\ Cardinality(t) < n /\ Cardinality(t) \in Nat
          BY <1>1, <2>3, <3>2, <3>3, SizesOfParts
        <4>2. Cardinality(t) \notin bad
          <5> HIDE DEF bad
          <5> QED
            BY <2>2, <2>3, <4>1
        <4> HIDE DEF Right
        <4> QED
          BY <4>1, <4>2
      <3>5. g[part] = g[lower] \cup g[upper]
        BY <1>5, <2>3, <2>5, <3>1
      <3>6. /\ g[lower] \subseteq SUBSET lower /\ g[upper] \subseteq SUBSET upper
            /\ \A i \in lower : \E block \in g[lower] : i \in block
            /\ \A i \in upper : \E block \in g[upper] : i \in block
        BY <3>4
      <3>7. Right(part)
        <4>1. g[part] \subseteq SUBSET part
          BY <3>2, <3>3, <3>5, <3>6
        <4>2. \A i \in part : i \in lower \/ i \in upper
          BY <3>1
        <4>3. \A i \in part : \E block \in g[part] : i \in block
          BY <3>5, <3>6, <4>2
        <4> QED
          BY <4>1, <4>3
      <3> HIDE DEF Right, bad
      <3> QED
        BY <2>3, <3>7
    <2> QED
      BY <2>4, <2>5
  <1>7. Right(S)
    <2>1. Cardinality(S) \in Nat /\ S \in SUBSET S
      BY <1>1, FS_CardinalityType
    <2> HIDE DEF Right
    <2> QED
      BY <1>6, <2>1
  <1> QED
    BY <1>1, <1>3, <1>7

(* A box within another is no nearer to a third one.                           *)
LEMMA WithinIsFarther ==
  ASSUME NEW a, IsWindow(a), NEW inner, IsWindow(inner), NEW outer, IsWindow(outer),
         \A k \in Axes : outer.first[k] <= inner.first[k] /\ inner.last[k] <= outer.last[k]
  PROVE  /\ bounds_disjoint(a, outer) => bounds_disjoint(a, inner)
         /\ \A reach \in Nat :
              bounds_farther_than(a, outer, reach) => bounds_farther_than(a, inner, reach)
  <1>1. ASSUME NEW k \in Axes
        PROVE  /\ AxisGap(a, outer, k) \in Int /\ AxisGap(a, inner, k) \in Int
               /\ AxisGap(a, outer, k) <= AxisGap(a, inner, k)
    <2>1. /\ a.first[k] \in Int /\ a.last[k] \in Int
          /\ inner.first[k] \in Int /\ inner.last[k] \in Int
          /\ outer.first[k] \in Int /\ outer.last[k] \in Int
      BY DEF IsWindow, Box
    <2>2. PICK a1 \in Int, a2 \in Int, i1 \in Int, i2 \in Int, o1 \in Int, o2 \in Int :
            /\ a1 = a.first[k] /\ a2 = a.last[k] /\ i1 = inner.first[k] /\ i2 = inner.last[k]
            /\ o1 = outer.first[k] /\ o2 = outer.last[k]
      BY <2>1
    <2>3. o1 <= i1 /\ i2 <= o2
      BY <2>2
    <2>4. /\ AxisGap(a, outer, k) = (IF o1 - a2 > a1 - o2 THEN o1 - a2 ELSE a1 - o2)
          /\ AxisGap(a, inner, k) = (IF i1 - a2 > a1 - i2 THEN i1 - a2 ELSE a1 - i2)
      BY <2>2, OfTwo DEF AxisGap
    <2> QED
      BY <2>2, <2>3, <2>4
  <1>2. bounds_disjoint(a, outer) => bounds_disjoint(a, inner)
    <2>1. \A k \in Axes : AxisGap(a, outer, k) > 0 => AxisGap(a, inner, k) > 0
      BY <1>1
    <2> QED
      BY <2>1 DEF bounds_disjoint
  <1>3. ASSUME NEW k \in Axes
        PROVE  /\ Max({0, AxisGap(a, outer, k)}) \in Nat /\ Max({0, AxisGap(a, inner, k)}) \in Nat
               /\ Max({0, AxisGap(a, outer, k)}) <= Max({0, AxisGap(a, inner, k)})
    <2>1. PICK x \in Int, y \in Int :
            x = AxisGap(a, outer, k) /\ y = AxisGap(a, inner, k) /\ x <= y
      BY <1>1
    <2>2. 0 \in Int
      OBVIOUS
    <2>3. /\ Max({0, x}) = (IF 0 > x THEN 0 ELSE x) /\ Max({0, y}) = (IF 0 > y THEN 0 ELSE y)
      BY <2>1, <2>2, OfTwo
    <2> QED
      BY <2>1, <2>3
  <1>4. SquaredGap(a, outer) <= SquaredGap(a, inner)
        /\ SquaredGap(a, outer) \in Nat /\ SquaredGap(a, inner) \in Nat
    <2>1. 1 \in Axes /\ 2 \in Axes
      BY DEF Axes
    <2>2. PICK x1 \in Nat, x2 \in Nat, y1 \in Nat, y2 \in Nat :
            /\ x1 = Max({0, AxisGap(a, outer, 1)}) /\ x2 = Max({0, AxisGap(a, outer, 2)})
            /\ y1 = Max({0, AxisGap(a, inner, 1)}) /\ y2 = Max({0, AxisGap(a, inner, 2)})
            /\ x1 <= y1 /\ x2 <= y2
      BY <1>3, <2>1
    <2>3. /\ SquaredGap(a, outer) = x1 * x1 + x2 * x2
          /\ SquaredGap(a, inner) = y1 * y1 + y2 * y2
      BY <2>1, <2>2 DEF SquaredGap, SumOfSquares, Squared
    <2>4. \A m, n \in Nat : m <= n => m * m <= n * n /\ m * m \in Nat /\ n * n \in Nat
      OBVIOUS
    <2>5. PICK b1 \in Nat, b2 \in Nat, c1 \in Nat, c2 \in Nat :
            b1 = x1 * x1 /\ b2 = x2 * x2 /\ c1 = y1 * y1 /\ c2 = y2 * y2 /\ b1 <= c1 /\ b2 <= c2
      BY <2>2, <2>4
    <2> QED
      BY <2>3, <2>5
  <1>5. ASSUME NEW reach \in Nat, bounds_farther_than(a, outer, reach)
        PROVE  bounds_farther_than(a, inner, reach)
    <2>1. Squared(reach) \in Int
      BY SquareOfOpposite
    <2> QED
      BY <1>4, <1>5, <2>1 DEF bounds_farther_than
  <1> QED
    BY <1>2, <1>5

(* Points have a whole coordinate along each axis.                             *)
LEMMA PointsAreRows ==
  ASSUME NEW u \in Points
  PROVE  u \in [Axes -> Int]
  <1>1. PICK x \in Int, y \in Int : u = <<x, y>>
    BY DEF Points
  <1>2. DOMAIN u = Axes /\ u = [k \in Axes |-> u[k]]
    BY <1>1 DEF Axes
  <1> QED
    BY <1>2, Coordinates

(* A face lies within the bounds of its solid.                                 *)
LEMMA FaceWithin ==
  ASSUME NEW solid, IsSolid(solid), NEW f \in Faces(solid)
  PROVE  /\ f = Box(f.first, f.last) /\ f.first \in Points /\ f.last \in Points /\ IsWindow(f)
         /\ \A k \in Axes : /\ f.first[k] \in Int /\ f.last[k] \in Int
                            /\ Low(solid, k) \in Int /\ High(solid, k) \in Int
                            /\ Low(solid, k) <= f.first[k] /\ f.last[k] <= High(solid, k)
                            /\ f.first[k] <= f.last[k]
  <1>1. PICK k \in Axes : IsFace(solid, k, f)
    BY FacesAre
  <1>2. /\ f = Box(f.first, f.last) /\ f.first \in Points /\ f.last \in Points
        /\ 3 - k \in Axes /\ 3 - (3 - k) = k
        /\ \A m \in Axes : m = k \/ m = 3 - k
    BY <1>1, Coordinates DEF IsFace, Axes
  <1>3. IsWindow(f)
    BY <1>2, PointsAreRows DEF IsWindow
  <1>4. PICK x \in Int, i \in Int, e \in Int :
          /\ x = f.first[k] /\ x = f.last[k] /\ i = f.first[3 - k] /\ e = f.last[3 - k] /\ i < e
    BY <1>1, <1>2, Coordinates DEF IsFace
  <1>5. \A m \in Axes : Low(solid, m) \in Int /\ High(solid, m) \in Int
    BY SolidBounds
  <1>6. ASSUME NEW y \in i..(e - 1)
        PROVE  /\ Low(solid, k) <= x /\ x <= High(solid, k)
               /\ Low(solid, 3 - k) <= y /\ y < High(solid, 3 - k)
    <2>1. PICK w \in Walls(solid, k) : w = At(f.first, 3 - k, y)
      BY <1>1, <1>4 DEF IsFace
    <2>2. w[3 - k] = y /\ w[k] = x
      <3>1. y \in Int
        BY <1>4
      <3>2. PICK j \in Axes : j = 3 - k /\ 3 - j = k
        BY <1>2
      <3>3. PICK u \in Points : u = f.first /\ u[k] = x
        BY <1>2, <1>4
      <3>4. w = At(u, j, y)
        BY <2>1, <3>2, <3>3
      <3>5. w[j] = y /\ w[3 - j] = u[3 - j]
        BY <3>1, <3>4, AtIs
      <3> QED
        BY <3>2, <3>3, <3>5
    <2> QED
      BY <2>2, WallBounds
  <1>7. i \in i..(e - 1) /\ e - 1 \in i..(e - 1)
    BY <1>4
  <1>8. /\ Low(solid, k) <= x /\ x <= High(solid, k)
        /\ Low(solid, 3 - k) <= i /\ e - 1 < High(solid, 3 - k)
    BY <1>6, <1>7
  <1>9. ASSUME NEW m \in Axes
        PROVE  /\ f.first[m] \in Int /\ f.last[m] \in Int
               /\ Low(solid, m) <= f.first[m] /\ f.last[m] <= High(solid, m)
               /\ f.first[m] <= f.last[m]
    <2>1. CASE m = k
      <3>1. /\ f.first[k] \in Int /\ f.last[k] \in Int
            /\ Low(solid, k) <= f.first[k] /\ f.last[k] <= High(solid, k)
        BY <1>4, <1>8
      <3>2. f.first[k] <= f.last[k]
        BY <1>4
      <3> QED
        BY <2>1, <3>1, <3>2
    <2>2. CASE m = 3 - k
      <3>1. e <= High(solid, 3 - k)
        BY <1>2, <1>4, <1>5, <1>8
      <3> QED
        BY <1>4, <1>8, <2>2, <3>1
    <2> QED
      BY <1>2, <2>1, <2>2
  <1> QED
    BY <1>2, <1>3, <1>5, <1>9

(* The bounds of a face, of the blocks it is in and of its solid.              *)
LEMMA BoundsNest ==
  ASSUME NEW solid, IsSolid(solid), NEW pose \in Poses, NEW p, IsPlaced(p, solid, pose),
         NEW i \in DOMAIN p.mesh
  PROVE  /\ IsWindow(FaceBounds(p, i)) /\ IsWindow(p.bounds)
         /\ \A k \in Axes : /\ p.bounds.first[k] <= FaceBounds(p, i).first[k]
                            /\ FaceBounds(p, i).last[k] <= p.bounds.last[k]
                            /\ FaceBounds(p, i).first[k] <= p.mesh[i].first[k]
                            /\ p.mesh[i].last[k] <= FaceBounds(p, i).last[k]
                            /\ pose.exact => /\ FaceBounds(p, i).first[k] = p.mesh[i].first[k]
                                             /\ p.mesh[i].last[k] = FaceBounds(p, i).last[k]
  <1>1. PICK f \in Faces(solid) : f = p.mesh[i]
    BY MeshHasFaces
  <1>2. PICK b, w : b = Outward(f, pose) /\ w = Extent(solid)
    OBVIOUS
  <1>3. FaceBounds(p, i) = b /\ p.bounds = Outward(w, pose)
    BY <1>1, <1>2 DEF FaceBounds, IsPlaced
  <1>4. /\ IsWindow(f)
        /\ \A k \in Axes : /\ Low(solid, k) <= f.first[k] /\ f.last[k] <= High(solid, k)
                           /\ Low(solid, k) \in Int /\ High(solid, k) \in Int
    BY FaceWithin
  <1>5. IsWindow(w) /\ \A k \in Axes : w.first[k] = Low(solid, k) /\ w.last[k] = High(solid, k)
    BY <1>2, BoundsHold
  <1>6. \A k \in Axes : pose.slip[k] \in Int
    BY PoseIs
  <1>7. PICK by \in {0, 1} :
          /\ pose.exact <=> by = 0
          /\ \A k \in Axes : /\ f.first[k] \in Int /\ f.last[k] \in Int
                             /\ b.first[k] = f.first[k] + pose.slip[k] - by
                             /\ b.last[k] = f.last[k] + pose.slip[k] + by
    BY <1>2, <1>4, OutwardIs
  <1>8. PICK at \in {0, 1} :
          /\ pose.exact <=> at = 0
          /\ \A k \in Axes : /\ w.first[k] \in Int /\ w.last[k] \in Int
                             /\ p.bounds.first[k] = w.first[k] + pose.slip[k] - at
                             /\ p.bounds.last[k] = w.last[k] + pose.slip[k] + at
    BY <1>3, <1>5, OutwardIs
  <1>9. at = by
    BY <1>7, <1>8
  <1>10. ASSUME NEW k \in Axes
         PROVE  p.bounds.first[k] <= b.first[k] /\ b.last[k] <= p.bounds.last[k]
    <2>1. PICK x \in Int, y \in Int, lo \in Int, hi \in Int, z \in Int :
            /\ x = f.first[k] /\ y = f.last[k] /\ lo = w.first[k] /\ hi = w.last[k]
            /\ z = pose.slip[k]
      BY <1>6, <1>7, <1>8
    <2>2. lo <= x /\ y <= hi
      BY <1>4, <1>5, <2>1
    <2>3. /\ p.bounds.first[k] = lo + z - by /\ p.bounds.last[k] = hi + z + by
          /\ b.first[k] = x + z - by /\ b.last[k] = y + z + by
      BY <1>7, <1>8, <1>9, <2>1
    <2>4. by \in Int
      BY <1>7
    <2> QED
      BY <2>1, <2>2, <2>3, <2>4
  <1>11. IsWindow(b) /\ IsWindow(p.bounds)
    BY <1>2, <1>3, <1>4, <1>5, OutwardIs
  <1>12. \A k \in Axes : /\ b.first[k] <= f.first[k] /\ f.last[k] <= b.last[k]
                         /\ pose.exact => b.first[k] = f.first[k] /\ f.last[k] = b.last[k]
    BY <1>2, <1>4, OutwardIs
  <1> QED
    BY <1>1, <1>3, <1>10, <1>11, <1>12

(* The bounds of a block hold those of its faces.                              *)
LEMMA BlockHolds ==
  ASSUME NEW solid, IsSolid(solid), NEW pose \in Poses, NEW p, IsPlaced(p, solid, pose),
         NEW block \in SUBSET (DOMAIN p.mesh), NEW i \in block
  PROVE  /\ IsWindow(BlockBounds(p, block))
         /\ \A k \in Axes : /\ BlockBounds(p, block).first[k] <= FaceBounds(p, i).first[k]
                            /\ FaceBounds(p, i).last[k] <= BlockBounds(p, block).last[k]
  <1>1. IsFiniteSet(block)
    BY FS_Subset DEF IsPlaced
  <1>2. PICK boxes : boxes = {FaceBounds(p, j) : j \in block}
    OBVIOUS
  <1>3. IsFiniteSet(boxes)
    <2>1. PICK g : g = [j \in block |-> FaceBounds(p, j)]
      OBVIOUS
    <2>2. boxes = {g[j] : j \in block}
      BY <1>2, <2>1
    <2> QED
      BY <1>1, <2>1, <2>2, ImageIsFinite
  <1>4. \A b \in boxes : \A k \in Axes : b.first[k] \in Int /\ b.last[k] \in Int
    BY <1>2, BoundsNest DEF IsWindow, Box
  <1>5. ASSUME NEW k \in Axes
        PROVE  /\ {b.first[k] : b \in boxes} \in SUBSET Int
               /\ {b.last[k] : b \in boxes} \in SUBSET Int
               /\ IsFiniteSet({b.first[k] : b \in boxes}) /\ IsFiniteSet({b.last[k] : b \in boxes})
    <2>1. PICK g, h : g = [b \in boxes |-> b.first[k]] /\ h = [b \in boxes |-> b.last[k]]
      OBVIOUS
    <2>2. {b.first[k] : b \in boxes} = {g[b] : b \in boxes}
          /\ {b.last[k] : b \in boxes} = {h[b] : b \in boxes}
      BY <2>1
    <2>3. IsFiniteSet({g[b] : b \in boxes}) /\ IsFiniteSet({h[b] : b \in boxes})
      BY <1>3, <2>1, ImageIsFinite
    <2>4. {b.first[k] : b \in boxes} \in SUBSET Int
      BY <1>4
    <2>5. {b.last[k] : b \in boxes} \in SUBSET Int
      BY <1>4
    <2>6. IsFiniteSet({b.first[k] : b \in boxes}) /\ IsFiniteSet({b.last[k] : b \in boxes})
      BY <2>2, <2>3
    <2> QED
      BY <2>4, <2>5, <2>6
  <1>6. PICK e \in boxes : e = FaceBounds(p, i)
    BY <1>2
  <1>7. ASSUME NEW k \in Axes
        PROVE  /\ Min({b.first[k] : b \in boxes}) \in Int /\ Max({b.last[k] : b \in boxes}) \in Int
               /\ Min({b.first[k] : b \in boxes}) <= e.first[k]
               /\ e.last[k] <= Max({b.last[k] : b \in boxes})
    <2>1. PICK S, T : S = {b.first[k] : b \in boxes} /\ T = {b.last[k] : b \in boxes}
      OBVIOUS
    <2>2. e.first[k] \in S /\ e.last[k] \in T
      BY <2>1
    <2>3. S \in SUBSET Int /\ T \in SUBSET Int /\ IsFiniteSet(S) /\ IsFiniteSet(T)
      BY <1>5, <2>1
    <2> QED
      BY <2>1, <2>2, <2>3, MinIsLeast, MaxIsGreatest
  <1>8. PICK x, y : /\ x = [k \in Axes |-> Min({b.first[k] : b \in boxes})]
                    /\ y = [k \in Axes |-> Max({b.last[k] : b \in boxes})]
    OBVIOUS
  <1>9. BlockBounds(p, block) = Box(x, y)
    BY <1>2, <1>8 DEF BlockBounds, Hull
  <1>10. x \in [Axes -> Int] /\ y \in [Axes -> Int]
    BY <1>7, <1>8
  <1>11. \A k \in Axes : x[k] <= e.first[k] /\ e.last[k] <= y[k]
    BY <1>7, <1>8
  <1> QED
    BY <1>6, <1>9, <1>10, <1>11 DEF IsWindow, Box

(* How far two boxes are from each other does not depend on their order.       *)
LEMMA GapBothWays ==
  ASSUME NEW a, NEW b
  PROVE  /\ \A k : AxisGap(a, b, k) = AxisGap(b, a, k)
         /\ SquaredGap(a, b) = SquaredGap(b, a)
         /\ bounds_disjoint(a, b) <=> bounds_disjoint(b, a)
         /\ \A reach : bounds_farther_than(a, b, reach) <=> bounds_farther_than(b, a, reach)
  <1>1. ASSUME NEW k
        PROVE  AxisGap(a, b, k) = AxisGap(b, a, k)
    <2>1. {b.first[k] - a.last[k], a.first[k] - b.last[k]}
            = {a.first[k] - b.last[k], b.first[k] - a.last[k]}
      OBVIOUS
    <2> QED
      BY <2>1 DEF AxisGap
  <1>2. SquaredGap(a, b) = SquaredGap(b, a)
    BY <1>1 DEF SquaredGap
  <1>3. bounds_disjoint(a, b) <=> bounds_disjoint(b, a)
    BY <1>1 DEF bounds_disjoint
  <1> QED
    BY <1>1, <1>2, <1>3 DEF bounds_farther_than

(* No blocks hide faces that are near each other.                              *)
LEMMA MayMeetIs ==
  ASSUME NEW a, IsSolid(a), NEW x \in Poses, NEW p, IsPlaced(p, a, x),
         NEW b, IsSolid(b), NEW y \in Poses, NEW q, IsPlaced(q, b, y),
         NEW i \in DOMAIN p.mesh
  PROVE  MayMeet(p, i, q)
           = {j \in DOMAIN q.mesh : ~bounds_disjoint(FaceBounds(p, i), FaceBounds(q, j))}
  <1>1. PICK row : row = FaceBounds(p, i) /\ IsWindow(row)
    BY BoundsNest
  <1>2. PICK blocks : blocks = {c \in partition_triangle_bounds(q) :
                                  ~bounds_disjoint(row, BlockBounds(q, c))}
    OBVIOUS
  <1>3. MayMeet(p, i, q)
          = IF bounds_disjoint(row, q.bounds) THEN {}
            ELSE {j \in UNION blocks : ~bounds_disjoint(row, FaceBounds(q, j))}
    BY <1>1, <1>2 DEF MayMeet
  <1>4. UNION blocks \subseteq DOMAIN q.mesh
    BY <1>2, BlocksCover
  <1>5. ASSUME NEW j \in DOMAIN q.mesh, ~bounds_disjoint(row, FaceBounds(q, j))
        PROVE  ~bounds_disjoint(row, q.bounds) /\ j \in UNION blocks
    <2>1. ~bounds_disjoint(row, q.bounds)
      BY <1>1, <1>5, BoundsNest, WithinIsFarther
    <2>2. PICK c \in partition_triangle_bounds(q) : j \in c
      BY BlocksCover
    <2>3. c \in SUBSET (DOMAIN q.mesh)
      BY <2>2, BlocksCover
    <2>4. /\ IsWindow(BlockBounds(q, c)) /\ IsWindow(FaceBounds(q, j))
          /\ \A k \in Axes : /\ BlockBounds(q, c).first[k] <= FaceBounds(q, j).first[k]
                             /\ FaceBounds(q, j).last[k] <= BlockBounds(q, c).last[k]
      BY <2>2, <2>3, BlockHolds, BoundsNest
    <2>5. ~bounds_disjoint(row, BlockBounds(q, c))
      BY <1>1, <1>5, <2>4, WithinIsFarther
    <2> QED
      BY <1>2, <2>1, <2>2, <2>5
  <1> QED
    BY <1>1, <1>3, <1>4, <1>5

(* Nor do the blocks leave out a face that may be near.                        *)
LEMMA MayBeNearIs ==
  ASSUME NEW a, IsSolid(a), NEW x \in Poses, NEW p, IsPlaced(p, a, x),
         NEW b, IsSolid(b), NEW y \in Poses, NEW q, IsPlaced(q, b, y),
         NEW i \in DOMAIN p.mesh, NEW clearance \in Nat
  PROVE  MayBeNear(p, i, q, clearance)
           = {j \in DOMAIN q.mesh :
                ~bounds_farther_than(FaceBounds(p, i), FaceBounds(q, j), clearance)}
  <1>1. PICK row : row = FaceBounds(p, i) /\ IsWindow(row)
    BY BoundsNest
  <1>2. PICK blocks : blocks = {c \in partition_triangle_bounds(q) :
                                  ~bounds_farther_than(row, BlockBounds(q, c), clearance)}
    OBVIOUS
  <1>3. MayBeNear(p, i, q, clearance)
          = IF bounds_farther_than(row, q.bounds, clearance) THEN {}
            ELSE {j \in UNION blocks : ~bounds_farther_than(row, FaceBounds(q, j), clearance)}
    BY <1>1, <1>2 DEF MayBeNear
  <1>4. UNION blocks \subseteq DOMAIN q.mesh
    BY <1>2, BlocksCover
  <1>5. ASSUME NEW j \in DOMAIN q.mesh, ~bounds_farther_than(row, FaceBounds(q, j), clearance)
        PROVE  ~bounds_farther_than(row, q.bounds, clearance) /\ j \in UNION blocks
    <2>1. ~bounds_farther_than(row, q.bounds, clearance)
      BY <1>1, <1>5, BoundsNest, WithinIsFarther
    <2>2. PICK c \in partition_triangle_bounds(q) : j \in c
      BY BlocksCover
    <2>3. c \in SUBSET (DOMAIN q.mesh)
      BY <2>2, BlocksCover
    <2>4. /\ IsWindow(BlockBounds(q, c)) /\ IsWindow(FaceBounds(q, j))
          /\ \A k \in Axes : /\ BlockBounds(q, c).first[k] <= FaceBounds(q, j).first[k]
                             /\ FaceBounds(q, j).last[k] <= BlockBounds(q, c).last[k]
      BY <2>2, <2>3, BlockHolds, BoundsNest
    <2>5. ~bounds_farther_than(row, BlockBounds(q, c), clearance)
      BY <1>1, <1>5, <2>4, WithinIsFarther
    <2> QED
      BY <1>2, <2>1, <2>2, <2>5
  <1> QED
    BY <1>1, <1>3, <1>4, <1>5

(* No face of the one meets a face of the other.                               *)
FacesMiss(a, b) == \A f \in Faces(a), g \in Faces(b) : bounds_disjoint(f, g)

(* In an exact pose the bounds of a face are the face.                         *)
LEMMA ExactBounds ==
  ASSUME NEW solid, IsSolid(solid), NEW pose \in Poses, NEW p, IsPlaced(p, solid, pose),
         p.pose.exact, NEW i \in DOMAIN p.mesh
  PROVE  FaceBounds(p, i).first = p.mesh[i].first /\ FaceBounds(p, i).last = p.mesh[i].last
  <1>1. PICK f \in Faces(solid) : f = p.mesh[i]
    BY MeshHasFaces
  <1>2. PICK b : b = FaceBounds(p, i)
    OBVIOUS
  <1>3. /\ IsWindow(b) /\ IsWindow(f)
        /\ \A k \in Axes : b.first[k] = f.first[k] /\ f.last[k] = b.last[k]
    <2>1. pose.exact
      BY DEF IsPlaced
    <2>3. /\ IsWindow(FaceBounds(p, i))
          /\ \A k \in Axes : pose.exact => /\ FaceBounds(p, i).first[k] = p.mesh[i].first[k]
                                      /\ p.mesh[i].last[k] = FaceBounds(p, i).last[k]
      BY BoundsNest
    <2> QED
      BY <1>1, <1>2, <2>1, <2>3, FaceWithin
  <1>4. /\ b.first \in [Axes -> Int] /\ f.first \in [Axes -> Int]
        /\ b.last \in [Axes -> Int] /\ f.last \in [Axes -> Int]
    BY <1>3 DEF IsWindow, Box
  <1>5. b.first = f.first /\ b.last = f.last
    BY <1>3, <1>4
  <1> QED
    BY <1>1, <1>2, <1>5

(* Surfaces that may not meet do not, nor does what is known of the one meet   *)
(* the other.                                                                  *)
LEMMA BoundsMiss ==
  ASSUME NEW a, IsSolid(a), NEW x \in Poses, NEW p, IsPlaced(p, a, x),
         NEW b, IsSolid(b), NEW y \in Poses, NEW q, IsPlaced(q, b, y),
         check_boundaries(p, q) = "disjoint", NEW i \in DOMAIN p.mesh, NEW g \in Faces(b)
  PROVE  bounds_disjoint(FaceBounds(p, i), g)
  <1>2. PICK j \in DOMAIN q.mesh : g = q.mesh[j]
    BY MeshHasFaces
  <1>3. UNION {{<<m, n>> : n \in MayMeet(p, m, q)} : m \in DOMAIN p.mesh} = {}
    BY DEF check_boundaries
  <1>4. MayMeet(p, i, q) = {}
    <2>1. SUFFICES ASSUME NEW n \in MayMeet(p, i, q)
                   PROVE  FALSE
      OBVIOUS
    <2>2. PICK row : row = {<<i, k>> : k \in MayMeet(p, i, q)}
      OBVIOUS
    <2>3. <<i, n>> \in row
      BY <2>1, <2>2
    <2>4. row \in {{<<m, k>> : k \in MayMeet(p, m, q)} : m \in DOMAIN p.mesh}
      BY <2>2
    <2> QED
      BY <1>3, <2>3, <2>4
  <1>5. PICK c, d : c = FaceBounds(p, i) /\ d = FaceBounds(q, j)
    OBVIOUS
  <1>6. bounds_disjoint(c, d)
    BY <1>4, <1>5, MayMeetIs
  <1>7. /\ IsWindow(g) /\ IsWindow(c) /\ IsWindow(d)
        /\ \A k \in Axes : d.first[k] <= g.first[k] /\ g.last[k] <= d.last[k]
    BY <1>2, <1>5, BoundsNest, FaceWithin
  <1> QED
    BY <1>5, <1>6, <1>7, WithinIsFarther

(* Surfaces that may not meet do not, even if what is known of them is not     *)
(* exact.                                                                      *)
LEMMA DisjointFacesMiss ==
  ASSUME NEW a, IsSolid(a), NEW x \in Poses, NEW p, IsPlaced(p, a, x),
         NEW b, IsSolid(b), NEW y \in Poses, NEW q, IsPlaced(q, b, y),
         check_boundaries(p, q) = "disjoint"
  PROVE  FacesMiss(a, b)
  <1>1. SUFFICES ASSUME NEW f \in Faces(a), NEW g \in Faces(b)
                 PROVE  bounds_disjoint(f, g)
    BY DEF FacesMiss
  <1>2. PICK i \in DOMAIN p.mesh : f = p.mesh[i]
    BY MeshHasFaces
  <1>3. PICK c : c = FaceBounds(p, i) /\ bounds_disjoint(c, g)
    BY BoundsMiss
  <1>4. /\ IsWindow(f) /\ IsWindow(g) /\ IsWindow(c)
        /\ \A k \in Axes : c.first[k] <= f.first[k] /\ f.last[k] <= c.last[k]
    BY <1>2, <1>3, BoundsNest, FaceWithin
  <1>5. bounds_disjoint(g, c)
    BY <1>3, GapBothWays
  <1>6. bounds_disjoint(g, f)
    BY <1>4, <1>5, WithinIsFarther
  <1> QED
    BY <1>6, GapBothWays

(* How far two stretches of a line are apart.                                  *)
Beyond(a1, a2, b1, b2) == IF b1 > a2 THEN b1 - a2 ELSE IF a1 > b2 THEN a1 - b2 ELSE 0

(* A box is the product of its sides.                                          *)
IsBox(box) ==
  \A k \in Axes : box.first[k] \in Int /\ box.last[k] \in Int /\ box.first[k] <= box.last[k]

Between(a, b, k) == Beyond(a.first[k], a.last[k], b.first[k], b.last[k])

(* The gaps of two boxes are those of their sides.                             *)
LEMMA GapsAre ==
  ASSUME NEW a, IsBox(a), NEW b, IsBox(b)
  PROVE  /\ \A k \in Axes : /\ Between(a, b, k) \in Nat
                            /\ AxisGap(a, b, k) > 0 <=> Between(a, b, k) > 0
         /\ bounds_disjoint(a, b) <=> \E k \in Axes : Between(a, b, k) > 0
         /\ SquaredGap(a, b) = Squared(Between(a, b, 1)) + Squared(Between(a, b, 2))
         /\ SquaredGap(a, b) \in Nat
  <1>1. ASSUME NEW k \in Axes
        PROVE  /\ Between(a, b, k) \in Nat
               /\ AxisGap(a, b, k) > 0 <=> Between(a, b, k) > 0
               /\ Max({0, AxisGap(a, b, k)}) = Between(a, b, k)
    <2>1. PICK a1 \in Int, a2 \in Int, b1 \in Int, b2 \in Int :
            /\ a1 = a.first[k] /\ a2 = a.last[k] /\ a1 <= a2
            /\ b1 = b.first[k] /\ b2 = b.last[k] /\ b1 <= b2
      BY DEF IsBox
    <2>2. PICK g \in Int : /\ g = AxisGap(a, b, k)
                        /\ g = IF b1 - a2 > a1 - b2 THEN b1 - a2 ELSE a1 - b2
      BY <2>1, OfTwo DEF AxisGap
    <2>3. 0 \in Int
      OBVIOUS
    <2>4. Max({0, g}) = IF 0 > g THEN 0 ELSE g
      BY <2>2, <2>3, OfTwo
    <2>5. Between(a, b, k) = Beyond(a1, a2, b1, b2)
      BY <2>1 DEF Between
    <2>6. /\ Beyond(a1, a2, b1, b2) \in Nat
          /\ g > 0 <=> Beyond(a1, a2, b1, b2) > 0
          /\ Max({0, g}) = Beyond(a1, a2, b1, b2)
      BY <2>1, <2>2, <2>4 DEF Beyond
    <2> QED
      BY <2>2, <2>5, <2>6
  <1>2. bounds_disjoint(a, b) <=> \E k \in Axes : Between(a, b, k) > 0
    BY <1>1 DEF bounds_disjoint
  <1>3. 1 \in Axes /\ 2 \in Axes
    BY DEF Axes
  <1>4. SquaredGap(a, b) = Squared(Between(a, b, 1)) + Squared(Between(a, b, 2))
    BY <1>1, <1>3 DEF SquaredGap, SumOfSquares
  <1>5. SquaredGap(a, b) \in Nat
    <2>1. PICK m \in Nat, n \in Nat : m = Squared(Between(a, b, 1)) /\ n = Squared(Between(a, b, 2))
      <3>1. PICK x \in Nat, y \in Nat : x = Between(a, b, 1) /\ y = Between(a, b, 2)
        BY <1>1, <1>3
      <3>2. Squared(x) \in Nat /\ Squared(y) \in Nat
        BY SquareOfOpposite
      <3> QED
        BY <3>1, <3>2
    <2> QED
      BY <1>4, <2>1
  <1> QED
    BY <1>1, <1>2, <1>4, <1>5

(* Boxes with the same gap along both axes.                                    *)
LEMMA SameGaps ==
  ASSUME NEW a, IsBox(a), NEW b, IsBox(b), NEW c, IsBox(c), NEW d, IsBox(d), NEW k \in Axes,
         Between(a, b, k) = Between(c, d, k), Between(a, b, 3 - k) = Between(c, d, 3 - k)
  PROVE  SquaredGap(a, b) = SquaredGap(c, d)
  <1>1. Between(a, b, 1) = Between(c, d, 1) /\ Between(a, b, 2) = Between(c, d, 2)
    BY DEF Axes
  <1> QED
    BY <1>1, GapsAre

(* A face as a box, with its flat axis.                                        *)
LEMMA FaceIsBox ==
  ASSUME NEW solid, IsSolid(solid), NEW f \in Faces(solid)
  PROVE  /\ IsBox(f) /\ IsBox(Box(f.first, f.first)) /\ IsBox(Box(f.last, f.last))
         /\ \E k \in Axes : f.first[k] = f.last[k]
  <1>1. \A k \in Axes : f.first[k] \in Int /\ f.last[k] \in Int /\ f.first[k] <= f.last[k]
    BY FaceWithin
  <1>2. PICK k \in Axes : IsFace(solid, k, f)
    BY FacesAre
  <1>3. f.first[k] = f.last[k]
    BY <1>2 DEF IsFace
  <1> QED
    BY <1>1, <1>3 DEF IsBox, Box

(* One of the ends of two stretches is as near to the other stretch as these   *)
(* are to each other.                                                          *)
LEMMA NearestEndAlong ==
  ASSUME NEW a1 \in Int, NEW a2 \in Int, NEW b1 \in Int, NEW b2 \in Int, a1 <= a2, b1 <= b2
  PROVE  \/ Beyond(a1, a1, b1, b2) = Beyond(a1, a2, b1, b2)
         \/ Beyond(a2, a2, b1, b2) = Beyond(a1, a2, b1, b2)
         \/ Beyond(b1, b1, a1, a2) = Beyond(a1, a2, b1, b2)
         \/ Beyond(b2, b2, a1, a2) = Beyond(a1, a2, b1, b2)
  BY DEF Beyond

(* Of two faces that do not meet, an end of one is as near to the other as     *)
(* they are to each other.                                                     *)
LEMMA NearestEnd ==
  ASSUME NEW a, IsSolid(a), NEW f \in Faces(a), NEW b, IsSolid(b), NEW g \in Faces(b),
         bounds_disjoint(f, g)
  PROVE  \/ \E v \in {f.first, f.last} : SquaredGap(Box(v, v), g) = SquaredGap(f, g)
         \/ \E v \in {g.first, g.last} : SquaredGap(Box(v, v), f) = SquaredGap(f, g)
  <1>1. /\ IsBox(f) /\ IsBox(Box(f.first, f.first)) /\ IsBox(Box(f.last, f.last))
        /\ IsBox(g) /\ IsBox(Box(g.first, g.first)) /\ IsBox(Box(g.last, g.last))
    BY FaceIsBox
  <1>2. PICK k \in Axes : f.first[k] = f.last[k]
    BY FaceIsBox
  <1>3. PICK j \in Axes : j = 3 - k /\ 3 - j = k /\ \A m \in Axes : m = k \/ m = j
    BY DEF Axes
  <1>4. PICK x \in Int, f1 \in Int, f2 \in Int, g1 \in Int, g2 \in Int, y1 \in Int, y2 \in Int :
          /\ x = f.first[k] /\ x = f.last[k] /\ f1 = f.first[j] /\ f2 = f.last[j] /\ f1 <= f2
          /\ g1 = g.first[k] /\ g2 = g.last[k] /\ g1 <= g2
          /\ y1 = g.first[j] /\ y2 = g.last[j] /\ y1 <= y2
    BY <1>1, <1>2 DEF IsBox
  <1>5. /\ Between(f, g, k) = Beyond(x, x, g1, g2) /\ Between(f, g, j) = Beyond(f1, f2, y1, y2)
    BY <1>4 DEF Between
  <1>6. /\ Between(Box(f.first, f.first), g, k) = Beyond(x, x, g1, g2)
        /\ Between(Box(f.last, f.last), g, k) = Beyond(x, x, g1, g2)
        /\ Between(Box(f.first, f.first), g, j) = Beyond(f1, f1, y1, y2)
        /\ Between(Box(f.last, f.last), g, j) = Beyond(f2, f2, y1, y2)
    BY <1>4 DEF Between, Box
  <1>7. /\ Between(Box(g.first, g.first), f, k) = Beyond(g1, g1, x, x)
        /\ Between(Box(g.last, g.last), f, k) = Beyond(g2, g2, x, x)
        /\ Between(Box(g.first, g.first), f, j) = Beyond(y1, y1, f1, f2)
        /\ Between(Box(g.last, g.last), f, j) = Beyond(y2, y2, f1, f2)
    BY <1>4 DEF Between, Box
  <1>8. ASSUME NEW e, IsBox(e), NEW h, IsBox(h),
               Between(e, h, k) = Between(f, g, k), Between(e, h, j) = Between(f, g, j)
        PROVE  SquaredGap(e, h) = SquaredGap(f, g)
    BY <1>1, <1>3, <1>8, SameGaps
  <1>9. CASE g1 = g2
    <2>1. /\ Beyond(g1, g1, x, x) = Beyond(x, x, g1, g2)
          /\ Beyond(g2, g2, x, x) = Beyond(x, x, g1, g2)
      BY <1>4, <1>9 DEF Beyond
    <2>2. \/ Beyond(f1, f1, y1, y2) = Beyond(f1, f2, y1, y2)
          \/ Beyond(f2, f2, y1, y2) = Beyond(f1, f2, y1, y2)
          \/ Beyond(y1, y1, f1, f2) = Beyond(f1, f2, y1, y2)
          \/ Beyond(y2, y2, f1, f2) = Beyond(f1, f2, y1, y2)
      BY <1>4, NearestEndAlong
    <2> QED
      BY <1>1, <1>5, <1>6, <1>7, <1>8, <2>1, <2>2
  <1>10. CASE y1 = y2
    <2>1. Beyond(x, x, g1, g2) > 0 \/ Beyond(f1, f2, y1, y2) > 0
      BY <1>1, <1>3, <1>5, GapsAre
    <2>2. CASE Beyond(x, x, g1, g2) > 0
      <3>1. /\ Beyond(y1, y1, f1, f2) = Beyond(f1, f2, y1, y2)
            /\ Beyond(y2, y2, f1, f2) = Beyond(f1, f2, y1, y2)
        BY <1>4, <1>10 DEF Beyond
      <3>2. \/ Beyond(g1, g1, x, x) = Beyond(x, x, g1, g2)
            \/ Beyond(g2, g2, x, x) = Beyond(x, x, g1, g2)
        BY <1>4, <2>2 DEF Beyond
      <3> QED
        BY <1>1, <1>5, <1>7, <1>8, <3>1, <3>2
    <2>3. CASE Beyond(f1, f2, y1, y2) > 0
      <3>1. \/ Beyond(f1, f1, y1, y2) = Beyond(f1, f2, y1, y2)
            \/ Beyond(f2, f2, y1, y2) = Beyond(f1, f2, y1, y2)
        BY <1>4, <1>10, <2>3 DEF Beyond
      <3> QED
        BY <1>1, <1>5, <1>6, <1>8, <3>1
    <2> QED
      BY <2>1, <2>2, <2>3
  <1>11. g1 = g2 \/ y1 = y2
    <2>1. PICK m \in Axes : g.first[m] = g.last[m]
      BY FaceIsBox
    <2> QED
      BY <1>3, <1>4, <2>1
  <1> QED
    BY <1>9, <1>10, <1>11

(* A point within a box is no nearer to another box.                           *)
LEMMA EndIsNoNearer ==
  ASSUME NEW a, IsBox(a), NEW b, IsBox(b), NEW v, IsBox(Box(v, v)),
         \A k \in Axes : a.first[k] <= v[k] /\ v[k] <= a.last[k]
  PROVE  SquaredGap(a, b) <= SquaredGap(Box(v, v), b)
  <1>1. ASSUME NEW k \in Axes
        PROVE  /\ Between(a, b, k) \in Nat /\ Between(Box(v, v), b, k) \in Nat
               /\ Between(a, b, k) <= Between(Box(v, v), b, k)
    <2>1. PICK a1 \in Int, a2 \in Int, b1 \in Int, b2 \in Int, x \in Int :
            /\ a1 = a.first[k] /\ a2 = a.last[k] /\ b1 = b.first[k] /\ b2 = b.last[k]
            /\ b1 <= b2 /\ x = v[k]
      BY DEF IsBox, Box
    <2>2. a1 <= x /\ x <= a2
      BY <2>1
    <2>3. /\ Between(a, b, k) = Beyond(a1, a2, b1, b2)
          /\ Between(Box(v, v), b, k) = Beyond(x, x, b1, b2)
      BY <2>1 DEF Between, Box
    <2>4. /\ Beyond(a1, a2, b1, b2) <= Beyond(x, x, b1, b2)
          /\ Beyond(a1, a2, b1, b2) \in Nat /\ Beyond(x, x, b1, b2) \in Nat
      BY <2>1, <2>2 DEF Beyond
    <2> QED
      BY <2>3, <2>4
  <1>2. PICK m1 \in Nat, m2 \in Nat, n1 \in Nat, n2 \in Nat :
          /\ m1 = Between(a, b, 1) /\ m2 = Between(a, b, 2) /\ m1 <= n1 /\ m2 <= n2
          /\ n1 = Between(Box(v, v), b, 1) /\ n2 = Between(Box(v, v), b, 2)
    BY <1>1 DEF Axes
  <1>3. /\ SquaredGap(a, b) = Squared(m1) + Squared(m2)
        /\ SquaredGap(Box(v, v), b) = Squared(n1) + Squared(n2)
    BY <1>2, GapsAre
  <1>4. PICK r1 \in Nat, r2 \in Nat, s1 \in Nat, s2 \in Nat :
          /\ r1 = Squared(m1) /\ r2 = Squared(m2) /\ s1 = Squared(n1) /\ s2 = Squared(n2)
          /\ r1 <= s1 /\ r2 <= s2
    BY <1>2, SquaresInOrder
  <1> QED
    BY <1>3, <1>4
-----------------------------------------------------------------------------
(* The gap between surfaces                                                    *)

(* The distance of two faces by their ends is that of one of the ends, and of  *)
(* none is it less.                                                            *)
LEMMA EndDistance ==
  ASSUME NEW a, IsSolid(a), NEW f \in Faces(a), NEW b, IsSolid(b), NEW g \in Faces(b)
  PROVE  /\ exact_triangle_distance(f, g) \in Int
         /\ \/ \E v \in {f.first, f.last} : exact_triangle_distance(f, g) = SquaredGap(Box(v, v), g)
            \/ \E v \in {g.first, g.last} : exact_triangle_distance(f, g) = SquaredGap(Box(v, v), f)
         /\ \A v \in {f.first, f.last} : exact_triangle_distance(f, g) <= SquaredGap(Box(v, v), g)
         /\ \A v \in {g.first, g.last} : exact_triangle_distance(f, g) <= SquaredGap(Box(v, v), f)
  <1>1. PICK S, T : /\ S = {exact_point_segment(v, g) : v \in {f.first, f.last}}
                    /\ T = {exact_point_segment(v, f) : v \in {g.first, g.last}}
    OBVIOUS
  <1>2. /\ S = {SquaredGap(Box(f.first, f.first), g), SquaredGap(Box(f.last, f.last), g)}
        /\ T = {SquaredGap(Box(g.first, g.first), f), SquaredGap(Box(g.last, g.last), f)}
    BY <1>1 DEF exact_point_segment
  <1>3. exact_triangle_distance(f, g) = Min(S \cup T)
    BY <1>1 DEF exact_triangle_distance
  <1>4. PICK s1 \in Nat, s2 \in Nat, t1 \in Nat, t2 \in Nat :
          /\ s1 = SquaredGap(Box(f.first, f.first), g) /\ s2 = SquaredGap(Box(f.last, f.last), g)
          /\ t1 = SquaredGap(Box(g.first, g.first), f) /\ t2 = SquaredGap(Box(g.last, g.last), f)
    BY FaceIsBox, GapsAre
  <1>5. S \cup T = {s1, s2, t1, t2}
    BY <1>2, <1>4
  <1>6. IsFiniteSet({s1, s2, t1, t2})
    <2>1. PICK one, two, three, all :
            /\ one = {s1} /\ two = one \cup {s2} /\ three = two \cup {t1} /\ all = three \cup {t2}
      OBVIOUS
    <2>2. IsFiniteSet(one) /\ IsFiniteSet(two)
      BY <2>1, FS_Singleton, FS_AddElement
    <2>3. IsFiniteSet(three) /\ IsFiniteSet(all)
      BY <2>1, <2>2, FS_AddElement
    <2>4. {s1, s2, t1, t2} = all
      BY <2>1
    <2> QED
      BY <2>3, <2>4
  <1>7. PICK m \in Int : /\ m = Min({s1, s2, t1, t2}) /\ m \in {s1, s2, t1, t2}
                         /\ m <= s1 /\ m <= s2 /\ m <= t1 /\ m <= t2
    <2>1. {s1, s2, t1, t2} \in SUBSET Int /\ {s1, s2, t1, t2} # {}
      OBVIOUS
    <2>2. PICK T4 : T4 = {s1, s2, t1, t2}
      OBVIOUS
    <2>3. Min(T4) \in T4 /\ Min(T4) \in Int /\ \A n \in T4 : Min(T4) <= n
      BY <1>6, <2>1, <2>2, MinIsLeast
    <2> QED
      BY <2>2, <2>3
  <1> QED
    BY <1>3, <1>4, <1>5, <1>7

(* All faces are as far from each other as the clearance.                      *)
FarFaces(a, b, clearance) ==
  \A f \in Faces(a), g \in Faces(b) : SquaredGap(f, g) >= Squared(clearance)

(* Faces that do not meet are as far apart as exact_surface_gap says.          *)
LEMMA SurfacesFar ==
  ASSUME NEW a, IsSolid(a), NEW b, IsSolid(b), NEW x \in Poses, NEW y \in Poses,
         NEW p, IsPlaced(p, a, x), NEW q, IsPlaced(q, b, y),
         x.cardinal, y.cardinal, FacesMiss(a, b), NEW clearance \in Nat \ {0},
         exact_surface_gap(p, q, clearance) # "below"
  PROVE  FarFaces(a, b, clearance)
  <1>1. SUFFICES ASSUME NEW f \in Faces(a), NEW g \in Faces(b)
                 PROVE  SquaredGap(f, g) >= Squared(clearance)
    BY DEF FarFaces
  <1>2. PICK i \in DOMAIN p.mesh, j \in DOMAIN q.mesh : f = p.mesh[i] /\ g = q.mesh[j]
    BY MeshHasFaces
  <1>3. PICK far \in Nat, reach \in Nat : far = SquaredGap(f, g) /\ reach = Squared(clearance)
    <2>1. SquaredGap(f, g) \in Nat
      BY FaceIsBox, GapsAre
    <2>2. Squared(clearance) \in Nat
      BY SquareOfOpposite
    <2> QED
      BY <2>1, <2>2
  <1>4. CASE j \notin MayBeNear(p, i, q, clearance)
    <2>3. bounds_farther_than(FaceBounds(p, i), FaceBounds(q, j), clearance)
      BY <1>4, MayBeNearIs
    <2>4. PICK c, d : c = FaceBounds(p, i) /\ d = FaceBounds(q, j)
      OBVIOUS
    <2>5. /\ IsWindow(f) /\ IsWindow(g) /\ IsWindow(c) /\ IsWindow(d)
          /\ \A k \in Axes : c.first[k] <= f.first[k] /\ f.last[k] <= c.last[k]
          /\ \A k \in Axes : d.first[k] <= g.first[k] /\ g.last[k] <= d.last[k]
      BY <1>2, <2>4, BoundsNest, FaceWithin
    <2>6. clearance \in Nat
      OBVIOUS
    <2>7. bounds_farther_than(c, g, clearance)
      BY <2>3, <2>4, <2>5, <2>6, WithinIsFarther
    <2>8. bounds_farther_than(g, c, clearance)
      BY <2>7, GapBothWays
    <2>9. bounds_farther_than(g, f, clearance)
      BY <2>5, <2>6, <2>8, WithinIsFarther
    <2>10. bounds_farther_than(f, g, clearance)
      BY <2>9, GapBothWays
    <2> QED
      BY <1>3, <2>10 DEF bounds_farther_than
  <1>5. CASE j \in MayBeNear(p, i, q, clearance)
    <2>1. PICK orders :
            orders = UNION {{compare(exact_triangle_distance(p.mesh[m], q.mesh[n]),
                                     Squared(clearance)) :
                               n \in MayBeNear(p, m, q, clearance)} : m \in DOMAIN p.mesh}
      OBVIOUS
    <2>2. "below" \notin orders
      <3>1. p.pose.cardinal /\ q.pose.cardinal
        BY DEF IsPlaced
      <3> QED
        BY <2>1, <3>1 DEF exact_surface_gap
    <2>3. PICK d \in Int : d = exact_triangle_distance(f, g)
      BY EndDistance
    <2>4. compare(d, reach) \in orders
      <3>1. PICK row : row = {compare(exact_triangle_distance(p.mesh[i], q.mesh[n]),
                                     Squared(clearance)) :
                                n \in MayBeNear(p, i, q, clearance)}
        OBVIOUS
      <3>2. compare(d, reach) \in row
        BY <1>2, <1>3, <1>5, <2>3, <3>1
      <3>3. \E m \in DOMAIN p.mesh :
              row = {compare(exact_triangle_distance(p.mesh[m], q.mesh[n]), Squared(clearance)) :
                       n \in MayBeNear(p, m, q, clearance)}
        BY <3>1
      <3> QED
        BY <2>1, <3>2, <3>3
    <2>5. ~(d < reach)
      BY <2>2, <2>4 DEF compare
    <2>6. d <= far
      <3>1. bounds_disjoint(f, g)
        BY DEF FacesMiss
      <3>2. \/ \E v \in {f.first, f.last} : SquaredGap(Box(v, v), g) = far
            \/ \E v \in {g.first, g.last} : SquaredGap(Box(v, v), f) = far
        BY <1>3, <3>1, NearestEnd
      <3>3. /\ \A v \in {f.first, f.last} : d <= SquaredGap(Box(v, v), g)
            /\ \A v \in {g.first, g.last} : d <= SquaredGap(Box(v, v), f)
        BY <2>3, EndDistance
      <3> QED
        BY <3>2, <3>3
    <2> QED
      BY <1>3, <2>3, <2>5, <2>6
  <1> QED
    BY <1>4, <1>5
-----------------------------------------------------------------------------
(* Walls that face each other                                                  *)

(* There is a wall below a square, along an axis, of a set of squares.         *)
IsWall(c, k, w) == ~((w \in c) <=> (At(w, k, w[k] - 1) \in c))

(* A step from one number towards another.                                     *)
Toward(x, y) == IF x < y THEN x + 1 ELSE x - 1

(* How many steps there are from one to the other.                             *)
StepsTo(x, y) == IF x < y THEN y - x ELSE x - y

StepsBetween(u, v) == StepsTo(u[1], v[1]) + StepsTo(u[2], v[2])

(* A step towards a number is one step less, and no farther.                   *)
LEMMA StepIsNearer ==
  ASSUME NEW x \in Int, NEW y \in Int, x # y
  PROVE  /\ Toward(x, y) \in Int /\ StepsTo(x, y) \in Nat
         /\ StepsTo(Toward(x, y), y) = StepsTo(x, y) - 1
         /\ StepsTo(y, Toward(x, y)) = StepsTo(x, y) - 1
         /\ StepsTo(y, x) = StepsTo(x, y)
         /\ Apart(Toward(x, y), y) \in Nat /\ Apart(x, y) \in Nat
         /\ Apart(Toward(x, y), y) <= Apart(x, y)
  BY DEF Toward, StepsTo, Apart

(* The distance of squares along either axis first.                            *)
LEMMA DistanceAlong ==
  ASSUME NEW u \in Points, NEW v \in Points, NEW k \in Axes
  PROVE  /\ Distance(u, v) = Squared(Apart(u[k], v[k])) + Squared(Apart(u[3 - k], v[3 - k]))
         /\ Distance(u, v) \in Nat
         /\ Apart(u[k], v[k]) \in Nat /\ Apart(u[3 - k], v[3 - k]) \in Nat
  <1>1. CASE k = 1
    BY <1>1, DistanceIs
  <1>2. CASE k = 2
    <2>1. PICK m \in Nat, n \in Nat :
            m = Squared(Apart(u[1], v[1])) /\ n = Squared(Apart(u[2], v[2]))
      <3>1. Apart(u[1], v[1]) \in Nat /\ Apart(u[2], v[2]) \in Nat
        BY DistanceIs
      <3>2. \A x \in Nat : Squared(x) \in Nat
        BY SquareOfOpposite
      <3> QED
        BY <3>1, <3>2
    <2>2. Distance(u, v) = m + n
      BY <2>1, DistanceIs
    <2>3. 3 - k = 1
      BY <1>2
    <2> QED
      BY <1>2, <2>1, <2>2, <2>3, DistanceIs
  <1> QED
    BY <1>1, <1>2 DEF Axes

(* A square that is moved a step towards another one is nearer to it.          *)
LEMMA MovedIsNearer ==
  ASSUME NEW u \in Points, NEW v \in Points, NEW k \in Axes, u[k] # v[k],
         NEW w, w = At(u, k, Toward(u[k], v[k]))
  PROVE  /\ w \in Points /\ w[k] = Toward(u[k], v[k]) /\ w[3 - k] = u[3 - k]
         /\ Distance(w, v) <= Distance(u, v)
         /\ StepsBetween(w, v) = StepsBetween(u, v) - 1 /\ StepsBetween(u, v) \in Nat
         /\ StepsBetween(v, u) = StepsBetween(u, v)
  <1>1. PICK x \in Int, y \in Int, e \in Int, f \in Int :
          x = u[k] /\ y = v[k] /\ e = u[3 - k] /\ f = v[3 - k] /\ x # y
    BY Coordinates
  <1>2. PICK t \in Int : /\ t = Toward(x, y)
                         /\ StepsTo(t, y) = StepsTo(x, y) - 1 /\ StepsTo(x, y) \in Nat
                         /\ StepsTo(y, x) = StepsTo(x, y)
                         /\ Apart(t, y) \in Nat /\ Apart(x, y) \in Nat /\ Apart(t, y) <= Apart(x, y)
    BY <1>1, StepIsNearer
  <1>3. w \in Points /\ w[k] = t /\ w[3 - k] = e
    <2>1. w = At(u, k, t) /\ t \in Int
      BY <1>1, <1>2
    <2>2. /\ At(u, k, t) \in Points /\ At(u, k, t)[k] = t
          /\ At(u, k, t)[3 - k] = u[3 - k]
      BY <2>1, AtIs
    <2> QED
      BY <1>1, <2>1, <2>2
  <1>4. Distance(w, v) <= Distance(u, v)
    <2>1. PICK m \in Nat, n \in Nat, o \in Nat :
            /\ m = Squared(Apart(t, y)) /\ n = Squared(Apart(x, y)) /\ o = Squared(Apart(e, f))
            /\ m <= n
      <3>1. /\ Squared(Apart(t, y)) \in Nat /\ Squared(Apart(x, y)) \in Nat
            /\ Squared(Apart(t, y)) <= Squared(Apart(x, y))
        BY <1>2, SquaresInOrder
      <3>2. Apart(e, f) \in Nat
        BY <1>1, DistanceAlong
      <3>3. Squared(Apart(e, f)) \in Nat
        BY <3>2, SquareOfOpposite
      <3> QED
        BY <3>1, <3>3
    <2>2. Distance(w, v) = m + o
      BY <1>1, <1>3, <2>1, DistanceAlong
    <2>3. Distance(u, v) = n + o
      BY <1>1, <2>1, DistanceAlong
    <2> QED
      BY <2>1, <2>2, <2>3
  <1>5. PICK s \in Nat : s = StepsTo(e, f) /\ StepsTo(f, e) = s
    <2>1. StepsTo(e, f) \in Nat /\ StepsTo(f, e) = StepsTo(e, f)
      BY <1>1 DEF StepsTo
    <2> QED
      BY <2>1
  <1>6. PICK r \in Nat : r = StepsTo(x, y) /\ StepsTo(t, y) = r - 1 /\ StepsTo(y, x) = r
    BY <1>2
  <1>7. /\ StepsBetween(w, v) = (r - 1) + s
        /\ StepsBetween(u, v) = r + s /\ StepsBetween(v, u) = r + s
    <2>1. CASE k = 1
      BY <1>1, <1>3, <1>5, <1>6, <2>1 DEF StepsBetween
    <2>2. CASE k = 2
      <3>1. 3 - k = 1
        BY <2>2
      <3> QED
        BY <1>1, <1>3, <1>5, <1>6, <2>2, <3>1 DEF StepsBetween
    <2> QED
      BY <2>1, <2>2 DEF Axes
  <1>8. /\ StepsBetween(w, v) = StepsBetween(u, v) - 1 /\ StepsBetween(u, v) \in Nat
        /\ StepsBetween(v, u) = StepsBetween(u, v)
    BY <1>5, <1>6, <1>7
  <1>9. w[k] = Toward(u[k], v[k]) /\ w[3 - k] = u[3 - k]
    BY <1>1, <1>2, <1>3
  <1> QED
    BY <1>3, <1>4, <1>8, <1>9

(* Between squares of two sets that have none in common there are walls of     *)
(* both that face each other, no farther from each other than the squares.     *)
LEMMA FacingWalls ==
  ASSUME NEW a, a \subseteq Points, NEW b, b \subseteq Points, a \cap b = {},
         NEW u \in a, NEW v \in b
  PROVE  \E k \in Axes : \E w, z \in Points :
           /\ IsWall(a, k, w) /\ IsWall(b, k, z)
           /\ Squared(z[k] - w[k]) + Squared(Apart(w[3 - k], z[3 - k])) <= Distance(u, v)
  <1> DEFINE Faced(x, y) == \E k \in Axes : \E w, z \in Points :
               /\ IsWall(a, k, w) /\ IsWall(b, k, z)
               /\ Squared(z[k] - w[k]) + Squared(Apart(w[3 - k], z[3 - k])) <= Distance(x, y)
             bad == {n \in Nat : \E x \in a, y \in b : StepsBetween(x, y) = n /\ ~Faced(x, y)}
  <1>1. SUFFICES ASSUME ~Faced(u, v)
                 PROVE  FALSE
    OBVIOUS
  <1>2. \A x \in a, y \in b : StepsBetween(x, y) \in Nat
    <2>1. SUFFICES ASSUME NEW x \in a, NEW y \in b
                   PROVE  StepsBetween(x, y) \in Nat
      OBVIOUS
    <2>2. PICK x1 \in Int, x2 \in Int, y1 \in Int, y2 \in Int :
            x1 = x[1] /\ x2 = x[2] /\ y1 = y[1] /\ y2 = y[2]
      <3>1. x \in Points /\ y \in Points
        OBVIOUS
      <3> QED
        BY <3>1 DEF Points
    <2> QED
      BY <2>2 DEF StepsBetween, StepsTo
  <1>3. bad # {} /\ bad \in SUBSET Nat
    <2> HIDE DEF Faced
    <2> QED
      BY <1>1, <1>2
  <1>4. PICK n \in bad : \A m \in bad : n <= m
    <2> HIDE DEF bad
    <2> QED
      BY <1>3, LeastNat
  <1>5. PICK x \in a, y \in b : StepsBetween(x, y) = n /\ ~Faced(x, y) /\ n \in Nat
    <2> HIDE DEF Faced
    <2> QED
      BY <1>4
  <1>6. x \in Points /\ y \in Points
    BY <1>5
  <1>7. PICK k \in Axes : x[k] # y[k]
    <2>1. x # y
      BY <1>5
    <2>2. x[1] # y[1] \/ x[2] # y[2]
      BY <1>6, <2>1 DEF Points
    <2> QED
      BY <2>2 DEF Axes
  <1>8. ASSUME NEW x2 \in a, NEW y2 \in b, StepsBetween(x2, y2) = n - 1
        PROVE  Faced(x2, y2)
    <2>1. n - 1 \in Nat
      <3> HIDE DEF Faced
      <3> QED
        BY <1>2, <1>8
    <2>2. ~(n <= n - 1)
      BY <1>5
    <2> HIDE DEF Faced
    <2> QED
      BY <1>4, <1>8, <2>1, <2>2
  <1>9. PICK x2, y2 : /\ x2 = At(x, k, Toward(x[k], y[k]))
                      /\ y2 = At(y, k, Toward(y[k], x[k]))
    OBVIOUS
  <1>10. /\ x2 \in Points /\ x2[k] = Toward(x[k], y[k]) /\ x2[3 - k] = x[3 - k]
         /\ Distance(x2, y) <= Distance(x, y) /\ StepsBetween(x2, y) = StepsBetween(x, y) - 1
    <2>1. x2 = At(x, k, Toward(x[k], y[k])) /\ x[k] # y[k]
      BY <1>7, <1>9
    <2>2. PICK o : o = At(x, k, Toward(x[k], y[k]))
      OBVIOUS
    <2>3. /\ o \in Points /\ o[k] = Toward(x[k], y[k]) /\ o[3 - k] = x[3 - k]
          /\ Distance(o, y) <= Distance(x, y) /\ StepsBetween(o, y) = StepsBetween(x, y) - 1
      BY <1>6, <2>1, <2>2, MovedIsNearer
    <2> QED
      BY <2>1, <2>2, <2>3
  <1>11. /\ y2 \in Points /\ y2[k] = Toward(y[k], x[k]) /\ y2[3 - k] = y[3 - k]
         /\ Distance(y2, x) <= Distance(y, x)
         /\ StepsBetween(y2, x) = StepsBetween(y, x) - 1
         /\ StepsBetween(y2, x) = StepsBetween(x, y2)
         /\ StepsBetween(y, x) = StepsBetween(x, y)
    <2>1. /\ y2 \in Points /\ y2[k] = Toward(y[k], x[k]) /\ y2[3 - k] = y[3 - k]
          /\ Distance(y2, x) <= Distance(y, x)
          /\ StepsBetween(y2, x) = StepsBetween(y, x) - 1
      <3>1. y2 = At(y, k, Toward(y[k], x[k])) /\ y[k] # x[k]
        BY <1>7, <1>9
      <3>2. PICK o : o = At(y, k, Toward(y[k], x[k]))
        OBVIOUS
      <3>3. /\ o \in Points /\ o[k] = Toward(y[k], x[k]) /\ o[3 - k] = y[3 - k]
            /\ Distance(o, x) <= Distance(y, x) /\ StepsBetween(o, x) = StepsBetween(y, x) - 1
        BY <1>6, <3>1, <3>2, MovedIsNearer
      <3> QED
        BY <3>1, <3>2, <3>3
    <2>2. StepsBetween(y, x) = StepsBetween(x, y) /\ StepsBetween(y2, x) = StepsBetween(x, y2)
      <3>1. \A i, j \in Int : StepsTo(i, j) = StepsTo(j, i)
        BY DEF StepsTo
      <3>2. /\ x[1] \in Int /\ x[2] \in Int /\ y[1] \in Int /\ y[2] \in Int
            /\ y2[1] \in Int /\ y2[2] \in Int
        BY <1>6, <2>1 DEF Points
      <3> QED
        BY <3>1, <3>2 DEF StepsBetween
    <2> QED
      BY <2>1, <2>2
  <1>12. \A i, j \in Points : Distance(i, j) = Distance(j, i) /\ Distance(i, j) \in Nat
    BY DistanceBothWays, DistanceIs
  <1>13. x2 \notin a
    <2>1. SUFFICES ASSUME x2 \in a
                   PROVE  FALSE
      OBVIOUS
    <2>2. Faced(x2, y)
      <3> HIDE DEF Faced
      <3> QED
        BY <1>5, <1>8, <1>10, <2>1
    <2>3. PICK d \in Nat, e \in Nat : d = Distance(x2, y) /\ e = Distance(x, y) /\ d <= e
      BY <1>6, <1>10, <1>12
    <2>4. PICK i \in Axes, w \in Points, z \in Points :
            /\ IsWall(a, i, w) /\ IsWall(b, i, z)
            /\ Squared(z[i] - w[i]) + Squared(Apart(w[3 - i], z[3 - i])) <= Distance(x2, y)
      BY <2>2
    <2>5. PICK s \in Int : s = Squared(z[i] - w[i]) + Squared(Apart(w[3 - i], z[3 - i]))
      BY Coordinates, DistanceAlong DEF Squared
    <2>6. s <= e
      BY <2>3, <2>4, <2>5
    <2> QED
      BY <1>5, <2>3, <2>4, <2>5, <2>6
  <1>14. y2 \notin b
    <2>1. SUFFICES ASSUME y2 \in b
                   PROVE  FALSE
      OBVIOUS
    <2>2. Faced(x, y2)
      <3> HIDE DEF Faced
      <3> QED
        BY <1>5, <1>8, <1>11, <2>1
    <2>3. PICK d \in Nat, e \in Nat : d = Distance(x, y2) /\ e = Distance(x, y) /\ d <= e
      BY <1>6, <1>11, <1>12
    <2>4. PICK i \in Axes, w \in Points, z \in Points :
            /\ IsWall(a, i, w) /\ IsWall(b, i, z)
            /\ Squared(z[i] - w[i]) + Squared(Apart(w[3 - i], z[3 - i])) <= Distance(x, y2)
      BY <2>2
    <2>5. PICK s \in Int : s = Squared(z[i] - w[i]) + Squared(Apart(w[3 - i], z[3 - i]))
      BY Coordinates, DistanceAlong DEF Squared
    <2>6. s <= e
      BY <2>3, <2>4, <2>5
    <2> QED
      BY <1>5, <2>3, <2>4, <2>5, <2>6
  <1>15. PICK i \in Int, j \in Int : i = x[k] /\ j = y[k] /\ i # j
    BY <1>6, <1>7, Coordinates
  <1>16. PICK w \in Points, z \in Points :
           /\ IsWall(a, k, w) /\ IsWall(b, k, z)
           /\ w[3 - k] = x[3 - k] /\ z[3 - k] = y[3 - k]
           /\ z[k] - w[k] = Apart(i, j) \/ w[k] - z[k] = Apart(i, j)
    <2>1. CASE i < j
      <3>1. x2[k] = i + 1 /\ At(x2, k, i) = x
        BY <1>6, <1>9, <1>10, <1>15, <2>1, AtSame DEF Toward, At
      <3>2. y2 = At(y, k, j - 1)
        BY <1>9, <1>15, <2>1 DEF Toward
      <3>3. IsWall(a, k, x2)
        <4>1. x2[k] - 1 = i
          BY <1>15, <3>1
        <4> QED
          BY <1>5, <1>13, <3>1, <4>1 DEF IsWall
      <3>4. IsWall(b, k, y)
        BY <1>5, <1>14, <1>15, <3>2 DEF IsWall
      <3>5. y[k] - x2[k] = Apart(i, j)
        BY <1>15, <2>1, <3>1 DEF Apart
      <3> QED
        BY <1>6, <1>10, <3>3, <3>4, <3>5
    <2>2. CASE j < i
      <3>1. y2[k] = j + 1 /\ At(y2, k, j) = y
        BY <1>6, <1>9, <1>11, <1>15, <2>2, AtSame DEF Toward, At
      <3>2. x2 = At(x, k, i - 1)
        BY <1>9, <1>15, <2>2 DEF Toward
      <3>3. IsWall(b, k, y2)
        <4>1. y2[k] - 1 = j
          BY <1>15, <3>1
        <4> QED
          BY <1>5, <1>14, <3>1, <4>1 DEF IsWall
      <3>4. IsWall(a, k, x)
        BY <1>5, <1>13, <1>15, <3>2 DEF IsWall
      <3>5. x[k] - y2[k] = Apart(i, j)
        BY <1>15, <2>2, <3>1 DEF Apart
      <3> QED
        BY <1>6, <1>11, <3>3, <3>4, <3>5
    <2> QED
      BY <1>15, <2>1, <2>2
  <1>17. Squared(z[k] - w[k]) + Squared(Apart(w[3 - k], z[3 - k])) = Distance(x, y)
    <2>1. Distance(x, y) = Squared(Apart(i, j)) + Squared(Apart(x[3 - k], y[3 - k]))
      BY <1>6, <1>15, DistanceAlong
    <2>2. PICK g \in Int, h \in Int : g = z[k] /\ h = w[k]
      BY Coordinates
    <2>3. Squared(g - h) = Squared(Apart(i, j))
      <3>1. PICK m \in Nat : m = Apart(i, j)
        BY <1>6, <1>15, DistanceAlong
      <3>2. g - h = m \/ g - h = -m
        BY <1>16, <2>2, <3>1
      <3> QED
        BY <3>1, <3>2, SquareOfOpposite
    <2> QED
      BY <1>16, <2>1, <2>2, <2>3
  <1>18. Faced(x, y)
    <2>1. Distance(x, y) <= Distance(x, y)
      BY <1>6, <1>12
    <2> QED
      BY <1>16, <1>17, <2>1
  <1> QED
    BY <1>5, <1>18

(* If no two faces are nearer than the clearance, no two squares are, of a     *)
(* solid and of another one, or of all that is not the other.                  *)
LEMMA FarSquares ==
  ASSUME NEW a, IsSolid(a), NEW c, IsSolid(c), NEW b \in {c, Points \ c}, a \cap b = {},
         NEW clearance \in Nat, FarFaces(a, c, clearance), NEW u \in a, NEW v \in b
  PROVE  u # v /\ Distance(u, v) >= Squared(clearance)
  <1>1. a \subseteq Points /\ b \subseteq Points /\ c \subseteq Points
    BY DEF IsSolid
  <1>2. PICK k \in Axes, w \in Points, z \in Points :
          /\ IsWall(a, k, w) /\ IsWall(b, k, z)
          /\ Squared(z[k] - w[k]) + Squared(Apart(w[3 - k], z[3 - k])) <= Distance(u, v)
    BY <1>1, FacingWalls
  <1>3. w \in Walls(a, k)
    BY <1>2, WallsAre DEF IsWall
  <1>4. z \in Walls(c, k)
    <2>1. At(z, k, z[k] - 1) \in Points
      <3>1. z[k] - 1 \in Int
        BY Coordinates
      <3> QED
        BY <3>1, AtIs
    <2>2. ~((z \in c) <=> (At(z, k, z[k] - 1) \in c))
      BY <1>1, <1>2, <2>1 DEF IsWall
    <2> QED
      BY <2>2, WallsAre
  <1>5. PICK f \in Faces(a) : IsFace(a, k, f) /\ Covers(f, k, w)
    BY <1>3, WallHasFace
  <1>6. PICK g \in Faces(c) : IsFace(c, k, g) /\ Covers(g, k, z)
    BY <1>4, WallHasFace
  <1>7. IsBox(f) /\ IsBox(g)
    BY FaceIsBox
  <1>8. PICK j \in Axes : j = 3 - k /\ 3 - j = k
    BY DEF Axes
  <1>9. PICK x \in Int, y \in Int, i \in Int, o \in Int :
          x = w[k] /\ y = z[k] /\ i = w[j] /\ o = z[j]
    BY Coordinates
  <1>10. PICK f1 \in Int, f2 \in Int, g1 \in Int, g2 \in Int :
           /\ f1 = f.first[j] /\ f2 = f.last[j] /\ f1 <= i /\ i < f2
           /\ g1 = g.first[j] /\ g2 = g.last[j] /\ g1 <= o /\ o < g2
    BY <1>5, <1>6, <1>7, <1>8, <1>9 DEF Covers, IsBox
  <1>11. /\ f.first[k] = x /\ f.last[k] = x /\ g.first[k] = y /\ g.last[k] = y
    BY <1>5, <1>6, <1>9 DEF Covers, IsFace
  <1>12. PICK m \in Nat, n \in Nat :
           /\ m = Between(f, g, k) /\ n = Between(f, g, j)
           /\ m = y - x \/ m = x - y
           /\ n <= Apart(i, o) /\ Apart(i, o) \in Nat
    <2>1. Between(f, g, k) = Beyond(x, x, y, y) /\ Between(f, g, j) = Beyond(f1, f2, g1, g2)
      BY <1>10, <1>11 DEF Between
    <2>2. /\ Beyond(x, x, y, y) \in Nat
          /\ Beyond(x, x, y, y) = y - x \/ Beyond(x, x, y, y) = x - y
      BY DEF Beyond
    <2>3. /\ Beyond(f1, f2, g1, g2) \in Nat /\ Apart(i, o) \in Nat
          /\ Beyond(f1, f2, g1, g2) <= Apart(i, o)
      BY <1>10 DEF Beyond, Apart
    <2> QED
      BY <2>1, <2>2, <2>3
  <1>13. SquaredGap(f, g) = Squared(m) + Squared(n)
    <2>1. SquaredGap(f, g) = Squared(Between(f, g, 1)) + Squared(Between(f, g, 2))
      BY <1>7, GapsAre
    <2>2. Squared(m) \in Nat /\ Squared(n) \in Nat
      BY SquareOfOpposite
    <2>3. (k = 1 /\ j = 2) \/ (k = 2 /\ j = 1)
      BY <1>8 DEF Axes
    <2> QED
      BY <1>12, <2>1, <2>2, <2>3
  <1>14. PICK d \in Nat, e \in Nat, h \in Nat :
           /\ d = Squared(m) /\ d = Squared(y - x) /\ e = Squared(n)
           /\ h = Squared(Apart(i, o)) /\ e <= h
    <2>1. Squared(m) = Squared(y - x) /\ Squared(m) \in Nat
      <3>1. y - x \in Int /\ (m = y - x \/ m = -(y - x))
        BY <1>9, <1>12
      <3> QED
        BY <3>1, SquareOfOpposite
    <2>2. Squared(n) \in Nat /\ Squared(Apart(i, o)) \in Nat /\ Squared(n) <= Squared(Apart(i, o))
      BY <1>12, SquaresInOrder
    <2> QED
      BY <2>1, <2>2
  <1>15. d + h <= Distance(u, v)
    BY <1>2, <1>8, <1>9, <1>14
  <1>16. d + e >= Squared(clearance)
    BY <1>13, <1>14 DEF FarFaces
  <1>17. Distance(u, v) >= Squared(clearance)
    <2>1. PICK far \in Nat, reach \in Nat : far = Distance(u, v) /\ reach = Squared(clearance)
      <3>1. u \in Points /\ v \in Points
        BY <1>1
      <3> QED
        BY <3>1, DistanceIs, SquareOfOpposite
    <2> QED
      BY <1>14, <1>15, <1>16, <2>1
  <1> QED
    BY <1>17

-----------------------------------------------------------------------------
(* The shells of a surface                                                     *)

(* The ends of some faces, and the faces that have one of some corners.        *)
Ends(some) == UNION {{f.first, f.last} : f \in some}

More(c, faces) == Ends({f \in faces : {f.first, f.last} \cap c # {}})

(* A solution of the recursion that follows the faces of a surface.            *)
Follows(g, corners, faces) ==
  g = [c \in SUBSET (corners \cup Ends(faces)) |->
         IF More(c, faces) \subseteq c THEN c ELSE g[c \cup More(c, faces)]]

(* Faces have finitely many ends.                                              *)
LEMMA EndsFinite ==
  ASSUME NEW faces, IsFiniteSet(faces)
  PROVE  IsFiniteSet(Ends(faces))
  <1>1. PICK firsts, lasts : firsts = {f.first : f \in faces} /\ lasts = {f.last : f \in faces}
    OBVIOUS
  <1>2. IsFiniteSet(firsts)
    <2>1. PICK g : g = [f \in faces |-> f.first]
      OBVIOUS
    <2>2. firsts = {g[f] : f \in faces}
      BY <1>1, <2>1
    <2> QED
      BY <2>1, <2>2, ImageIsFinite
  <1>3. IsFiniteSet(lasts)
    <2>1. PICK g : g = [f \in faces |-> f.last]
      OBVIOUS
    <2>2. lasts = {g[f] : f \in faces}
      BY <1>1, <2>1
    <2> QED
      BY <2>1, <2>2, ImageIsFinite
  <1>4. Ends(faces) = firsts \cup lasts
    BY <1>1 DEF Ends
  <1> QED
    BY <1>2, <1>3, <1>4, FS_Union

(* The recursion that follows the faces of a surface has a solution.           *)
LEMMA SomeFollowing ==
  ASSUME NEW corners, IsFiniteSet(corners), NEW faces, IsFiniteSet(faces)
  PROVE  \E g : Follows(g, corners, faces)
  <1>1. PICK S : S = corners \cup Ends(faces)
    OBVIOUS
  <1>2. IsFiniteSet(S)
    BY <1>1, EndsFinite, FS_Union
  <1>3. \A c : More(c, faces) \subseteq S
    BY <1>1 DEF More, Ends
  <1> DEFINE D == SUBSET S
             stop == {c \in D : More(c, faces) \subseteq c}
             l == [c \in D |-> c \cup More(c, faces)]
             size == [c \in D |-> Cardinality(S \ c)]
             base == [c \in D |-> c]
  <1>4. \A c \in D : /\ l[c] = c \cup More(c, faces) /\ size[c] = Cardinality(S \ c)
                     /\ base[c] = c
                     /\ c \in stop <=> More(c, faces) \subseteq c
    OBVIOUS
  <1>5. PICK top : top = Cardinality(S) + 1
    OBVIOUS
  <1>6. size \in [D -> Nat] /\ top \in Nat /\ \A c \in D : size[c] < top
    <2>1. \A c \in D : S \ c \in SUBSET S
      OBVIOUS
    <2>2. \A c \in D : Cardinality(S \ c) \in Nat /\ Cardinality(S \ c) < top
      BY <1>2, <1>5, <2>1, SizesOfParts
    <2> QED
      BY <1>2, <1>5, <2>2, SizesOfParts
  <1>7. ASSUME NEW c \in D \ stop
        PROVE  l[c] \in D /\ size[l[c]] < size[c]
    <2>1. PICK m : m = More(c, faces) /\ m \subseteq S /\ ~(m \subseteq c)
      BY <1>3
    <2>2. S \ (c \cup m) \in SUBSET (S \ c) /\ S \ (c \cup m) # S \ c /\ S \ c \in SUBSET S
      BY <2>1
    <2>3. Cardinality(S \ (c \cup m)) < Cardinality(S \ c)
      BY <1>2, <2>2, SizesOfParts
    <2>4. l[c] = c \cup m /\ c \cup m \in D /\ c \in D
      BY <2>1
    <2> HIDE DEF l, size, D, stop
    <2> QED
      BY <1>4, <2>3, <2>4
  <1>8. Descends(D, size, top, stop, l, l)
    <2> HIDE DEF l, size, D, stop
    <2> QED
      BY <1>6, <1>7 DEF Descends
  <1>9. PICK g : IsSolution(g, D, "next", stop, base, base, l, l)
    <2> HIDE DEF l, size, D, stop, base
    <2> QED
      BY <1>8, SomeSolution
  <1>10. g = [c \in D |-> g[c]]
    <2> HIDE DEF l, D, stop, base
    <2> QED
      BY <1>9 DEF IsSolution
  <1>11. ASSUME NEW c \in D
         PROVE  g[c] = IF More(c, faces) \subseteq c THEN c ELSE g[c \cup More(c, faces)]
    <2>1. g[c] = IF c \in stop THEN base[c] ELSE g[l[c]]
      <3> HIDE DEF l, D, stop, base
      <3> QED
        BY <1>9 DEF IsSolution, Joined
    <2>2. /\ l[c] = c \cup More(c, faces) /\ base[c] = c
          /\ c \in stop <=> More(c, faces) \subseteq c
      <3> HIDE DEF l, D, stop, base
      <3> QED
        BY <1>4
    <2>3. CASE c \in stop
      <3> HIDE DEF l, D, stop, base
      <3> QED
        BY <2>1, <2>2, <2>3
    <2>4. CASE c \notin stop
      <3> HIDE DEF l, D, stop, base
      <3> QED
        BY <2>1, <2>2, <2>4
    <2> QED
      BY <2>3, <2>4
  <1>12. Follows(g, corners, faces)
    <2> HIDE DEF l, stop, base, size
    <2> QED
      BY <1>1, <1>10, <1>11 DEF Follows
  <1> QED
    BY <1>12

(* What faces connect to some corners holds these, and whatever the ends of    *)
(* each face agree on, all that is connected agrees on.                        *)
LEMMA ReachedAgree ==
  ASSUME NEW corners, IsFiniteSet(corners), NEW faces, IsFiniteSet(faces)
  PROVE  /\ corners \subseteq Reached(corners, faces)
         /\ \A P : /\ \A f \in faces : (f.first \in P) <=> (f.last \in P)
                   /\ corners \subseteq P
                   => Reached(corners, faces) \subseteq P
  <1>1. PICK S : S = corners \cup Ends(faces)
    OBVIOUS
  <1>2. IsFiniteSet(S)
    BY <1>1, EndsFinite, FS_Union
  <1>3. \A c : More(c, faces) \subseteq S
    BY <1>1 DEF More, Ends
  <1>4. PICK g : g = CHOOSE h : Follows(h, corners, faces)
    OBVIOUS
  <1>5. Reached(corners, faces) = g[corners]
    BY <1>1, <1>4 DEF Reached, Follows, More, Ends
  <1>6. Follows(g, corners, faces)
    BY <1>4, SomeFollowing
  <1>7. ASSUME NEW c \in SUBSET S
        PROVE  g[c] = IF More(c, faces) \subseteq c THEN c ELSE g[c \cup More(c, faces)]
    BY <1>1, <1>6 DEF Follows
  <1> DEFINE Agree(P) == \A f \in faces : (f.first \in P) <=> (f.last \in P)
             Right(c) == c \subseteq g[c] /\ \A P : Agree(P) /\ c \subseteq P => g[c] \subseteq P
             bad == {n \in Nat : \E c \in SUBSET S : Cardinality(S \ c) = n /\ ~Right(c)}
  <1>8. bad = {}
    <2>1. SUFFICES ASSUME bad # {}
                   PROVE  FALSE
      OBVIOUS
    <2>2. PICK n \in bad : \A m \in bad : n <= m
      <3>1. bad \in SUBSET Nat
        OBVIOUS
      <3> HIDE DEF bad
      <3> QED
        BY <2>1, <3>1, LeastNat
    <2>3. PICK c \in SUBSET S : Cardinality(S \ c) = n /\ ~Right(c) /\ n \in Nat
      <3> HIDE DEF Right
      <3> QED
        BY <2>2
    <2>4. PICK m : m = More(c, faces) /\ m \subseteq S
      BY <1>3
    <2>5. CASE m \subseteq c
      <3>1. g[c] = c
        BY <1>7, <2>3, <2>4, <2>5
      <3> QED
        BY <2>3, <3>1
    <2>6. CASE ~(m \subseteq c)
      <3>1. PICK e : e = c \cup m
        OBVIOUS
      <3>2. e \in SUBSET S /\ S \ e \in SUBSET (S \ c) /\ S \ e # S \ c /\ S \ c \in SUBSET S
        BY <2>3, <2>4, <2>6, <3>1
      <3>3. Cardinality(S \ e) < n /\ Cardinality(S \ e) \in Nat
        <4>1. Cardinality(S \ e) < Cardinality(S \ c)
          BY <1>2, <3>2, SizesOfParts
        <4>2. Cardinality(S \ e) \in Nat
          BY <1>2, FS_Subset, FS_CardinalityType
        <4> QED
          BY <2>3, <4>1, <4>2
      <3>4. Right(e)
        <4>1. Cardinality(S \ e) \notin bad
          <5> HIDE DEF bad
          <5> QED
            BY <2>2, <2>3, <3>3
        <4> HIDE DEF Right
        <4> QED
          BY <3>2, <3>3, <4>1
      <3>5. g[c] = g[e]
        BY <1>7, <2>3, <2>4, <2>6, <3>1
      <3>6. ASSUME NEW P, Agree(P), c \subseteq P
            PROVE  e \subseteq P
        <4>1. SUFFICES ASSUME NEW v \in m
                       PROVE  v \in P
          BY <3>1, <3>6
        <4>2. PICK f \in faces : {f.first, f.last} \cap c # {} /\ v \in {f.first, f.last}
          BY <2>4, <4>1 DEF More, Ends
        <4>3. (f.first \in P) <=> (f.last \in P)
          BY <3>6
        <4> QED
          BY <3>6, <4>2, <4>3
      <3>7. c \subseteq g[c]
        BY <3>1, <3>4, <3>5
      <3>8. ASSUME NEW P, Agree(P), c \subseteq P
            PROVE  g[c] \subseteq P
        <4>1. e \subseteq P
          <5> HIDE DEF Agree
          <5> QED
            BY <3>6, <3>8
        <4> HIDE DEF Agree
        <4> QED
          BY <3>4, <3>5, <3>8, <4>1
      <3>9. Right(c)
        <4> HIDE DEF Agree
        <4> QED
          BY <3>7, <3>8
      <3> HIDE DEF Right, bad
      <3> QED
        BY <2>3, <3>9
    <2> QED
      BY <2>5, <2>6
  <1>9. Right(corners)
    <2>1. corners \in SUBSET S /\ Cardinality(S \ corners) \in Nat
      BY <1>1, <1>2, FS_Subset, FS_CardinalityType
    <2> HIDE DEF Right
    <2> QED
      BY <1>8, <2>1
  <1> QED
    BY <1>5, <1>9

(* A solution of the recursion that takes one corner of each shell.            *)
First(left) == (CHOOSE f \in left : TRUE).first

Beside(left) == {f \in left : f.first \notin Reached({First(left)}, left)}

Witnesses(g, faces) ==
  g = [left \in SUBSET faces |->
         IF left = {} THEN {} ELSE {First(left)} \cup g[Beside(left)]]

(* Beside the shell of the first face there are fewer faces.                   *)
LEMMA BesideIsLess ==
  ASSUME NEW faces, IsFiniteSet(faces), NEW left \in SUBSET faces, left # {}
  PROVE  /\ Beside(left) \in SUBSET left /\ Beside(left) # left
         /\ \E f \in left : First(left) = f.first
  <1>1. PICK f \in left : First(left) = f.first
    BY DEF First
  <1>2. PICK one : one = {First(left)}
    OBVIOUS
  <1>3. IsFiniteSet(left) /\ IsFiniteSet(one)
    BY <1>2, FS_Subset, FS_Singleton
  <1>4. one \subseteq Reached(one, left)
    BY <1>3, ReachedAgree
  <1>5. f \notin Beside(left)
    BY <1>1, <1>2, <1>4 DEF Beside
  <1> QED
    BY <1>1, <1>5 DEF Beside

(* The recursion that takes one corner of each shell has a solution.           *)
LEMMA SomeWitnesses ==
  ASSUME NEW faces, IsFiniteSet(faces)
  PROVE  \E g : Witnesses(g, faces)
  <1> DEFINE D == SUBSET faces
             stop == {{}}
             x == [left \in D |-> First(left)]
             l == [left \in D |-> Beside(left)]
             size == [left \in D |-> Cardinality(left)]
             base == [left \in D |-> {}]
  <1>1. \A left \in D : /\ l[left] = Beside(left) /\ size[left] = Cardinality(left)
                        /\ base[left] = {} /\ x[left] = First(left)
                        /\ left \in stop <=> left = {}
    OBVIOUS
  <1>2. PICK top : top = Cardinality(faces) + 1
    OBVIOUS
  <1>3. size \in [D -> Nat] /\ top \in Nat /\ \A left \in D : size[left] < top
    BY <1>2, SizesOfParts
  <1>4. ASSUME NEW left \in D \ stop
        PROVE  l[left] \in D /\ size[l[left]] < size[left]
    <2>1. left \in D /\ left # {}
      OBVIOUS
    <2>2. PICK t : t = Beside(left)
      OBVIOUS
    <2>3. t \in SUBSET left /\ t # left /\ t \in D
      BY <2>1, <2>2, BesideIsLess
    <2>4. Cardinality(t) < Cardinality(left)
      BY <2>1, <2>3, SizesOfParts
    <2> HIDE DEF l, size, D, stop, x, base
    <2> QED
      BY <1>1, <2>1, <2>2, <2>3, <2>4
  <1>5. Descends(D, size, top, stop, l, l)
    <2> HIDE DEF l, size, D, stop
    <2> QED
      BY <1>3, <1>4 DEF Descends
  <1>6. PICK g : IsSolution(g, D, "insert", stop, base, x, l, l)
    <2> HIDE DEF l, size, D, stop, base, x
    <2> QED
      BY <1>5, SomeSolution
  <1>7. g = [left \in D |-> g[left]]
    <2> HIDE DEF l, D, stop, base, x
    <2> QED
      BY <1>6 DEF IsSolution
  <1>8. ASSUME NEW left \in D
        PROVE  g[left] = IF left = {} THEN {} ELSE {First(left)} \cup g[Beside(left)]
    <2>1. g[left] = IF left \in stop THEN base[left] ELSE {x[left]} \cup g[l[left]]
      <3> HIDE DEF l, D, stop, base, x
      <3> QED
        BY <1>6 DEF IsSolution, Joined
    <2>2. /\ l[left] = Beside(left) /\ base[left] = {} /\ x[left] = First(left)
          /\ left \in stop <=> left = {}
      <3> HIDE DEF l, D, stop, base, x
      <3> QED
        BY <1>1
    <2> HIDE DEF l, D, stop, base, x
    <2> QED
      BY <2>1, <2>2
  <1>9. Witnesses(g, faces)
    <2> HIDE DEF l, stop, base, size, x
    <2> QED
      BY <1>7, <1>8 DEF Witnesses
  <1> QED
    BY <1>9

(* Each shell has a witness, which agrees with the corners of its faces, and   *)
(* every witness is a corner.                                                  *)
LEMMA ShellsAreWitnessed ==
  ASSUME NEW faces, IsFiniteSet(faces), NEW P,
         \A f \in faces : (f.first \in P) <=> (f.last \in P)
  PROVE  /\ \A f \in faces : \E w \in shell_witnesses(faces) : (w \in P) <=> (f.first \in P)
         /\ \A w \in shell_witnesses(faces) : \E f \in faces : w = f.first
  <1>1. PICK g : g = CHOOSE h : Witnesses(h, faces)
    OBVIOUS
  <1>2. shell_witnesses(faces) = g[faces]
    BY <1>1 DEF shell_witnesses, Witnesses, First, Beside
  <1>3. Witnesses(g, faces)
    BY <1>1, SomeWitnesses
  <1>4. ASSUME NEW left \in SUBSET faces
        PROVE  g[left] = IF left = {} THEN {} ELSE {First(left)} \cup g[Beside(left)]
    BY <1>3 DEF Witnesses
  <1> DEFINE Right(left) == /\ \A f \in left : \E w \in g[left] : (w \in P) <=> (f.first \in P)
                            /\ \A w \in g[left] : \E f \in left : w = f.first
             bad == {n \in Nat : \E left \in SUBSET faces : Cardinality(left) = n /\ ~Right(left)}
  <1>5. bad = {}
    <2>1. SUFFICES ASSUME bad # {}
                   PROVE  FALSE
      OBVIOUS
    <2>2. PICK n \in bad : \A m \in bad : n <= m
      <3>1. bad \in SUBSET Nat
        OBVIOUS
      <3> HIDE DEF bad
      <3> QED
        BY <2>1, <3>1, LeastNat
    <2>3. PICK left \in SUBSET faces : Cardinality(left) = n /\ ~Right(left) /\ n \in Nat
      <3> HIDE DEF Right
      <3> QED
        BY <2>2
    <2>4. left # {}
      <3>1. left = {} => g[left] = {}
        BY <1>4, <2>3
      <3> QED
        BY <2>3, <3>1
    <2>5. PICK t, one : t = Beside(left) /\ one = {First(left)}
      OBVIOUS
    <2>6. t \in SUBSET left /\ t # left /\ t \in SUBSET faces
      BY <2>3, <2>4, <2>5, BesideIsLess
    <2>7. PICK e \in left : First(left) = e.first
      BY <2>3, <2>4, BesideIsLess
    <2>8. g[left] = one \cup g[t]
      BY <1>4, <2>3, <2>4, <2>5
    <2>9. Right(t)
      <3>1. Cardinality(t) < n /\ Cardinality(t) \in Nat
        <4>1. Cardinality(t) < Cardinality(left) /\ Cardinality(t) \in Nat
          BY <2>3, <2>6, SizesOfParts
        <4> QED
          BY <2>3, <4>1
      <3>2. Cardinality(t) \notin bad
        <4> HIDE DEF bad
        <4> QED
          BY <2>2, <2>3, <3>1
      <3> HIDE DEF Right
      <3> QED
        BY <2>6, <3>1, <3>2
    <2>10. ASSUME NEW f \in left, f \notin t
           PROVE  (First(left) \in P) <=> (f.first \in P)
      <3>1. f.first \in Reached(one, left)
        BY <2>5, <2>10 DEF Beside
      <3>2. IsFiniteSet(one) /\ IsFiniteSet(left)
        BY <2>3, <2>5, FS_Subset, FS_Singleton
      <3>3. ASSUME NEW Q, \A h \in left : (h.first \in Q) <=> (h.last \in Q), one \subseteq Q
            PROVE  f.first \in Q
        BY <3>1, <3>2, <3>3, ReachedAgree
      <3>4. CASE First(left) \in P
        <4>1. \A h \in left : (h.first \in P) <=> (h.last \in P)
          BY <2>3
        <4> QED
          BY <2>5, <3>3, <3>4, <4>1
      <3>5. CASE First(left) \notin P
        <4>1. PICK Q : Q = (Ends(left) \cup one) \ P
          OBVIOUS
        <4>2. ASSUME NEW h \in left
              PROVE  (h.first \in Q) <=> (h.last \in Q)
          <5>1. h.first \in Ends(left) /\ h.last \in Ends(left)
            BY DEF Ends
          <5>2. (h.first \in P) <=> (h.last \in P)
            BY <2>3
          <5> QED
            BY <4>1, <5>1, <5>2
        <4>3. f.first \in Q
          BY <2>5, <3>3, <3>5, <4>1, <4>2
        <4> QED
          BY <3>5, <4>1, <4>3
      <3> QED
        BY <3>4, <3>5
    <2>11. \A f \in left : \E w \in g[left] : (w \in P) <=> (f.first \in P)
      <3>1. SUFFICES ASSUME NEW f \in left
                     PROVE  \E w \in g[left] : (w \in P) <=> (f.first \in P)
        OBVIOUS
      <3>2. CASE f \in t
        <4>1. PICK w \in g[t] : (w \in P) <=> (f.first \in P)
          BY <2>9, <3>2
        <4> QED
          BY <2>8, <4>1
      <3>3. CASE f \notin t
        <4>1. First(left) \in g[left]
          BY <2>5, <2>8
        <4> QED
          BY <2>10, <3>1, <3>3, <4>1
      <3> QED
        BY <3>2, <3>3
    <2>12. \A w \in g[left] : \E f \in left : w = f.first
      BY <2>5, <2>6, <2>7, <2>8, <2>9
    <2> QED
      BY <2>3, <2>11, <2>12
  <1>6. Right(faces)
    <2>1. Cardinality(faces) \in Nat /\ faces \in SUBSET faces
      BY FS_CardinalityType
    <2> HIDE DEF Right
    <2> QED
      BY <1>5, <2>1
  <1> QED
    BY <1>2, <1>6
-----------------------------------------------------------------------------
(* What the surfaces tell when they do not meet                                *)

(* Boxes with a point in common are not apart.                                 *)
LEMMA CommonPoint ==
  ASSUME NEW f, IsBox(f), NEW g, IsBox(g), NEW v \in Points,
         \A k \in Axes : /\ f.first[k] <= v[k] /\ v[k] <= f.last[k]
                         /\ g.first[k] <= v[k] /\ v[k] <= g.last[k]
  PROVE  ~bounds_disjoint(f, g)
  <1>1. ASSUME NEW k \in Axes
        PROVE  ~(Between(f, g, k) > 0)
    <2>1. PICK a1 \in Int, a2 \in Int, b1 \in Int, b2 \in Int, x \in Int :
            /\ a1 = f.first[k] /\ a2 = f.last[k] /\ b1 = g.first[k] /\ b2 = g.last[k] /\ x = v[k]
      BY Coordinates DEF IsBox
    <2>2. a1 <= x /\ x <= a2 /\ b1 <= x /\ x <= b2
      BY <2>1
    <2>3. Between(f, g, k) = Beyond(a1, a2, b1, b2)
      BY <2>1 DEF Between
    <2>4. ~(Beyond(a1, a2, b1, b2) > 0)
      BY <2>1, <2>2 DEF Beyond
    <2> QED
      BY <2>3, <2>4
  <1> QED
    BY <1>1, GapsAre

(* There is no wall of a solid at a point of a face that its faces miss.       *)
LEMMA NoWallAt ==
  ASSUME NEW a, IsSolid(a), NEW f \in Faces(a), NEW c, IsSolid(c),
         \A g \in Faces(c) : bounds_disjoint(f, g), NEW v \in Points, OnFace(v, f),
         NEW k \in Axes
  PROVE  ~IsWall(c, k, v) /\ ~IsWall(c, k, At(v, 3 - k, v[3 - k] - 1))
  <1>1. PICK j \in Axes : j = 3 - k /\ 3 - j = k /\ \A m \in Axes : m = j \/ m = k
    BY DEF Axes
  <1>2. PICK x \in Int, y \in Int : x = v[k] /\ y = v[j]
    BY Coordinates
  <1>3. IsBox(f) /\ \A m \in Axes : f.first[m] <= v[m] /\ v[m] <= f.last[m]
    BY FaceIsBox DEF OnFace
  <1>4. ASSUME NEW w \in {v, At(v, j, y - 1)}, IsWall(c, k, w)
        PROVE  FALSE
    <2>1. y - 1 \in Int
      BY <1>2
    <2>2. /\ At(v, j, y - 1) \in Points /\ At(v, j, y - 1)[j] = y - 1
          /\ At(v, j, y - 1)[3 - j] = v[3 - j]
      BY <2>1, AtIs
    <2>3. w \in Points /\ w[k] = x /\ (w[j] = y \/ w[j] = y - 1)
      BY <1>1, <1>2, <2>2
    <2>4. w \in Walls(c, k)
      BY <1>4, <2>3, WallsAre DEF IsWall
    <2>5. PICK g \in Faces(c) : IsFace(c, k, g) /\ Covers(g, k, w)
      BY <2>4, WallHasFace
    <2>6. IsBox(g)
      BY FaceIsBox
    <2>7. g.first[k] = x /\ g.last[k] = x
      BY <2>3, <2>5 DEF Covers, IsFace
    <2>8. PICK g1 \in Int, g2 \in Int :
            g1 = g.first[j] /\ g2 = g.last[j] /\ g1 <= w[j] /\ w[j] < g2
      BY <1>1, <2>5, <2>6 DEF Covers, IsBox
    <2>9. g1 <= y /\ y <= g2
      BY <1>2, <2>3, <2>8
    <2>10. \A m \in Axes : g.first[m] <= v[m] /\ v[m] <= g.last[m]
      BY <1>1, <1>2, <2>7, <2>8, <2>9
    <2>11. ~bounds_disjoint(f, g)
      BY <1>3, <2>6, <2>10, CommonPoint
    <2> QED
      BY <2>11
  <1> QED
    BY <1>1, <1>2, <1>4

(* A face that a solid's faces miss lies inside of it or outside.              *)
LEMMA FaceStays ==
  ASSUME NEW a, IsSolid(a), NEW f \in Faces(a), NEW c, IsSolid(c),
         \A g \in Faces(c) : bounds_disjoint(f, g),
         NEW k \in Axes, IsFace(a, k, f), NEW i \in f.first[3 - k]..f.last[3 - k]
  PROVE  (At(f.first, 3 - k, i) \in c) <=> (f.first \in c)
  <1>1. PICK j \in Axes : j = 3 - k /\ 3 - j = k
    BY DEF Axes
  <1>2. PICK lo \in Int, hi \in Int, x \in Int :
          /\ lo = f.first[j] /\ hi = f.last[j] /\ x = f.first[k] /\ f.last[k] = x
          /\ f.first \in Points
    BY <1>1, FaceWithin DEF IsFace
  <1>3. PICK T : T = {n \in Int : At(f.first, j, n) \in c}
    OBVIOUS
  <1>4. ASSUME NEW n \in (lo + 1)..hi
        PROVE  (n \in T) <=> (n - 1 \in T)
    <2>1. PICK v \in Points : v = At(f.first, j, n) /\ v[j] = n /\ v[k] = x
      <3>1. n \in Int
        OBVIOUS
      <3>2. /\ At(f.first, j, n) \in Points /\ At(f.first, j, n)[j] = n
            /\ At(f.first, j, n)[3 - j] = f.first[3 - j]
        BY <1>2, <3>1, AtIs
      <3> QED
        BY <1>1, <1>2, <3>2
    <2>2. OnFace(v, f)
      <3>1. \A m \in Axes : m = k \/ m = j
        BY <1>1 DEF Axes
      <3>2. x <= x /\ lo <= n /\ n <= hi
        OBVIOUS
      <3> QED
        BY <1>2, <2>1, <3>1, <3>2 DEF OnFace
    <2>3. ~IsWall(c, j, v)
      BY <2>2, NoWallAt
    <2>4. At(v, j, v[j] - 1) = At(f.first, j, n - 1)
      BY <2>1 DEF At
    <2>5. (v \in c) <=> (At(f.first, j, n - 1) \in c)
      BY <2>3, <2>4 DEF IsWall
    <2> QED
      BY <1>3, <2>1, <2>5
  <1>5. (i \in T) <=> (lo \in T)
    <2>1. lo \in Int /\ hi \in Int /\ i \in lo..hi
      BY <1>1, <1>2
    <2> HIDE <1>3
    <2> QED
      BY <1>4, <2>1, AlongLine
  <1>6. At(f.first, j, lo) = f.first
    BY <1>2, AtSame
  <1> QED
    BY <1>1, <1>2, <1>3, <1>5, <1>6

(* A wall of a solid has a witness on the same side of the surface of another. *)
LEMMA WallIsWitnessed ==
  ASSUME NEW a, IsSolid(a), NEW c, IsSolid(c), FacesMiss(a, c),
         NEW k \in Axes, NEW w \in Points, IsWall(a, k, w)
  PROVE  /\ (At(w, k, w[k] - 1) \in c) <=> (w \in c)
         /\ \E z \in shell_witnesses(Faces(a)) : (z \in c) <=> (w \in c)
  <1>1. PICK f \in Faces(a) : IsFace(a, k, f) /\ Covers(f, k, w)
    BY WallHasFace, WallsAre DEF IsWall
  <1>2. \A g \in Faces(c) : bounds_disjoint(f, g)
    BY DEF FacesMiss
  <1>3. PICK j \in Axes : j = 3 - k /\ 3 - j = k /\ \A m \in Axes : m = k \/ m = j
    BY DEF Axes
  <1>4. PICK lo \in Int, hi \in Int, x \in Int, i \in Int :
          /\ lo = f.first[j] /\ hi = f.last[j] /\ x = f.first[k] /\ f.last[k] = x /\ x = w[k]
          /\ i = w[j] /\ lo <= i /\ i < hi /\ f.first \in Points
    <2>1. /\ f.first \in Points /\ f.last \in Points
          /\ f.first[j] \in Int /\ f.last[j] \in Int /\ f.first[k] \in Int
      BY <1>3, FaceWithin
    <2>2. w[j] \in Int
      BY Coordinates
    <2>3. f.last[k] = f.first[k] /\ f.first[k] = w[k] /\ f.first[j] <= w[j] /\ w[j] < f.last[j]
      BY <1>1, <1>3 DEF Covers, IsFace
    <2> QED
      BY <2>1, <2>2, <2>3
  <1>5. OnFace(w, f)
    <2>1. x <= x /\ lo <= i /\ i <= hi
      BY <1>4
    <2> QED
      BY <1>3, <1>4, <2>1 DEF OnFace
  <1>6. (At(w, k, w[k] - 1) \in c) <=> (w \in c)
    <2>1. ~IsWall(c, k, w)
      BY <1>2, <1>5, NoWallAt
    <2> QED
      BY <2>1 DEF IsWall
  <1>7. w = At(f.first, j, i)
    <2>1. PICK v \in Points : v = At(f.first, j, i) /\ v[j] = i /\ v[3 - j] = f.first[3 - j]
      <3>1. PICK e \in Points : e = f.first
        BY <1>4
      <3>2. At(e, j, i) \in Points /\ At(e, j, i)[j] = i /\ At(e, j, i)[3 - j] = e[3 - j]
        BY <1>4, AtIs
      <3> QED
        BY <3>1, <3>2
    <2>2. v[k] = w[k] /\ v[3 - k] = w[3 - k]
      BY <1>3, <1>4, <2>1
    <2>3. v = w
      BY <2>2, SamePoint
    <2> QED
      BY <2>1, <2>3
  <1>8. (w \in c) <=> (f.first \in c)
    <2>1. i \in f.first[3 - k]..f.last[3 - k]
      BY <1>3, <1>4
    <2>2. (At(f.first, 3 - k, i) \in c) <=> (f.first \in c)
      BY <1>1, <1>2, <2>1, FaceStays
    <2> QED
      BY <1>3, <1>7, <2>2
  <1>9. ASSUME NEW h \in Faces(a)
        PROVE  (h.first \in c) <=> (h.last \in c)
    <2>1. PICK n \in Axes : IsFace(a, n, h)
      BY FacesAre
    <2>2. PICK m \in Axes : m = 3 - n /\ 3 - m = n
      BY DEF Axes
    <2>3. PICK e \in Int, o \in Int :
            /\ e = h.first[m] /\ o = h.last[m] /\ e < o /\ h.first \in Points /\ h.last \in Points
            /\ h.last[n] = h.first[n]
      BY <2>1, <2>2, Coordinates DEF IsFace
    <2>4. h.last = At(h.first, m, o)
      <3>1. PICK v \in Points : v = At(h.first, m, o) /\ v[m] = o /\ v[3 - m] = h.first[3 - m]
        <4>1. PICK p \in Points : p = h.first
          BY <2>3
        <4>2. At(p, m, o) \in Points /\ At(p, m, o)[m] = o /\ At(p, m, o)[3 - m] = p[3 - m]
          BY <2>3, AtIs
        <4> QED
          BY <4>1, <4>2
      <3>2. v[n] = h.last[n] /\ v[3 - n] = h.last[3 - n]
        BY <2>2, <2>3, <3>1
      <3>3. v = h.last
        BY <2>3, <3>2, SamePoint
      <3> QED
        BY <3>1, <3>3
    <2>5. o \in h.first[3 - n]..h.last[3 - n]
      BY <2>2, <2>3
    <2>6. \A g \in Faces(c) : bounds_disjoint(h, g)
      BY DEF FacesMiss
    <2>7. (At(h.first, 3 - n, o) \in c) <=> (h.first \in c)
      BY <2>1, <2>5, <2>6, FaceStays
    <2> QED
      BY <2>2, <2>4, <2>7
  <1>10. PICK z \in shell_witnesses(Faces(a)) : (z \in c) <=> (f.first \in c)
    BY <1>9, FacesFinite, ShellsAreWitnessed
  <1> QED
    BY <1>6, <1>8, <1>10

(* Where a solid meets another one, or lies beyond it, and their surfaces do   *)
(* not meet, a witness of the one lies there, or one of the other lies in it.  *)
LEMMA WitnessesTell ==
  ASSUME NEW a, IsSolid(a), NEW c, IsSolid(c), FacesMiss(a, c), NEW b \in {c, Points \ c},
         NEW u \in a \cap b
  PROVE  \/ \E z \in shell_witnesses(Faces(a)) : (z \in c) <=> (b = c)
         \/ \E z \in shell_witnesses(Faces(c)) : z \in a
  <1>1. /\ a \subseteq Points /\ c \subseteq Points /\ u \in Points
        /\ \A x \in Points : (x \in b) <=> ((x \in c) <=> (b = c))
    BY DEF IsSolid
  <1>2. PICK row : row = {x \in a \cap b : x[2] = u[2]}
    OBVIOUS
  <1>3. PICK m \in Int : At(u, 1, m) \in a \cap b /\ At(u, 1, m + 1) \notin a \cap b
    <2>1. PICK values : values = {x[1] : x \in row}
      OBVIOUS
    <2>2. IsFiniteSet(row)
      BY <1>2, FS_Subset DEF IsSolid
    <2>3. IsFiniteSet(values)
      <3>1. PICK g : g = [x \in row |-> x[1]]
        OBVIOUS
      <3>2. values = {g[x] : x \in row}
        BY <2>1, <3>1
      <3> QED
        BY <2>2, <3>1, <3>2, ImageIsFinite
    <2>4. values \in SUBSET Int /\ values # {}
      BY <1>1, <1>2, <2>1 DEF Points
    <2>5. PICK m \in Int : m = Max(values) /\ m \in values /\ \A n \in values : n <= m
      BY <2>3, <2>4, MaxIsGreatest
    <2>6. PICK x \in row : x[1] = m
      BY <2>1, <2>5
    <2>7. x = At(u, 1, m)
      BY <1>1, <1>2, <2>6 DEF At, Points
    <2>8. At(u, 1, m + 1) \notin a \cap b
      <3>1. ASSUME At(u, 1, m + 1) \in a \cap b
            PROVE  m + 1 \in values
        <4>1. At(u, 1, m + 1)[1] = m + 1 /\ At(u, 1, m + 1)[2] = u[2]
          BY DEF At
        <4>2. At(u, 1, m + 1) \in row
          BY <1>2, <3>1, <4>1
        <4> QED
          BY <2>1, <4>1, <4>2
      <3> QED
        BY <2>5, <3>1
    <2> QED
      BY <1>2, <2>6, <2>7, <2>8
  <1>4. PICK k \in Axes : k = 1
    BY DEF Axes
  <1>5. PICK w \in Points, x \in Points :
          /\ w = At(u, 1, m + 1) /\ x = At(u, 1, m) /\ At(w, k, w[k] - 1) = x
    <2>1. m + 1 \in Int
      OBVIOUS
    <2>2. At(u, k, m + 1) \in Points /\ At(u, k, m) \in Points /\ At(u, k, m + 1)[k] = m + 1
      BY <1>1, <2>1, AtIs
    <2>3. At(At(u, k, m + 1), k, (m + 1) - 1) = At(u, k, m)
      BY <1>4 DEF At
    <2> QED
      BY <1>4, <2>2, <2>3
  <1>6. x \in a /\ x \in b /\ (w \notin a \/ w \notin b)
    BY <1>3, <1>5
  <1>7. FacesMiss(c, a)
    BY GapBothWays DEF FacesMiss
  <1>8. CASE w \notin a
    <2>1. IsWall(a, k, w)
      BY <1>5, <1>6, <1>8 DEF IsWall
    <2>2. (x \in c) <=> (w \in c)
      BY <1>5, <2>1, WallIsWitnessed
    <2>3. PICK z \in shell_witnesses(Faces(a)) : (z \in c) <=> (w \in c)
      BY <2>1, WallIsWitnessed
    <2> QED
      BY <1>1, <1>6, <2>2, <2>3
  <1>9. CASE w \in a /\ w \notin b
    <2>1. IsWall(c, k, w)
      BY <1>1, <1>5, <1>6, <1>9 DEF IsWall
    <2>2. PICK z \in shell_witnesses(Faces(c)) : (z \in a) <=> (w \in a)
      BY <1>7, <2>1, WallIsWitnessed
    <2> QED
      BY <1>9, <2>2
  <1> QED
    BY <1>6, <1>8, <1>9
-----------------------------------------------------------------------------
(* What the kernel answers about points                                        *)

(* The squares between the bounds of a solid are its own.                      *)
Fills(solid) ==
  \A v \in Points : (\A k \in Axes : Low(solid, k) <= v[k] /\ v[k] < High(solid, k)) => v \in solid

(* A cuboid has all the squares between its bounds (certify_cuboid).           *)
LEMMA CuboidsFill ==
  ASSUME NEW solid, IsSolid(solid), certify_cuboid(solid)
  PROVE  Fills(solid)
  <1>1. PICK k \in Axes, j \in Axes : k = 1 /\ j = 2 /\ \A m \in Axes : m = k \/ m = j
    BY DEF Axes
  <1>2. PICK l1 \in Int, h1 \in Int, l2 \in Int, h2 \in Int :
          /\ l1 = Low(solid, k) /\ h1 = High(solid, k) /\ l2 = Low(solid, j) /\ h2 = High(solid, j)
          /\ l1 < h1 /\ l2 < h2
    <2>1. PICK u \in solid : TRUE
      BY DEF IsSolid
    <2>2. ASSUME NEW m \in Axes
          PROVE  Low(solid, m) \in Int /\ High(solid, m) \in Int /\ Low(solid, m) < High(solid, m)
      BY SolidBounds, <2>1
    <2> QED
      BY <2>2
  <1>3. PICK rows, columns : rows = l1..(h1 - 1) /\ columns = l2..(h2 - 1)
    OBVIOUS
  <1>4. /\ IsFiniteSet(rows) /\ Cardinality(rows) = h1 - l1
        /\ IsFiniteSet(columns) /\ Cardinality(columns) = h2 - l2
    <2>1. h1 - 1 \in Int /\ h2 - 1 \in Int /\ ~(l1 > h1 - 1) /\ ~(l2 > h2 - 1)
      BY <1>2
    <2>2. /\ IsFiniteSet(rows) /\ Cardinality(rows) = (h1 - 1) - l1 + 1
          /\ IsFiniteSet(columns) /\ Cardinality(columns) = (h2 - 1) - l2 + 1
      BY <1>3, <2>1, FS_Interval
    <2> QED
      BY <2>2
  <1>5. IsFiniteSet(rows \X columns)
        /\ Cardinality(rows \X columns) = Cardinality(rows) * Cardinality(columns)
    BY <1>4, FS_Product
  <1>6. Cardinality(solid) = Cardinality(rows \X columns)
    BY <1>1, <1>2, <1>4, <1>5 DEF certify_cuboid
  <1>7. solid \subseteq rows \X columns
    <2>1. ASSUME NEW u \in solid
          PROVE  u \in rows \X columns
      <3>1. u \in Points /\ l1 <= u[k] /\ u[k] + 1 <= h1 /\ l2 <= u[j] /\ u[j] + 1 <= h2
        BY <1>2, SolidBounds
      <3>2. PICK i1 \in Int, i2 \in Int : u = <<i1, i2>>
        BY <3>1 DEF Points
      <3>3. i1 \in rows /\ i2 \in columns
        BY <1>1, <1>2, <1>3, <3>1, <3>2
      <3> QED
        BY <3>2, <3>3
    <2> QED
      BY <2>1
  <1>8. solid = rows \X columns
    <2>1. PICK all : all = rows \X columns
      OBVIOUS
    <2> QED
      BY <1>5, <1>6, <1>7, <2>1, FS_Subset
  <1> SUFFICES ASSUME NEW v \in Points,
                      \A m \in Axes : Low(solid, m) <= v[m] /\ v[m] < High(solid, m)
               PROVE  v \in solid
    BY DEF Fills
  <1>9. PICK i1 \in Int, i2 \in Int : v = <<i1, i2>>
    BY DEF Points
  <1>10. l1 <= i1 /\ i1 < h1 /\ l2 <= i2 /\ i2 < h2
    BY <1>1, <1>2, <1>9
  <1>11. i1 \in rows /\ i2 \in columns
    BY <1>2, <1>3, <1>10
  <1> QED
    BY <1>8, <1>9, <1>11

(* Squares that boxes hold are as far apart as the boxes.                      *)
LEMMA BoxesKeep ==
  ASSUME NEW u \in Points, NEW v \in Points, NEW p, IsWindow(p), NEW q, IsWindow(q),
         \A x \in Points : Within(x, u) => InBox(x, p),
         \A x \in Points : Within(x, v) => InBox(x, q)
  PROVE  /\ SquaredGap(p, q) \in Nat /\ Distance(u, v) \in Nat
         /\ SquaredGap(p, q) <= Distance(u, v)
         /\ bounds_disjoint(p, q) => u # v
  <1>1. PICK x \in Points, y \in Points :
          /\ Within(x, u) /\ Within(y, v) /\ (u = v => x = y)
          /\ Distance(u, v) = Squared(y[1] - x[1]) + Squared(y[2] - x[2])
    BY NearestPoints
  <1>2. \A k \in Axes : x[k] \in Int /\ y[k] \in Int
    BY Coordinates
  <1>3. InBox(x, p) /\ InBox(y, q)
    BY <1>1
  <1>4. /\ SquaredGap(p, q) \in Nat
        /\ SquaredGap(p, q) <= Squared(y[1] - x[1]) + Squared(y[2] - x[2])
        /\ bounds_disjoint(p, q) => \E k \in Axes : x[k] # y[k]
    BY <1>2, <1>3, GapWithin
  <1>5. Distance(u, v) \in Nat
    BY DistanceIs
  <1>6. ASSUME bounds_disjoint(p, q)
        PROVE  u # v
    BY <1>1, <1>4, <1>6
  <1> QED
    BY <1>1, <1>4, <1>5, <1>6

(* The bounds that a placed solid is known by hold it.                         *)
LEMMA PlacedBounds ==
  ASSUME NEW solid, IsSolid(solid), NEW pose \in Poses, NEW p, IsPlaced(p, solid, pose),
         NEW u \in solid
  PROVE  /\ IsWindow(p.bounds) /\ IsWindow(p.extent)
         /\ \A x \in Points : Within(x, u) => InBox(x, p.bounds) /\ InBox(x, p.extent)
  <1>1. p.bounds = Outward(Extent(solid), pose) /\ p.extent = Extent(solid)
    BY DEF IsPlaced
  <1> QED
    BY <1>1, BoundsHold

(* In a pose that is exact faces and corners are where they are.               *)
LEMMA ExactPoints ==
  ASSUME NEW solid, IsSolid(solid), NEW pose \in Poses, NEW p, IsPlaced(p, solid, pose),
         pose.exact
  PROVE  /\ \A i \in DOMAIN p.mesh : triangle_points(p, i) = p.mesh[i]
         /\ {triangle_points(p, i) : i \in DOMAIN p.mesh} = Faces(solid)
         /\ \A w \in Points : world_vertex(w, pose) = w
  <1>1. \A k \in Axes : pose.slip[k] = 0
    BY PoseIs
  <1>2. ASSUME NEW i \in DOMAIN p.mesh
        PROVE  triangle_points(p, i) = p.mesh[i]
    <2>1. PICK f \in Faces(solid) : f = p.mesh[i]
      BY MeshHasFaces
    <2>2. /\ f = Box(f.first, f.last)
          /\ f.first \in [Axes -> Int] /\ f.last \in [Axes -> Int]
      BY FaceWithin, PointsAreRows
    <2>3. p.pose = pose
      BY DEF IsPlaced
    <2>4. /\ [k \in Axes |-> f.first[k] + pose.slip[k]] = f.first
          /\ [k \in Axes |-> f.last[k] + pose.slip[k]] = f.last
      BY <1>1, <2>2
    <2> QED
      BY <2>1, <2>2, <2>3, <2>4 DEF triangle_points, Shifted
  <1>3. {triangle_points(p, i) : i \in DOMAIN p.mesh} = {p.mesh[i] : i \in DOMAIN p.mesh}
    BY <1>2
  <1>4. ASSUME NEW w \in Points
        PROVE  world_vertex(w, pose) = w
    <2>1. PICK x \in Int, y \in Int : w = <<x, y>>
      BY DEF Points
    <2> QED
      BY <1>1, <2>1 DEF world_vertex, Axes
  <1> QED
    BY <1>2, <1>3, <1>4 DEF IsPlaced

(* There a solid is asked about a point through its own faces.                 *)
LEMMA ExactPoint ==
  ASSUME NEW solid, IsSolid(solid), NEW pose \in Poses, NEW p, IsPlaced(p, solid, pose),
         pose.exact, ~p.cuboid, NEW w
  PROVE  point_in_material(w, p) = local_point_in_material(w, Faces(solid))
  <1>1. PICK faces : faces = {triangle_points(p, i) : i \in DOMAIN p.mesh}
    OBVIOUS
  <1>2. faces = Faces(solid)
    BY <1>1, ExactPoints
  <1>3. p.pose.exact
    BY DEF IsPlaced
  <1>4. point_in_material(w, p) = local_point_in_material(w, faces)
    BY <1>1, <1>3 DEF point_in_material
  <1> QED
    BY <1>2, <1>4

(* There are the same squares along a line that no face meets ...              *)
LEMMA LineIsSteady ==
  ASSUME NEW solid, IsSolid(solid), NEW box, IsWindow(box),
         \A f \in Faces(solid) : bounds_disjoint(box, f), NEW k \in Axes,
         NEW u \in Points, NEW v \in Points, InBox(u, box), InBox(v, box), u[3 - k] = v[3 - k]
  PROVE  (u \in solid) <=> (v \in solid)
  <1>1. PICK j \in Axes : j = 3 - k /\ 3 - j = k /\ Axes = {j, k}
    BY DEF Axes
  <1>2. PICK lo \in Int, hi \in Int : lo = box.first[k] /\ hi = box.last[k]
    BY DEF IsWindow, Box
  <1>3. u[k] \in lo..hi /\ v[k] \in lo..hi
    BY <1>2, Coordinates DEF InBox
  <1>4. IsBox(box)
    <2>1. \A m \in Axes : /\ box.first[m] \in Int /\ box.last[m] \in Int /\ u[m] \in Int
                         /\ box.first[m] <= u[m] /\ u[m] <= box.last[m]
      BY Coordinates DEF IsWindow, Box, InBox
    <2>2. ASSUME NEW m \in Axes
          PROVE  box.first[m] <= box.last[m]
      <3>1. PICK x \in Int, y \in Int, z \in Int :
              x = box.first[m] /\ y = box.last[m] /\ z = u[m] /\ x <= z /\ z <= y
        BY <2>1
      <3> QED
        BY <3>1
    <2> QED
      BY <2>1, <2>2 DEF IsBox
  <1> DEFINE T == {i \in Int : At(u, k, i) \in solid}
  <1>5. ASSUME NEW i \in (lo + 1)..hi
        PROVE  (i \in T) <=> (i - 1 \in T)
    <2>1. PICK w : w = At(u, k, i)
      OBVIOUS
    <2>2. i \in Int /\ i - 1 \in Int /\ lo <= i /\ i <= hi
      OBVIOUS
    <2>3. w \in Points /\ w[k] = i /\ w[j] = u[j]
      BY <1>1, <2>1, <2>2, AtIs
    <2>4. \A m \in Axes : box.first[m] <= w[m] /\ w[m] <= box.last[m]
      BY <1>1, <1>2, <2>2, <2>3 DEF InBox
    <2>5. w \notin Walls(solid, k)
      <3>1. ASSUME w \in Walls(solid, k)
            PROVE  FALSE
        <4>1. PICK f \in Faces(solid) : IsFace(solid, k, f) /\ Covers(f, k, w)
          BY <3>1, WallHasFace
        <4>2. IsBox(f)
          BY FaceIsBox
        <4>3. f.first[k] = w[k] /\ f.last[k] = w[k]
          BY <4>1 DEF Covers, IsFace
        <4>4. PICK x \in Int, y \in Int, z \in Int :
                x = f.first[j] /\ y = f.last[j] /\ z = w[j] /\ x <= z /\ z < y
          BY <1>1, <2>3, <4>1, <4>2, Coordinates DEF Covers, IsBox
        <4>5. f.first[j] <= w[j] /\ w[j] <= f.last[j]
          BY <4>4
        <4>6. \A m \in Axes : f.first[m] <= w[m] /\ w[m] <= f.last[m]
          BY <1>1, <2>2, <2>3, <4>3, <4>5
        <4>7. ~bounds_disjoint(box, f)
          BY <1>4, <2>3, <2>4, <4>2, <4>6, CommonPoint
        <4> QED
          BY <4>7
      <3> QED
        BY <3>1
    <2>6. (w \in solid) <=> (At(w, k, w[k] - 1) \in solid)
      BY <2>3, <2>5, WallsAre
    <2>7. At(w, k, i - 1) = At(u, k, i - 1)
      <3>1. PICK e \in Int : e = i - 1
        BY <2>2
      <3>2. At(w, k, e) \in Points /\ At(w, k, e)[k] = e /\ At(w, k, e)[3 - k] = w[3 - k]
        BY <2>3, AtIs
      <3>3. At(u, k, e) \in Points /\ At(u, k, e)[k] = e /\ At(u, k, e)[3 - k] = u[3 - k]
        BY AtIs
      <3> QED
        BY <1>1, <2>3, <3>1, <3>2, <3>3, SamePoint
    <2> QED
      BY <2>1, <2>2, <2>3, <2>6, <2>7
  <1>6. \A i \in lo..hi : (i \in T) <=> (lo \in T)
    <2> HIDE DEF T
    <2> QED
      BY <1>5, AlongLine
  <1>7. At(u, k, u[k]) = u /\ At(u, k, v[k]) = v
    <2>1. At(u, k, u[k]) = u
      BY AtSame
    <2>2. PICK e \in Int : e = v[k]
      BY Coordinates
    <2>3. /\ At(u, k, v[k]) \in Points /\ At(u, k, v[k])[k] = v[k]
          /\ At(u, k, v[k])[3 - k] = u[3 - k]
      BY <2>2, AtIs
    <2> QED
      BY <2>1, <2>3, SamePoint
  <1> QED
    BY <1>3, <1>6, <1>7

(* ... and in a box that no face meets.                                        *)
LEMMA BoxIsSteady ==
  ASSUME NEW solid, IsSolid(solid), NEW box, IsWindow(box),
         \A f \in Faces(solid) : bounds_disjoint(box, f),
         NEW u \in Points, NEW v \in Points, InBox(u, box), InBox(v, box)
  PROVE  (u \in solid) <=> (v \in solid)
  <1>1. PICK w : w = <<u[1], v[2]>>
    OBVIOUS
  <1>2. w \in Points /\ w[1] = u[1] /\ w[2] = v[2]
    BY <1>1 DEF Points
  <1>3. InBox(w, box)
    BY <1>2 DEF InBox, Axes
  <1>4. 2 \in Axes /\ 1 \in Axes /\ 3 - 2 = 1 /\ 3 - 1 = 2
    BY DEF Axes
  <1>5. (u \in solid) <=> (w \in solid)
    BY <1>2, <1>3, <1>4, LineIsSteady
  <1>6. (w \in solid) <=> (v \in solid)
    BY <1>2, <1>3, <1>4, LineIsSteady
  <1> QED
    BY <1>5, <1>6

(* A point that is said not to be in the material is not in it, and one that   *)
(* is said to be in the material of what is not a cuboid is in it              *)
(* (point_in_material).                                                        *)
LEMMA PointAnswers ==
  ASSUME NEW solid, IsSolid(solid), NEW pose \in Poses, NEW p, IsPlaced(p, solid, pose),
         NEW w \in Points
  PROVE  /\ point_in_material(w, p) = "no" => w \notin solid
         /\ point_in_material(w, p) = "yes" /\ ~p.cuboid => w \in solid
         /\ point_in_material(w, p) \in {"yes", "no", "indeterminate"}
         /\ ~p.cuboid /\ ~pose.exact => point_in_material(w, p) = "indeterminate"
  <1>1. ASSUME p.cuboid, point_in_material(w, p) = "no"
        PROVE  w \notin solid
    <2>1. PICK k \in Axes : w[k] < p.extent.first[k] \/ w[k] > p.extent.last[k]
      BY <1>1 DEF point_in_material
    <2>2. PICK l \in Int, h \in Int : l = Low(solid, k) /\ h = High(solid, k)
      BY SolidBounds
    <2>3. p.extent.first[k] = l /\ p.extent.last[k] = h
      BY <2>2 DEF IsPlaced, Extent, Box
    <2>4. ASSUME w \in solid
          PROVE  FALSE
      <3>1. w[k] \in Int /\ l <= w[k] /\ w[k] + 1 <= h
        BY <2>2, <2>4, SolidBounds
      <3> QED
        BY <2>1, <2>3, <3>1
    <2> QED
      BY <2>4
  <1>2. p.pose = pose /\ pose.exact \in BOOLEAN
    BY PoseIs DEF IsPlaced
  <1>3. PICK i \in Int, j \in Int : w = <<i, j>>
    BY DEF Points
  <1>4. ASSUME NEW answer, answer = local_point_in_material(w, Faces(solid))
        PROVE  /\ answer = "no" => w \notin solid
               /\ answer = "yes" => w \in solid
               /\ answer \in {"yes", "no", "indeterminate"}
    <2>1. PICK n : n = Cardinality(Crossings(w, Faces(solid)))
      OBVIOUS
    <2>2. (n % 2 = 0) <=> (w \notin solid)
      BY <1>3, <2>1, ParityIsMaterial
    <2>3. answer = IF \E f \in Faces(solid) : OnFace(w, f) THEN "indeterminate"
                   ELSE IF n % 2 = 0 THEN "no" ELSE "yes"
      BY <1>4, <2>1 DEF local_point_in_material
    <2> QED
      BY <2>2, <2>3
  <1>5. p.cuboid => point_in_material(w, p) \in {"yes", "no", "indeterminate"}
    BY DEF point_in_material
  <1>6. CASE p.cuboid
    BY <1>1, <1>5, <1>6
  <1>7. CASE ~p.cuboid /\ ~pose.exact
    <2>1. point_in_material(w, p) = "indeterminate"
      BY <1>2, <1>7 DEF point_in_material
    <2> QED
      BY <1>7, <2>1
  <1>8. CASE ~p.cuboid /\ pose.exact
    <2>1. point_in_material(w, p) = local_point_in_material(w, Faces(solid))
      BY <1>8, ExactPoint
    <2> QED
      BY <1>4, <1>8, <2>1
  <1> QED
    BY <1>2, <1>6, <1>7, <1>8

(* The answers there are about a point.                                        *)
LEMMA AnswersAre ==
  ASSUME NEW solid, IsSolid(solid), NEW pose \in Poses, NEW p, IsPlaced(p, solid, pose),
         NEW w \in Points
  PROVE  point_in_material(w, p) \in {"yes", "no", "indeterminate"}
  BY DEF point_in_material, local_point_in_material

(* The box of a witness, taken back to the frame of the solid, goes beyond the *)
(* box on every side.                                                          *)
LEMMA TakenBack ==
  ASSUME NEW pose \in Poses, NEW box, IsWindow(box), NEW interval,
         interval = Widened(Shifted(box, [k \in Axes |-> -pose.slip[k]]), 2)
  PROVE  /\ IsWindow(interval)
         /\ \A k \in Axes : /\ box.first[k] \in Int /\ box.last[k] \in Int
                            /\ interval.first[k] \in Int /\ interval.last[k] \in Int
                            /\ interval.first[k] + 1 <= box.first[k]
                            /\ box.last[k] + 1 <= interval.last[k]
  <1>1. PICK a \in [Axes -> Int], b \in [Axes -> Int] : box = Box(a, b)
    BY DEF IsWindow
  <1>2. box.first = a /\ box.last = b
    BY <1>1 DEF Box
  <1>3. PICK t \in [Axes -> Int] : /\ t = [k \in Axes |-> -pose.slip[k]]
                                  /\ \A k \in Axes : -1 <= t[k] /\ t[k] <= 1
    <2>1. \A k \in Axes : /\ -pose.slip[k] \in Int
                         /\ -1 <= -pose.slip[k] /\ -pose.slip[k] <= 1
      BY PoseIs
    <2>2. [k \in Axes |-> -pose.slip[k]] \in [Axes -> Int]
      BY <2>1
    <2> QED
      BY <2>1, <2>2
  <1>4. PICK e, f : e = [k \in Axes |-> a[k] + t[k]] /\ f = [k \in Axes |-> b[k] + t[k]]
    OBVIOUS
  <1>5. Shifted(box, t) = Box(e, f) /\ Box(e, f).first = e /\ Box(e, f).last = f
    BY <1>2, <1>4 DEF Shifted, Box
  <1>6. PICK c \in [Axes -> Int], d \in [Axes -> Int] :
          /\ c = [k \in Axes |-> e[k] - 2] /\ d = [k \in Axes |-> f[k] + 2]
          /\ \A k \in Axes : c[k] = a[k] + t[k] - 2 /\ d[k] = b[k] + t[k] + 2
    <2>1. \A k \in Axes : e[k] - 2 \in Int /\ f[k] + 2 \in Int
      BY <1>4
    <2>2. /\ [k \in Axes |-> e[k] - 2] \in [Axes -> Int]
          /\ [k \in Axes |-> f[k] + 2] \in [Axes -> Int]
      BY <2>1
    <2>3. PICK c \in [Axes -> Int], d \in [Axes -> Int] :
            c = [k \in Axes |-> e[k] - 2] /\ d = [k \in Axes |-> f[k] + 2]
      BY <2>2
    <2>4. \A k \in Axes : c[k] = a[k] + t[k] - 2 /\ d[k] = b[k] + t[k] + 2
      BY <1>4, <2>3
    <2> QED
      BY <2>3, <2>4
  <1>7. interval = Box(c, d) /\ interval.first = c /\ interval.last = d
    BY <1>3, <1>5, <1>6 DEF Widened, Box
  <1>8. \A k \in Axes : c[k] + 1 <= a[k] /\ b[k] + 1 <= d[k]
    BY <1>3, <1>6
  <1> QED
    BY <1>2, <1>6, <1>7, <1>8 DEF IsWindow

(* The middle of a box with a point in it is in it.                            *)
LEMMA MiddleIsIn ==
  ASSUME NEW box, IsWindow(box), NEW w \in Points, InBox(w, box)
  PROVE  midpoint(box) \in Points /\ InBox(midpoint(box), box) /\ IsBox(box)
  <1>1. ASSUME NEW k \in Axes
        PROVE  /\ (box.first[k] + box.last[k]) \div 2 \in Int
               /\ box.first[k] <= (box.first[k] + box.last[k]) \div 2
               /\ (box.first[k] + box.last[k]) \div 2 <= box.last[k]
               /\ box.first[k] \in Int /\ box.last[k] \in Int /\ box.first[k] <= box.last[k]
    <2>1. PICK x \in Int, y \in Int, z \in Int :
            x = box.first[k] /\ y = box.last[k] /\ z = w[k] /\ x <= z /\ z <= y
      BY Coordinates DEF IsWindow, Box, InBox
    <2>2. PICK n \in Int : n = (x + y) \div 2
      OBVIOUS
    <2>3. x <= n /\ n <= y
      BY <2>1, <2>2
    <2> QED
      BY <2>1, <2>2, <2>3
  <1>2. /\ midpoint(box)[1] = (box.first[1] + box.last[1]) \div 2
        /\ midpoint(box)[2] = (box.first[2] + box.last[2]) \div 2
    BY DEF midpoint
  <1>3. \A k \in Axes : midpoint(box)[k] = (box.first[k] + box.last[k]) \div 2
    BY <1>2 DEF Axes
  <1>4. midpoint(box) \in Points
    BY <1>1 DEF midpoint, Points, Axes
  <1> QED
    BY <1>1, <1>3, <1>4 DEF InBox, IsBox

(* What is answered of a box of which intervals are known is true of the       *)
(* points of the box, and where it is not left open, of those next to it; and  *)
(* when it is left open a face is within reach of the box                      *)
(* (local_interval_point_in_material).                                         *)
LEMMA IntervalAnswers ==
  ASSUME NEW solid, IsSolid(solid), NEW pose \in Poses, NEW p, IsPlaced(p, solid, pose),
         NEW box, IsWindow(box), NEW w \in Points, InBox(w, box),
         NEW answer, answer = local_interval_point_in_material(box, p)
  PROVE  /\ answer \in {"yes", "no", "indeterminate"}
         /\ answer = "no" => w \notin solid
         /\ answer = "yes" => \A u \in Points :
              (\A k \in Axes : w[k] - 1 <= u[k] /\ u[k] <= w[k]) => u \in solid
  <1>1. PICK interval : interval = Widened(Shifted(box, [k \in Axes |-> -pose.slip[k]]), 2)
    OBVIOUS
  <1>2. /\ IsWindow(interval)
        /\ \A k \in Axes : /\ box.first[k] \in Int /\ box.last[k] \in Int
                           /\ interval.first[k] \in Int /\ interval.last[k] \in Int
                           /\ interval.first[k] + 1 <= box.first[k]
                           /\ box.last[k] + 1 <= interval.last[k]
    BY <1>1, TakenBack
  <1>3. ASSUME NEW u \in Points, \A k \in Axes : w[k] - 1 <= u[k] /\ u[k] <= w[k]
        PROVE  InBox(u, interval)
    <2>1. ASSUME NEW k \in Axes
          PROVE  interval.first[k] <= u[k] /\ u[k] <= interval.last[k]
      <3>1. PICK i \in Int, j \in Int, l \in Int, h \in Int, m \in Int, n \in Int :
              /\ i = u[k] /\ j = w[k] /\ l = box.first[k] /\ h = box.last[k]
              /\ m = interval.first[k] /\ n = interval.last[k]
        BY <1>2, Coordinates
      <3>2. l <= j /\ j <= h /\ m + 1 <= l /\ h + 1 <= n /\ j - 1 <= i /\ i <= j
        BY <1>2, <1>3, <3>1 DEF InBox
      <3> QED
        BY <3>1, <3>2
    <2> QED
      BY <2>1 DEF InBox
  <1>4. InBox(w, interval)
    <2>1. \A k \in Axes : w[k] - 1 <= w[k] /\ w[k] <= w[k]
      BY Coordinates
    <2> QED
      BY <1>3, <2>1
  <1>5. PICK m : m = midpoint(interval) /\ m \in Points /\ InBox(m, interval) /\ IsBox(interval)
    BY <1>2, <1>4, MiddleIsIn
  <1>6. Range(p.mesh) = Faces(solid) /\ p.pose = pose
    BY DEF Range, IsPlaced
  <1>7. answer = IF bounds_disjoint(box, p.bounds) THEN "no"
                 ELSE IF \E f \in Faces(solid) : ~bounds_disjoint(interval, f) THEN "indeterminate"
                 ELSE local_point_in_material(m, Faces(solid))
    BY <1>1, <1>5, <1>6 DEF local_interval_point_in_material
  <1>8. CASE bounds_disjoint(box, p.bounds)
    <2>1. ASSUME w \in solid
          PROVE  FALSE
      <3>1. Within(w, w) /\ \A k \in Axes : w[k] \in Int
        BY Coordinates DEF Within
      <3>2. IsWindow(p.bounds) /\ InBox(w, p.bounds)
        BY <2>1, <3>1, PlacedBounds
      <3>3. PICK other : other = p.bounds
        OBVIOUS
      <3>4. bounds_disjoint(box, other) => \E k \in Axes : w[k] # w[k]
        BY <3>1, <3>2, <3>3, GapWithin
      <3> QED
        BY <1>8, <3>3, <3>4
    <2> QED
      BY <1>7, <1>8, <2>1
  <1>9. CASE \E f \in Faces(solid) : ~bounds_disjoint(interval, f)
    BY <1>7, <1>8, <1>9
  <1>10. CASE ~bounds_disjoint(box, p.bounds) /\ \A f \in Faces(solid) : bounds_disjoint(interval, f)
    <2>1. PICK n : n = Cardinality(Crossings(m, Faces(solid)))
      OBVIOUS
    <2>2. (n % 2 = 0) <=> (m \notin solid)
      <3>1. PICK i \in Int, j \in Int : m = <<i, j>>
        BY <1>5 DEF Points
      <3> QED
        BY <2>1, <3>1, ParityIsMaterial
    <2>3. ASSUME NEW f \in Faces(solid), OnFace(m, f)
          PROVE  FALSE
      <3>1. IsBox(f)
        BY FaceIsBox
      <3>2. ~bounds_disjoint(interval, f)
        BY <1>5, <2>3, <3>1, CommonPoint DEF OnFace, InBox
      <3> QED
        BY <1>10, <3>2
    <2>4. answer = IF n % 2 = 0 THEN "no" ELSE "yes"
      <3>1. local_point_in_material(m, Faces(solid)) = IF n % 2 = 0 THEN "no" ELSE "yes"
        BY <2>1, <2>3 DEF local_point_in_material
      <3> QED
        BY <1>7, <1>10, <3>1
    <2>5. answer = IF m \in solid THEN "yes" ELSE "no"
      BY <2>2, <2>4
    <2>6. \A u \in Points : InBox(u, interval) => ((u \in solid) <=> (m \in solid))
      BY <1>2, <1>5, <1>10, BoxIsSteady
    <2> QED
      BY <1>3, <1>4, <2>5, <2>6
  <1> QED
    BY <1>8, <1>9, <1>10

(* A solid has faces, and its witnesses are corners of them.                   *)
LEMMA WitnessesAre ==
  ASSUME NEW solid, IsSolid(solid)
  PROVE  /\ shell_witnesses(Faces(solid)) # {}
         /\ \A w \in shell_witnesses(Faces(solid)) :
              w \in Points /\ \E f \in Faces(solid) : w = f.first
  <1>2. PICK none : none = {}
    OBVIOUS
  <1>3. /\ \A f \in Faces(solid) : \E w \in shell_witnesses(Faces(solid)) : TRUE
        /\ \A w \in shell_witnesses(Faces(solid)) : \E f \in Faces(solid) : w = f.first
    <2>1. IsFiniteSet(Faces(solid))
      BY FacesFinite
    <2>2. \A f \in Faces(solid) : (f.first \in none) <=> (f.last \in none)
      BY <1>2
    <2>3. PICK S : S = Faces(solid)
      OBVIOUS
    <2>4. /\ \A f \in S : \E w \in shell_witnesses(S) : (w \in none) <=> (f.first \in none)
          /\ \A w \in shell_witnesses(S) : \E f \in S : w = f.first
      BY <2>1, <2>2, <2>3, ShellsAreWitnessed
    <2> QED
      BY <2>3, <2>4
  <1>4. \E f \in Faces(solid) : TRUE
    <2>1. PICK k \in Axes : k = 1
      BY DEF Axes
    <2>2. PICK u \in solid : TRUE
      BY DEF IsSolid
    <2>3. PICK w \in Walls(solid, k) : TRUE
      BY WallsBeside
    <2> QED
      BY WallHasFace
  <1> QED
    BY <1>3, <1>4, FaceWithin

(* What is said of a witness is true (classify_shell_witness).                 *)
LEMMA WitnessAnswers ==
  ASSUME NEW a, IsSolid(a), NEW b, IsSolid(b), NEW x \in Poses, NEW y \in Poses,
         NEW p, IsPlaced(p, a, x), NEW q, IsPlaced(q, b, y), NEW w \in Points
  PROVE  /\ classify_shell_witness(w, p, q) \in {"yes", "no", "indeterminate"}
         /\ classify_shell_witness(w, p, q) = "no" => w \notin b
         /\ classify_shell_witness(w, p, q) = "yes" /\ ~(x.exact /\ y.exact) =>
              \A u \in Points : (\A k \in Axes : w[k] - 1 <= u[k] /\ u[k] <= w[k]) => u \in b
  <1>1. p.pose = x /\ q.pose = y
    BY DEF IsPlaced
  <1>2. CASE x.exact /\ y.exact
    <2>1. world_vertex(w, x) = w
      BY <1>2, ExactPoints
    <2>2. classify_shell_witness(w, p, q) = point_in_material(w, q)
      BY <1>1, <1>2, <2>1 DEF classify_shell_witness
    <2> QED
      BY <1>2, <2>2, PointAnswers
  <1>3. CASE ~(x.exact /\ y.exact)
    <2>1. PICK box, one : box = Outward(one, x) /\ one = Box(w, w)
      OBVIOUS
    <2>2. IsWindow(one) /\ \A k \in Axes : one.first[k] = w[k] /\ one.last[k] = w[k]
      BY <2>1, PointsAreRows DEF IsWindow, Box
    <2>3. IsWindow(box) /\ InBox(w, box)
      BY <2>1, <2>2, OutwardIs DEF InBox
    <2>4. PICK answer : answer = local_interval_point_in_material(box, q)
      OBVIOUS
    <2>5. classify_shell_witness(w, p, q) = answer
      BY <1>1, <1>3, <2>1, <2>4 DEF classify_shell_witness, vertex_interval
    <2> QED
      BY <1>3, <2>3, <2>4, <2>5, IntervalAnswers
  <1> QED
    BY <1>2, <1>3

-----------------------------------------------------------------------------
(* What the kernel accepts keeps its clearance                                 *)

(* Squares are as far apart as the clearance asks for.                         *)
Clear(u, v, clearance) == u # v /\ Distance(u, v) >= Squared(clearance)

(* Without a clearance it is enough not to share a square.                     *)
LEMMA NoClearance ==
  ASSUME NEW u \in Points, NEW v \in Points, u # v
  PROVE  Clear(u, v, 0)
  <1>1. Distance(u, v) \in Nat
    BY DistanceIs
  <1>2. Squared(0) = 0
    BY DEF Squared
  <1> QED
    BY <1>1, <1>2 DEF Clear

(* Solids with nothing in common whose surfaces do not meet are as far from    *)
(* each other as the distance of the surfaces says (exact_surface_gap).        *)
LEMMA SurfacesKeep ==
  ASSUME NEW a, IsSolid(a), NEW c, IsSolid(c), NEW x \in Poses, NEW y \in Poses,
         NEW p, IsPlaced(p, a, x), NEW q, IsPlaced(q, c, y),
         NEW b \in {c, Points \ c}, a \cap b = {}, FacesMiss(a, c),
         b = c \/ (x.cardinal /\ y.cardinal), NEW clearance \in Nat,
         exact_surface_gap(p, q, clearance) \notin {"below", "indeterminate"},
         NEW u \in a, NEW v \in b
  PROVE  Clear(u, v, clearance)
  <1>1. u \in Points /\ v \in Points /\ u # v
    BY DEF IsSolid
  <1>2. p.pose = x /\ q.pose = y
    BY DEF IsPlaced
  <1>3. CASE clearance = 0
    BY <1>1, <1>3, NoClearance
  <1>4. CASE clearance # 0 /\ x.cardinal /\ y.cardinal
    <2>1. clearance \in Nat \ {0}
      BY <1>4
    <2>2. exact_surface_gap(p, q, clearance) # "below"
      OBVIOUS
    <2>3. FarFaces(a, c, clearance)
      BY <1>4, <2>1, <2>2, SurfacesFar
    <2> QED
      BY <2>3, FarSquares DEF Clear
  <1>5. CASE clearance # 0 /\ ~(x.cardinal /\ y.cardinal)
    <2>1. exact_surface_gap(p, q, clearance) = conservative_surface_gap(p, q, clearance)
      BY <1>2, <1>5 DEF exact_surface_gap
    <2>2. SquaredGap(p.bounds, q.bounds) > Squared(clearance)
      BY <2>1 DEF conservative_surface_gap, bounds_farther_than
    <2>3. v \in c
      BY <1>5
    <2>4. PICK m, n : m = p.bounds /\ n = q.bounds
      OBVIOUS
    <2>5. /\ IsWindow(m) /\ IsWindow(n)
          /\ \A z \in Points : Within(z, u) => InBox(z, m)
          /\ \A z \in Points : Within(z, v) => InBox(z, n)
      BY <2>3, <2>4, PlacedBounds
    <2>6. SquaredGap(m, n) \in Nat /\ Distance(u, v) \in Nat /\ SquaredGap(m, n) <= Distance(u, v)
      BY <1>1, <2>5, BoxesKeep
    <2>7. PICK r \in Nat : r = Squared(clearance)
      BY SquareOfOpposite
    <2> QED
      BY <1>1, <2>2, <2>4, <2>6, <2>7 DEF Clear
  <1> QED
    BY <1>3, <1>4, <1>5

(* The bounds that a placed solid is known by hold its faces.                  *)
LEMMA FaceInBounds ==
  ASSUME NEW solid, IsSolid(solid), NEW pose \in Poses, NEW p, IsPlaced(p, solid, pose),
         NEW f \in Faces(solid)
  PROVE  /\ IsWindow(p.bounds) /\ IsWindow(f)
         /\ \A k \in Axes : p.bounds.first[k] <= f.first[k] /\ f.last[k] <= p.bounds.last[k]
  <1>1. PICK w, b : w = Extent(solid) /\ b = Outward(w, pose) /\ p.bounds = b
    BY DEF IsPlaced
  <1>2. /\ IsWindow(w) /\ IsWindow(b)
        /\ \A k \in Axes : /\ w.first[k] = Low(solid, k) /\ w.last[k] = High(solid, k)
                           /\ b.first[k] <= w.first[k] /\ w.last[k] <= b.last[k]
    BY <1>1, BoundsHold, OutwardIs
  <1>3. ASSUME NEW k \in Axes
        PROVE  b.first[k] <= f.first[k] /\ f.last[k] <= b.last[k]
    <2>1. PICK l \in Int, h \in Int, i \in Int, j \in Int :
            /\ l = Low(solid, k) /\ h = High(solid, k) /\ i = f.first[k] /\ j = f.last[k]
            /\ l <= i /\ j <= h
      BY FaceWithin
    <2>2. PICK m \in Int, n \in Int : m = b.first[k] /\ n = b.last[k]
      BY <1>2 DEF IsWindow, Box
    <2> QED
      BY <1>2, <2>1, <2>2
  <1> QED
    BY <1>1, <1>2, <1>3, FaceWithin

(* Bounds that are apart keep the faces apart.                                 *)
LEMMA SeparateFacesMiss ==
  ASSUME NEW a, IsSolid(a), NEW c, IsSolid(c), NEW x \in Poses, NEW y \in Poses,
         NEW p, IsPlaced(p, a, x), NEW q, IsPlaced(q, c, y), separated_by_bounds(p, q, 0)
  PROVE  FacesMiss(a, c)
  <1>1. SUFFICES ASSUME NEW f \in Faces(a), NEW g \in Faces(c)
                 PROVE  bounds_disjoint(f, g)
    BY DEF FacesMiss
  <1>2. PICK m, n : m = p.bounds /\ n = q.bounds
    OBVIOUS
  <1>3. bounds_disjoint(m, n)
    BY <1>2 DEF separated_by_bounds, bounds_disjoint
  <1>5. /\ IsWindow(m) /\ IsWindow(f)
        /\ \A k \in Axes : m.first[k] <= f.first[k] /\ f.last[k] <= m.last[k]
    BY <1>2, FaceInBounds
  <1>6. /\ IsWindow(n) /\ IsWindow(g)
        /\ \A k \in Axes : n.first[k] <= g.first[k] /\ g.last[k] <= n.last[k]
    BY <1>2, FaceInBounds
  <1>7. bounds_disjoint(m, g)
    BY <1>3, <1>5, <1>6, WithinIsFarther
  <1>8. bounds_disjoint(g, m)
    BY <1>7, GapBothWays
  <1>9. bounds_disjoint(g, f)
    BY <1>5, <1>6, <1>8, WithinIsFarther
  <1> QED
    BY <1>9, GapBothWays

(* The verdict that a pair is valid, of cuboids (classify_axis_cuboids).       *)
LEMMA CuboidsKeep ==
  ASSUME NEW a, IsSolid(a), NEW c, IsSolid(c),
         NEW x \in Poses, NEW y \in Poses, x.cardinal, y.cardinal,
         NEW p, IsPlaced(p, a, x), NEW q, IsPlaced(q, c, y), NEW clearance \in Nat,
         PairValidity(classify_axis_cuboids(p, q, clearance)) = "valid",
         NEW u \in a, NEW v \in c
  PROVE  Clear(u, v, clearance)
  <1>1. u \in Points /\ v \in Points
    BY DEF IsSolid
  <1>2. PICK m, n : m = Extent(a) /\ n = Extent(c)
    OBVIOUS
  <1>3. PICK gaps : gaps = [k \in Axes |-> AxisGap(m, n, k)]
    OBVIOUS
  <1>4. p.extent = m /\ q.extent = n
    BY <1>2 DEF IsPlaced
  <1>5. /\ ~(\A k \in Axes : gaps[k] < 0)
        /\ clearance # 0 => /\ \E k \in Axes : gaps[k] > 0
                            /\ compare(SquaredGap(m, n), Squared(clearance)) # "below"
    BY <1>3, <1>4 DEF classify_axis_cuboids, PairValidity, Validity, Pair
  <1>6. /\ IsWindow(m) /\ IsWindow(n)
        /\ \A z \in Points : Within(z, u) => InBox(z, m)
        /\ \A z \in Points : Within(z, v) => InBox(z, n)
    BY <1>4, PlacedBounds
  <1>7. /\ SquaredGap(m, n) \in Nat /\ Distance(u, v) \in Nat
        /\ SquaredGap(m, n) <= Distance(u, v)
        /\ bounds_disjoint(m, n) => u # v
    BY <1>1, <1>6, BoxesKeep
  <1>8. \A k \in Axes : AxisGap(m, n, k) \in Int
    <2>1. PICK z \in Points, t \in Points : Within(z, u) /\ Within(t, v)
      BY <1>1, NearestPoints
    <2> QED
      BY <1>6, <2>1, GapWithin, Coordinates
  <1>9. CASE clearance = 0
    <2>1. PICK k \in Axes : AxisGap(m, n, k) >= 0
      BY <1>3, <1>5, <1>8
    <2>2. cardinal_bounds_clearance_proof(posed_bounds(a, x), posed_bounds(c, y), 0)
      BY <1>2, <2>1 DEF cardinal_bounds_clearance_proof, posed_bounds
    <2>3. PICK none \in Nat : none = 0
      OBVIOUS
    <2>4. bounds_pair_certificate(posed_bounds(a, x), posed_bounds(c, y), none)
      BY <2>2, <2>3 DEF bounds_pair_certificate
    <2>5. u # v
      BY <2>4, BoundsAccept
    <2> QED
      BY <1>1, <1>9, <2>5, NoClearance
  <1>10. CASE clearance # 0
    <2>1. bounds_disjoint(m, n)
      BY <1>3, <1>5, <1>10 DEF bounds_disjoint
    <2>2. PICK r \in Nat : r = Squared(clearance)
      BY SquareOfOpposite
    <2>3. ~(SquaredGap(m, n) < r)
      BY <1>5, <1>10, <2>2 DEF compare
    <2> QED
      BY <1>7, <2>1, <2>2, <2>3 DEF Clear
  <1> QED
    BY <1>9, <1>10

(* A valid pair: neither answer refuses or doubts it.                          *)
LEMMA ValidPair ==
  ASSUME NEW overlap, NEW gap, PairValidity(Pair(overlap, gap)) = "valid"
  PROVE  /\ overlap \notin {"yes", "below", "indeterminate"}
         /\ gap \notin {"below", "indeterminate"}
  BY DEF PairValidity, Validity, Pair

(* Where the surfaces do not meet, a pair is valid only if no witness lies in  *)
(* the other solid, so that they have nothing in common (classify_disjoint).   *)
LEMMA DisjointKeep ==
  ASSUME NEW a, IsSolid(a), NEW c, IsSolid(c), NEW x \in Poses, NEW y \in Poses,
         NEW p, IsPlaced(p, a, x), NEW q, IsPlaced(q, c, y), FacesMiss(a, c),
         NEW clearance \in Nat, PairValidity(classify_disjoint(p, q, clearance)) = "valid",
         NEW u \in a, NEW v \in c
  PROVE  Clear(u, v, clearance)
  <1>1. PICK overlap, gap : classify_disjoint(p, q, clearance) = Pair(overlap, gap)
                            /\ overlap = (IF "yes" \in ShellsInside(p, q) THEN "yes"
                                          ELSE IF "indeterminate" \in ShellsInside(p, q)
                                          THEN "indeterminate" ELSE "no")
                            /\ gap = (IF overlap = "yes" THEN "below"
                                      ELSE exact_surface_gap(p, q, clearance))
    BY DEF classify_disjoint
  <1>2. /\ "yes" \notin ShellsInside(p, q) /\ "indeterminate" \notin ShellsInside(p, q)
        /\ exact_surface_gap(p, q, clearance) \notin {"below", "indeterminate"}
    BY <1>1, ValidPair
  <1>3. ASSUME NEW w \in shell_witnesses(Faces(a))
        PROVE  w \notin c
    <2>1. w \in Points /\ classify_shell_witness(w, p, q) \in ShellsInside(p, q)
      BY <1>3, WitnessesAre DEF ShellsInside, IsPlaced
    <2>2. classify_shell_witness(w, p, q) = "no"
      <3>1. classify_shell_witness(w, p, q) \in {"yes", "no", "indeterminate"}
        BY <2>1, WitnessAnswers
      <3> QED
        BY <1>2, <2>1, <3>1
    <2> QED
      BY <2>1, <2>2, WitnessAnswers
  <1>4. ASSUME NEW w \in shell_witnesses(Faces(c))
        PROVE  w \notin a
    <2>1. w \in Points /\ classify_shell_witness(w, q, p) \in ShellsInside(p, q)
      BY <1>4, WitnessesAre DEF ShellsInside, IsPlaced
    <2>2. classify_shell_witness(w, q, p) = "no"
      <3>1. classify_shell_witness(w, q, p) \in {"yes", "no", "indeterminate"}
        BY <2>1, WitnessAnswers
      <3> QED
        BY <1>2, <2>1, <3>1
    <2> QED
      BY <2>1, <2>2, WitnessAnswers
  <1>5. PICK b : b = c
    OBVIOUS
  <1>6. a \cap b = {}
    <2>1. ASSUME NEW z \in a \cap b
          PROVE  FALSE
      <3>1. \/ \E w \in shell_witnesses(Faces(a)) : (w \in c) <=> (b = c)
            \/ \E w \in shell_witnesses(Faces(c)) : w \in a
        BY <1>5, <2>1, WitnessesTell
      <3> QED
        BY <1>3, <1>4, <1>5, <3>1
    <2> QED
      BY <2>1
  <1>7. v \in b /\ b \in {c, Points \ c}
    BY <1>5
  <1> QED
    BY <1>2, <1>5, <1>6, <1>7, SurfacesKeep

(* What the surfaces, and where they may meet the witnesses, say of a pair     *)
(* (classify_pair).                                                            *)
LEMMA ClassifiedKeep ==
  ASSUME NEW a, IsSolid(a), NEW c, IsSolid(c), NEW x \in Poses, NEW y \in Poses,
         NEW p, IsPlaced(p, a, x), NEW q, IsPlaced(q, c, y), NEW clearance \in Nat,
         PairValidity(classify_pair(p, q, clearance)) = "valid",
         NEW u \in a, NEW v \in c
  PROVE  Clear(u, v, clearance)
  <1>1. u \in Points /\ v \in Points
    BY DEF IsSolid
  <1>2. PICK no, one : no = posed_bounds(a, x) /\ one = posed_bounds(c, y)
    OBVIOUS
  <1>3. /\ p.pose = x /\ q.pose = y /\ p.bounds = no.bounds /\ q.bounds = one.bounds
        /\ p.extent = no.extent /\ q.extent = one.extent /\ no.pose = x /\ one.pose = y
    BY <1>2 DEF IsPlaced, posed_bounds
  <1>4. ~(p.solid = q.solid /\ p.pose = q.pose)
    BY ValidPair DEF classify_pair
  <1>5. CASE p.cuboid /\ q.cuboid
    <2>1. x.cardinal /\ y.cardinal
      BY <1>5 DEF IsPlaced
    <2>2. PairValidity(classify_axis_cuboids(p, q, clearance)) = "valid"
      BY <1>4, <1>5 DEF classify_pair
    <2> QED
      BY <2>1, <2>2, CuboidsKeep
  <1>6. ASSUME NEW reach \in Nat, separated_by_bounds(p, q, reach)
        PROVE  Clear(u, v, reach)
    <2>1. bounds_pair_certificate(no, one, reach)
      BY <1>3, <1>6 DEF bounds_pair_certificate, separated_by_bounds
    <2> QED
      BY <1>2, <2>1, BoundsAccept DEF Clear
  <1>7. CASE ~(p.cuboid /\ q.cuboid) /\ separated_by_bounds(p, q, clearance)
    BY <1>6, <1>7
  <1>8. CASE /\ ~(p.cuboid /\ q.cuboid) /\ ~separated_by_bounds(p, q, clearance)
             /\ clearance = 0 /\ cardinal_bounds_clearance_certificate(p, q, 0) # {}
    <2>1. cardinal_bounds_clearance_proof(p, q, 0)
      BY <1>8 DEF cardinal_bounds_clearance_certificate
    <2>2. bounds_pair_certificate(no, one, clearance)
      BY <1>3, <1>8, <2>1 DEF bounds_pair_certificate, cardinal_bounds_clearance_proof
    <2> QED
      BY <1>2, <2>2, BoundsAccept DEF Clear
  <1>9. CASE /\ ~(p.cuboid /\ q.cuboid) /\ ~separated_by_bounds(p, q, clearance)
             /\ ~(clearance = 0 /\ cardinal_bounds_clearance_certificate(p, q, 0) # {})
             /\ separated_by_bounds(p, q, 0)
    <2>1. PairValidity(Pair("no", exact_surface_gap(p, q, clearance))) = "valid"
      BY <1>4, <1>9 DEF classify_pair
    <2>2. exact_surface_gap(p, q, clearance) \notin {"below", "indeterminate"}
      BY <2>1, ValidPair
    <2>3. FacesMiss(a, c)
      BY <1>9, SeparateFacesMiss
    <2>4. PICK none \in Nat : none = 0
      OBVIOUS
    <2>5. ASSUME NEW w \in a, NEW z \in c
          PROVE  w # z
      <3>1. bounds_pair_certificate(no, one, none)
        BY <1>3, <1>9, <2>4 DEF bounds_pair_certificate, separated_by_bounds
      <3> QED
        BY <1>2, <3>1, BoundsAccept
    <2>6. PICK b \in {c, Points \ c} : b = c
      OBVIOUS
    <2>7. a \cap b = {} /\ v \in b
      BY <2>5, <2>6
    <2> QED
      BY <2>2, <2>3, <2>6, <2>7, SurfacesKeep
  <1>10. CASE /\ ~(p.cuboid /\ q.cuboid) /\ ~separated_by_bounds(p, q, clearance)
              /\ ~(clearance = 0 /\ cardinal_bounds_clearance_certificate(p, q, 0) # {})
              /\ ~separated_by_bounds(p, q, 0)
    <2>1. PairValidity(classify_boundaries(p, q, clearance)) = "valid"
      BY <1>4, <1>10 DEF classify_pair
    <2>2. PICK relation : relation = check_boundaries(p, q)
      OBVIOUS
    <2>3. relation \in {"disjoint", "indeterminate", "transverse_crossing", "contact"}
      BY <2>2 DEF check_boundaries
    <2>4. classify_boundaries(p, q, clearance)
            = CASE relation = "transverse_crossing" -> Pair("yes", "below")
                [] relation = "indeterminate" -> Pair("indeterminate", "indeterminate")
                [] relation = "contact" -> Pair("indeterminate", OnContact(clearance))
                [] relation = "disjoint" -> classify_disjoint(p, q, clearance)
      BY <2>2 DEF classify_boundaries
    <2>5. relation = "disjoint"
      <3>1. PICK doubt : doubt = OnContact(clearance)
        OBVIOUS
      <3>2. CASE relation = "transverse_crossing"
        BY <2>1, <2>4, <3>2, ValidPair
      <3>3. CASE relation = "indeterminate"
        BY <2>1, <2>4, <3>3, ValidPair
      <3>4. CASE relation = "contact"
        BY <2>1, <2>4, <3>4, ValidPair
      <3> QED
        BY <2>3, <3>2, <3>3, <3>4
    <2>6. PairValidity(classify_disjoint(p, q, clearance)) = "valid"
      BY <2>1, <2>4, <2>5
    <2>7. FacesMiss(a, c)
      BY <2>2, <2>5, DisjointFacesMiss
    <2> QED
      BY <2>6, <2>7, DisjointKeep
  <1> QED
    BY <1>5, <1>7, <1>8, <1>9, <1>10

(* A pair that is said to be valid is: whichever bounds, supports, faces or    *)
(* witnesses decide, and however the poses are rounded or turned               *)
(* (validation.cpp, validation_kernel.cpp).                                    *)
THEOREM ValidPairsAreApart ==
  ASSUME NEW a, IsSolid(a), NEW b, IsSolid(b), NEW x \in Poses, NEW y \in Poses,
         NEW clearance \in Nat,
         PairVerdict(a, x, b, y, clearance) = "valid"
  PROVE  KeepsApart(a, b, clearance)
  <1>1. CASE \/ bounds_pair_certificate(posed_bounds(a, x), posed_bounds(b, y), clearance)
             \/ SupportsAccept(a, x, b, y, clearance)
    BY <1>1, AcceptedPairsAreApart
  <1>2. CASE ~(\/ bounds_pair_certificate(posed_bounds(a, x), posed_bounds(b, y), clearance)
               \/ SupportsAccept(a, x, b, y, clearance))
    <2>1. PairValidity(classify_pair(place(a, x), place(b, y), clearance)) = "valid"
      BY <1>2 DEF PairVerdict
    <2>2. PICK p, q : p = place(a, x) /\ q = place(b, y)
      OBVIOUS
    <2>3. IsPlaced(p, a, x) /\ IsPlaced(q, b, y)
      BY <2>2, PlacedIs
    <2>4. \A u \in a, v \in b : Clear(u, v, clearance)
      BY <2>1, <2>2, <2>3, ClassifiedKeep
    <2> QED
      BY <2>4 DEF KeepsApart, Clear
  <1> QED
    BY <1>1, <1>2
-----------------------------------------------------------------------------
(* What the kernel says is inside a container                                  *)

(* The smaller of the gaps to the walls of an axis.                            *)
LEMMA WallGapIs ==
  ASSUME NEW box, IsWindow(box), NEW c, IsSolid(c), NEW k \in Axes
  PROVE  /\ WallGaps(box, Extent(c))[k] \in Int
         /\ WallGaps(box, Extent(c))[k] <= box.first[k] - Low(c, k)
         /\ WallGaps(box, Extent(c))[k] <= High(c, k) - box.last[k]
         /\ \/ WallGaps(box, Extent(c))[k] = box.first[k] - Low(c, k)
            \/ WallGaps(box, Extent(c))[k] = High(c, k) - box.last[k]
  <1>1. PICK f \in Int, l \in Int, i \in Int, j \in Int :
          f = box.first[k] /\ l = box.last[k] /\ i = Low(c, k) /\ j = High(c, k)
    BY SolidBounds DEF IsWindow, Box
  <1>2. Extent(c).first[k] = i /\ Extent(c).last[k] = j
    BY <1>1 DEF Extent, Box
  <1>3. WallGaps(box, Extent(c))[k] = Min({f - i, j - l})
    BY <1>1, <1>2 DEF WallGaps
  <1>4. Min({f - i, j - l}) = IF f - i < j - l THEN f - i ELSE j - l
    <2>1. PICK m \in Int, n \in Int : m = f - i /\ n = j - l
      OBVIOUS
    <2>2. Min({m, n}) = IF m < n THEN m ELSE n
      BY OfTwo
    <2> QED
      BY <2>1, <2>2
  <1> QED
    BY <1>1, <1>3, <1>4

(* What keeps a gap to the walls of a full box keeps it to all that is outside. *)
LEMMA WalledKeep ==
  ASSUME NEW c, IsSolid(c), Fills(c), NEW box, IsWindow(box), NEW clearance \in Nat,
         \A k \in Axes : WallGaps(box, Extent(c))[k] >= clearance,
         NEW u \in Points, \A x \in Points : Within(x, u) => InBox(x, box),
         NEW v \in Points \ c
  PROVE  Clear(u, v, clearance)
  <1>1. PICK k \in Axes : ~(Low(c, k) <= v[k] /\ v[k] < High(c, k))
    BY DEF Fills
  <1>2. PICK f \in Int, l \in Int, i \in Int, j \in Int, x \in Int, y \in Int, gap \in Int :
          /\ f = box.first[k] /\ l = box.last[k] /\ i = Low(c, k) /\ j = High(c, k)
          /\ x = u[k] /\ y = v[k] /\ gap = WallGaps(box, Extent(c))[k]
    <2>1. box.first[k] \in Int /\ box.last[k] \in Int
      BY DEF IsWindow, Box
    <2>2. Low(c, k) \in Int /\ High(c, k) \in Int
      BY SolidBounds
    <2>3. u[k] \in Int /\ v[k] \in Int
      BY Coordinates
    <2>4. WallGaps(box, Extent(c))[k] \in Int
      BY WallGapIs
    <2> QED
      BY <2>1, <2>2, <2>3, <2>4
  <1>3. gap >= clearance /\ gap <= f - i /\ gap <= j - l /\ (y < i \/ y >= j)
    BY <1>1, <1>2, WallGapIs
  <1>4. f <= x /\ x + 1 <= l
    <2>1. \A m \in Axes : u[m] \in Int
      BY Coordinates
    <2>2. PICK m \in Int, n \in Int : u = <<m, n>>
      BY DEF Points
    <2>3. PICK z \in Points : z = <<m + 1, n + 1>>
      <3>1. m + 1 \in Int /\ n + 1 \in Int
        OBVIOUS
      <3> QED
        BY <3>1 DEF Points
    <2>4. Within(u, u) /\ Within(z, u) /\ z[k] = x + 1
      BY <1>2, <2>1, <2>2, <2>3 DEF Within, Axes
    <2>5. InBox(u, box) /\ InBox(z, box)
      BY <2>4
    <2> QED
      BY <1>2, <2>4, <2>5 DEF InBox
  <1>5. x # y /\ clearance <= Apart(x, y)
    BY <1>2, <1>3, <1>4 DEF Apart
  <1>6. PICK near \in Nat, across \in Nat :
          /\ near = Apart(u[k], v[k]) /\ across = Apart(u[3 - k], v[3 - k])
          /\ Distance(u, v) = Squared(near) + Squared(across)
    BY DistanceAlong
  <1>7. clearance <= near
    BY <1>2, <1>5, <1>6
  <1>8. PICK r \in Nat, n \in Nat, m \in Nat :
          r = Squared(clearance) /\ n = Squared(near) /\ m = Squared(across) /\ r <= n
    BY <1>7, SquaresInOrder, SquareOfOpposite
  <1> QED
    BY <1>2, <1>5, <1>6, <1>8 DEF Clear

(* A result that is valid: neither answer refuses or doubts it.                *)
LEMMA ValidInside ==
  ASSUME NEW empty, NEW gap, InsideValidity(Inside(empty, gap)) = "valid"
  PROVE  /\ empty \notin {"no", "below", "indeterminate"}
         /\ gap \notin {"below", "indeterminate"}
  BY DEF InsideValidity, Validity, Inside

(* The bounds that a solid has in a container with straight walls keep the     *)
(* clearance to these (classify_axis_container).                               *)
LEMMA AxisKeep ==
  ASSUME NEW solid, IsSolid(solid), NEW pose \in Poses, NEW p, IsPlaced(p, solid, pose),
         NEW c, IsSolid(c), Fills(c), NEW clearance \in Nat,
         InsideValidity(classify_axis_container(p, Extent(c), clearance)) = "valid",
         NEW u \in solid, NEW v \in Points \ c
  PROVE  Clear(u, v, clearance)
  <1>1. PICK walls : walls = Extent(c)
    OBVIOUS
  <1>2. u \in Points
    BY DEF IsSolid
  <1>3. PICK box : /\ box = p.extent /\ IsWindow(box)
                   /\ \A x \in Points : Within(x, u) => InBox(x, box)
    BY PlacedBounds
  <1>4. \A k \in Axes : WallGaps(box, walls)[k] \in Int
    BY <1>1, <1>3, WallGapIs
  <1>5. PICK gaps : gaps = WallGaps(box, walls)
    OBVIOUS
  <1>6. InsideValidity(IF \E k \in Axes : gaps[k] < 0 THEN Inside("no", "below")
                       ELSE Inside("yes", WallGap(gaps, clearance))) = "valid"
    BY <1>1, <1>3, <1>5 DEF classify_axis_container
  <1>7. PICK gap : gap = WallGap(gaps, clearance)
    OBVIOUS
  <1>8. gap # "below"
    BY <1>6, <1>7, ValidInside
  <1>9. \A k \in Axes : gaps[k] >= clearance
    BY <1>4, <1>5, <1>7, <1>8 DEF WallGap
  <1> QED
    BY <1>1, <1>2, <1>3, <1>5, <1>9, WalledKeep

(* A point that is neither in the material nor in doubt.                       *)
LEMMA OnlyNoIsLeft ==
  ASSUME NEW solid, IsSolid(solid), NEW pose \in Poses, NEW p, IsPlaced(p, solid, pose),
         NEW w \in Points, point_in_material(w, p) \notin {"yes", "indeterminate"}
  PROVE  w \notin solid /\ pose.cardinal
  <1>1. point_in_material(w, p) \in {"yes", "no", "indeterminate"}
    BY AnswersAre
  <1>2. p.cuboid \/ pose.exact
    BY PointAnswers
  <1>3. pose.cardinal
    BY <1>2, PoseIs DEF IsPlaced
  <1>4. point_in_material(w, p) = "no" => w \notin solid
    BY PointAnswers
  <1> QED
    BY <1>1, <1>3, <1>4

(* A corner that is rounded is on the same side of surfaces that what is known *)
(* of its faces does not meet.                                                 *)
LEMMA RoundedWitness ==
  ASSUME NEW solid, IsSolid(solid), NEW pose \in Poses, NEW p, IsPlaced(p, solid, pose),
         NEW c, IsSolid(c), NEW y \in Poses, NEW q, IsPlaced(q, c, y),
         check_boundaries(p, q) = "disjoint", NEW w \in shell_witnesses(Faces(solid))
  PROVE  /\ w \in Points /\ world_vertex(w, pose) \in Points
         /\ (world_vertex(w, pose) \in c) <=> (w \in c)
  <1>1. PICK f \in Faces(solid) : w \in Points /\ w = f.first
    BY WitnessesAre
  <1>2. PICK i \in DOMAIN p.mesh : f = p.mesh[i]
    BY MeshHasFaces
  <1>3. PICK box : box = Outward(f, pose) /\ FaceBounds(p, i) = box
    BY <1>2 DEF FaceBounds, IsPlaced
  <1>4. \A g \in Faces(c) : bounds_disjoint(box, g)
    BY <1>3, BoundsMiss
  <1>5. IsWindow(f) /\ \A k \in Axes : f.first[k] <= f.last[k]
    BY FaceWithin
  <1>6. PICK by \in {0, 1} :
          \A k \in Axes : /\ f.first[k] \in Int /\ f.last[k] \in Int
                         /\ box.first[k] = f.first[k] + pose.slip[k] - by
                         /\ box.last[k] = f.last[k] + pose.slip[k] + by
    BY <1>3, <1>5, OutwardIs
  <1>7. IsWindow(box) /\ \A k \in Axes : box.first[k] <= f.first[k] /\ f.last[k] <= box.last[k]
    BY <1>3, <1>5, OutwardIs
  <1>8. PICK z : z = world_vertex(w, pose) /\ z \in Points
                 /\ \A k \in Axes : z[k] = w[k] + pose.slip[k]
    <2>1. \A k \in Axes : pose.slip[k] \in Int /\ w[k] \in Int
      BY <1>1, PoseIs, Coordinates
    <2>2. w[1] + pose.slip[1] \in Int /\ w[2] + pose.slip[2] \in Int
      BY <2>1 DEF Axes
    <2>3. PICK m \in Int, n \in Int : m = w[1] + pose.slip[1] /\ n = w[2] + pose.slip[2]
      BY <2>2
    <2>4. PICK z : z = <<m, n>>
      OBVIOUS
    <2>5. z = world_vertex(w, pose)
      BY <2>3, <2>4 DEF world_vertex
    <2>6. z \in Points /\ z[1] = m /\ z[2] = n
      BY <2>4 DEF Points
    <2>7. \A k \in Axes : z[k] = w[k] + pose.slip[k]
      BY <2>3, <2>6 DEF Axes
    <2> QED
      BY <2>5, <2>6, <2>7
  <1>9. ASSUME NEW k \in Axes
        PROVE  /\ box.first[k] <= w[k] /\ w[k] <= box.last[k]
               /\ box.first[k] <= z[k] /\ z[k] <= box.last[k]
    <2>1. PICK i1 \in Int, i2 \in Int, t \in Int, b1 \in Int, b2 \in Int :
            /\ i1 = f.first[k] /\ i2 = f.last[k] /\ t = pose.slip[k] /\ i1 <= i2
            /\ b1 = box.first[k] /\ b2 = box.last[k]
      <3>1. f.first[k] \in Int /\ f.last[k] \in Int /\ f.first[k] <= f.last[k]
        BY <1>5, <1>6
      <3>2. pose.slip[k] \in Int
        BY PoseIs
      <3>3. PICK x \in [Axes -> Int], y1 \in [Axes -> Int] : box = Box(x, y1)
        BY <1>7 DEF IsWindow
      <3>4. box.first[k] \in Int /\ box.last[k] \in Int
        BY <3>3 DEF Box
      <3> QED
        BY <3>1, <3>2, <3>4
    <2>2. /\ b1 <= i1 /\ i2 <= b2 /\ b1 = i1 + t - by /\ b2 = i2 + t + by
          /\ w[k] = i1 /\ z[k] = i1 + t /\ by \in Int /\ 0 <= by
      BY <1>1, <1>6, <1>7, <1>8, <2>1
    <2> QED
      BY <2>1, <2>2
  <1>10. InBox(w, box) /\ InBox(z, box)
    BY <1>9 DEF InBox
  <1> QED
    BY <1>1, <1>4, <1>7, <1>8, <1>10, BoxIsSteady

(* Inside a container with faces: the witnesses of the solid lie in it, and    *)
(* those of the container, that may be of a cavity, not in the solid           *)
(* (classify_stl_disjoint).                                                    *)
LEMMA StlKeep ==
  ASSUME NEW solid, IsSolid(solid), NEW pose \in Poses, NEW p, IsPlaced(p, solid, pose),
         NEW c, IsSolid(c), NEW y \in Poses, y.exact, NEW q, IsPlaced(q, c, y), ~q.cuboid,
         check_boundaries(p, q) = "disjoint", NEW clearance \in Nat,
         InsideValidity(classify_stl_disjoint(p, q, clearance)) = "valid",
         NEW u \in solid, NEW v \in Points \ c
  PROVE  Clear(u, v, clearance)
  <1>1. /\ p.pose = pose /\ q.pose = y
        /\ p.witnesses = shell_witnesses(Faces(solid)) /\ q.witnesses = shell_witnesses(Faces(c))
        /\ FacesMiss(solid, c) /\ y.cardinal
    BY DisjointFacesMiss, PoseIs DEF IsPlaced
  <1>2. ObjectWitnesses(p, q) = {"yes"}
    <2>1. ASSUME ObjectWitnesses(p, q) # {"yes"}
          PROVE  FALSE
      <3>1. PICK empty : /\ classify_stl_disjoint(p, q, clearance) = Inside(empty, "indeterminate")
        BY <2>1 DEF classify_stl_disjoint
      <3> QED
        BY <3>1, ValidInside
    <2> QED
      BY <2>1
  <1>3. /\ "yes" \notin CavityWitnesses(p, q) /\ "indeterminate" \notin CavityWitnesses(p, q)
        /\ exact_surface_gap(p, q, clearance) \notin {"below", "indeterminate"}
    <2>1. InsideValidity(
            IF "yes" \in CavityWitnesses(p, q) THEN Inside("no", "indeterminate")
            ELSE IF "indeterminate" \in CavityWitnesses(p, q)
                 THEN Inside("indeterminate", "indeterminate")
            ELSE Inside("yes", exact_surface_gap(p, q, clearance))) = "valid"
      BY <1>2 DEF classify_stl_disjoint
    <2> QED
      BY <2>1, ValidInside
  <1>4. ASSUME NEW w \in shell_witnesses(Faces(solid))
        PROVE  w \in c
    <2>1. PICK z : z = world_vertex(w, pose) /\ z \in Points /\ ((z \in c) <=> (w \in c))
      BY <1>4, RoundedWitness
    <2>2. point_in_material(z, q) \in ObjectWitnesses(p, q)
      BY <1>1, <1>4, <2>1 DEF ObjectWitnesses
    <2>3. point_in_material(z, q) = "yes"
      BY <1>2, <2>2
    <2> QED
      BY <2>1, <2>3, PointAnswers
  <1>5. ASSUME NEW w \in shell_witnesses(Faces(c))
        PROVE  w \notin solid /\ pose.cardinal
    <2>0. w \in Points /\ world_vertex(w, y) = w
      BY <1>5, WitnessesAre, ExactPoints
    <2>1. w \in Points /\ point_in_material(w, p) \in CavityWitnesses(p, q)
      BY <1>1, <1>5, <2>0 DEF CavityWitnesses
    <2>2. point_in_material(w, p) \notin {"yes", "indeterminate"}
      BY <1>3, <2>1
    <2> QED
      BY <2>1, <2>2, OnlyNoIsLeft
  <1>6. pose.cardinal
    BY <1>5, WitnessesAre
  <1>7. PICK b : b = Points \ c
    OBVIOUS
  <1>8. b # c
    BY <1>7 DEF IsSolid
  <1>9. solid \cap b = {}
    <2>1. ASSUME NEW z \in solid \cap b
          PROVE  FALSE
      <3>1. \/ \E w \in shell_witnesses(Faces(solid)) : (w \in c) <=> (b = c)
            \/ \E w \in shell_witnesses(Faces(c)) : w \in solid
        BY <1>1, <1>7, <2>1, WitnessesTell
      <3> QED
        BY <1>4, <1>5, <1>8, <3>1
    <2> QED
      BY <2>1
  <1>10. v \in b /\ b \in {c, Points \ c}
    BY <1>7
  <1> QED
    BY <1>1, <1>3, <1>6, <1>9, <1>10, SurfacesKeep

(* An analytic box is full.                                                    *)
LEMMA BoxesFill ==
  ASSUME NEW s \in Scenes, s.box
  PROVE  Fills(s.container)
  <1>1. IsSolid(s.container)
    BY SceneIs
  <1>2. PICK k \in Axes, j \in Axes : k = 1 /\ j = 2
    BY DEF Axes
  <1>0. PICK c : c = s.container
    OBVIOUS
  <1>3. PICK h1 \in Int, h2 \in Int : c = s.container /\ h1 = High(c, k) /\ h2 = High(c, j)
    BY <1>0, <1>1, SolidBounds
  <1>4. c = (0..(h1 - 1)) \X (0..(h2 - 1))
    BY <1>2, <1>3, SceneAssumption
  <1>5. ASSUME NEW m \in Axes
        PROVE  Low(c, m) \in Int /\ Low(c, m) >= 0
    <2>1. PICK values : values = {u[m] : u \in c}
      OBVIOUS
    <2>2. values \subseteq Int /\ values # {} /\ IsFiniteSet(values)
      <3>1. PICK g : g = [u \in c |-> u[m]]
        OBVIOUS
      <3>2. values = {g[u] : u \in c}
        BY <2>1, <3>1
      <3>3. c # {} /\ c \subseteq Points /\ IsFiniteSet(c)
        BY <1>1, <1>3 DEF IsSolid
      <3>4. IsFiniteSet(values)
        BY <3>1, <3>2, <3>3, ImageIsFinite
      <3>5. \A u \in c : u[m] \in Int
        BY <3>3, Coordinates
      <3> QED
        BY <2>1, <3>3, <3>4, <3>5
    <2>3. Min(values) \in values /\ Min(values) \in Int
      BY <2>2, MinIsLeast
    <2>4. Low(c, m) = Min(values)
      BY <2>1 DEF Low
    <2>5. PICK u \in c : u[m] = Min(values)
      BY <2>1, <2>3
    <2>6. u[m] >= 0
      BY <1>4, <2>5 DEF Axes
    <2> QED
      BY <2>3, <2>4, <2>5, <2>6
  <1> SUFFICES ASSUME NEW v \in Points,
                      \A m \in Axes : Low(c, m) <= v[m] /\ v[m] < High(c, m)
               PROVE  v \in c
    BY <1>3 DEF Fills
  <1>6. PICK a \in Int, b \in Int : v = <<a, b>>
    BY DEF Points
  <1>7. PICK l1 \in Int, l2 \in Int :
          l1 = Low(c, k) /\ l2 = Low(c, j) /\ l1 >= 0 /\ l2 >= 0
    BY <1>5
  <1>8. l1 <= a /\ a < h1 /\ l2 <= b /\ b < h2
    BY <1>2, <1>3, <1>6, <1>7
  <1>9. a \in 0..(h1 - 1) /\ b \in 0..(h2 - 1)
    BY <1>7, <1>8
  <1> QED
    BY <1>4, <1>6, <1>9

(* What is far from all that is outside keeps inside.                          *)
LEMMA ClearOfOutside ==
  ASSUME NEW s \in Scenes, NEW solid, IsSolid(solid),
         \A u \in solid, v \in Points \ s.container : Clear(u, v, s.wall)
  PROVE  KeepsInside(s, solid)
  <1>1. SUFFICES ASSUME NEW u \in solid, NEW v \in Near(u, s.wall + 1) \ s.container
                 PROVE  u # v /\ Distance(u, v) >= Squared(s.wall)
    BY DEF KeepsInside, KeepsApart
  <1>2. u \in Points
    BY DEF IsSolid
  <1>3. PICK a \in Int, b \in Int, r \in Nat : u = <<a, b>> /\ r = s.wall
    BY <1>2, SceneIs DEF Points
  <1>4. v \in Points
    BY <1>1, <1>3 DEF Near, Points
  <1> QED
    BY <1>1, <1>4 DEF Clear

(* A copy that is said to be inside is: it keeps the clearance to the walls of *)
(* a box, or to all that is not the material of a container with faces, covers *)
(* no cavity and lies nowhere else (validation_kernel.cpp).                    *)
THEOREM ValidCopiesAreInside ==
  ASSUME NEW s \in Scenes, NEW solid, IsSolid(solid), NEW pose \in Poses,
         ContainmentVerdict(s, place(solid, pose)) = "valid"
  PROVE  KeepsInside(s, solid)
  <1>1. PICK p : p = place(solid, pose) /\ IsPlaced(p, solid, pose)
    BY PlacedIs
  <1>0. PICK c : c = s.container
    OBVIOUS
  <1>2. PICK reach \in Nat : c = s.container /\ reach = s.wall /\ IsSolid(c)
    BY <1>0, SceneIs
  <1>3. SUFFICES ASSUME NEW u \in solid, NEW v \in Points \ c
                 PROVE  Clear(u, v, reach)
    BY <1>2, ClearOfOutside
  <1>4. CASE s.box
    <2>1. Fills(c)
      BY <1>2, <1>4, BoxesFill
    <2>2. InsideValidity(classify_box(p, Extent(c), reach)) = "valid"
      BY <1>1, <1>2, <1>4 DEF ContainmentVerdict
    <2>3. CASE bounds_box_certificate(p, Extent(c), reach)
      <3>1. \A k \in Axes : WallGaps(p.bounds, Extent(c))[k] >= reach
        BY <2>3 DEF bounds_box_certificate
      <3>2. PICK box : box = p.bounds
        OBVIOUS
      <3>3. /\ IsWindow(box) /\ u \in Points
            /\ \A x \in Points : Within(x, u) => InBox(x, box)
        BY <1>1, <3>2, PlacedBounds DEF IsSolid
      <3> QED
        BY <1>2, <2>1, <3>1, <3>2, <3>3, WalledKeep
    <2>4. CASE ~bounds_box_certificate(p, Extent(c), reach)
      <3>1. InsideValidity(classify_axis_container(p, Extent(c), reach)) = "valid"
        BY <2>2, <2>4 DEF classify_box
      <3> QED
        BY <1>1, <1>2, <2>1, <3>1, AxisKeep
    <2> QED
      BY <2>3, <2>4
  <1>5. CASE ~s.box
    <2>1. PICK y \in Poses : y = identity /\ y.exact
      BY IdentityIs
    <2>2. PICK q : q = place(c, y) /\ IsPlaced(q, c, y)
      BY <1>2, PlacedIs
    <2>3. InsideValidity(classify_stl(p, q, reach)) = "valid"
      BY <1>1, <1>2, <1>5, <2>1, <2>2 DEF ContainmentVerdict
    <2>4. CASE q.cuboid
      <3>1. certify_cuboid(c) /\ q.extent = Extent(c)
        BY <2>2, <2>4 DEF IsPlaced
      <3>2. Fills(c)
        BY <1>2, <3>1, CuboidsFill
      <3>3. InsideValidity(classify_axis_container(p, Extent(c), reach)) = "valid"
        BY <2>3, <2>4, <3>1 DEF classify_stl
      <3> QED
        BY <1>1, <1>2, <3>2, <3>3, AxisKeep
    <2>5. CASE ~q.cuboid
      <3>1. PICK relation : relation = check_boundaries(p, q)
        OBVIOUS
      <3>2. relation \in {"disjoint", "indeterminate", "transverse_crossing", "contact"}
        BY <3>1 DEF check_boundaries
      <3>3. classify_stl(p, q, reach)
              = CASE relation = "transverse_crossing" -> Inside("no", "below")
                  [] relation = "contact" -> Inside("indeterminate", OnContact(reach))
                  [] relation = "indeterminate" -> Inside("indeterminate", "indeterminate")
                  [] relation = "disjoint" -> classify_stl_disjoint(p, q, reach)
        BY <2>5, <3>1 DEF classify_stl
      <3>4. relation = "disjoint"
        <4>1. CASE relation = "transverse_crossing"
          BY <2>3, <3>3, <4>1, ValidInside
        <4>2. CASE relation = "indeterminate"
          BY <2>3, <3>3, <4>2, ValidInside
        <4>3. CASE relation = "contact"
          BY <2>3, <3>3, <4>3, ValidInside
        <4> QED
          BY <3>2, <4>1, <4>2, <4>3
      <3>5. InsideValidity(classify_stl_disjoint(p, q, reach)) = "valid"
        BY <2>3, <3>3, <3>4
      <3> QED
        BY <1>1, <1>2, <2>1, <2>2, <2>5, <3>1, <3>4, <3>5, StlKeep
    <2> QED
      BY <2>4, <2>5
  <1> QED
    BY <1>4, <1>5
-----------------------------------------------------------------------------
(* What the kernel says of a layout                                            *)

(* Copies of different names, each in a turn the object has.                   *)
IsLayout(s, layout) ==
  /\ IsFiniteSet(layout)
  /\ \A p \in layout : p.id \in Nat /\ p.turn \in DOMAIN s.object /\ p.at \in Points
  /\ \A p, q \in layout : p.id = q.id => p = q

(* The layouts that are proposed at the places of a scene.                     *)
LEMMA LayoutsAre ==
  ASSUME NEW s \in Scenes, NEW layout \in Layouts(s)
  PROVE  IsLayout(s, layout)
  <1>1. IsFiniteSet(layout) /\ layout \subseteq Copies(s)
        /\ \A p, q \in layout : p.id = q.id => p = q
    BY LayoutFinite DEF Layouts
  <1>2. ASSUME NEW p \in layout
        PROVE  p.id \in Nat /\ p.turn \in DOMAIN s.object /\ p.at \in Points
    <2>1. p \in Copies(s)
      BY <1>1
    <2>2. p.id \in Ids
      BY <2>1 DEF Copies
    <2> QED
      BY <2>1, <2>2, SolidIs, KernelAssumption
  <1> QED
    BY <1>1, <1>2 DEF IsLayout

(* The solids of the copies of a layout.                                       *)
LEMMA SolidsAre ==
  ASSUME NEW s \in Scenes, NEW layout, IsLayout(s, layout), NEW p \in layout
  PROVE  IsSolid(Solid(s, p))
  <1>1. PICK turn, at : turn = p.turn /\ at = p.at
    OBVIOUS
  <1>2. turn \in DOMAIN s.object /\ at \in Points /\ IsSolid(s.object[turn])
    BY <1>1, SceneAssumption DEF IsLayout
  <1>3. PICK object : object = s.object[turn]
    OBVIOUS
  <1>4. IsSolid(Moved(object, at))
    BY <1>2, <1>3, MovedIsSolid
  <1> QED
    BY <1>1, <1>3, <1>4 DEF Solid

(* The positions of a layout are the places of its names in their order.       *)
LEMMA PositionsAre ==
  ASSUME NEW s, NEW layout, IsLayout(s, layout)
  PROVE  /\ Cardinality(layout) \in Nat
         /\ \A p \in layout : Position(layout, p) \in 1..Cardinality(layout)
         /\ \A p, q \in layout : p.id < q.id => Position(layout, p) < Position(layout, q)
         /\ \A p, q \in layout : Position(layout, p) = Position(layout, q) => p = q
  <1> DEFINE upTo(p) == {q \in layout : q.id <= p.id}
  <1>1. IsFiniteSet(layout) /\ Cardinality(layout) \in Nat
    BY FS_CardinalityType DEF IsLayout
  <1>2. ASSUME NEW p \in layout
        PROVE  /\ IsFiniteSet(upTo(p)) /\ Cardinality(upTo(p)) \in Nat
               /\ Cardinality(upTo(p)) <= Cardinality(layout) /\ Cardinality(upTo(p)) # 0
               /\ Position(layout, p) = Cardinality(upTo(p))
    <2>1. upTo(p) \in SUBSET layout
      OBVIOUS
    <2>2. p \in upTo(p)
      BY DEF IsLayout
    <2>3. Position(layout, p) = Cardinality(upTo(p))
      BY DEF Position
    <2> HIDE DEF upTo
    <2>4. IsFiniteSet(upTo(p)) /\ Cardinality(upTo(p)) <= Cardinality(layout)
      BY <1>1, <2>1, FS_Subset
    <2>5. Cardinality(upTo(p)) \in Nat
      BY <2>4, FS_CardinalityType
    <2>6. Cardinality(upTo(p)) # 0
      BY <2>2, <2>4, FS_EmptySet
    <2> QED
      BY <2>3, <2>4, <2>5, <2>6
  <1>3. ASSUME NEW p \in layout, NEW q \in layout, p.id < q.id
        PROVE  Position(layout, p) < Position(layout, q)
    <2>1. PICK i \in Nat, j \in Nat : i = p.id /\ j = q.id /\ i < j
      BY <1>3 DEF IsLayout
    <2>2. upTo(p) \in SUBSET upTo(q) /\ q \in upTo(q) /\ q \notin upTo(p)
      <3>1. ASSUME NEW r \in layout, r.id <= i
            PROVE  r.id <= j
        <4>1. r.id \in Nat
          BY DEF IsLayout
        <4> QED
          BY <2>1, <3>1, <4>1
      <3> QED
        BY <2>1, <3>1
    <2> HIDE DEF upTo
    <2>3. upTo(p) # upTo(q)
      BY <2>2
    <2>4. PICK less, more : less = upTo(p) /\ more = upTo(q)
      OBVIOUS
    <2>5. Cardinality(less) <= Cardinality(more) /\ Cardinality(less) # Cardinality(more)
      BY <1>2, <2>2, <2>3, <2>4, FS_Subset
    <2>6. Cardinality(less) \in Nat /\ Cardinality(more) \in Nat
      BY <1>2, <2>4
    <2> QED
      BY <1>2, <2>4, <2>5, <2>6
  <1>4. ASSUME NEW p \in layout
        PROVE  Position(layout, p) \in 1..Cardinality(layout)
    <2>1. PICK n \in Nat : n = Position(layout, p) /\ n <= Cardinality(layout) /\ n # 0
      BY <1>2
    <2> QED
      BY <1>1, <2>1
  <1>5. ASSUME NEW p \in layout, NEW q \in layout, Position(layout, p) = Position(layout, q)
        PROVE  p = q
    <2>1. PICK i \in Nat, j \in Nat : i = p.id /\ j = q.id
      BY DEF IsLayout
    <2>2. PICK n \in Nat : n = Position(layout, p)
      BY <1>2
    <2>3. ~(i < j) /\ ~(j < i)
      BY <1>3, <1>5, <2>1, <2>2
    <2> QED
      BY <2>1, <2>3 DEF IsLayout
  <1> QED
    BY <1>1, <1>3, <1>4, <1>5

(* The first of some pairs in the order they are checked in is one of them.    *)
LEMMA FirstInOrder ==
  ASSUME NEW pairs, pairs # {}, pairs \subseteq Nat \X Nat
  PROVE  (CHOOSE m \in pairs : \A n \in pairs : InOrder(m, n)) \in pairs
  <1>1. PICK i \in Nat : /\ \E j \in Nat : <<i, j>> \in pairs
                         /\ \A k, j \in Nat : <<k, j>> \in pairs => i <= k
    <2>1. PICK rows : rows = {k \in Nat : \E j \in Nat : <<k, j>> \in pairs}
      OBVIOUS
    <2>2. rows \in SUBSET Nat /\ rows # {}
      BY <2>1
    <2>3. PICK i \in rows : \A k \in rows : i <= k
      BY <2>2, LeastNat
    <2> QED
      BY <2>1, <2>3
  <1>2. PICK j \in Nat : <<i, j>> \in pairs /\ \A l \in Nat : <<i, l>> \in pairs => j <= l
    <2>1. PICK columns : columns = {l \in Nat : <<i, l>> \in pairs}
      OBVIOUS
    <2>2. columns \in SUBSET Nat /\ columns # {}
      BY <1>1, <2>1
    <2>3. PICK j \in columns : \A l \in columns : j <= l
      BY <2>2, LeastNat
    <2> QED
      BY <2>1, <2>3
  <1>3. PICK m : m = <<i, j>>
    OBVIOUS
  <1>4. ASSUME NEW n \in pairs
        PROVE  InOrder(m, n)
    <2>1. PICK k \in Nat, l \in Nat : n = <<k, l>>
      OBVIOUS
    <2>2. i <= k /\ (k = i => j <= l)
      BY <1>1, <1>2, <2>1
    <2>3. i < k \/ (i = k /\ j <= l)
      BY <2>2
    <2> QED
      BY <1>3, <2>1, <2>3 DEF InOrder
  <1> QED
    BY <1>2, <1>3, <1>4

(* A layout is valid only if no check refuses or doubts it.                    *)
LEMMA NothingRefused ==
  ASSUME NEW verdicts, DOMAIN verdicts \subseteq Nat \X Nat,
         NEW inside, DOMAIN inside \subseteq Nat, IsFiniteSet(DOMAIN inside),
         Decided(verdicts, inside) = "valid"
  PROVE  /\ \A m \in DOMAIN verdicts : verdicts[m] = "valid"
         /\ \A i \in DOMAIN inside : inside[i] = "valid"
  <1>1. PICK pairs : pairs = {m \in DOMAIN verdicts : verdicts[m] # "valid"}
    OBVIOUS
  <1>2. PICK refused : refused = {i \in DOMAIN inside : inside[i] # "valid"}
    OBVIOUS
  <1>3. pairs = {}
    <2>1. SUFFICES ASSUME pairs # {}
                   PROVE  FALSE
      OBVIOUS
    <2>2. PICK first : first = CHOOSE m \in pairs : \A n \in pairs : InOrder(m, n)
      OBVIOUS
    <2>3. pairs \subseteq Nat \X Nat
      BY <1>1
    <2>4. first \in pairs
      BY <2>1, <2>2, <2>3, FirstInOrder
    <2>5. Decided(verdicts, inside) = verdicts[first]
      BY <1>1, <2>1, <2>2 DEF Decided
    <2> QED
      BY <1>1, <2>4, <2>5
  <1>4. refused = {}
    <2>1. SUFFICES ASSUME refused # {}
                   PROVE  FALSE
      OBVIOUS
    <2>2. refused \in SUBSET (DOMAIN inside) /\ refused \in SUBSET Int
      BY <1>2
    <2>3. IsFiniteSet(refused)
      BY <2>2, FS_Subset
    <2>4. Min(refused) \in refused
      BY <2>1, <2>2, <2>3, MinIsLeast
    <2>5. Decided(verdicts, inside) = inside[Min(refused)]
      BY <1>1, <1>2, <1>3, <2>1 DEF Decided
    <2> QED
      BY <1>2, <2>4, <2>5
  <1> QED
    BY <1>1, <1>2, <1>3, <1>4

(* What is not valid is what one of its checks says.                           *)
LEMMA OneDecides ==
  ASSUME NEW verdicts, DOMAIN verdicts \subseteq Nat \X Nat,
         NEW inside, DOMAIN inside \subseteq Nat, IsFiniteSet(DOMAIN inside),
         Decided(verdicts, inside) # "valid"
  PROVE  \/ \E m \in DOMAIN verdicts : Decided(verdicts, inside) = verdicts[m]
         \/ \E i \in DOMAIN inside : Decided(verdicts, inside) = inside[i]
  <1>1. PICK pairs : pairs = {m \in DOMAIN verdicts : verdicts[m] # "valid"}
    OBVIOUS
  <1>2. PICK refused : refused = {i \in DOMAIN inside : inside[i] # "valid"}
    OBVIOUS
  <1>3. CASE pairs # {}
    <2>1. PICK first : first = CHOOSE m \in pairs : \A n \in pairs : InOrder(m, n)
      OBVIOUS
    <2>2. pairs \subseteq Nat \X Nat
      BY <1>1
    <2>3. first \in pairs
      BY <1>3, <2>1, <2>2, FirstInOrder
    <2>4. Decided(verdicts, inside) = verdicts[first]
      BY <1>1, <1>3, <2>1 DEF Decided
    <2> QED
      BY <1>1, <2>3, <2>4
  <1>4. CASE pairs = {} /\ refused # {}
    <2>1. refused \in SUBSET (DOMAIN inside) /\ refused \in SUBSET Int
      BY <1>2
    <2>2. IsFiniteSet(refused)
      BY <2>1, FS_Subset
    <2>3. Min(refused) \in refused
      BY <1>4, <2>1, <2>2, MinIsLeast
    <2>4. Decided(verdicts, inside) = inside[Min(refused)]
      BY <1>1, <1>2, <1>4 DEF Decided
    <2> QED
      BY <1>2, <2>3, <2>4
  <1>5. CASE pairs = {} /\ refused = {}
    <2>1. Decided(verdicts, inside) = "valid"
      BY <1>1, <1>2, <1>5 DEF Decided
    <2> QED
      BY <2>1
  <1> QED
    BY <1>3, <1>4, <1>5

(* The clearance of a pair is that of the pair the other way round.            *)
LEMMA ApartBothWays ==
  ASSUME NEW a, IsSolid(a), NEW b, IsSolid(b), NEW clearance, KeepsApart(a, b, clearance)
  PROVE  KeepsApart(b, a, clearance)
  <1>1. ASSUME NEW u \in b, NEW v \in a
        PROVE  u # v /\ Distance(u, v) >= Squared(clearance)
    <2>1. u \in Points /\ v \in Points
      BY DEF IsSolid
    <2>2. v # u /\ Distance(v, u) >= Squared(clearance)
      BY DEF KeepsApart
    <2> QED
      BY <2>1, <2>2, DistanceBothWays
  <1> QED
    BY <1>1 DEF KeepsApart

(* What a valid layout was found to be: what is not taken over from the one    *)
(* that was validated before is checked.                                       *)
LEMMA ChecksPass ==
  ASSUME NEW s \in Scenes, NEW base, NEW layout, IsLayout(s, layout),
         validate_report(s, base, layout) = "valid"
  PROVE  /\ \A p \in layout :
              \/ p \in base
              \/ ContainmentVerdict(s, place(Solid(s, p), s.pose[p.turn])) = "valid"
         /\ \A p, q \in layout : q.id < p.id =>
              \/ p \in base /\ q \in base
              \/ PairVerdict(Solid(s, p), s.pose[p.turn], Solid(s, q), s.pose[q.turn], s.pair) = "valid"
  <1>1. PICK size \in Nat : size = Cardinality(layout)
    BY PositionsAre
  <1>2. PICK copies : copies = [i \in 1..size |-> CHOOSE p \in layout : Position(layout, p) = i]
    OBVIOUS
  <1>3. DOMAIN copies = 1..size
    BY <1>2
  <1>4. PICK solids, poses : /\ solids = [i \in 1..size |-> Solid(s, copies[i])]
                             /\ poses = [i \in 1..size |-> s.pose[copies[i].turn]]
    OBVIOUS
  <1>5. PICK open : open = {i \in 1..size : copies[i] \notin Proven(base, layout)}
    OBVIOUS
  <1>6. PICK verdicts, pairs :
          /\ verdicts = [m \in pairs |-> PairVerdict(solids[m[1]], poses[m[1]],
                                                     solids[m[2]], poses[m[2]], s.pair)]
          /\ pairs = {m \in (1..size) \X (1..size) : m[2] < m[1] /\ {m[1], m[2]} \cap open # {}}
    OBVIOUS
  <1>7. PICK inside :
          inside = [i \in open |-> ContainmentVerdict(s, place(solids[i], poses[i]))]
    OBVIOUS
  <1>8. Decided(verdicts, inside) = "valid"
    <2>1. DOMAIN solids = 1..size
      BY <1>4
    <2>2. validate_report(s, base, layout) = checks(s, solids, poses, open)
      <3>1. copies = [i \in 1..Cardinality(layout) |-> CHOOSE p \in layout : Position(layout, p) = i]
        BY <1>1, <1>2
      <3>2. /\ solids = [i \in DOMAIN copies |-> Solid(s, copies[i])]
            /\ poses = [i \in DOMAIN copies |-> s.pose[copies[i].turn]]
            /\ open = {i \in DOMAIN copies : copies[i] \notin Proven(base, layout)}
        BY <1>3, <1>4, <1>5
      <3> QED
        BY <3>1, <3>2 DEF validate_report
    <2>3. checks(s, solids, poses, open) = Decided(verdicts, inside)
      BY <1>6, <1>7, <2>1 DEF checks
    <2> QED
      BY <2>2, <2>3
  <1>9. /\ DOMAIN verdicts = pairs /\ DOMAIN verdicts \subseteq Nat \X Nat
        /\ DOMAIN inside = open /\ DOMAIN inside \subseteq Nat
    BY <1>5, <1>6, <1>7
  <1>10. IsFiniteSet(DOMAIN inside)
    <2>1. open \in SUBSET (1..size)
      BY <1>5
    <2>2. IsFiniteSet(1..size)
      BY FS_Interval
    <2> QED
      BY <1>9, <2>1, <2>2, FS_Subset
  <1>11. /\ \A m \in pairs : verdicts[m] = "valid"
         /\ \A i \in open : inside[i] = "valid"
    BY <1>8, <1>9, <1>10, NothingRefused
  <1>12. ASSUME NEW p \in layout
         PROVE  \E i \in 1..size :
                  /\ i = Position(layout, p) /\ solids[i] = Solid(s, p)
                  /\ poses[i] = s.pose[p.turn]
                  /\ i \notin open => p \in base
    <2>1. PICK i \in 1..size : i = Position(layout, p)
      BY <1>1, PositionsAre
    <2>2. copies[i] = p
      <3>1. \A q \in layout : Position(layout, q) = i => q = p
        BY <2>1, PositionsAre
      <3>2. copies[i] = CHOOSE q \in layout : Position(layout, q) = i
        BY <1>2
      <3> QED
        BY <2>1, <3>1, <3>2
    <2>3. solids[i] = Solid(s, p) /\ poses[i] = s.pose[p.turn]
      BY <1>4, <2>2
    <2>4. i \notin open => p \in base
      BY <1>5, <2>2 DEF Proven
    <2> QED
      BY <2>1, <2>3, <2>4
  <1>13. ASSUME NEW p \in layout, p \notin base
         PROVE  ContainmentVerdict(s, place(Solid(s, p), s.pose[p.turn])) = "valid"
    <2>1. PICK i \in 1..size : solids[i] = Solid(s, p) /\ poses[i] = s.pose[p.turn] /\ i \in open
      BY <1>12, <1>13
    <2> QED
      BY <1>7, <1>11, <2>1
  <1>14. ASSUME NEW p \in layout, NEW q \in layout, q.id < p.id, ~(p \in base /\ q \in base)
         PROVE  PairVerdict(Solid(s, p), s.pose[p.turn], Solid(s, q), s.pose[q.turn], s.pair) = "valid"
    <2>1. PICK i \in 1..size : /\ i = Position(layout, p) /\ solids[i] = Solid(s, p)
                               /\ poses[i] = s.pose[p.turn]
                               /\ i \notin open => p \in base
      BY <1>12
    <2>2. PICK j \in 1..size : /\ j = Position(layout, q) /\ solids[j] = Solid(s, q)
                               /\ poses[j] = s.pose[q.turn]
                               /\ j \notin open => q \in base
      BY <1>12
    <2>3. j < i
      BY <1>14, <2>1, <2>2, PositionsAre
    <2>4. i \in open \/ j \in open
      BY <1>14, <2>1, <2>2
    <2>5. PICK m : m = <<i, j>>
      OBVIOUS
    <2>6. m \in pairs /\ m[1] = i /\ m[2] = j
      BY <1>6, <2>3, <2>4, <2>5
    <2> QED
      BY <1>6, <1>11, <2>1, <2>2, <2>6
  <1> QED
    BY <1>13, <1>14

(* A layout that is said to be valid is, if the one is that it takes over      *)
(* copies and pairs from (validate_report).                                    *)
THEOREM ValidLayoutsArePacked ==
  ASSUME NEW s \in Scenes, NEW base, Packed(s, base), NEW layout, IsLayout(s, layout),
         validate_report(s, base, layout) = "valid"
  PROVE  Packed(s, layout)
  <1>1. \A p \in layout : s.pose[p.turn] \in Poses
    BY SceneIs DEF IsLayout
  <1>2. s.pair \in Nat
    BY SceneIs
  <1>3. ASSUME NEW p \in layout
        PROVE  KeepsInside(s, Solid(s, p))
    <2>1. PICK solid, pose :
            /\ solid = Solid(s, p) /\ IsSolid(solid)
            /\ pose \in Poses /\ pose = s.pose[p.turn]
      BY <1>1, SolidsAre
    <2>2. CASE p \in base
      BY <2>2 DEF Packed
    <2>3. CASE p \notin base
      <3>1. ContainmentVerdict(s, place(solid, pose)) = "valid"
        BY <2>1, <2>3, ChecksPass
      <3> QED
        BY <2>1, <3>1, ValidCopiesAreInside
    <2> QED
      BY <2>2, <2>3
  <1>4. ASSUME NEW p \in layout, NEW q \in layout, q.id < p.id
        PROVE  /\ KeepsApart(Solid(s, p), Solid(s, q), s.pair)
               /\ KeepsApart(Solid(s, q), Solid(s, p), s.pair)
    <2>1. PICK a, b : a = Solid(s, p) /\ b = Solid(s, q)
      OBVIOUS
    <2>2. IsSolid(a) /\ IsSolid(b)
      BY <2>1, SolidsAre
    <2>3. KeepsApart(a, b, s.pair)
      <3>1. CASE p \in base /\ q \in base
        <4>1. p.id # q.id
          BY <1>4 DEF IsLayout
        <4> QED
          BY <2>1, <3>1, <4>1 DEF Packed
      <3>2. CASE ~(p \in base /\ q \in base)
        <4>1. PICK x \in Poses, y \in Poses : x = s.pose[p.turn] /\ y = s.pose[q.turn]
          BY <1>1
        <4>2. PairVerdict(a, x, b, y, s.pair) = "valid"
          BY <1>4, <2>1, <3>2, <4>1, ChecksPass
        <4> QED
          BY <1>2, <2>2, <4>2, ValidPairsAreApart
      <3> QED
        BY <3>1, <3>2
    <2>4. KeepsApart(b, a, s.pair)
      BY <2>2, <2>3, ApartBothWays
    <2> QED
      BY <2>1, <2>3, <2>4
  <1>5. ASSUME NEW p \in layout, NEW q \in layout, p.id # q.id
        PROVE  KeepsApart(Solid(s, p), Solid(s, q), s.pair)
    <2>1. PICK i \in Nat, j \in Nat : i = p.id /\ j = q.id
      BY DEF IsLayout
    <2>2. j < i \/ i < j
      BY <1>5, <2>1
    <2> QED
      BY <1>4, <2>1, <2>2
  <1> QED
    BY <1>3, <1>5 DEF Packed
-----------------------------------------------------------------------------
(* The layouts in use                                                          *)

(* No copies are packed.                                                       *)
LEMMA NothingIsPacked ==
  ASSUME NEW s
  PROVE  Packed(s, {})
  BY DEF Packed

-----------------------------------------------------------------------------
(* What the kernel refuses is not packed: where surfaces cross, meet or come   *)
(* too near, squares of the two solids do.                                     *)

(* A point of a face is a corner of a square of the solid, and of one that is  *)
(* not of it.                                                                  *)
LEMMA FaceHasBothSides ==
  ASSUME NEW solid, IsSolid(solid), NEW f \in Faces(solid), NEW x \in Points, OnFace(x, f)
  PROVE  /\ \E u \in solid : u \in Points /\ Within(x, u)
         /\ \E u \in Points \ solid : Within(x, u)
  <1>1. PICK k \in Axes : IsFace(solid, k, f)
    BY FacesAre
  <1>2. PICK j \in Axes : j = 3 - k /\ k = 3 - j /\ Axes = {j, k}
    BY DEF Axes
  <1>3. /\ f.first \in Points /\ f.last \in Points /\ f.last[k] = f.first[k]
        /\ f.first[j] < f.last[j]
    BY <1>1, <1>2 DEF IsFace
  <1>4. /\ f.first[k] \in Int /\ f.first[j] \in Int /\ f.last[j] \in Int
        /\ x[k] \in Int /\ x[j] \in Int
    BY <1>2, <1>3, Coordinates
  <1>5. x[k] = f.first[k] /\ f.first[j] <= x[j] /\ x[j] <= f.last[j]
    BY <1>2, <1>3, <1>4 DEF OnFace
  <1>6. PICK i \in Int : /\ f.first[j] <= i /\ i < f.last[j] /\ i <= x[j] /\ x[j] <= i + 1
    <2>1. PICK p \in Int, q \in Int, y \in Int : p = f.first[j] /\ q = f.last[j] /\ y = x[j]
      BY <1>4
    <2>2. p < q /\ p <= y /\ y <= q
      BY <1>3, <1>5, <2>1
    <2>3. \E i \in {y, y - 1} : p <= i /\ i < q
      BY <2>2
    <2> QED
      BY <2>1, <2>3
  <1>7. PICK w : w = At(x, j, i)
    OBVIOUS
  <1>8. w \in Points /\ w[j] = i /\ w[k] = x[k]
    <2>1. w \in Points /\ w[j] = i /\ w[3 - j] = x[3 - j]
      BY <1>7, AtIs
    <2> QED
      BY <1>2, <2>1
  <1>9. Covers(f, k, w)
    BY <1>2, <1>5, <1>6, <1>8 DEF Covers
  <1>10. PICK z : z = At(w, k, w[k] - 1)
    OBVIOUS
  <1>11. z \in Points /\ z[k] = x[k] - 1 /\ z[j] = i
    <2>1. w[k] - 1 \in Int
      BY <1>4, <1>8
    <2>2. z \in Points /\ z[k] = w[k] - 1 /\ z[3 - k] = w[3 - k]
      BY <1>8, <1>10, <2>1, AtIs
    <2> QED
      BY <1>2, <1>8, <2>2
  <1>12. ~((w \in solid) <=> (z \in solid))
    BY <1>1, <1>8, <1>9, <1>10, CoveredAreWalls, WallsAre
  <1>13. Within(x, w)
    BY <1>2, <1>4, <1>6, <1>8 DEF Within
  <1>14. Within(x, z)
    BY <1>2, <1>4, <1>6, <1>11 DEF Within
  <1> QED
    BY <1>8, <1>11, <1>12, <1>13, <1>14

(* A face that goes on through a point has walls on both sides of it.          *)
LEMMA FaceGoesOn ==
  ASSUME NEW solid, IsSolid(solid), NEW k \in Axes, NEW f \in Faces(solid), NEW x \in Points,
         NEW j, j = 3 - k, f.first[k] < x[k], x[k] < f.last[k], f.first[j] = x[j]
  PROVE  IsWall(solid, j, x) /\ IsWall(solid, j, At(x, k, x[k] - 1))
  <1>1. PICK h \in Axes : IsFace(solid, h, f)
    BY FacesAre
  <1>2. /\ f.first \in Points /\ f.last \in Points /\ f.last[h] = f.first[h]
    BY <1>1 DEF IsFace
  <1>3. /\ j \in Axes /\ k = 3 - j
        /\ f.first[k] \in Int /\ f.last[k] \in Int /\ x[k] \in Int /\ x[j] \in Int
    BY <1>2, Coordinates
  <1>4. h = j
    BY <1>2, <1>3 DEF Axes
  <1>5. PICK w : w = At(x, k, x[k] - 1)
    OBVIOUS
  <1>6. w \in Points /\ w[k] = x[k] - 1 /\ w[j] = x[j]
    <2>1. x[k] - 1 \in Int
      BY <1>3
    <2> QED
      BY <1>5, <2>1, AtIs
  <1>7. Covers(f, j, x) /\ Covers(f, j, w)
    BY <1>3, <1>6 DEF Covers
  <1>8. x \in Walls(solid, j) /\ w \in Walls(solid, j)
    BY <1>1, <1>3, <1>4, <1>6, <1>7, CoveredAreWalls
  <1> QED
    BY <1>3, <1>5, <1>6, <1>8, WallsAre DEF IsWall

(* Where two squares of a manifold solid meet at a corner, it has a third one; *)
(* where two that are not of it do, there is a third one too.                  *)
LEMMA CornersOfManifold ==
  ASSUME NEW solid, IsManifold(solid), NEW x \in Int, NEW y \in Int
  PROVE  /\ <<x, y>> \in solid /\ <<x - 1, y - 1>> \in solid
              => <<x - 1, y>> \in solid \/ <<x, y - 1>> \in solid
         /\ <<x - 1, y>> \in solid /\ <<x, y - 1>> \in solid
              => <<x, y>> \in solid \/ <<x - 1, y - 1>> \in solid
  <1>1. ASSUME <<x, y>> \in solid, <<x - 1, y - 1>> \in solid
        PROVE  <<x - 1, y>> \in solid \/ <<x, y - 1>> \in solid
    <2>1. <<x - 1, y - 1>> \in Near(<<x, y>>, 1)
      BY DEF Near
    <2> QED
      BY <1>1, <2>1 DEF IsManifold
  <1>2. ASSUME <<x - 1, y>> \in solid, <<x, y - 1>> \in solid
        PROVE  <<x, y>> \in solid \/ <<x - 1, y - 1>> \in solid
    <2>1. <<x, y - 1>> \in Near(<<x - 1, y>>, 1)
      BY DEF Near
    <2> QED
      BY <1>2, <2>1 DEF IsManifold
  <1> QED
    BY <1>1, <1>2

(* A straight boundary has the squares of one side.                            *)
LEMMA SidesOfWall ==
  ASSUME NEW solid, IsManifold(solid), NEW x \in Points, NEW k \in Axes, NEW j, j = 3 - k,
         IsWall(solid, j, x), IsWall(solid, j, At(x, k, x[k] - 1)),
         NEW w, w = At(x, k, x[k] - 1), NEW s, s = At(x, j, x[j] - 1),
         NEW d, d = <<x[1] - 1, x[2] - 1>>
  PROVE  \/ x \in solid /\ w \in solid /\ s \notin solid /\ d \notin solid
         \/ x \notin solid /\ w \notin solid /\ s \in solid /\ d \in solid
  <1>1. PICK a \in Int, b \in Int : x = <<a, b>>
    BY DEF Points
  <1>2. d = <<a - 1, b - 1>>
    BY <1>1
  <1>3. CASE k = 1
    <2>1. w = <<a - 1, b>> /\ s = <<a, b - 1>>
      BY <1>1, <1>3 DEF At
    <2>2. At(w, 2, w[2] - 1) = d /\ At(x, 2, x[2] - 1) = s
      BY <1>1, <1>2, <2>1 DEF At
    <2>3. ~((x \in solid) <=> (s \in solid)) /\ ~((w \in solid) <=> (d \in solid))
      BY <1>3, <2>2 DEF IsWall
    <2> QED
      BY <1>1, <1>2, <2>1, <2>3, CornersOfManifold
  <1>4. CASE k = 2
    <2>1. w = <<a, b - 1>> /\ s = <<a - 1, b>>
      BY <1>1, <1>4 DEF At
    <2>2. At(w, 1, w[1] - 1) = d /\ At(x, 1, x[1] - 1) = s
      BY <1>1, <1>2, <2>1 DEF At
    <2>3. ~((x \in solid) <=> (s \in solid)) /\ ~((w \in solid) <=> (d \in solid))
      BY <1>4, <2>2 DEF IsWall
    <2> QED
      BY <1>1, <1>2, <2>1, <2>3, CornersOfManifold
  <1> QED
    BY <1>3, <1>4 DEF Axes

(* Solids whose surfaces cross share a square, and so do the one and what is   *)
(* not of the other.                                                           *)
LEMMA CrossingShares ==
  ASSUME NEW a, IsSolid(a), IsManifold(a), NEW c, IsSolid(c), IsManifold(c),
         NEW f \in Faces(a), NEW g \in Faces(c), segment_triangle_crossing(f, g),
         NEW b \in {c, Points \ c}
  PROVE  a \cap b # {}
  <1>1. PICK k \in Axes : /\ f.first[k] < g.first[k] /\ g.last[k] < f.last[k]
                          /\ g.first[3 - k] < f.first[3 - k] /\ f.last[3 - k] < g.last[3 - k]
    BY DEF segment_triangle_crossing
  <1>2. PICK j \in Axes : j = 3 - k /\ k = 3 - j /\ j # k
    BY DEF Axes
  <1>3. /\ f.first \in Points /\ g.first \in Points
        /\ \A h \in Axes : /\ f.first[h] \in Int /\ f.last[h] \in Int /\ f.first[h] <= f.last[h]
                           /\ g.first[h] \in Int /\ g.last[h] \in Int /\ g.first[h] <= g.last[h]
    BY FaceWithin
  <1>4. PICK x : x = At(f.first, k, g.first[k])
    OBVIOUS
  <1>5. x \in Points /\ x[k] = g.first[k] /\ x[j] = f.first[j]
    <2>1. PICK z \in Points, i \in Int : z = f.first /\ i = g.first[k]
      BY <1>3
    <2>2. x = At(z, k, i)
      BY <1>4, <2>1
    <2>3. x \in Points /\ x[k] = i /\ x[3 - k] = z[3 - k]
      BY <2>2, AtIs
    <2> QED
      BY <1>2, <2>1, <2>3
  <1>6. PICK w, s, d : w = At(x, k, x[k] - 1) /\ s = At(x, j, x[j] - 1) /\ d = <<x[1] - 1, x[2] - 1>>
    OBVIOUS
  <1>7. IsWall(a, j, x) /\ IsWall(a, j, w)
    <2>1. f.first[k] < x[k] /\ x[k] < f.last[k]
      BY <1>1, <1>3, <1>5
    <2> QED
      BY <1>2, <1>5, <1>6, <2>1, FaceGoesOn
  <1>8. IsWall(c, k, x) /\ IsWall(c, k, s)
    <2>1. g.first[j] < x[j] /\ x[j] < g.last[j]
      BY <1>1, <1>2, <1>3, <1>5
    <2> QED
      BY <1>2, <1>5, <1>6, <2>1, FaceGoesOn
  <1>9. \/ x \in a /\ w \in a
        \/ s \in a /\ d \in a
    BY <1>2, <1>5, <1>6, <1>7, SidesOfWall
  <1>10. \/ x \in c /\ s \in c /\ w \notin c /\ d \notin c
         \/ x \notin c /\ s \notin c /\ w \in c /\ d \in c
    BY <1>2, <1>5, <1>6, <1>8, SidesOfWall
  <1>11. a \subseteq Points
    BY DEF IsSolid
  <1> QED
    BY <1>9, <1>10, <1>11

(* Squares are no farther apart than a point of the one is from one of the     *)
(* other.                                                                      *)
LEMMA PointsWithin ==
  ASSUME NEW u \in Points, NEW v \in Points, NEW x \in Points, NEW y \in Points,
         Within(x, u), Within(y, v)
  PROVE  Distance(u, v) \in Nat
         /\ Distance(u, v) <= Squared(y[1] - x[1]) + Squared(y[2] - x[2])
  <1>1. PICK p, q : p = Box(u, <<u[1] + 1, u[2] + 1>>) /\ q = Box(v, <<v[1] + 1, v[2] + 1>>)
    OBVIOUS
  <1>2. /\ u[1] \in Int /\ u[2] \in Int /\ v[1] \in Int /\ v[2] \in Int
        /\ <<u[1] + 1, u[2] + 1>> \in Points /\ <<v[1] + 1, v[2] + 1>> \in Points
    BY DEF Points
  <1>3. IsWindow(p) /\ IsWindow(q)
    BY <1>1, <1>2, PointsAreRows DEF IsWindow
  <1>4. InBox(x, p) /\ InBox(y, q)
    BY <1>1, <1>2 DEF InBox, Within, Box, Axes
  <1>5. \A k \in Axes : x[k] \in Int /\ y[k] \in Int
    BY Coordinates
  <1>6. SquaredGap(p, q) <= Squared(y[1] - x[1]) + Squared(y[2] - x[2])
    BY <1>3, <1>4, <1>5, GapWithin
  <1>7. Distance(u, v) = SquaredGap(p, q)
    BY <1>1 DEF Distance
  <1> QED
    BY <1>6, <1>7, DistanceIs

(* The point of a stretch that is nearest.                                     *)
LEMMA NearestAlong ==
  ASSUME NEW a \in Int, NEW b \in Int, a <= b, NEW x \in Int
  PROVE  \E z \in Int : /\ a <= z /\ z <= b
                        /\ z - x = Beyond(x, x, a, b) \/ x - z = Beyond(x, x, a, b)
  <1>1. CASE x < a
    BY <1>1 DEF Beyond
  <1>2. CASE x > b
    BY <1>2 DEF Beyond
  <1>3. CASE a <= x /\ x <= b
    BY <1>3 DEF Beyond
  <1> QED
    BY <1>1, <1>2, <1>3

LEMMA SquareOfGap ==
  ASSUME NEW x \in Int, NEW z \in Int, NEW n \in Nat, z - x = n \/ x - z = n
  PROVE  Squared(z - x) = Squared(n) /\ Squared(n) \in Nat
  <1>1. PICK d \in Int : d = z - x
    OBVIOUS
  <1>2. d = n \/ d = -n
    BY <1>1
  <1> QED
    BY <1>1, <1>2, SquareOfOpposite

(* The point of a face that is nearest to a point.                             *)
LEMMA NearestOnFace ==
  ASSUME NEW x \in Points, NEW g, IsBox(g)
  PROVE  \E z \in Points : /\ OnFace(z, g)
                           /\ Squared(z[1] - x[1]) + Squared(z[2] - x[2]) = SquaredGap(Box(x, x), g)
  <1>1. PICK p : p = Box(x, x)
    OBVIOUS
  <1>2. /\ p.first = x /\ p.last = x
        /\ x[1] \in Int /\ x[2] \in Int /\ 1 \in Axes /\ 2 \in Axes
    BY <1>1, Coordinates DEF Box, Axes
  <1>3. IsBox(p)
    BY <1>2 DEF IsBox, Axes
  <1>4. /\ \A k \in Axes : g.first[k] \in Int /\ g.last[k] \in Int /\ g.first[k] <= g.last[k]
        /\ \A k \in Axes : Between(p, g, k) \in Nat
        /\ SquaredGap(p, g) = Squared(Between(p, g, 1)) + Squared(Between(p, g, 2))
    BY <1>3, GapsAre DEF IsBox
  <1>5. ASSUME NEW k \in Axes
        PROVE  \E z \in Int : /\ g.first[k] <= z /\ z <= g.last[k]
                              /\ z - x[k] = Between(p, g, k) \/ x[k] - z = Between(p, g, k)
    <2>1. PICK lo \in Int, hi \in Int, y \in Int :
            lo = g.first[k] /\ hi = g.last[k] /\ y = x[k] /\ lo <= hi
      BY <1>4, Coordinates
    <2>2. Between(p, g, k) = Beyond(y, y, lo, hi)
      BY <1>2, <2>1 DEF Between
    <2>3. PICK z \in Int : /\ lo <= z /\ z <= hi
                           /\ z - y = Beyond(y, y, lo, hi) \/ y - z = Beyond(y, y, lo, hi)
      <3>1. lo \in Int /\ hi \in Int /\ y \in Int /\ lo <= hi
        BY <2>1
      <3> QED
        BY <3>1, NearestAlong, Zenon
    <2> QED
      BY <2>1, <2>2, <2>3
  <1>6. PICK a \in Int, b \in Int :
          /\ g.first[1] <= a /\ a <= g.last[1] /\ g.first[2] <= b /\ b <= g.last[2]
          /\ a - x[1] = Between(p, g, 1) \/ x[1] - a = Between(p, g, 1)
          /\ b - x[2] = Between(p, g, 2) \/ x[2] - b = Between(p, g, 2)
    BY <1>2, <1>5
  <1>7. /\ Squared(a - x[1]) = Squared(Between(p, g, 1))
        /\ Squared(b - x[2]) = Squared(Between(p, g, 2))
    BY <1>2, <1>4, <1>6, SquareOfGap
  <1>8. PICK z : z = <<a, b>>
    OBVIOUS
  <1>9. z \in Points /\ z[1] = a /\ z[2] = b
    BY <1>8 DEF Points
  <1>10. OnFace(z, g)
    BY <1>6, <1>9 DEF OnFace, Axes
  <1> QED
    BY <1>1, <1>4, <1>7, <1>9, <1>10

(* Where a point of one surface is from a point of another, squares of both    *)
(* sides of each are no farther apart.                                         *)
LEMMA SquaresAtPoints ==
  ASSUME NEW a, IsSolid(a), NEW c, IsSolid(c), NEW f \in Faces(a), NEW g \in Faces(c),
         NEW x \in Points, NEW y \in Points, OnFace(x, f), OnFace(y, g),
         NEW b \in {c, Points \ c}
  PROVE  \E u \in a, v \in b :
           /\ u \in Points /\ v \in Points /\ Distance(u, v) \in Nat
           /\ Distance(u, v) <= Squared(y[1] - x[1]) + Squared(y[2] - x[2])
           /\ Within(x, u) /\ Within(y, v)
  <1>1. PICK u \in a : u \in Points /\ Within(x, u)
    BY FaceHasBothSides
  <1>2. PICK v \in b : v \in Points /\ Within(y, v)
    BY FaceHasBothSides
  <1> QED
    BY <1>1, <1>2, PointsWithin

(* Squares that are too near for a clearance.                                  *)
TooNear(a, b, clearance) ==
  \E u \in a, v \in b : u \in Points /\ v \in Points
                        /\ (u = v \/ Distance(u, v) < Squared(clearance))

(* Faces whose distance is below the clearance.                                *)
LEMMA NearFaces ==
  ASSUME NEW a, IsSolid(a), NEW c, IsSolid(c), NEW f \in Faces(a), NEW g \in Faces(c),
         NEW b \in {c, Points \ c}, NEW clearance \in Nat,
         exact_triangle_distance(f, g) < Squared(clearance)
  PROVE  TooNear(a, b, clearance)
  <1>1. PICK dist \in Int : dist = exact_triangle_distance(f, g) /\ dist < Squared(clearance)
    BY EndDistance
  <1>2. \/ \E v \in {f.first, f.last} : dist = SquaredGap(Box(v, v), g)
        \/ \E v \in {g.first, g.last} : dist = SquaredGap(Box(v, v), f)
    BY <1>1, EndDistance
  <1>3. IsBox(f) /\ IsBox(g)
    BY FaceIsBox
  <1>4. /\ f.first \in Points /\ f.last \in Points /\ g.first \in Points /\ g.last \in Points
        /\ \A k \in Axes : /\ f.first[k] \in Int /\ f.last[k] \in Int /\ f.first[k] <= f.last[k]
                           /\ g.first[k] \in Int /\ g.last[k] \in Int /\ g.first[k] <= g.last[k]
    BY FaceWithin
  <1>5. Squared(clearance) \in Int
    BY DEF Squared
  <1>6. ASSUME NEW x \in Points, NEW y \in Points, OnFace(x, f), OnFace(y, g),
               Squared(y[1] - x[1]) + Squared(y[2] - x[2]) = dist
        PROVE  TooNear(a, b, clearance)
    <2>1. PICK u \in a, v \in b :
            /\ u \in Points /\ v \in Points /\ Distance(u, v) \in Nat
            /\ Distance(u, v) <= Squared(y[1] - x[1]) + Squared(y[2] - x[2])
      BY <1>6, SquaresAtPoints
    <2>2. PICK n \in Nat : n = Distance(u, v) /\ n <= dist
      BY <1>6, <2>1
    <2>3. n < Squared(clearance)
      BY <1>1, <1>5, <2>2
    <2> QED
      BY <2>1, <2>2, <2>3 DEF TooNear
  <1>7. ASSUME NEW v \in {f.first, f.last}, dist = SquaredGap(Box(v, v), g)
        PROVE  TooNear(a, b, clearance)
    <2>1. v \in Points /\ OnFace(v, f)
      BY <1>4 DEF OnFace
    <2>2. PICK z \in Points : /\ OnFace(z, g)
                              /\ Squared(z[1] - v[1]) + Squared(z[2] - v[2]) = dist
      BY <1>3, <1>7, <2>1, NearestOnFace
    <2> QED
      BY <1>6, <2>1, <2>2
  <1>8. ASSUME NEW v \in {g.first, g.last}, dist = SquaredGap(Box(v, v), f)
        PROVE  TooNear(a, b, clearance)
    <2>1. v \in Points /\ OnFace(v, g)
      BY <1>4 DEF OnFace
    <2>2. PICK z \in Points : /\ OnFace(z, f)
                              /\ Squared(z[1] - v[1]) + Squared(z[2] - v[2]) = dist
      BY <1>3, <1>8, <2>1, NearestOnFace
    <2>3. PICK z1 \in Int, z2 \in Int, v1 \in Int, v2 \in Int :
            z1 = z[1] /\ z2 = z[2] /\ v1 = v[1] /\ v2 = v[2]
      BY <2>1, <2>2 DEF Points
    <2>4. v1 - z1 = -(z1 - v1) /\ v2 - z2 = -(z2 - v2) /\ z1 - v1 \in Int /\ z2 - v2 \in Int
      OBVIOUS
    <2>5. Squared(v1 - z1) = Squared(z1 - v1) /\ Squared(v2 - z2) = Squared(z2 - v2)
      BY <2>4, SquareOfOpposite
    <2>6. Squared(v[1] - z[1]) + Squared(v[2] - z[2]) = dist
      BY <2>2, <2>3, <2>5
    <2> QED
      BY <1>6, <2>1, <2>2, <2>6
  <1> QED
    BY <1>2, <1>7, <1>8

(* The smallest distance of the surfaces is below the clearance.               *)
LEMMA NearSurfaces ==
  ASSUME NEW a, IsSolid(a), NEW c, IsSolid(c), NEW x \in Poses, NEW y \in Poses,
         NEW p, IsPlaced(p, a, x), NEW q, IsPlaced(q, c, y), NEW b \in {c, Points \ c},
         NEW clearance \in Nat, exact_surface_gap(p, q, clearance) = "below"
  PROVE  TooNear(a, b, clearance)
  <1> DEFINE orders == UNION {{compare(exact_triangle_distance(p.mesh[i], q.mesh[j]), Squared(clearance)) :
                                 j \in MayBeNear(p, i, q, clearance)} : i \in DOMAIN p.mesh}
  <1>1. conservative_surface_gap(p, q, clearance) # "below"
    BY DEF conservative_surface_gap
  <1>2. "below" \in orders
    <2>1. exact_surface_gap(p, q, clearance) =
            IF clearance = 0 THEN "above"
            ELSE IF ~p.pose.cardinal \/ ~q.pose.cardinal THEN conservative_surface_gap(p, q, clearance)
            ELSE IF "below" \in orders THEN "below"
            ELSE IF "equal" \in orders THEN "equal" ELSE "above"
      BY DEF exact_surface_gap
    <2> HIDE DEF orders
    <2>2. p.pose = x /\ q.pose = y
      BY DEF IsPlaced
    <2>3. clearance # 0
      BY <2>1
    <2>4. x.cardinal /\ y.cardinal
      BY <1>1, <2>1, <2>2, <2>3
    <2> QED
      BY <2>1, <2>2, <2>3, <2>4
  <1>3. PICK i \in DOMAIN p.mesh : \E j \in MayBeNear(p, i, q, clearance) :
          compare(exact_triangle_distance(p.mesh[i], q.mesh[j]), Squared(clearance)) = "below"
    BY <1>2
  <1>4. PICK j \in DOMAIN q.mesh :
          compare(exact_triangle_distance(p.mesh[i], q.mesh[j]), Squared(clearance)) = "below"
    BY <1>3, MayBeNearIs
  <1>5. PICK f \in Faces(a), g \in Faces(c) : f = p.mesh[i] /\ g = q.mesh[j]
    BY <1>4, MeshHasFaces
  <1>6. exact_triangle_distance(f, g) < Squared(clearance)
    BY <1>4, <1>5 DEF compare
  <1> QED
    BY <1>6, NearFaces

(* Surfaces that meet, with a clearance.                                       *)
LEMMA MetFaces ==
  ASSUME NEW a, IsSolid(a), NEW c, IsSolid(c), NEW f \in Faces(a), NEW g \in Faces(c),
         ~bounds_disjoint(f, g)
  PROVE  \E x \in Points : OnFace(x, f) /\ OnFace(x, g)
  <1>1. IsBox(f) /\ IsBox(g)
    BY FaceIsBox
  <1>2. \A k \in Axes : ~(Between(f, g, k) > 0) /\ Between(f, g, k) \in Nat
    BY <1>1, GapsAre
  <1>3. ASSUME NEW k \in Axes
        PROVE  \E i \in Int : /\ f.first[k] <= i /\ i <= f.last[k]
                              /\ g.first[k] <= i /\ i <= g.last[k]
    <2>1. PICK f1 \in Int, f2 \in Int, g1 \in Int, g2 \in Int :
            /\ f1 = f.first[k] /\ f2 = f.last[k] /\ g1 = g.first[k] /\ g2 = g.last[k]
            /\ f1 <= f2 /\ g1 <= g2
      BY <1>1 DEF IsBox
    <2>2. Beyond(f1, f2, g1, g2) \in Nat /\ ~(Beyond(f1, f2, g1, g2) > 0)
      BY <1>2, <2>1 DEF Between
    <2>3. g1 <= f2 /\ f1 <= g2
      BY <2>1, <2>2 DEF Beyond
    <2>4. \E i \in {f1, g1} : f1 <= i /\ i <= f2 /\ g1 <= i /\ i <= g2
      BY <2>1, <2>3
    <2> QED
      BY <2>1, <2>4
  <1>4. 1 \in Axes /\ 2 \in Axes
    BY DEF Axes
  <1>5. PICK i \in Int : /\ f.first[1] <= i /\ i <= f.last[1] /\ g.first[1] <= i /\ i <= g.last[1]
    BY <1>3, <1>4
  <1>6. PICK j \in Int : /\ f.first[2] <= j /\ j <= f.last[2] /\ g.first[2] <= j /\ j <= g.last[2]
    BY <1>3, <1>4
  <1>7. PICK x : x = <<i, j>>
    OBVIOUS
  <1>8. x \in Points /\ x[1] = i /\ x[2] = j
    BY <1>7 DEF Points
  <1> QED
    BY <1>5, <1>6, <1>8 DEF OnFace, Axes

(* Faces that meet are nearer than any clearance.                              *)
LEMMA MetAreNear ==
  ASSUME NEW a, IsSolid(a), NEW c, IsSolid(c), NEW f \in Faces(a), NEW g \in Faces(c),
         ~bounds_disjoint(f, g), NEW b \in {c, Points \ c}, NEW clearance \in Nat \ {0}
  PROVE  TooNear(a, b, clearance)
  <1>1. PICK x \in Points : OnFace(x, f) /\ OnFace(x, g)
    BY MetFaces
  <1>2. PICK u \in a, v \in b :
          /\ u \in Points /\ v \in Points /\ Distance(u, v) \in Nat
          /\ Distance(u, v) <= Squared(x[1] - x[1]) + Squared(x[2] - x[2])
    BY <1>1, SquaresAtPoints
  <1>3. x[1] - x[1] = 0 /\ x[2] - x[2] = 0
    BY DEF Points
  <1>4. Squared(0) = 0 /\ Squared(clearance) >= 1 /\ Squared(clearance) \in Int
    <2>1. clearance * clearance >= clearance
      OBVIOUS
    <2> QED
      BY <2>1 DEF Squared
  <1>5. Distance(u, v) < Squared(clearance)
    BY <1>2, <1>3, <1>4
  <1> QED
    BY <1>2, <1>5 DEF TooNear

(* Squares of two stretches that are as near as the stretches are.             *)
LEMMA NearestSquaresAlong ==
  ASSUME NEW a1 \in Int, NEW a2 \in Int, a1 < a2, NEW b1 \in Int, NEW b2 \in Int, b1 < b2
  PROVE  \E i, j \in Int : /\ a1 <= i /\ i < a2 /\ b1 <= j /\ j < b2
                           /\ Apart(i, j) = Beyond(a1, a2, b1, b2)
                           /\ b1 < a2 /\ a1 < b2 => i = j
  <1>1. CASE a2 <= b1
    <2>1. a2 - 1 \in Int /\ Apart(a2 - 1, b1) = b1 - a2 /\ Beyond(a1, a2, b1, b2) = b1 - a2
      BY <1>1 DEF Apart, Beyond
    <2> QED
      BY <1>1, <2>1
  <1>2. CASE b2 <= a1
    <2>1. b2 - 1 \in Int /\ Apart(a1, b2 - 1) = a1 - b2 /\ Beyond(a1, a2, b1, b2) = a1 - b2
      BY <1>2 DEF Apart, Beyond
    <2> QED
      BY <1>2, <2>1
  <1>3. CASE b1 < a2 /\ a1 < b2
    <2>1. Beyond(a1, a2, b1, b2) = 0
      BY <1>3 DEF Beyond
    <2>2. PICK i \in Int : a1 <= i /\ i < a2 /\ b1 <= i /\ i < b2
      <3>1. CASE a1 <= b1
        BY <1>3, <3>1
      <3>2. CASE b1 <= a1
        BY <1>3, <3>2
      <3> QED
        BY <3>1, <3>2
    <2>3. Apart(i, i) = 0
      BY DEF Apart
    <2> QED
      BY <2>1, <2>2, <2>3
  <1> QED
    BY <1>1, <1>2, <1>3

(* The bounds of a solid are a box with a size.                                *)
LEMMA ExtentIsBox ==
  ASSUME NEW solid, IsSolid(solid)
  PROVE  /\ IsBox(Extent(solid))
         /\ \A k \in Axes : /\ Extent(solid).first[k] = Low(solid, k)
                            /\ Extent(solid).last[k] = High(solid, k)
                            /\ Low(solid, k) \in Int /\ High(solid, k) \in Int
                            /\ Low(solid, k) < High(solid, k)
  <1>1. PICK u : u \in solid
    BY DEF IsSolid
  <1>2. \A k \in Axes : /\ Low(solid, k) \in Int /\ High(solid, k) \in Int
                        /\ Low(solid, k) < High(solid, k)
    <2> SUFFICES ASSUME NEW k \in Axes
                 PROVE  /\ Low(solid, k) \in Int /\ High(solid, k) \in Int
                        /\ Low(solid, k) < High(solid, k)
      OBVIOUS
    <2>1. PICK l \in Int, h \in Int, x \in Int : l = Low(solid, k) /\ h = High(solid, k) /\ x = u[k]
      BY <1>1, SolidBounds
    <2>2. l <= x /\ x + 1 <= h
      BY <1>1, <2>1, SolidBounds
    <2> QED
      BY <2>1, <2>2
  <1>3. \A k \in Axes : /\ Extent(solid).first[k] = Low(solid, k)
                        /\ Extent(solid).last[k] = High(solid, k)
    BY DEF Extent, Box
  <1> QED
    BY <1>2, <1>3 DEF IsBox

(* Boxes that are full have squares as near as the boxes are.                  *)
LEMMA NearestSquares ==
  ASSUME NEW a, IsSolid(a), Fills(a), NEW c, IsSolid(c), Fills(c)
  PROVE  /\ SquaredGap(Extent(a), Extent(c)) \in Nat
         /\ \E u \in a, v \in c :
              /\ u \in Points /\ v \in Points
              /\ Distance(u, v) = SquaredGap(Extent(a), Extent(c))
              /\ (\A k \in Axes : AxisGap(Extent(a), Extent(c), k) < 0) => u = v
  <1>1. PICK p, q : p = Extent(a) /\ q = Extent(c)
    OBVIOUS
  <1>2. /\ IsBox(p) /\ IsBox(q)
        /\ \A k \in Axes : /\ p.first[k] = Low(a, k) /\ p.last[k] = High(a, k)
                           /\ q.first[k] = Low(c, k) /\ q.last[k] = High(c, k)
                           /\ Low(a, k) \in Int /\ High(a, k) \in Int /\ Low(a, k) < High(a, k)
                           /\ Low(c, k) \in Int /\ High(c, k) \in Int /\ Low(c, k) < High(c, k)
    BY <1>1, ExtentIsBox
  <1>3. ASSUME NEW k \in Axes
        PROVE  \E i, j \in Int :
                 /\ Low(a, k) <= i /\ i < High(a, k) /\ Low(c, k) <= j /\ j < High(c, k)
                 /\ Apart(i, j) = Between(p, q, k)
                 /\ AxisGap(p, q, k) < 0 => i = j
    <2>1. PICK a1 \in Int, a2 \in Int, b1 \in Int, b2 \in Int :
            /\ a1 = Low(a, k) /\ a2 = High(a, k) /\ b1 = Low(c, k) /\ b2 = High(c, k)
            /\ a1 < a2 /\ b1 < b2
      BY <1>2
    <2>2. /\ p.first[k] = a1 /\ p.last[k] = a2 /\ q.first[k] = b1 /\ q.last[k] = b2
      BY <1>2, <2>1
    <2>3. Between(p, q, k) = Beyond(a1, a2, b1, b2)
      BY <2>2 DEF Between
    <2>4. AxisGap(p, q, k) < 0 => b1 < a2 /\ a1 < b2
      <3>1. AxisGap(p, q, k) = Max({b1 - a2, a1 - b2})
        BY <2>2 DEF AxisGap
      <3>2. AxisGap(p, q, k) = (IF b1 - a2 > a1 - b2 THEN b1 - a2 ELSE a1 - b2)
        BY <3>1, OfTwo
      <3> QED
        BY <3>2
    <2>5. PICK i \in Int, j \in Int :
            /\ a1 <= i /\ i < a2 /\ b1 <= j /\ j < b2
            /\ Apart(i, j) = Beyond(a1, a2, b1, b2)
            /\ b1 < a2 /\ a1 < b2 => i = j
      BY <2>1, NearestSquaresAlong
    <2> QED
      BY <2>1, <2>3, <2>4, <2>5
  <1>4. 1 \in Axes /\ 2 \in Axes
    BY DEF Axes
  <1>5. PICK i1 \in Int, j1 \in Int :
          /\ Low(a, 1) <= i1 /\ i1 < High(a, 1) /\ Low(c, 1) <= j1 /\ j1 < High(c, 1)
          /\ Apart(i1, j1) = Between(p, q, 1)
          /\ AxisGap(p, q, 1) < 0 => i1 = j1
    BY <1>3, <1>4
  <1>6. PICK i2 \in Int, j2 \in Int :
          /\ Low(a, 2) <= i2 /\ i2 < High(a, 2) /\ Low(c, 2) <= j2 /\ j2 < High(c, 2)
          /\ Apart(i2, j2) = Between(p, q, 2)
          /\ AxisGap(p, q, 2) < 0 => i2 = j2
    BY <1>3, <1>4
  <1>7. PICK u, v : u = <<i1, i2>> /\ v = <<j1, j2>>
    OBVIOUS
  <1>8. /\ u \in Points /\ u[1] = i1 /\ u[2] = i2
        /\ v \in Points /\ v[1] = j1 /\ v[2] = j2
    BY <1>7 DEF Points
  <1>9. u \in a /\ v \in c
    BY <1>5, <1>6, <1>8 DEF Fills, Axes
  <1>10. Distance(u, v) = SquaredGap(p, q)
    <2>1. Distance(u, v) = Squared(Apart(u[1], v[1])) + Squared(Apart(u[2], v[2]))
      BY <1>8, DistanceIs
    <2>2. SquaredGap(p, q) = Squared(Between(p, q, 1)) + Squared(Between(p, q, 2))
      BY <1>2, GapsAre
    <2> QED
      BY <1>5, <1>6, <1>8, <2>1, <2>2
  <1>11. SquaredGap(p, q) \in Nat
    BY <1>2, GapsAre
  <1>12. (\A k \in Axes : AxisGap(p, q, k) < 0) => u = v
    BY <1>4, <1>5, <1>6, <1>7
  <1> QED
    BY <1>1, <1>8, <1>9, <1>10, <1>11, <1>12

(* The verdicts of a pair that are "invalid".                                  *)
LEMMA InvalidPair ==
  ASSUME NEW overlap, NEW gap, PairValidity(Pair(overlap, gap)) = "invalid"
  PROVE  overlap \in {"yes", "below"} \/ gap = "below"
  BY DEF PairValidity, Pair, Validity

(* Cuboids that are refused are too near.                                      *)
LEMMA CuboidsAreNear ==
  ASSUME NEW a, IsSolid(a), NEW c, IsSolid(c),
         NEW x \in Poses, NEW y \in Poses,
         NEW p, IsPlaced(p, a, x), NEW q, IsPlaced(q, c, y), Fills(a), Fills(c),
         NEW clearance \in Nat,
         PairValidity(classify_axis_cuboids(p, q, clearance)) = "invalid"
  PROVE  TooNear(a, c, clearance)
  <1>1. p.extent = Extent(a) /\ q.extent = Extent(c)
    BY DEF IsPlaced
  <1>2. PICK s, t : s = Extent(a) /\ t = Extent(c)
    OBVIOUS
  <1>3. PICK u \in a, v \in c :
          /\ u \in Points /\ v \in Points /\ SquaredGap(s, t) \in Nat
          /\ Distance(u, v) = SquaredGap(s, t)
          /\ (\A k \in Axes : AxisGap(s, t, k) < 0) => u = v
    BY <1>2, NearestSquares
  <1>4. CASE \A k \in Axes : AxisGap(s, t, k) < 0
    BY <1>3, <1>4 DEF TooNear
  <1>5. CASE ~(\A k \in Axes : AxisGap(s, t, k) < 0)
    <2> DEFINE gaps == [k \in Axes |-> AxisGap(s, t, k)]
               apart == \E k \in Axes : gaps[k] > 0
               far == IF clearance = 0 THEN (IF apart THEN "above" ELSE "equal")
                      ELSE IF ~apart THEN "below"
                      ELSE compare(SquaredGap(s, t), Squared(clearance))
    <2>1. classify_axis_cuboids(p, q, clearance) = Pair("no", far)
      <3>1. ~(\A k \in Axes : gaps[k] < 0)
        BY <1>5
      <3> QED
        BY <1>1, <1>2, <3>1 DEF classify_axis_cuboids
    <2>2. far = "below"
      <3> HIDE DEF far
      <3> QED
        BY <2>1, InvalidPair
    <2>3. clearance # 0 /\ (apart => SquaredGap(s, t) < Squared(clearance))
      BY <2>2 DEF compare
    <2>4. ~apart => SquaredGap(s, t) = 0
      <3> SUFFICES ASSUME ~apart
                   PROVE  SquaredGap(s, t) = 0
        OBVIOUS
      <3>1. \A k \in Axes : ~(AxisGap(s, t, k) > 0)
        OBVIOUS
      <3>2. IsBox(s) /\ IsBox(t)
        BY <1>2, ExtentIsBox
      <3>3. \A k \in Axes : Between(s, t, k) = 0
        BY <3>1, <3>2, GapsAre
      <3>4. SquaredGap(s, t) = Squared(Between(s, t, 1)) + Squared(Between(s, t, 2))
        BY <3>2, GapsAre
      <3>5. Squared(0) = 0 /\ 1 \in Axes /\ 2 \in Axes
        BY DEF Squared, Axes
      <3> QED
        BY <3>3, <3>4, <3>5
    <2>5. Squared(clearance) > 0
      <3>1. clearance * clearance >= clearance
        BY <2>3
      <3> QED
        BY <2>3, <3>1 DEF Squared
    <2>6. Distance(u, v) < Squared(clearance)
      <3> HIDE DEF apart
      <3> QED
        BY <1>3, <2>3, <2>4, <2>5
    <2> QED
      BY <1>3, <2>6 DEF TooNear
  <1> QED
    BY <1>4, <1>5

(* Away from the faces, all squares at a point are of the solid or none is.    *)
LEMMA SquaresAround ==
  ASSUME NEW solid, IsSolid(solid), NEW x \in Points,
         \A f \in Faces(solid) : ~OnFace(x, f),
         NEW u \in Points, Within(x, u)
  PROVE  (u \in solid) <=> (x \in solid)
  <1>1. PICK a \in Int, b \in Int : x = <<a, b>>
    BY DEF Points
  <1>2. PICK c \in Int, d \in Int : u = <<c, d>>
    BY DEF Points
  <1>3. c \in {a - 1, a} /\ d \in {b - 1, b}
    BY <1>1, <1>2 DEF Within, Axes
  <1>4. ASSUME NEW k \in Axes, NEW w \in Points,
               w = x \/ (w[k] = x[k] /\ w[3 - k] = x[3 - k] - 1)
        PROVE  (w \in solid) <=> (At(w, k, w[k] - 1) \in solid)
    <2>1. SUFFICES ASSUME w \in Walls(solid, k)
                   PROVE  FALSE
      BY WallsAre
    <2>2. PICK f \in Faces(solid) : IsFace(solid, k, f) /\ Covers(f, k, w)
      BY <2>1, WallHasFace
    <2>3. PICK j \in Axes : j = 3 - k /\ Axes = {j, k}
      BY DEF Axes
    <2>4. /\ f.first[k] = w[k] /\ f.last[k] = w[k] /\ f.first[j] <= w[j] /\ w[j] < f.last[j]
          /\ f.first \in Points /\ f.last \in Points
      BY <2>2, <2>3 DEF IsFace, Covers
    <2>5. /\ f.first[j] \in Int /\ f.last[j] \in Int /\ w[j] \in Int /\ w[k] \in Int
          /\ x[j] \in Int /\ x[k] \in Int
      BY <2>3, <2>4, Coordinates
    <2>6. w[k] = x[k] /\ (w[j] = x[j] \/ w[j] = x[j] - 1)
      BY <1>4, <2>3
    <2>7. OnFace(x, f)
      BY <2>3, <2>4, <2>5, <2>6 DEF OnFace
    <2> QED
      BY <2>2, <2>7
  <1>5. 1 \in Axes /\ 2 \in Axes /\ 3 - 1 = 2 /\ 3 - 2 = 1
    BY DEF Axes
  <1>6. (<<a, b>> \in solid) <=> (<<a - 1, b>> \in solid)
    <2>1. At(x, 1, x[1] - 1) = <<a - 1, b>>
      BY <1>1 DEF At
    <2> QED
      BY <1>1, <1>4, <1>5, <2>1
  <1>7. (<<a, b>> \in solid) <=> (<<a, b - 1>> \in solid)
    <2>1. At(x, 2, x[2] - 1) = <<a, b - 1>>
      BY <1>1 DEF At
    <2> QED
      BY <1>1, <1>4, <1>5, <2>1
  <1>8. (<<a, b - 1>> \in solid) <=> (<<a - 1, b - 1>> \in solid)
    <2>0. b - 1 \in Int
      OBVIOUS
    <2>1. PICK w \in Points : w = <<a, b - 1>>
      BY <2>0 DEF Points
    <2>2. At(w, 1, w[1] - 1) = <<a - 1, b - 1>> /\ w[1] = x[1] /\ w[3 - 1] = x[3 - 1] - 1
      BY <1>1, <2>1 DEF At
    <2> QED
      BY <1>4, <1>5, <2>1, <2>2
  <1> QED
    BY <1>1, <1>2, <1>3, <1>6, <1>7, <1>8

(* What is said of a point holds of all squares there.                         *)
LEMMA PointTells ==
  ASSUME NEW solid, IsSolid(solid), NEW pose \in Poses, NEW p, IsPlaced(p, solid, pose),
         NEW x \in Points, NEW u \in Points, Within(x, u)
  PROVE  /\ point_in_material(x, p) = "yes" => u \in solid
         /\ point_in_material(x, p) = "no" /\ ~p.cuboid => u \notin solid
  <1>1. CASE p.cuboid
    <2>1. certify_cuboid(solid) /\ p.extent = Extent(solid)
      BY <1>1 DEF IsPlaced
    <2>2. Fills(solid)
      BY <2>1, CuboidsFill
    <2>3. SUFFICES ASSUME point_in_material(x, p) = "yes"
                   PROVE  u \in solid
      BY <1>1
    <2>4. \A k \in Axes : p.extent.first[k] < x[k] /\ x[k] < p.extent.last[k]
      BY <1>1, <2>3 DEF point_in_material
    <2>5. \A k \in Axes : Low(solid, k) < x[k] /\ x[k] < High(solid, k)
      BY <2>1, <2>4, ExtentIsBox
    <2>6. \A k \in Axes : Low(solid, k) <= u[k] /\ u[k] < High(solid, k)
      <3> SUFFICES ASSUME NEW k \in Axes
                   PROVE  Low(solid, k) <= u[k] /\ u[k] < High(solid, k)
        OBVIOUS
      <3>1. PICK l \in Int, h \in Int, y \in Int, z \in Int :
              l = Low(solid, k) /\ h = High(solid, k) /\ y = x[k] /\ z = u[k]
        BY Coordinates, SolidBounds
      <3>2. l < y /\ y < h
        BY <2>5, <3>1
      <3>3. z <= y /\ y <= z + 1
        BY <3>1 DEF Within
      <3> QED
        BY <3>1, <3>2, <3>3
    <2> QED
      BY <2>2, <2>6 DEF Fills
  <1>2. CASE ~p.cuboid
    <2>1. SUFFICES ASSUME point_in_material(x, p) = "yes" \/ point_in_material(x, p) = "no"
                   PROVE  /\ point_in_material(x, p) = "yes" => u \in solid
                          /\ point_in_material(x, p) = "no" => u \notin solid
      BY <1>2
    <2>2. p.pose = pose /\ pose.exact
      BY <1>2, <2>1, PointAnswers DEF IsPlaced
    <2>3. PICK answer : answer = local_point_in_material(x, Faces(solid))
      OBVIOUS
    <2>4. point_in_material(x, p) = answer /\ answer # "indeterminate"
      <3>1. point_in_material(x, p) = local_point_in_material(x, Faces(solid))
        BY <1>2, <2>2, ExactPoint
      <3> QED
        BY <2>1, <2>3, <3>1
    <2>5. \A f \in Faces(solid) : ~OnFace(x, f)
      BY <2>3, <2>4 DEF local_point_in_material
    <2>6. PICK a \in Int, b \in Int : x = <<a, b>>
      BY DEF Points
    <2>7. PICK n : n = Cardinality(Crossings(x, Faces(solid)))
      OBVIOUS
    <2>8. (n % 2 = 0) <=> (x \notin solid)
      BY <2>6, <2>7, ParityIsMaterial
    <2>9. answer = IF n % 2 = 0 THEN "no" ELSE "yes"
      BY <2>3, <2>5, <2>7 DEF local_point_in_material
    <2>10. (u \in solid) <=> (x \in solid)
      BY <2>5, SquaresAround
    <2> QED
      BY <2>4, <2>8, <2>9, <2>10
  <1> QED
    BY <1>1, <1>2

(* A witness has squares of both sides.                                        *)
LEMMA WitnessHasSides ==
  ASSUME NEW solid, IsSolid(solid), NEW w \in shell_witnesses(Faces(solid))
  PROVE  /\ w \in Points
         /\ \E u \in solid : u \in Points /\ Within(w, u)
         /\ \E u \in Points \ solid : Within(w, u)
  <1>1. PICK f \in Faces(solid) : w = f.first /\ w \in Points
    BY WitnessesAre
  <1>2. \A k \in Axes : f.first[k] <= f.last[k] /\ f.first[k] \in Int
    BY FaceWithin
  <1>3. OnFace(w, f)
    BY <1>1, <1>2 DEF OnFace
  <1> QED
    BY <1>1, <1>3, FaceHasBothSides

(* A shell that is said to be inside the other solid is.                       *)
LEMMA WitnessInside ==
  ASSUME NEW a, IsSolid(a), NEW b, IsSolid(b), NEW x \in Poses, NEW y \in Poses,
         NEW p, IsPlaced(p, a, x), NEW q, IsPlaced(q, b, y),
         NEW w \in shell_witnesses(Faces(a)), classify_shell_witness(w, p, q) = "yes"
  PROVE  \E u \in a \cap b : u \in Points
  <1>1. PICK u \in a : u \in Points /\ Within(w, u) /\ w \in Points
    BY WitnessHasSides
  <1>2. CASE x.exact /\ y.exact
    <2>1. p.pose = x /\ q.pose = y /\ world_vertex(w, x) = w
      BY <1>1, <1>2, ExactPoints DEF IsPlaced
    <2>2. point_in_material(w, q) = "yes"
      BY <1>2, <2>1 DEF classify_shell_witness
    <2> QED
      BY <1>1, <2>2, PointTells
  <1>3. CASE ~(x.exact /\ y.exact)
    <2>1. ASSUME NEW k \in Axes
          PROVE  w[k] - 1 <= u[k] /\ u[k] <= w[k]
      <3>1. PICK i \in Int, j \in Int : i = w[k] /\ j = u[k] /\ j <= i /\ i <= j + 1
        BY <1>1, Coordinates DEF Within
      <3> QED
        BY <3>1
    <2> QED
      BY <1>1, <1>3, <2>1, WitnessAnswers
  <1> QED
    BY <1>2, <1>3

(* Solids with a square in common.                                             *)
LEMMA SharedIsNear ==
  ASSUME NEW a, IsSolid(a), NEW b, a \cap b # {}, NEW clearance
  PROVE  TooNear(a, b, clearance)
  <1>1. PICK u : u \in a /\ u \in b
    OBVIOUS
  <1>2. u \in Points
    BY <1>1 DEF IsSolid
  <1> QED
    BY <1>1, <1>2 DEF TooNear

(* Disjoint surfaces that are refused.                                         *)
LEMMA DisjointAreNear ==
  ASSUME NEW a, IsSolid(a), NEW c, IsSolid(c), NEW x \in Poses, NEW y \in Poses,
         NEW p, IsPlaced(p, a, x), NEW q, IsPlaced(q, c, y),
         NEW clearance \in Nat, PairValidity(classify_disjoint(p, q, clearance)) = "invalid"
  PROVE  TooNear(a, c, clearance)
  <1> DEFINE inside == ShellsInside(p, q)
             overlap == IF "yes" \in inside THEN "yes"
                        ELSE IF "indeterminate" \in inside THEN "indeterminate" ELSE "no"
             gap == IF overlap = "yes" THEN "below" ELSE exact_surface_gap(p, q, clearance)
  <1>1. classify_disjoint(p, q, clearance) = Pair(overlap, gap)
    BY DEF classify_disjoint
  <1>2. overlap \in {"yes", "below"} \/ gap = "below"
    <2> HIDE DEF overlap, gap
    <2> QED
      BY <1>1, InvalidPair
  <1>3. "yes" \in inside \/ exact_surface_gap(p, q, clearance) = "below"
    BY <1>2
  <1>4. ASSUME "yes" \in inside
        PROVE  a \cap c # {}
    <2>1. p.witnesses = shell_witnesses(Faces(a)) /\ q.witnesses = shell_witnesses(Faces(c))
      BY DEF IsPlaced
    <2>2. \/ \E w \in p.witnesses : classify_shell_witness(w, p, q) = "yes"
          \/ \E w \in q.witnesses : classify_shell_witness(w, q, p) = "yes"
      BY <1>4 DEF ShellsInside
    <2>3. CASE \E w \in p.witnesses : classify_shell_witness(w, p, q) = "yes"
      BY <2>1, <2>3, WitnessInside
    <2>4. CASE \E w \in q.witnesses : classify_shell_witness(w, q, p) = "yes"
      BY <2>1, <2>4, WitnessInside
    <2> QED
      BY <2>2, <2>3, <2>4
  <1> QED
    BY <1>3, <1>4, SharedIsNear, NearSurfaces

(* Faces that the bounds do not prove to be apart are not, in exact poses.     *)
LEMMA MeetingFaces ==
  ASSUME NEW a, IsSolid(a), NEW x \in Poses, NEW p, IsPlaced(p, a, x),
         NEW b, IsSolid(b), NEW y \in Poses, NEW q, IsPlaced(q, b, y)
  PROVE  /\ check_boundaries(p, q) = "transverse_crossing" =>
              \E f \in Faces(a), g \in Faces(b) : segment_triangle_crossing(f, g)
         /\ check_boundaries(p, q) = "contact" =>
              \E f \in Faces(a), g \in Faces(b) : ~bounds_disjoint(f, g)
  <1> DEFINE met == UNION {{<<i, j>> : j \in MayMeet(p, i, q)} : i \in DOMAIN p.mesh}
             crosses == \E m \in met : segment_triangle_crossing(triangle_points(p, m[1]),
                                                                 triangle_points(q, m[2]))
  <1>1. check_boundaries(p, q) =
          IF met = {} THEN "disjoint"
          ELSE IF ~p.pose.exact \/ ~q.pose.exact THEN "indeterminate"
          ELSE IF crosses THEN "transverse_crossing" ELSE "contact"
    BY DEF check_boundaries
  <1>2. ASSUME NEW m \in met
        PROVE  /\ m[1] \in DOMAIN p.mesh /\ m[2] \in DOMAIN q.mesh
               /\ ~bounds_disjoint(FaceBounds(p, m[1]), FaceBounds(q, m[2]))
    <2>1. PICK i \in DOMAIN p.mesh : m \in {<<i, j>> : j \in MayMeet(p, i, q)}
      BY <1>2
    <2>2. PICK j : j \in MayMeet(p, i, q) /\ m = <<i, j>>
      BY <2>1
    <2>3. j \in DOMAIN q.mesh /\ ~bounds_disjoint(FaceBounds(p, i), FaceBounds(q, j))
      BY <2>2, MayMeetIs
    <2> QED
      BY <2>2, <2>3
  <1>3. ASSUME check_boundaries(p, q) = "transverse_crossing"
        PROVE  \E f \in Faces(a), g \in Faces(b) : segment_triangle_crossing(f, g)
    <2>0. x.exact /\ y.exact
      <3>1. p.pose = x /\ q.pose = y
        BY DEF IsPlaced
      <3> HIDE DEF met, crosses
      <3> QED
        BY <1>1, <1>3, <3>1
    <2>1. PICK m \in met : segment_triangle_crossing(triangle_points(p, m[1]), triangle_points(q, m[2]))
      <3> HIDE DEF met
      <3> QED
        BY <1>1, <1>3
    <2>2. m[1] \in DOMAIN p.mesh /\ m[2] \in DOMAIN q.mesh
      BY <1>2
    <2>3. p.mesh[m[1]] \in Faces(a) /\ q.mesh[m[2]] \in Faces(b)
      BY <2>2, MeshHasFaces
    <2>4. /\ triangle_points(p, m[1]) = p.mesh[m[1]]
          /\ triangle_points(q, m[2]) = q.mesh[m[2]]
      BY <2>0, <2>2, ExactPoints
    <2> QED
      BY <2>1, <2>3, <2>4
  <1>4. ASSUME check_boundaries(p, q) = "contact"
        PROVE  \E f \in Faces(a), g \in Faces(b) : ~bounds_disjoint(f, g)
    <2>1. met # {} /\ p.pose.exact /\ q.pose.exact /\ p.pose = x /\ q.pose = y
      <3>1. p.pose = x /\ q.pose = y
        BY DEF IsPlaced
      <3> HIDE DEF met, crosses
      <3> QED
        BY <1>1, <1>4, <3>1
    <2>2. PICK i, j : /\ i \in DOMAIN p.mesh /\ j \in DOMAIN q.mesh
                      /\ ~bounds_disjoint(FaceBounds(p, i), FaceBounds(q, j))
      <3>1. PICK m : m \in met
        BY <2>1
      <3> QED
        BY <1>2, <3>1
    <2>3. FaceBounds(p, i).first = p.mesh[i].first /\ FaceBounds(p, i).last = p.mesh[i].last
      <3>1. p.pose.exact /\ i \in DOMAIN p.mesh
        BY <2>1, <2>2
      <3> QED
        BY <3>1, ExactBounds
    <2>4. FaceBounds(q, j).first = q.mesh[j].first /\ FaceBounds(q, j).last = q.mesh[j].last
      <3>1. q.pose.exact /\ j \in DOMAIN q.mesh
        BY <2>1, <2>2
      <3> QED
        BY <3>1, ExactBounds
    <2>5. ~bounds_disjoint(p.mesh[i], q.mesh[j])
      BY <2>2, <2>3, <2>4 DEF bounds_disjoint, AxisGap
    <2> QED
      BY <2>2, <2>5, MeshHasFaces
  <1> QED
    BY <1>3, <1>4

(* What the surfaces refuse.                                                   *)
LEMMA SurfacesAreNear ==
  ASSUME NEW a, IsSolid(a), IsManifold(a), NEW c, IsSolid(c), IsManifold(c),
         NEW x \in Poses, NEW y \in Poses, NEW p, IsPlaced(p, a, x), NEW q, IsPlaced(q, c, y),
         NEW clearance \in Nat, PairValidity(classify_boundaries(p, q, clearance)) = "invalid"
  PROVE  TooNear(a, c, clearance)
  <1>1. PICK relation : relation = check_boundaries(p, q)
    OBVIOUS
  <1>2. relation \in {"disjoint", "indeterminate", "transverse_crossing", "contact"}
    BY <1>1 DEF check_boundaries
  <1>3. CASE relation = "disjoint"
    <2>1. classify_boundaries(p, q, clearance) = classify_disjoint(p, q, clearance)
      BY <1>1, <1>3 DEF classify_boundaries
    <2> QED
      BY <2>1, DisjointAreNear
  <1>4. CASE relation = "indeterminate"
    <2>1. classify_boundaries(p, q, clearance) = Pair("indeterminate", "indeterminate")
      BY <1>1, <1>4 DEF classify_boundaries
    <2> QED
      BY <2>1, InvalidPair
  <1>5. CASE relation = "transverse_crossing"
    <2>1. PICK f \in Faces(a), g \in Faces(c) : segment_triangle_crossing(f, g)
      BY <1>1, <1>5, MeetingFaces
    <2>2. a \cap c # {}
      BY <2>1, CrossingShares
    <2> QED
      BY <2>2, SharedIsNear
  <1>6. CASE relation = "contact"
    <2>1. classify_boundaries(p, q, clearance) = Pair("indeterminate", OnContact(clearance))
      BY <1>1, <1>6 DEF classify_boundaries
    <2>2. OnContact(clearance) = "below"
      BY <2>1, InvalidPair
    <2>3. clearance \in Nat \ {0}
      BY <2>2 DEF OnContact
    <2>4. PICK f \in Faces(a), g \in Faces(c) : ~bounds_disjoint(f, g)
      BY <1>1, <1>6, MeetingFaces
    <2> QED
      BY <2>3, <2>4, MetAreNear
  <1> QED
    BY <1>2, <1>3, <1>4, <1>5, <1>6

(* What the classification of a pair refuses.                                  *)
LEMMA ClassifiedAreNear ==
  ASSUME NEW a, IsSolid(a), IsManifold(a), NEW c, IsSolid(c), IsManifold(c),
         NEW x \in Poses, NEW y \in Poses, NEW p, IsPlaced(p, a, x), NEW q, IsPlaced(q, c, y),
         NEW clearance \in Nat, PairValidity(classify_pair(p, q, clearance)) = "invalid"
  PROVE  TooNear(a, c, clearance)
  <1>1. p.solid = a /\ q.solid = c
    BY DEF IsPlaced
  <1>2. CASE a = c
    BY <1>2, SharedIsNear DEF IsSolid
  <1>3. CASE a # c /\ p.cuboid /\ q.cuboid
    <2>1. classify_pair(p, q, clearance) = classify_axis_cuboids(p, q, clearance)
      BY <1>1, <1>3 DEF classify_pair
    <2>2. certify_cuboid(a) /\ certify_cuboid(c)
      BY <1>3 DEF IsPlaced
    <2>3. Fills(a) /\ Fills(c)
      BY <2>2, CuboidsFill
    <2> QED
      BY <2>1, <2>2, <2>3, CuboidsAreNear
  <1>4. CASE a # c /\ ~(p.cuboid /\ q.cuboid)
    <2> DEFINE certificate == cardinal_bounds_clearance_certificate(p, q, 0)
    <2>1. classify_pair(p, q, clearance) =
            IF separated_by_bounds(p, q, clearance) THEN Pair("no", "above")
            ELSE IF clearance = 0 /\ certificate # {}
            THEN CHOOSE pair \in certificate : TRUE
            ELSE IF separated_by_bounds(p, q, 0) THEN Pair("no", exact_surface_gap(p, q, clearance))
            ELSE classify_boundaries(p, q, clearance)
      BY <1>1, <1>4 DEF classify_pair
    <2>2. certificate # {} => (CHOOSE pair \in certificate : TRUE) = Pair("no", "at_least")
      BY DEF cardinal_bounds_clearance_certificate
    <2>3. PairValidity(Pair("no", "above")) # "invalid"
      BY InvalidPair
    <2>4. PairValidity(Pair("no", "at_least")) # "invalid"
      BY InvalidPair
    <2>5. CASE classify_pair(p, q, clearance) = Pair("no", exact_surface_gap(p, q, clearance))
      <3>1. exact_surface_gap(p, q, clearance) = "below"
        BY <2>5, InvalidPair
      <3> QED
        BY <3>1, NearSurfaces
    <2>6. CASE classify_pair(p, q, clearance) = classify_boundaries(p, q, clearance)
      BY <2>6, SurfacesAreNear
    <2> HIDE DEF certificate
    <2> QED
      BY <2>1, <2>2, <2>3, <2>4, <2>5, <2>6
  <1> QED
    BY <1>2, <1>3, <1>4

(* Squares that are too near keep no clearance.                                *)
LEMMA NearIsNotApart ==
  ASSUME NEW a, NEW b, NEW clearance \in Nat, TooNear(a, b, clearance)
  PROVE  ~KeepsApart(a, b, clearance)
  <1>1. PICK u \in a, v \in b : /\ u \in Points /\ v \in Points
                                /\ u = v \/ Distance(u, v) < Squared(clearance)
    BY DEF TooNear
  <1>2. Distance(u, v) \in Nat /\ Squared(clearance) \in Int
    BY <1>1, DistanceIs DEF Squared
  <1>3. ~(u # v /\ Distance(u, v) >= Squared(clearance))
    BY <1>1, <1>2
  <1> QED
    BY <1>3 DEF KeepsApart

(* A pair that the kernel refuses shares a square or comes too near, whichever *)
(* way it was refused (classify_pair).                                         *)
THEOREM InvalidPairsAreNear ==
  ASSUME NEW a, IsSolid(a), IsManifold(a), NEW b, IsSolid(b), IsManifold(b),
         NEW x \in Poses, NEW y \in Poses, NEW clearance \in Nat,
         PairVerdict(a, x, b, y, clearance) = "invalid"
  PROVE  ~KeepsApart(a, b, clearance)
  <1>1. PICK p, q : p = place(a, x) /\ q = place(b, y)
    OBVIOUS
  <1>2. IsPlaced(p, a, x) /\ IsPlaced(q, b, y)
    BY <1>1, PlacedIs
  <1>3. PairValidity(classify_pair(p, q, clearance)) = "invalid"
    BY <1>1 DEF PairVerdict
  <1> QED
    BY <1>2, <1>3, ClassifiedAreNear, NearIsNotApart

(* The bounds of a solid are those of a square of it.                          *)
LEMMA BoundsAttained ==
  ASSUME NEW solid, IsSolid(solid), NEW k \in Axes
  PROVE  /\ \E u \in solid : u \in Points /\ u[k] = Low(solid, k)
         /\ \E u \in solid : u \in Points /\ u[k] + 1 = High(solid, k)
  <1> DEFINE T == {u[k] : u \in solid}
             f == [u \in solid |-> u[k]]
  <1>1. solid # {} /\ solid \subseteq Points /\ IsFiniteSet(solid)
    BY DEF IsSolid
  <1>2. \A u \in solid : u[k] \in Int
    BY <1>1, Coordinates
  <1>3. IsFiniteSet({f[u] : u \in solid})
    <2>1. f = [u \in solid |-> f[u]]
      OBVIOUS
    <2> HIDE DEF f
    <2> QED
      BY <1>1, <2>1, ImageIsFinite
  <1>4. T = {f[u] : u \in solid}
    OBVIOUS
  <1>5. T \in SUBSET Int /\ T # {} /\ IsFiniteSet(T)
    BY <1>1, <1>2, <1>3, <1>4
  <1>6. Min(T) \in T /\ Max(T) \in T
    <2> HIDE DEF T
    <2> QED
      BY <1>5, MinIsLeast, MaxIsGreatest
  <1>7. Low(solid, k) = Min(T) /\ High(solid, k) = Max(T) + 1
    BY DEF Low, High
  <1>8. PICK u \in solid : u[k] = Min(T)
    BY <1>6
  <1>9. PICK v \in solid : v[k] = Max(T)
    BY <1>6
  <1> QED
    BY <1>1, <1>7, <1>8, <1>9

(* A gap to a wall below the clearance: a square of the copy is as near to one *)
(* beyond the wall.                                                            *)
LEMMA GapIsNear ==
  ASSUME NEW solid, IsSolid(solid), NEW c, IsSolid(c), NEW k \in Axes, NEW clearance \in Nat,
         NEW gap, gap = WallGaps(Extent(solid), Extent(c))[k],
         gap < 0 \/ gap < clearance
  PROVE  TooNear(solid, Points \ c, clearance)
  <1>1. PICK l \in Int, h \in Int, m \in Int, n \in Int :
          /\ l = Low(solid, k) /\ h = High(solid, k) /\ m = Low(c, k) /\ n = High(c, k)
    BY SolidBounds
  <1>2. IsWindow(Extent(solid))
    <2>1. PICK pose \in Poses : TRUE
      BY IdentityIs
    <2> QED
      BY <2>1, BoundsHold
  <1>3. gap \in Int /\ (gap = l - m \/ gap = n - h)
    <2>1. /\ Extent(solid).first[k] = l /\ Extent(solid).last[k] = h
      BY <1>1, ExtentIsBox
    <2>2. /\ gap \in Int
          /\ \/ gap = Extent(solid).first[k] - m
             \/ gap = n - Extent(solid).last[k]
      BY <1>1, <1>2, WallGapIs
    <2> QED
      BY <2>1, <2>2
  <1>4. \A v \in c : v[k] \in Int /\ m <= v[k] /\ v[k] + 1 <= n
    BY <1>1, SolidBounds
  <1>5. ASSUME NEW u \in solid, u \in Points, NEW i \in Int, i < m \/ i >= n,
               gap < 0 => i = u[k], gap >= 0 => Apart(u[k], i) = gap
        PROVE  TooNear(solid, Points \ c, clearance)
    <2>1. PICK v : v = At(u, k, i)
      OBVIOUS
    <2>2. v \in Points /\ v[k] = i /\ v[3 - k] = u[3 - k]
      BY <1>5, <2>1, AtIs
    <2>3. v \notin c
      BY <1>1, <1>4, <1>5, <2>2
    <2>4. CASE gap < 0
      <3>1. v = u
        BY <1>5, <2>1, <2>4, AtSame
      <3> QED
        BY <1>5, <2>2, <2>3, <3>1 DEF TooNear
    <2>5. CASE gap >= 0
      <3>1. Distance(u, v) = Squared(Apart(u[k], v[k])) + Squared(Apart(u[3 - k], v[3 - k]))
        BY <1>5, <2>2, DistanceAlong
      <3>2. Apart(u[3 - k], v[3 - k]) = 0 /\ Squared(0) = 0
        <4>1. u[3 - k] \in Int
          BY <1>5, Coordinates
        <4> QED
          BY <2>2, <4>1 DEF Apart, Squared
      <3>3. gap \in Nat /\ gap < clearance
        BY <1>3, <2>5
      <3>4. Squared(gap) < Squared(clearance) /\ Squared(gap) \in Int
        <4>1. gap * gap <= gap * clearance /\ gap * clearance < clearance * clearance
          <5>1. (clearance - gap) * gap >= 0 /\ (clearance - gap) * clearance > 0
            BY <3>3
          <5>2. /\ (clearance - gap) * gap = gap * clearance - gap * gap
                /\ (clearance - gap) * clearance = clearance * clearance - gap * clearance
            BY <3>3
          <5>3. PICK r \in Int, s \in Int, t \in Int :
                  r = gap * gap /\ s = gap * clearance /\ t = clearance * clearance
            BY <3>3
          <5> QED
            BY <5>1, <5>2, <5>3
        <4>2. PICK r \in Int, s \in Int, t \in Int :
                r = gap * gap /\ s = gap * clearance /\ t = clearance * clearance
          BY <3>3
        <4> QED
          BY <4>1, <4>2 DEF Squared
      <3>5. Distance(u, v) < Squared(clearance)
        BY <1>5, <2>2, <2>5, <3>1, <3>2, <3>4
      <3> QED
        BY <1>5, <2>2, <2>3, <3>5 DEF TooNear
    <2> QED
      BY <1>3, <2>4, <2>5
  <1>6. CASE gap = l - m
    <2>1. PICK u \in solid : u \in Points /\ u[k] = l
      BY <1>1, BoundsAttained
    <2>2. CASE gap < 0
      BY <1>3, <1>5, <1>6, <2>1, <2>2
    <2>3. CASE gap >= 0
      <3>1. m - 1 \in Int /\ Apart(l, m - 1) = gap
        BY <1>3, <1>6, <2>3 DEF Apart
      <3> QED
        BY <1>3, <1>5, <2>1, <2>3, <3>1
    <2> QED
      BY <1>3, <2>2, <2>3
  <1>7. CASE gap = n - h
    <2>1. PICK u \in solid : u \in Points /\ u[k] = h - 1
      <3>1. PICK u \in solid : u \in Points /\ u[k] + 1 = h
        BY <1>1, BoundsAttained
      <3>2. u[k] \in Int
        BY <3>1, Coordinates
      <3> QED
        BY <3>1, <3>2
    <2>2. CASE gap < 0
      <3>1. PICK i \in Int : i = h - 1 /\ i >= n
        BY <1>3, <1>7, <2>2
      <3>2. u[k] = i /\ ~(gap >= 0)
        BY <1>3, <2>1, <2>2, <3>1
      <3> QED
        BY <1>5, <2>1, <3>1, <3>2
    <2>3. CASE gap >= 0
      <3>1. Apart(h - 1, n) = gap
        BY <1>3, <1>7, <2>3 DEF Apart
      <3>2. Apart(u[k], n) = gap /\ ~(gap < 0) /\ n >= n
        BY <1>3, <2>1, <2>3, <3>1
      <3> QED
        BY <1>5, <2>1, <3>2
    <2> QED
      BY <1>3, <2>2, <2>3
  <1> QED
    BY <1>3, <1>6, <1>7

(* The verdicts about a copy in the container that are "invalid".              *)
LEMMA InvalidInside ==
  ASSUME NEW empty, NEW gap, InsideValidity(Inside(empty, gap)) = "invalid"
  PROVE  empty \in {"no", "below"} \/ gap = "below"
  BY DEF InsideValidity, Inside, Validity

(* Gaps to the walls that are refused.                                         *)
LEMMA AxisIsNear ==
  ASSUME NEW solid, IsSolid(solid), NEW pose \in Poses, NEW p, IsPlaced(p, solid, pose),
         NEW c, IsSolid(c), NEW clearance \in Nat,
         InsideValidity(classify_axis_container(p, Extent(c), clearance)) = "invalid"
  PROVE  TooNear(solid, Points \ c, clearance)
  <1>1. p.extent = Extent(solid)
    BY DEF IsPlaced
  <1>2. PICK most : most = WallGaps(Extent(solid), Extent(c))
    OBVIOUS
  <1>3. SUFFICES \E k \in Axes : most[k] < 0 \/ most[k] < clearance
    BY <1>2, GapIsNear
  <1>4. classify_axis_container(p, Extent(c), clearance) =
          IF \E k \in Axes : most[k] < 0 THEN Inside("no", "below")
          ELSE Inside("yes", WallGap(most, clearance))
    BY <1>1, <1>2 DEF classify_axis_container
  <1>5. SUFFICES ASSUME ~(\E k \in Axes : most[k] < 0)
                 PROVE  \E k \in Axes : most[k] < clearance
    OBVIOUS
  <1>6. WallGap(most, clearance) = "below"
    BY <1>4, <1>5, InvalidInside
  <1> QED
    BY <1>6 DEF WallGap

(* What is said of the shells when the surfaces are disjoint.                  *)
LEMMA ShellsAreNear ==
  ASSUME NEW solid, IsSolid(solid), NEW pose \in Poses, NEW p, IsPlaced(p, solid, pose),
         NEW c, IsSolid(c), NEW y \in Poses, y.exact, NEW q, IsPlaced(q, c, y), ~q.cuboid,
         check_boundaries(p, q) = "disjoint", NEW clearance \in Nat,
         InsideValidity(classify_stl_disjoint(p, q, clearance)) = "invalid"
  PROVE  TooNear(solid, Points \ c, clearance)
  <1>1. /\ p.witnesses = shell_witnesses(Faces(solid)) /\ q.witnesses = shell_witnesses(Faces(c))
        /\ p.pose = pose /\ q.pose = y
    BY DEF IsPlaced
  <1>2. PICK gap : gap = exact_surface_gap(p, q, clearance)
    OBVIOUS
  <1>3. classify_stl_disjoint(p, q, clearance) =
          IF ObjectWitnesses(p, q) # {"yes"}
          THEN Inside(IF "no" \in ObjectWitnesses(p, q) THEN "no" ELSE "indeterminate",
                      "indeterminate")
          ELSE IF "yes" \in CavityWitnesses(p, q) THEN Inside("no", "indeterminate")
          ELSE IF "indeterminate" \in CavityWitnesses(p, q)
          THEN Inside("indeterminate", "indeterminate")
          ELSE Inside("yes", gap)
    BY <1>2 DEF classify_stl_disjoint
  <1>4. InsideValidity(Inside("indeterminate", "indeterminate")) # "invalid"
    BY InvalidInside
  <1>5. InsideValidity(Inside("yes", gap)) = "invalid" => gap = "below"
    BY InvalidInside
  <1>6. \/ "no" \in ObjectWitnesses(p, q)
        \/ "yes" \in CavityWitnesses(p, q)
        \/ gap = "below"
    BY <1>3, <1>4, <1>5
  <1>7. CASE "no" \in ObjectWitnesses(p, q)
    <2>1. PICK w \in shell_witnesses(Faces(solid)) :
            point_in_material(world_vertex(w, pose), q) = "no"
      BY <1>1, <1>7 DEF ObjectWitnesses
    <2>2. PICK u \in solid : u \in Points /\ Within(w, u) /\ w \in Points
      BY WitnessHasSides
    <2>3. PICK z : z = world_vertex(w, pose) /\ z \in Points /\ ((z \in c) <=> (w \in c))
      BY RoundedWitness
    <2>4. w \notin c
      BY <2>1, <2>3, PointAnswers
    <2>5. PICK f \in Faces(solid) : w = f.first
      BY WitnessesAre
    <2>6. ASSUME NEW g \in Faces(c), OnFace(w, g)
          PROVE  FALSE
      <3>1. IsBox(f) /\ IsBox(g)
        BY FaceIsBox
      <3>2. bounds_disjoint(f, g)
        BY DisjointFacesMiss DEF FacesMiss
      <3>3. OnFace(w, f)
        BY <2>5, <3>1 DEF OnFace, IsBox
      <3> QED
        BY <2>2, <2>6, <3>1, <3>2, <3>3, CommonPoint DEF OnFace
    <2>7. u \notin c
      BY <2>2, <2>4, <2>6, SquaresAround
    <2> QED
      BY <2>2, <2>7 DEF TooNear
  <1>8. CASE "yes" \in CavityWitnesses(p, q)
    <2>0. \A w \in shell_witnesses(Faces(c)) : world_vertex(w, y) = w
      BY WitnessesAre, ExactPoints
    <2>1. PICK w \in shell_witnesses(Faces(c)) : point_in_material(w, p) = "yes"
      BY <1>1, <1>8, <2>0 DEF CavityWitnesses
    <2>2. PICK u \in Points \ c : Within(w, u) /\ w \in Points
      BY WitnessHasSides
    <2>3. u \in solid
      BY <2>1, <2>2, PointTells
    <2> QED
      BY <2>2, <2>3 DEF TooNear
  <1>9. CASE gap = "below"
    BY <1>2, <1>9, NearSurfaces
  <1> QED
    BY <1>6, <1>7, <1>8, <1>9

(* What the surfaces of a copy and of an STL container refuse.                 *)
LEMMA StlIsNear ==
  ASSUME NEW solid, IsSolid(solid), IsManifold(solid), NEW pose \in Poses,
         NEW p, IsPlaced(p, solid, pose),
         NEW c, IsSolid(c), IsManifold(c), NEW y \in Poses, y.exact,
         NEW q, IsPlaced(q, c, y), NEW clearance \in Nat,
         InsideValidity(classify_stl(p, q, clearance)) = "invalid"
  PROVE  TooNear(solid, Points \ c, clearance)
  <1>1. CASE q.cuboid
    <2>1. q.extent = Extent(c)
      BY DEF IsPlaced
    <2>2. classify_stl(p, q, clearance) = classify_axis_container(p, Extent(c), clearance)
      BY <1>1, <2>1 DEF classify_stl
    <2> QED
      BY <2>2, AxisIsNear
  <1>2. CASE ~q.cuboid
    <2>1. PICK relation : relation = check_boundaries(p, q)
      OBVIOUS
    <2>2. relation \in {"disjoint", "indeterminate", "transverse_crossing", "contact"}
      BY <2>1 DEF check_boundaries
    <2>3. CASE relation = "disjoint"
      <3>1. classify_stl(p, q, clearance) = classify_stl_disjoint(p, q, clearance)
        BY <1>2, <2>1, <2>3 DEF classify_stl
      <3> QED
        BY <1>2, <2>1, <2>3, <3>1, ShellsAreNear
    <2>4. CASE relation = "indeterminate"
      <3>1. classify_stl(p, q, clearance) = Inside("indeterminate", "indeterminate")
        BY <1>2, <2>1, <2>4 DEF classify_stl
      <3> QED
        BY <3>1, InvalidInside
    <2>5. CASE relation = "transverse_crossing"
      <3>1. PICK f \in Faces(solid), g \in Faces(c) : segment_triangle_crossing(f, g)
        BY <2>1, <2>5, MeetingFaces
      <3>2. solid \cap (Points \ c) # {}
        BY <3>1, CrossingShares
      <3> QED
        BY <3>2, SharedIsNear
    <2>6. CASE relation = "contact"
      <3>1. classify_stl(p, q, clearance) = Inside("indeterminate", OnContact(clearance))
        BY <1>2, <2>1, <2>6 DEF classify_stl
      <3>2. OnContact(clearance) = "below"
        BY <3>1, InvalidInside
      <3>3. clearance \in Nat \ {0}
        BY <3>2 DEF OnContact
      <3>4. PICK f \in Faces(solid), g \in Faces(c) : ~bounds_disjoint(f, g)
        BY <2>1, <2>6, MeetingFaces
      <3> QED
        BY <3>3, <3>4, MetAreNear
    <2> QED
      BY <2>2, <2>3, <2>4, <2>5, <2>6
  <1> QED
    BY <1>1, <1>2

(* What is too near to what is outside does not keep its clearance to it.      *)
LEMMA NearIsNotInside ==
  ASSUME NEW s \in Scenes, NEW solid, TooNear(solid, Points \ s.container, s.wall)
  PROVE  ~KeepsInside(s, solid)
  <1>1. PICK wall \in Nat : wall = s.wall
    BY SceneIs
  <1>2. PICK u \in solid, v \in Points \ s.container :
          u \in Points /\ (u = v \/ Distance(u, v) < Squared(wall))
    BY <1>1 DEF TooNear
  <1>3. ASSUME NEW k \in Axes
        PROVE  u[k] \in Int /\ v[k] \in Int /\ u[k] - (wall + 1) <= v[k] /\ v[k] <= u[k] + (wall + 1)
    <2>1. PICK x \in Int, y \in Int : x = u[k] /\ y = v[k]
      BY <1>2, Coordinates
    <2>2. CASE u = v
      BY <2>1, <2>2
    <2>3. CASE Distance(u, v) < Squared(wall)
      <3>1. PICK n \in Nat, m \in Nat : n = Apart(u[k], v[k]) /\ m = Apart(u[3 - k], v[3 - k])
        BY <1>2, DistanceAlong
      <3>2. Distance(u, v) = Squared(n) + Squared(m)
        BY <1>2, <3>1, DistanceAlong
      <3>3. Squared(n) \in Nat /\ Squared(m) \in Nat /\ Squared(wall) \in Nat
        BY SquareOfOpposite
      <3>4. Squared(n) < Squared(wall)
        BY <2>3, <3>2, <3>3
      <3>5. n < wall
        BY <3>4, SquareLess
      <3>6. n = Apart(x, y)
        BY <2>1, <3>1
      <3>7. x - (wall + 1) <= y /\ y <= x + (wall + 1)
        BY <3>5, <3>6 DEF Apart
      <3> QED
        BY <2>1, <3>7
    <2> QED
      BY <1>2, <2>2, <2>3
  <1>4. v \in Near(u, wall + 1)
    <2>1. PICK x \in Int, y \in Int : v = <<x, y>>
      BY DEF Points
    <2>2. 1 \in Axes /\ 2 \in Axes
      BY DEF Axes
    <2>3. /\ u[1] \in Int /\ u[1] - (wall + 1) <= x /\ x <= u[1] + (wall + 1)
          /\ u[2] \in Int /\ u[2] - (wall + 1) <= y /\ y <= u[2] + (wall + 1)
      BY <1>3, <2>1, <2>2
    <2> QED
      BY <2>1, <2>3 DEF Near
  <1>5. TooNear({u}, Near(u, wall + 1) \ s.container, wall)
    BY <1>2, <1>4 DEF TooNear
  <1>6. ~KeepsApart({u}, Near(u, wall + 1) \ s.container, wall)
    BY <1>5, NearIsNotApart
  <1> QED
    BY <1>1, <1>6 DEF KeepsInside

(* A copy that the kernel refuses leaves the material of the container, covers *)
(* a cavity of it or comes too near to its walls (classify_box, classify_stl). *)
THEOREM InvalidCopiesAreOutside ==
  ASSUME NEW s \in Scenes, NEW solid, IsSolid(solid), IsManifold(solid), NEW pose \in Poses,
         ContainmentVerdict(s, place(solid, pose)) = "invalid"
  PROVE  ~KeepsInside(s, solid)
  <1>0. PICK y \in Poses : y = identity /\ y.exact
    BY IdentityIs
  <1>1. PICK p, q, c : p = place(solid, pose) /\ q = place(s.container, y) /\ c = s.container
    OBVIOUS
  <1>2. IsSolid(c) /\ IsManifold(c) /\ s.wall \in Nat
    BY <1>1, SceneAssumption
  <1>3. IsPlaced(p, solid, pose) /\ IsPlaced(q, c, y)
    BY <1>1, <1>2, PlacedIs
  <1>4. SUFFICES TooNear(solid, Points \ c, s.wall)
    BY <1>1, NearIsNotInside
  <1>5. CASE s.box
    <2>1. InsideValidity(classify_box(p, Extent(c), s.wall)) = "invalid"
      BY <1>1, <1>5 DEF ContainmentVerdict
    <2>2. InsideValidity(Inside("yes", "at_least")) # "invalid"
      BY InvalidInside
    <2>3. InsideValidity(classify_axis_container(p, Extent(c), s.wall)) = "invalid"
      BY <2>1, <2>2 DEF classify_box
    <2> QED
      BY <1>2, <1>3, <2>3, AxisIsNear
  <1>6. CASE ~s.box
    <2>1. InsideValidity(classify_stl(p, q, s.wall)) = "invalid"
      BY <1>0, <1>1, <1>6 DEF ContainmentVerdict
    <2> QED
      BY <1>0, <1>2, <1>3, <2>1, StlIsNear
  <1> QED
    BY <1>5, <1>6
-----------------------------------------------------------------------------
(* What the kernel refuses of a layout                                         *)

(* Every position of a layout is that of one of its copies.                    *)
LEMMA PositionsFilled ==
  ASSUME NEW s, NEW layout, IsLayout(s, layout), NEW i \in 1..Cardinality(layout)
  PROVE  \E p \in layout : Position(layout, p) = i
  <1>1. PICK size \in Nat : size = Cardinality(layout)
    BY PositionsAre
  <1>2. PICK at : at = [p \in layout |-> Position(layout, p)]
    OBVIOUS
  <1>3. at \in Injection(layout, 1..size)
    <2>1. \A p \in layout : Position(layout, p) \in 1..size
      BY <1>1, PositionsAre
    <2>2. at \in [layout -> 1..size]
      BY <1>2, <2>1
    <2>3. \A p, q \in layout : Position(layout, p) = Position(layout, q) => p = q
      BY PositionsAre
    <2>4. \A p, q \in layout : at[p] = at[q] => p = q
      BY <1>2, <2>3
    <2> QED
      BY <2>2, <2>4 DEF Injection, IsInjective
  <1>4. IsFiniteSet(1..size) /\ Cardinality(1..size) = size
    BY FS_Interval
  <1>5. IsFiniteSet(layout) /\ Cardinality(layout) = Cardinality(1..size)
    BY <1>1, <1>4 DEF IsLayout
  <1>6. at \in Surjection(layout, 1..size)
    BY <1>3, <1>4, <1>5, FS_Injection
  <1>7. PICK p \in layout : at[p] = i
    BY <1>1, <1>6 DEF Surjection
  <1> QED
    BY <1>2, <1>7

(* What is said of a layout that is not valid is said of one of its copies, or *)
(* of two of them.                                                             *)
LEMMA ReportIs ==
  ASSUME NEW s \in Scenes, NEW base, NEW layout, IsLayout(s, layout), NEW answer,
         answer # "valid", validate_report(s, base, layout) = answer
  PROVE  \/ \E p \in layout : ContainmentVerdict(s, place(Solid(s, p), s.pose[p.turn])) = answer
         \/ \E p, q \in layout :
              /\ q.id < p.id
              /\ PairVerdict(Solid(s, p), s.pose[p.turn], Solid(s, q), s.pose[q.turn], s.pair) = answer
  <1>1. PICK size \in Nat : size = Cardinality(layout)
    BY PositionsAre
  <1>2. PICK copies : copies = [i \in 1..size |-> CHOOSE p \in layout : Position(layout, p) = i]
    OBVIOUS
  <1>3. DOMAIN copies = 1..size
    BY <1>2
  <1>4. PICK solids, poses : /\ solids = [i \in 1..size |-> Solid(s, copies[i])]
                             /\ poses = [i \in 1..size |-> s.pose[copies[i].turn]]
    OBVIOUS
  <1>5. PICK open : open = {i \in 1..size : copies[i] \notin Proven(base, layout)}
    OBVIOUS
  <1>6. PICK verdicts, pairs :
          /\ verdicts = [m \in pairs |-> PairVerdict(solids[m[1]], poses[m[1]],
                                                     solids[m[2]], poses[m[2]], s.pair)]
          /\ pairs = {m \in (1..size) \X (1..size) : m[2] < m[1] /\ {m[1], m[2]} \cap open # {}}
    OBVIOUS
  <1>7. PICK inside :
          inside = [i \in open |-> ContainmentVerdict(s, place(solids[i], poses[i]))]
    OBVIOUS
  <1>8. Decided(verdicts, inside) = answer
    <2>1. DOMAIN solids = 1..size
      BY <1>4
    <2>2. validate_report(s, base, layout) = checks(s, solids, poses, open)
      <3>1. copies = [i \in 1..Cardinality(layout) |-> CHOOSE p \in layout : Position(layout, p) = i]
        BY <1>1, <1>2
      <3>2. /\ solids = [i \in DOMAIN copies |-> Solid(s, copies[i])]
            /\ poses = [i \in DOMAIN copies |-> s.pose[copies[i].turn]]
            /\ open = {i \in DOMAIN copies : copies[i] \notin Proven(base, layout)}
        BY <1>3, <1>4, <1>5
      <3> QED
        BY <3>1, <3>2 DEF validate_report
    <2>3. checks(s, solids, poses, open) = Decided(verdicts, inside)
      BY <1>6, <1>7, <2>1 DEF checks
    <2> QED
      BY <2>2, <2>3
  <1>9. /\ DOMAIN verdicts = pairs /\ DOMAIN verdicts \subseteq Nat \X Nat
        /\ DOMAIN inside = open /\ DOMAIN inside \subseteq Nat
    BY <1>5, <1>6, <1>7
  <1>10. IsFiniteSet(DOMAIN inside)
    <2>1. open \in SUBSET (1..size)
      BY <1>5
    <2>2. IsFiniteSet(1..size)
      BY FS_Interval
    <2> QED
      BY <1>9, <2>1, <2>2, FS_Subset
  <1>11. \/ \E m \in pairs : answer = verdicts[m]
         \/ \E i \in open : answer = inside[i]
    BY <1>8, <1>9, <1>10, OneDecides
  <1>12. ASSUME NEW i \in 1..size
         PROVE  copies[i] \in layout /\ Position(layout, copies[i]) = i
    <2>1. PICK p \in layout : Position(layout, p) = i
      BY <1>1, PositionsFilled
    <2>2. copies[i] = CHOOSE q \in layout : Position(layout, q) = i
      BY <1>2
    <2> QED
      BY <2>1, <2>2
  <1>13. ASSUME NEW m \in pairs, answer = verdicts[m]
         PROVE  \E p, q \in layout :
                  /\ q.id < p.id
                  /\ PairVerdict(Solid(s, p), s.pose[p.turn], Solid(s, q), s.pose[q.turn], s.pair) = answer
    <2>1. PICK i \in 1..size, j \in 1..size : m = <<i, j>> /\ j < i
      BY <1>6
    <2>2. PICK p \in layout, q \in layout :
            /\ p = copies[i] /\ q = copies[j]
            /\ Position(layout, p) = i /\ Position(layout, q) = j
      BY <1>12
    <2>3. PICK a \in Nat, b \in Nat : a = p.id /\ b = q.id
      BY DEF IsLayout
    <2>4. ~(a < b)
      BY <2>1, <2>2, <2>3, PositionsAre
    <2>5. a # b
      <3>1. p # q
        BY <2>1, <2>2
      <3> QED
        BY <2>3, <3>1 DEF IsLayout
    <2>6. q.id < p.id
      BY <2>3, <2>4, <2>5
    <2>7. answer = PairVerdict(solids[i], poses[i], solids[j], poses[j], s.pair)
      BY <1>6, <1>13, <2>1
    <2>8. /\ solids[i] = Solid(s, p) /\ solids[j] = Solid(s, q)
          /\ poses[i] = s.pose[p.turn] /\ poses[j] = s.pose[q.turn]
      BY <1>4, <2>2
    <2> QED
      BY <2>6, <2>7, <2>8
  <1>14. ASSUME NEW i \in open, answer = inside[i]
         PROVE  \E p \in layout : ContainmentVerdict(s, place(Solid(s, p), s.pose[p.turn])) = answer
    <2>1. i \in 1..size
      BY <1>5
    <2>2. answer = ContainmentVerdict(s, place(Solid(s, copies[i]), s.pose[copies[i].turn]))
      BY <1>4, <1>7, <1>14, <2>1
    <2> QED
      BY <1>12, <2>1, <2>2
  <1> QED
    BY <1>11, <1>13, <1>14

(* The solids of the copies of a layout are manifold, as the object is.        *)
LEMMA SolidsAreManifold ==
  ASSUME NEW s \in Scenes, NEW layout, IsLayout(s, layout), NEW p \in layout
  PROVE  IsManifold(Solid(s, p))
  <1>1. PICK object, at : object = s.object[p.turn] /\ at = p.at
    OBVIOUS
  <1>2. at \in Points /\ IsSolid(object) /\ IsManifold(object)
    BY <1>1, SceneAssumption DEF IsLayout
  <1>3. PICK x \in Int, y \in Int : at = <<x, y>>
    BY <1>2 DEF Points
  <1>4. Solid(s, p) = {<<u[1] + x, u[2] + y>> : u \in object}
    BY <1>1, <1>3 DEF Solid, Moved
  <1>5. ASSUME NEW i \in Int, NEW j \in Int
        PROVE  <<i, j>> \in Solid(s, p) <=> <<i - x, j - y>> \in object
    <2>1. ASSUME <<i, j>> \in Solid(s, p)
          PROVE  <<i - x, j - y>> \in object
      <3>1. PICK u \in object : <<i, j>> = <<u[1] + x, u[2] + y>>
        BY <1>4, <2>1
      <3>2. PICK k \in Int, l \in Int : u = <<k, l>>
        BY <1>2 DEF IsSolid, Points
      <3>3. i - x = k /\ j - y = l
        BY <3>1, <3>2
      <3> QED
        BY <3>2, <3>3
    <2>2. ASSUME <<i - x, j - y>> \in object
          PROVE  <<i, j>> \in Solid(s, p)
      <3>1. PICK u \in object : u = <<i - x, j - y>>
        BY <2>2
      <3>2. <<u[1] + x, u[2] + y>> = <<i, j>>
        BY <3>1
      <3> QED
        BY <1>4, <3>2
    <2> QED
      BY <2>1, <2>2
  <1>6. IsSolid(Solid(s, p))
    BY SolidsAre
  <1>7. ASSUME NEW u \in Solid(s, p), NEW v \in Near(u, 1) \cap Solid(s, p)
        PROVE  {<<u[1], v[2]>>, <<v[1], u[2]>>} \cap Solid(s, p) # {}
    <2>1. PICK i \in Int, j \in Int, k \in Int, l \in Int : u = <<i, j>> /\ v = <<k, l>>
      BY <1>6, <1>7 DEF IsSolid, Points
    <2>2. k \in (i - 1)..(i + 1) /\ l \in (j - 1)..(j + 1)
      BY <1>7, <2>1 DEF Near
    <2>3. PICK a \in object, b \in object : a = <<i - x, j - y>> /\ b = <<k - x, l - y>>
      BY <1>5, <1>7, <2>1
    <2>4. b \in Near(a, 1)
      <3>1. k - x \in ((i - x) - 1)..((i - x) + 1) /\ l - y \in ((j - y) - 1)..((j - y) + 1)
        BY <2>2
      <3> QED
        BY <2>3, <3>1 DEF Near
    <2>5. {<<i - x, l - y>>, <<k - x, j - y>>} \cap object # {}
      BY <1>2, <2>3, <2>4 DEF IsManifold
    <2>6. <<i, l>> \in Solid(s, p) \/ <<k, j>> \in Solid(s, p)
      BY <1>5, <2>5
    <2> QED
      BY <2>1, <2>6
  <1> QED
    BY <1>7 DEF IsManifold

(* A layout that is said to be invalid is not packed (validate_report).        *)
THEOREM InvalidLayoutsAreUnpacked ==
  ASSUME NEW s \in Scenes, NEW base, NEW layout, IsLayout(s, layout),
         validate_report(s, base, layout) = "invalid"
  PROVE  ~Packed(s, layout)
  <1>1. \A p \in layout : s.pose[p.turn] \in Poses
    BY SceneIs DEF IsLayout
  <1>2. s.pair \in Nat
    BY SceneIs
  <1>3. PICK answer : answer = "invalid" /\ answer # "valid"
    OBVIOUS
  <1>4. \/ \E p \in layout : ContainmentVerdict(s, place(Solid(s, p), s.pose[p.turn])) = answer
        \/ \E p, q \in layout :
             /\ q.id < p.id
             /\ PairVerdict(Solid(s, p), s.pose[p.turn], Solid(s, q), s.pose[q.turn], s.pair) = answer
    BY <1>3, ReportIs
  <1>5. ASSUME NEW p \in layout, ContainmentVerdict(s, place(Solid(s, p), s.pose[p.turn])) = answer
        PROVE  ~Packed(s, layout)
    <2>1. PICK solid : solid = Solid(s, p) /\ IsSolid(solid) /\ IsManifold(solid)
      BY SolidsAre, SolidsAreManifold
    <2>2. ~KeepsInside(s, solid)
      BY <1>1, <1>3, <1>5, <2>1, InvalidCopiesAreOutside
    <2> QED
      BY <2>1, <2>2 DEF Packed
  <1>6. ASSUME NEW p \in layout, NEW q \in layout, q.id < p.id,
               PairVerdict(Solid(s, p), s.pose[p.turn], Solid(s, q), s.pose[q.turn], s.pair) = answer
        PROVE  ~Packed(s, layout)
    <2>1. PICK a : a = Solid(s, p) /\ IsSolid(a) /\ IsManifold(a)
      BY SolidsAre, SolidsAreManifold
    <2>2. PICK b : b = Solid(s, q) /\ IsSolid(b) /\ IsManifold(b)
      BY SolidsAre, SolidsAreManifold
    <2>3. ~KeepsApart(a, b, s.pair)
      BY <1>1, <1>2, <1>3, <1>6, <2>1, <2>2, InvalidPairsAreNear
    <2>4. p.id # q.id
      <3>1. PICK i \in Nat, j \in Nat : i = p.id /\ j = q.id
        BY DEF IsLayout
      <3> QED
        BY <1>6, <3>1
    <2> QED
      BY <2>1, <2>2, <2>3, <2>4 DEF Packed
  <1> QED
    BY <1>4, <1>5, <1>6

-----------------------------------------------------------------------------
(* What is offered is accepted: a copy in cells that are free shares no point  *)
(* with another one, so that nothing about its surfaces is left in doubt.      *)

(* No square of the one has a point in common with one of the other.           *)
Loose(a, b) == \A u \in a, v \in b : v \notin Near(u, 1)

(* Squares with a point in common.                                             *)
LEMMA SharePoint ==
  ASSUME NEW u \in Points, NEW v \in Points, NEW x \in Points, Within(x, u), Within(x, v)
  PROVE  v \in Near(u, 1)
  <1>1. ASSUME NEW k \in Axes
        PROVE  v[k] \in (u[k] - 1)..(u[k] + 1)
    <2>1. PICK i \in Int, j \in Int, m \in Int : i = u[k] /\ j = v[k] /\ m = x[k]
      BY Coordinates
    <2>2. i <= m /\ m <= i + 1 /\ j <= m /\ m <= j + 1
      BY <2>1 DEF Within
    <2>3. j \in (i - 1)..(i + 1)
      BY <2>2
    <2> QED
      BY <2>1, <2>3
  <1>2. v[1] \in (u[1] - 1)..(u[1] + 1) /\ v[2] \in (u[2] - 1)..(u[2] + 1)
    BY <1>1 DEF Axes
  <1>3. v = <<v[1], v[2]>>
    BY DEF Points
  <1> QED
    BY <1>2, <1>3 DEF Near

(* So are they loose the other way round.                                      *)
LEMMA LooseBothWays ==
  ASSUME NEW a, IsSolid(a), NEW b, IsSolid(b), Loose(a, b)
  PROVE  Loose(b, a)
  <1>1. ASSUME NEW u \in b, NEW v \in a, v \in Near(u, 1)
        PROVE  FALSE
    <2>1. PICK i \in Int, j \in Int, k \in Int, l \in Int : u = <<i, j>> /\ v = <<k, l>>
      BY DEF IsSolid, Points
    <2>2. k \in (i - 1)..(i + 1) /\ l \in (j - 1)..(j + 1)
      BY <1>1, <2>1 DEF Near
    <2>3. i \in (k - 1)..(k + 1) /\ j \in (l - 1)..(l + 1)
      BY <2>2
    <2>4. u \in Near(v, 1)
      BY <2>1, <2>3 DEF Near
    <2> QED
      BY <2>4 DEF Loose
  <1> QED
    BY <1>1 DEF Loose

(* Their surfaces are apart.                                                   *)
LEMMA LooseFaces ==
  ASSUME NEW a, IsSolid(a), NEW c, IsSolid(c), NEW b \in {c, Points \ c}, Loose(a, b),
         NEW f \in Faces(a), NEW g \in Faces(c)
  PROVE  bounds_disjoint(f, g)
  <1>1. SUFFICES ASSUME ~bounds_disjoint(f, g)
                 PROVE  FALSE
    OBVIOUS
  <1>2. PICK x \in Points : OnFace(x, f) /\ OnFace(x, g)
    BY <1>1, MetFaces
  <1>3. PICK u \in a : u \in Points /\ Within(x, u)
    BY <1>2, FaceHasBothSides
  <1>4. PICK v \in b : v \in Points /\ Within(x, v)
    <2>1. /\ \E v \in c : v \in Points /\ Within(x, v)
          /\ \E v \in Points \ c : Within(x, v)
      BY <1>2, FaceHasBothSides
    <2> QED
      BY <2>1
  <1>5. v \in Near(u, 1)
    BY <1>2, <1>3, <1>4, SharePoint
  <1> QED
    BY <1>5 DEF Loose

(* They are not said to touch.                                                 *)
LEMMA LooseSurfaces ==
  ASSUME NEW a, IsSolid(a), NEW c, IsSolid(c), NEW b \in {c, Points \ c}, Loose(a, b),
         NEW x \in Poses, NEW y \in Poses, x.exact, y.exact,
         NEW p, IsPlaced(p, a, x), NEW q, IsPlaced(q, c, y)
  PROVE  check_boundaries(p, q) \in {"disjoint", "transverse_crossing"}
  <1>1. check_boundaries(p, q) # "contact"
    <2>1. SUFFICES ASSUME check_boundaries(p, q) = "contact"
                   PROVE  FALSE
      OBVIOUS
    <2>2. PICK f \in Faces(a), g \in Faces(c) : ~bounds_disjoint(f, g)
      BY <2>1, MeetingFaces
    <2> QED
      BY <2>2, LooseFaces
  <1>2. p.pose.exact /\ q.pose.exact
    BY DEF IsPlaced
  <1>3. check_boundaries(p, q) \in {"disjoint", "transverse_crossing", "contact"}
    BY <1>2 DEF check_boundaries
  <1> QED
    BY <1>1, <1>3

(* A point that nothing is said of lies on the boundary.                       *)
LEMMA PointInDoubt ==
  ASSUME NEW solid, IsSolid(solid), NEW pose \in Poses, pose.exact,
         NEW p, IsPlaced(p, solid, pose), NEW x \in Points,
         point_in_material(x, p) = "indeterminate"
  PROVE  /\ \E u \in solid : u \in Points /\ Within(x, u)
         /\ ~p.cuboid => \E u \in Points \ solid : Within(x, u)
  <1>1. CASE p.cuboid
    <2>1. certify_cuboid(solid) /\ p.extent = Extent(solid)
      BY <1>1 DEF IsPlaced
    <2>2. Fills(solid)
      BY <2>1, CuboidsFill
    <2>3. \A k \in Axes : ~(x[k] < p.extent.first[k] \/ x[k] > p.extent.last[k])
      BY <1>1 DEF point_in_material
    <2>4. ASSUME NEW k \in Axes
          PROVE  \E i \in Int : Low(solid, k) <= i /\ i < High(solid, k) /\ i <= x[k] /\ x[k] <= i + 1
      <3>1. PICK l \in Int, h \in Int, y \in Int :
              l = Low(solid, k) /\ h = High(solid, k) /\ y = x[k] /\ l < h
        BY ExtentIsBox, Coordinates
      <3>2. l <= y /\ y <= h
        BY <2>1, <2>3, <3>1, ExtentIsBox
      <3>3. \E i \in {y, y - 1} : l <= i /\ i < h
        BY <3>1, <3>2
      <3> QED
        BY <3>1, <3>3
    <2>5. PICK i \in Int : /\ Low(solid, 1) <= i /\ i < High(solid, 1)
                           /\ i <= x[1] /\ x[1] <= i + 1
      BY <2>4 DEF Axes
    <2>6. PICK j \in Int : /\ Low(solid, 2) <= j /\ j < High(solid, 2)
                           /\ j <= x[2] /\ x[2] <= j + 1
      BY <2>4 DEF Axes
    <2>7. PICK u : u = <<i, j>>
      OBVIOUS
    <2>8. u \in Points /\ u[1] = i /\ u[2] = j
      BY <2>7 DEF Points
    <2>9. \A k \in Axes : Low(solid, k) <= u[k] /\ u[k] < High(solid, k)
      BY <2>5, <2>6, <2>8 DEF Axes
    <2>10. u \in solid
      BY <2>2, <2>8, <2>9 DEF Fills
    <2>11. Within(x, u)
      BY <2>5, <2>6, <2>8 DEF Within, Axes
    <2> QED
      BY <1>1, <2>8, <2>10, <2>11
  <1>2. CASE ~p.cuboid
    <2>2. local_point_in_material(x, Faces(solid)) = "indeterminate"
      BY <1>2, ExactPoint
    <2>3. PICK f \in Faces(solid) : OnFace(x, f)
      BY <2>2 DEF local_point_in_material
    <2> QED
      BY <2>3, FaceHasBothSides
  <1> QED
    BY <1>1, <1>2

(* What is decided about a pair.                                               *)
LEMMA DecidedPair ==
  ASSUME NEW overlap, NEW gap,
         \/ overlap = "yes"
         \/ overlap # "indeterminate" /\ gap # "indeterminate"
  PROVE  PairValidity(Pair(overlap, gap)) \in {"valid", "invalid"}
  BY DEF PairValidity, Pair, Validity

(* Exact surfaces leave no doubt about their distance.                         *)
LEMMA GapDecided ==
  ASSUME NEW p, NEW q, p.pose.cardinal, q.pose.cardinal, NEW clearance
  PROVE  exact_surface_gap(p, q, clearance) # "indeterminate"
  BY DEF exact_surface_gap

(* A witness of a loose solid is not on the surface of the other one.          *)
LEMMA LooseWitness ==
  ASSUME NEW a, IsSolid(a), NEW b, IsSolid(b), Loose(a, b),
         NEW y \in Poses, y.exact, NEW q, IsPlaced(q, b, y),
         NEW w \in shell_witnesses(Faces(a))
  PROVE  point_in_material(w, q) # "indeterminate"
  <1>1. SUFFICES ASSUME point_in_material(w, q) = "indeterminate"
                 PROVE  FALSE
    OBVIOUS
  <1>2. w \in Points /\ \E u \in a : u \in Points /\ Within(w, u)
    BY WitnessHasSides
  <1>3. PICK u \in a : u \in Points /\ Within(w, u)
    BY <1>2
  <1>4. PICK v \in b : v \in Points /\ Within(w, v)
    BY <1>1, <1>2, PointInDoubt
  <1>5. v \in Near(u, 1)
    BY <1>2, <1>3, <1>4, SharePoint
  <1> QED
    BY <1>5 DEF Loose

(* Where surfaces are disjoint, the shells of loose solids decide.             *)
LEMMA ShellsDecide ==
  ASSUME NEW a, IsSolid(a), NEW b, IsSolid(b), Loose(a, b),
         NEW x \in Poses, NEW y \in Poses, x.exact, y.exact,
         NEW p, IsPlaced(p, a, x), NEW q, IsPlaced(q, b, y), NEW clearance
  PROVE  PairValidity(classify_disjoint(p, q, clearance)) \in {"valid", "invalid"}
  <1> DEFINE inside == ShellsInside(p, q)
             overlap == IF "yes" \in inside THEN "yes"
                        ELSE IF "indeterminate" \in inside THEN "indeterminate" ELSE "no"
             gap == IF overlap = "yes" THEN "below" ELSE exact_surface_gap(p, q, clearance)
  <1>1. classify_disjoint(p, q, clearance) = Pair(overlap, gap)
    BY DEF classify_disjoint
  <1>2. /\ p.pose = x /\ p.witnesses = shell_witnesses(Faces(a))
        /\ q.pose = y /\ q.witnesses = shell_witnesses(Faces(b))
        /\ x.cardinal /\ y.cardinal
    BY PoseIs DEF IsPlaced
  <1>3. ASSUME NEW w \in p.witnesses
        PROVE  classify_shell_witness(w, p, q) # "indeterminate"
    <2>0. world_vertex(w, x) = w
      BY <1>2, WitnessesAre, ExactPoints
    <2>1. classify_shell_witness(w, p, q) = point_in_material(w, q)
      BY <1>2, <2>0 DEF classify_shell_witness
    <2> QED
      BY <1>2, <2>1, LooseWitness
  <1>4. ASSUME NEW w \in q.witnesses
        PROVE  classify_shell_witness(w, q, p) # "indeterminate"
    <2>0. world_vertex(w, y) = w
      BY <1>2, WitnessesAre, ExactPoints
    <2>1. classify_shell_witness(w, q, p) = point_in_material(w, p)
      BY <1>2, <2>0 DEF classify_shell_witness
    <2>2. Loose(b, a)
      BY LooseBothWays
    <2> QED
      BY <1>2, <2>1, <2>2, LooseWitness
  <1>5. "indeterminate" \notin inside
    BY <1>3, <1>4 DEF ShellsInside
  <1>6. overlap # "indeterminate"
    BY <1>5
  <1>7. gap # "indeterminate"
    BY <1>2, GapDecided
  <1> HIDE DEF overlap, gap
  <1> QED
    BY <1>1, <1>6, <1>7, DecidedPair

(* Nothing is left in doubt about a pair of loose solids in exact poses.       *)
LEMMA PairDecided ==
  ASSUME NEW a, IsSolid(a), NEW b, IsSolid(b), Loose(a, b), NEW clearance \in Nat,
         NEW x \in Poses, NEW y \in Poses, x.exact, y.exact
  PROVE  PairVerdict(a, x, b, y, clearance) \in {"valid", "invalid"}
  <1>1. PICK p, q : p = place(a, x) /\ q = place(b, y)
    OBVIOUS
  <1>2. IsPlaced(p, a, x) /\ IsPlaced(q, b, y)
    BY <1>1, PlacedIs
  <1>3. /\ p.solid = a /\ q.solid = b /\ p.pose = x /\ q.pose = y
        /\ p.pose.cardinal /\ q.pose.cardinal
    BY <1>2, PoseIs DEF IsPlaced
  <1>4. SUFFICES PairValidity(classify_pair(p, q, clearance)) \in {"valid", "invalid"}
    BY <1>1 DEF PairVerdict
  <1>5. CASE a = b /\ x = y
    <2>1. classify_pair(p, q, clearance) = Pair("yes", OnContact(clearance))
      BY <1>3, <1>5 DEF classify_pair
    <2> QED
      BY <2>1, DecidedPair
  <1>6. CASE ~(a = b /\ x = y) /\ p.cuboid /\ q.cuboid
    <2>1. classify_pair(p, q, clearance) = classify_axis_cuboids(p, q, clearance)
      BY <1>3, <1>6 DEF classify_pair
    <2>2. \/ classify_axis_cuboids(p, q, clearance) = Pair("yes", "below")
          \/ \E gap \in {"above", "equal", "below"} :
               classify_axis_cuboids(p, q, clearance) = Pair("no", gap)
      BY DEF classify_axis_cuboids, compare
    <2> QED
      BY <2>1, <2>2, DecidedPair
  <1>7. CASE ~(a = b /\ x = y) /\ ~(p.cuboid /\ q.cuboid) /\ separated_by_bounds(p, q, clearance)
    <2>1. classify_pair(p, q, clearance) = Pair("no", "above")
      BY <1>3, <1>7 DEF classify_pair
    <2> QED
      BY <2>1, DecidedPair
  <1>8. CASE /\ ~(a = b /\ x = y) /\ ~(p.cuboid /\ q.cuboid) /\ ~separated_by_bounds(p, q, clearance)
             /\ clearance = 0 /\ cardinal_bounds_clearance_certificate(p, q, 0) # {}
    <2>1. cardinal_bounds_clearance_certificate(p, q, 0) = {Pair("no", "at_least")}
      BY <1>8 DEF cardinal_bounds_clearance_certificate
    <2>2. (CHOOSE pair \in cardinal_bounds_clearance_certificate(p, q, 0) : TRUE)
             = Pair("no", "at_least")
      BY <2>1
    <2>3. classify_pair(p, q, clearance) = Pair("no", "at_least")
      BY <1>3, <1>8, <2>2 DEF classify_pair
    <2> QED
      BY <2>3, DecidedPair
  <1>9. CASE /\ ~(a = b /\ x = y) /\ ~(p.cuboid /\ q.cuboid) /\ ~separated_by_bounds(p, q, clearance)
             /\ ~(clearance = 0 /\ cardinal_bounds_clearance_certificate(p, q, 0) # {})
             /\ separated_by_bounds(p, q, 0)
    <2>1. PICK gap : gap = exact_surface_gap(p, q, clearance) /\ gap # "indeterminate"
      BY <1>3, GapDecided
    <2>2. classify_pair(p, q, clearance) = Pair("no", gap)
      BY <1>3, <1>9, <2>1 DEF classify_pair
    <2> QED
      BY <2>1, <2>2, DecidedPair
  <1>10. CASE /\ ~(a = b /\ x = y) /\ ~(p.cuboid /\ q.cuboid) /\ ~separated_by_bounds(p, q, clearance)
              /\ ~(clearance = 0 /\ cardinal_bounds_clearance_certificate(p, q, 0) # {})
              /\ ~separated_by_bounds(p, q, 0)
    <2>1. classify_pair(p, q, clearance) = classify_boundaries(p, q, clearance)
      BY <1>3, <1>10 DEF classify_pair
    <2>2. check_boundaries(p, q) \in {"disjoint", "transverse_crossing"}
      BY <1>2, LooseSurfaces
    <2>3. CASE check_boundaries(p, q) = "disjoint"
      <3>1. classify_boundaries(p, q, clearance) = classify_disjoint(p, q, clearance)
        BY <2>3 DEF classify_boundaries
      <3> QED
        BY <1>2, <2>1, <3>1, ShellsDecide
    <2>4. CASE check_boundaries(p, q) = "transverse_crossing"
      <3>1. classify_boundaries(p, q, clearance) = Pair("yes", "below")
        BY <2>4 DEF classify_boundaries
      <3> QED
        BY <2>1, <3>1, DecidedPair
    <2> QED
      BY <2>2, <2>3, <2>4
  <1> QED
    BY <1>5, <1>6, <1>7, <1>8, <1>9, <1>10

(* What is decided about a copy in the container.                              *)
LEMMA DecidedInside ==
  ASSUME NEW empty, NEW gap,
         \/ empty = "no"
         \/ empty # "indeterminate" /\ gap # "indeterminate"
  PROVE  InsideValidity(Inside(empty, gap)) \in {"valid", "invalid"}
  BY DEF InsideValidity, Inside, Validity

(* The walls of a box decide about an exact pose.                              *)
LEMMA WallsDecide ==
  ASSUME NEW p, NEW walls, NEW clearance
  PROVE  InsideValidity(classify_axis_container(p, walls, clearance)) \in {"valid", "invalid"}
  <1>1. PICK gaps : gaps = WallGaps(p.extent, walls)
    OBVIOUS
  <1>3. \/ classify_axis_container(p, walls, clearance) = Inside("no", "below")
        \/ classify_axis_container(p, walls, clearance) = Inside("yes", WallGap(gaps, clearance))
    BY <1>1 DEF classify_axis_container
  <1>4. WallGap(gaps, clearance) # "indeterminate"
    BY DEF WallGap
  <1> QED
    BY <1>3, <1>4, DecidedInside

(* So do the surfaces of a container that a copy shares no point with the      *)
(* outside of.                                                                 *)
LEMMA StlDecides ==
  ASSUME NEW solid, IsSolid(solid), NEW c, IsSolid(c), Loose(solid, Points \ c),
         NEW pose \in Poses, NEW y \in Poses, pose.exact, y.exact,
         NEW p, IsPlaced(p, solid, pose), NEW q, IsPlaced(q, c, y), ~q.cuboid,
         NEW clearance
  PROVE  InsideValidity(classify_stl_disjoint(p, q, clearance)) \in {"valid", "invalid"}
  <1>1. /\ p.pose = pose /\ p.witnesses = shell_witnesses(Faces(solid))
        /\ q.pose = y /\ q.witnesses = shell_witnesses(Faces(c))
        /\ \A w \in Points : world_vertex(w, pose) = w /\ world_vertex(w, y) = w
    BY ExactPoints DEF IsPlaced
  <1>2. PICK gap : gap = exact_surface_gap(p, q, clearance) /\ gap # "indeterminate"
    <2>1. p.pose.cardinal /\ q.pose.cardinal
      BY <1>1, PoseIs
    <2>2. exact_surface_gap(p, q, clearance) # "indeterminate"
      BY <2>1, GapDecided
    <2> QED
      BY <2>2
  <1>3. ASSUME NEW w \in p.witnesses
        PROVE  point_in_material(w, q) \in {"yes", "no"}
    <2>1. w \in Points /\ \E u \in solid : u \in Points /\ Within(w, u)
      BY <1>1, WitnessHasSides
    <2>2. PICK u \in solid : u \in Points /\ Within(w, u)
      BY <2>1
    <2>3. ASSUME point_in_material(w, q) = "indeterminate"
          PROVE  FALSE
      <3>1. PICK v \in Points \ c : Within(w, v)
        BY <2>1, <2>3, PointInDoubt
      <3>2. v \in Near(u, 1)
        BY <2>1, <2>2, <3>1, SharePoint
      <3> QED
        BY <3>1, <3>2 DEF Loose
    <2>4. point_in_material(w, q) \in {"yes", "no", "indeterminate"}
      BY <2>1, AnswersAre
    <2> QED
      BY <2>3, <2>4
  <1>4. ASSUME NEW w \in q.witnesses, point_in_material(w, p) = "indeterminate"
        PROVE  FALSE
    <2>1. w \in Points /\ \E v \in Points \ c : Within(w, v)
      BY <1>1, WitnessHasSides
    <2>2. PICK v \in Points \ c : Within(w, v)
      BY <2>1
    <2>3. PICK u \in solid : u \in Points /\ Within(w, u)
      BY <1>4, <2>1, PointInDoubt
    <2>4. v \in Near(u, 1)
      BY <2>1, <2>2, <2>3, SharePoint
    <2> QED
      BY <2>2, <2>4 DEF Loose
  <1>5. "indeterminate" \notin CavityWitnesses(p, q)
    BY <1>1, <1>4, WitnessesAre DEF CavityWitnesses
  <1>6. ObjectWitnesses(p, q) # {"yes"} => "no" \in ObjectWitnesses(p, q)
    <2>1. ObjectWitnesses(p, q) \subseteq {"yes", "no"}
      BY <1>1, <1>3, WitnessesAre DEF ObjectWitnesses
    <2>2. p.witnesses # {}
      BY <1>1, WitnessesAre
    <2>3. ObjectWitnesses(p, q) # {}
      BY <2>2 DEF ObjectWitnesses
    <2> QED
      BY <2>1, <2>3
  <1>7. \/ classify_stl_disjoint(p, q, clearance) = Inside("no", "indeterminate")
        \/ classify_stl_disjoint(p, q, clearance) = Inside("yes", gap)
    BY <1>2, <1>5, <1>6 DEF classify_stl_disjoint
  <1> QED
    BY <1>2, <1>7, DecidedInside

(* Nothing is left in doubt about an exact pose in a box, or away from the     *)
(* walls of a container.                                                       *)
LEMMA InsideDecided ==
  ASSUME NEW s \in Scenes, NEW solid, IsSolid(solid),
         ~s.box => Loose(solid, Points \ s.container), NEW pose \in Poses, pose.exact
  PROVE  ContainmentVerdict(s, place(solid, pose)) \in {"valid", "invalid"}
  <1>0. PICK y \in Poses : y = identity /\ y.exact
    BY IdentityIs
  <1>1. PICK p, q, c : p = place(solid, pose) /\ q = place(s.container, y) /\ c = s.container
    OBVIOUS
  <1>2. IsSolid(c) /\ s.box \in BOOLEAN
    BY <1>1, SceneAssumption
  <1>3. IsPlaced(p, solid, pose) /\ IsPlaced(q, c, y)
    BY <1>1, <1>2, PlacedIs
  <1>4. p.pose.cardinal
    BY <1>3, PoseIs DEF IsPlaced
  <1>5. CASE s.box
    <2>1. ContainmentVerdict(s, p) = InsideValidity(classify_box(p, Extent(c), s.wall))
      BY <1>1, <1>5 DEF ContainmentVerdict
    <2>2. classify_box(p, Extent(c), s.wall) = classify_axis_container(p, Extent(c), s.wall)
      BY <1>4 DEF classify_box, bounds_box_certificate
    <2> QED
      BY <1>1, <1>4, <2>1, <2>2, WallsDecide
  <1>6. CASE ~s.box
    <2>1. ContainmentVerdict(s, p) = InsideValidity(classify_stl(p, q, s.wall))
      BY <1>0, <1>1, <1>6 DEF ContainmentVerdict
    <2>2. CASE q.cuboid
      <3>1. classify_stl(p, q, s.wall) = classify_axis_container(p, q.extent, s.wall)
        BY <2>2 DEF classify_stl
      <3> QED
        BY <1>1, <1>4, <2>1, <3>1, WallsDecide
    <2>3. CASE ~q.cuboid
      <3>1. PICK outside : outside = Points \ c /\ Loose(solid, outside)
        BY <1>1, <1>6
      <3>2. check_boundaries(p, q) \in {"disjoint", "transverse_crossing"}
        BY <1>0, <1>2, <1>3, <3>1, LooseSurfaces
      <3>3. CASE check_boundaries(p, q) = "disjoint"
        <4>1. classify_stl(p, q, s.wall) = classify_stl_disjoint(p, q, s.wall)
          BY <2>3, <3>3 DEF classify_stl
        <4>2. Loose(solid, Points \ c)
          BY <3>1
        <4>3. InsideValidity(classify_stl_disjoint(p, q, s.wall)) \in {"valid", "invalid"}
          BY <1>0, <1>2, <1>3, <2>3, <4>2, StlDecides
        <4> QED
          BY <1>1, <2>1, <4>1, <4>3
      <3>4. CASE check_boundaries(p, q) = "transverse_crossing"
        <4>1. classify_stl(p, q, s.wall) = Inside("no", "below")
          BY <2>3, <3>4 DEF classify_stl
        <4> QED
          BY <1>1, <2>1, <4>1, DecidedInside
      <3> QED
        BY <3>2, <3>3, <3>4
    <2> QED
      BY <2>2, <2>3
  <1> QED
    BY <1>2, <1>5, <1>6

(* The squares beside one that a cell holds meet that cell.                    *)
LEMMA BesideMeets ==
  ASSUME NEW p \in Nat \ {0}, NEW c \in Points, NEW u \in Points, Holds(c, u, p),
         NEW v \in Points, v \in Near(u, 1)
  PROVE  Meets(v, c, p)
  <1>1. PICK x \in Int, y \in Int, i \in Int, j \in Int : u = <<x, y>> /\ v = <<i, j>>
    BY DEF Points
  <1>2. i \in (x - 1)..(x + 1) /\ j \in (y - 1)..(y + 1)
    BY <1>1 DEF Near
  <1>3. \A k \in Axes : /\ u[k] \in Int /\ v[k] \in Int
                        /\ u[k] - 1 <= v[k] /\ v[k] <= u[k] + 1
    BY <1>1, <1>2 DEF Axes
  <1>4. ASSUME NEW k \in Axes
        PROVE  c[k] * p <= v[k] + 1 /\ v[k] <= (c[k] + 1) * p
    <2>1. PICK m \in Int, a \in Int, b \in Int : m = c[k] /\ a = u[k] /\ b = v[k]
      BY <1>3, Coordinates
    <2>2. m * p <= a /\ a + 1 <= (m + 1) * p
      BY <2>1 DEF Holds
    <2>3. m * p \in Int /\ (m + 1) * p \in Int
      BY Multiples
    <2>4. a - 1 <= b /\ b <= a + 1
      BY <1>3, <2>1
    <2>5. m * p <= b + 1 /\ b <= (m + 1) * p
      BY <2>2, <2>3, <2>4
    <2> QED
      BY <2>1, <2>5
  <1> QED
    BY <1>4 DEF Meets

(* Every check accepts.                                                        *)
Accepted(s, layout) ==
  /\ \A p \in layout : ContainmentVerdict(s, place(Solid(s, p), s.pose[p.turn])) = "valid"
  /\ \A p, q \in layout :
       q.id < p.id =>
         PairVerdict(Solid(s, p), s.pose[p.turn], Solid(s, q), s.pose[q.turn], s.pair) = "valid"

(* A layout that every check accepts is valid.                                 *)
LEMMA AcceptedIsValid ==
  ASSUME NEW s \in Scenes, NEW base, NEW layout, IsLayout(s, layout), Accepted(s, layout)
  PROVE  validate_report(s, base, layout) = "valid"
  <1>1. PICK answer : answer = validate_report(s, base, layout)
    OBVIOUS
  <1>2. SUFFICES ASSUME answer # "valid"
                 PROVE  FALSE
    BY <1>1
  <1>3. \/ \E p \in layout : ContainmentVerdict(s, place(Solid(s, p), s.pose[p.turn])) = answer
        \/ \E p, q \in layout :
             /\ q.id < p.id
             /\ PairVerdict(Solid(s, p), s.pose[p.turn], Solid(s, q), s.pose[q.turn], s.pair) = answer
    BY <1>1, <1>2, ReportIs
  <1> QED
    BY <1>2, <1>3 DEF Accepted

(* A valid layout is one that every check accepts, if the one is that it takes *)
(* over copies and pairs from.                                                 *)
LEMMA ValidIsAccepted ==
  ASSUME NEW s \in Scenes, NEW base, Accepted(s, base), NEW layout, IsLayout(s, layout),
         validate_report(s, base, layout) = "valid"
  PROVE  Accepted(s, layout)
  <1>1. /\ \A p \in layout :
             \/ p \in base
             \/ ContainmentVerdict(s, place(Solid(s, p), s.pose[p.turn])) = "valid"
        /\ \A p, q \in layout : q.id < p.id =>
             \/ p \in base /\ q \in base
             \/ PairVerdict(Solid(s, p), s.pose[p.turn], Solid(s, q), s.pose[q.turn], s.pair) = "valid"
    BY ChecksPass
  <1> QED
    BY <1>1 DEF Accepted

(* There is nothing to accept of no copies.                                    *)
LEMMA NothingIsAccepted ==
  ASSUME NEW s
  PROVE  Accepted(s, {})
  BY DEF Accepted

===============================================================================
