---------------------------- MODULE PlacementKernel ----------------------------
(* The validation of a layout (pack_geometry: validation.cpp and the pair and  *)
(* containment part of validation_kernel.cpp).  Pairs are accepted by bounds   *)
(* when these suffice, then by the distance of the surfaces, and only when the *)
(* surfaces may meet by crossings and by one witness of each shell; what a     *)
(* copy shares with the layout it comes from is not looked at again.  A rule   *)
(* that is too generous lets copies overlap; one that is too strict rejects    *)
(* what is right.                                                              *)
(*                                                                             *)
(* The space is a plane: a solid is a set of unit squares, named by their low  *)
(* corners, and its faces are the segments of its boundary.  Coordinates are   *)
(* integers.  A cardinal pose has exact ones, which some checks compare; where *)
(* its corners are rounded when they are represented, and in any other pose,   *)
(* the rest of the checks see them displaced by up to a unit and go by         *)
(* intervals.                                                                  *)
EXTENDS Integers, Sequences, FiniteSets, FiniteSetsExt, Functions

CONSTANTS Scenes,    \* the problems: solids, container, pitch, clearances
          Ids,       \* the names copies have, in the order of the layouts
          BlockSize, \* kTriangleBoundsBlock
          Layers     \* LayerSupportTable::count

ASSUME KernelAssumption ==
  /\ Ids \subseteq Nat /\ IsFiniteSet(Ids)
  /\ BlockSize \in Nat \ {0} /\ Layers \in Nat \ {0}

-----------------------------------------------------------------------------
(* Solids, copies and bounds *)

Axes == {1, 2}

Points == Int \X Int

IsSolid(squares) == squares # {} /\ squares \subseteq Points /\ IsFiniteSet(squares)

Near(u, reach) == (u[1] - reach..u[1] + reach) \X (u[2] - reach..u[2] + reach)

(* Squares that meet at a corner have a neighbour in common: a mesh with two    *)
(* sheets at one vertex or edge, or with shells that touch, is refused when it *)
(* is read.                                                                    *)
IsManifold(solid) ==
  \A u \in solid : \A v \in Near(u, 1) \cap solid :
    {<<u[1], v[2]>>, <<v[1], u[2]>>} \cap solid # {}

Low(solid, k) == Min({u[k] : u \in solid})

High(solid, k) == Max({u[k] : u \in solid}) + 1

Moved(solid, by) == {<<u[1] + by[1], u[2] + by[2]>> : u \in solid}

(* cardinal: the axes are turned to axes; exact: every corner is represented   *)
(* exactly (represented_world_exact); slip: how far the rounded corners lie    *)
(* from the real ones.                                                         *)
Poses ==
  {pose \in [cardinal : BOOLEAN, exact : BOOLEAN, slip : Near(<<0, 0>>, 1)] :
     pose.exact => pose.cardinal /\ pose.slip = <<0, 0>>}

identity == [cardinal |-> TRUE, exact |-> TRUE, slip |-> <<0, 0>>]

Copies(s) == [id : Ids, turn : DOMAIN s.object, at : s.places]

Solid(s, copy) == Moved(s.object[copy.turn], copy.at)

(* Solids have a size and are manifold, coordinates are whole numbers, a box is *)
(* one and starts at the origin, and a voxel has a size.                       *)
ASSUME SceneAssumption ==
  \A s \in Scenes :
    /\ DOMAIN s.object \subseteq Nat
    /\ \A turn \in DOMAIN s.object : IsSolid(s.object[turn]) /\ IsManifold(s.object[turn])
    /\ IsSolid(s.container) /\ IsManifold(s.container)
    /\ s.box => s.container = (0..(High(s.container, 1) - 1)) \X (0..(High(s.container, 2) - 1))
    /\ s.pitch \in Nat \ {0} /\ s.pair \in Nat /\ s.wall \in Nat
    /\ s.places \subseteq Points /\ s.tries \subseteq Points
    /\ s.pose \in [DOMAIN s.object -> Poses] /\ s.box \in BOOLEAN

(* Layouts of copies with different names. *)
Layouts(s) == {l \in SUBSET Copies(s) : \A p, q \in l : p.id = q.id => p = q}

Box(first, last) == [first |-> first, last |-> last]

Extent(solid) == Box([k \in Axes |-> Low(solid, k)], [k \in Axes |-> High(solid, k)])

Widened(box, by) ==
  Box([k \in Axes |-> box.first[k] - by], [k \in Axes |-> box.last[k] + by])

Shifted(box, by) ==
  Box([k \in Axes |-> box.first[k] + by[k]], [k \in Axes |-> box.last[k] + by[k]])

Hull(boxes) ==
  Box([k \in Axes |-> Min({b.first[k] : b \in boxes})],
      [k \in Axes |-> Max({b.last[k] : b \in boxes})])

(* How far the second lies beyond the first along an axis, or the reverse. *)
AxisGap(a, b, k) == Max({b.first[k] - a.last[k], a.first[k] - b.last[k]})

Squared(x) == x * x

SumOfSquares(v) == Squared(v[1]) + Squared(v[2])

SquaredGap(a, b) == SumOfSquares([k \in Axes |-> Max({0, AxisGap(a, b, k)})])

compare(a, b) == IF a < b THEN "below" ELSE IF a = b THEN "equal" ELSE "above"

-----------------------------------------------------------------------------
(* Meshes *)

Walls(solid, k) ==
  LET Back(u) == [u EXCEPT ![k] = @ - 1]
      Forth(u) == [u EXCEPT ![k] = @ + 1]
  IN {u \in solid : Back(u) \notin solid} \cup {Forth(u) : u \in {v \in solid : Forth(v) \notin solid}}

(* Faces as long as the boundary goes straight on. *)
Faces(solid) ==
  UNION {LET walls == Walls(solid, k)
             j == 3 - k
             End(u) == Min({i \in u[j]..High(solid, j) : [u EXCEPT ![j] = i] \notin walls})
         IN {Box(u, [u EXCEPT ![j] = End(u)]) : u \in {v \in walls : [v EXCEPT ![j] = @ - 1] \notin walls}} :
           k \in Axes}

(* The corners that faces connect to some corners. *)
Reached(corners, faces) ==
  LET Ends(some) == UNION {{f.first, f.last} : f \in some}
      reached[c \in SUBSET (corners \cup Ends(faces))] ==
        LET more == Ends({f \in faces : {f.first, f.last} \cap c # {}})
        IN IF more \subseteq c THEN c ELSE reached[c \cup more]
  IN reached[corners]

(* A corner of each shell: of each connected part of the boundary. *)
shell_witnesses(faces) ==
  LET witnesses[left \in SUBSET faces] ==
        IF left = {} THEN {}
        ELSE LET w == (CHOOSE f \in left : TRUE).first
                 shell == Reached({w}, left)
             IN {w} \cup witnesses[{f \in left : f.first \notin shell}]
  IN witnesses[faces]

certify_cuboid(solid) ==
  Cardinality(solid) = (High(solid, 1) - Low(solid, 1)) * (High(solid, 2) - Low(solid, 2))

(* Rounded, with an outward interval around it unless it is exact. *)
Outward(box, pose) == Widened(Shifted(box, pose.slip), IF pose.exact THEN 0 ELSE 1)

(* What is known of a pose before its vertices are placed. *)
posed_bounds(solid, pose) ==
  [pose |-> pose, extent |-> Extent(solid), bounds |-> Outward(Extent(solid), pose)]

prepare(solid) ==
  LET faces == Faces(solid)
  IN [cuboid |-> certify_cuboid(solid), witnesses |-> shell_witnesses(faces),
      mesh |-> FoldSet(LAMBDA f, mesh : Append(mesh, f), <<>>, faces)]

(* A cuboid is treated as one only in a cardinal pose. *)
place(solid, pose) ==
  LET known == posed_bounds(solid, pose)
      prepared == prepare(solid)
  IN [solid |-> solid, pose |-> pose, extent |-> known.extent, bounds |-> known.bounds,
      cuboid |-> prepared.cuboid /\ pose.cardinal, witnesses |-> prepared.witnesses,
      mesh |-> prepared.mesh]

(* The rounded face. *)
triangle_points(p, i) == Shifted(p.mesh[i], p.pose.slip)

(* The bounds of a face, and those of the boxes its mesh is divided in: sorted *)
(* along the longer axis and split at a multiple of the size of a block.       *)
FaceBounds(p, i) == Outward(p.mesh[i], p.pose)

LongAxis(box) == IF box.last[2] - box.first[2] > box.last[1] - box.first[1] THEN 2 ELSE 1

Before(p, i, j, axis) ==
  LET a == p.mesh[i].first[axis]
      b == p.mesh[j].first[axis]
  IN a < b \/ (a = b /\ i < j)

LowerHalf(p, faces) ==
  LET axis == LongAxis(Hull({FaceBounds(p, i) : i \in faces}))
      middle == Max({BlockSize, (Cardinality(faces) \div (2 * BlockSize)) * BlockSize})
  IN {j \in faces : Cardinality({i \in faces : Before(p, i, j, axis)}) < middle}

partition_triangle_bounds(p) ==
  LET blocks[part \in SUBSET (DOMAIN p.mesh)] ==
        IF Cardinality(part) <= BlockSize THEN {part}
        ELSE blocks[LowerHalf(p, part)] \cup blocks[part \ LowerHalf(p, part)]
  IN blocks[DOMAIN p.mesh]

BlockBounds(p, block) == Hull({FaceBounds(p, i) : i \in block})

-----------------------------------------------------------------------------
(* Points and material *)

(* The crossings of a ray that meets no corner, to the right and a bit up. *)
Crossings(point, faces) ==
  {f \in faces : /\ f.first[1] = f.last[1] /\ f.first[1] > point[1]
                 /\ f.first[2] <= point[2] /\ point[2] < f.last[2]}

OnFace(point, f) == \A k \in Axes : f.first[k] <= point[k] /\ point[k] <= f.last[k]

(* By parity; every ray from a point of the boundary is refused. *)
local_point_in_material(point, faces) ==
  IF \E f \in faces : OnFace(point, f) THEN "indeterminate"
  ELSE IF Cardinality(Crossings(point, faces)) % 2 = 0 THEN "no" ELSE "yes"

point_in_material(point, p) ==
  IF p.cuboid
  THEN IF \E k \in Axes : point[k] < p.extent.first[k] \/ point[k] > p.extent.last[k] THEN "no"
       ELSE IF \A k \in Axes : p.extent.first[k] < point[k] /\ point[k] < p.extent.last[k]
       THEN "yes" ELSE "indeterminate"
  ELSE IF ~p.pose.exact THEN "indeterminate"
  ELSE local_point_in_material(point, {triangle_points(p, i) : i \in DOMAIN p.mesh})

bounds_disjoint(a, b) == \E k \in Axes : AxisGap(a, b, k) > 0

midpoint(box) == <<(box.first[1] + box.last[1]) \div 2, (box.first[2] + box.last[2]) \div 2>>

(* Where the box of a witness is apart from the bounds, or, taken back to the  *)
(* frame of the solid, where the faces are exact, is apart from every face.    *)
(* Bound: it gets two units wider there, one for the pose and one for turning. *)
local_interval_point_in_material(box, p) ==
  LET interval == Widened(Shifted(box, [k \in Axes |-> -p.pose.slip[k]]), 2)
  IN IF bounds_disjoint(box, p.bounds) THEN "no"
     ELSE IF \E f \in Range(p.mesh) : ~bounds_disjoint(interval, f) THEN "indeterminate"
     ELSE local_point_in_material(midpoint(interval), Range(p.mesh))

-----------------------------------------------------------------------------
(* Surfaces *)

separated_by_bounds(p, q, clearance) ==
  \E k \in Axes : AxisGap(p.bounds, q.bounds, k) > clearance

(* Each spans the other's line. *)
segment_triangle_crossing(f, g) ==
  \E k \in Axes : /\ f.first[k] < g.first[k] /\ g.last[k] < f.last[k]
                  /\ g.first[3 - k] < f.first[3 - k] /\ f.last[3 - k] < g.last[3 - k]

(* The faces that the bounds of blocks and faces do not prove to be apart. *)
MayMeet(p, i, q) ==
  LET row == FaceBounds(p, i)
      blocks == {b \in partition_triangle_bounds(q) :
                   ~bounds_disjoint(row, BlockBounds(q, b))}
  IN IF bounds_disjoint(row, q.bounds) THEN {}
     ELSE {j \in UNION blocks : ~bounds_disjoint(row, FaceBounds(q, j))}

check_boundaries(p, q) ==
  LET met == UNION {{<<i, j>> : j \in MayMeet(p, i, q)} : i \in DOMAIN p.mesh}
  IN IF met = {} THEN "disjoint"
     ELSE IF ~p.pose.exact \/ ~q.pose.exact THEN "indeterminate"
     ELSE IF \E m \in met : segment_triangle_crossing(triangle_points(p, m[1]), triangle_points(q, m[2]))
     THEN "transverse_crossing" ELSE "contact"

exact_point_segment(point, f) == SquaredGap(Box(point, point), f)

(* The smallest of the distances of the corners: faces that cross were found. *)
exact_triangle_distance(f, g) ==
  Min({exact_point_segment(v, g) : v \in {f.first, f.last}}
        \cup {exact_point_segment(v, f) : v \in {g.first, g.last}})

bounds_farther_than(a, b, clearance) == SquaredGap(a, b) > Squared(clearance)

MayBeNear(p, i, q, clearance) ==
  LET row == FaceBounds(p, i)
      blocks == {b \in partition_triangle_bounds(q) :
                   ~bounds_farther_than(row, BlockBounds(q, b), clearance)}
  IN IF bounds_farther_than(row, q.bounds, clearance) THEN {}
     ELSE {j \in UNION blocks : ~bounds_farther_than(row, FaceBounds(q, j), clearance)}

conservative_surface_gap(p, q, clearance) ==
  IF bounds_farther_than(p.bounds, q.bounds, clearance) THEN "above" ELSE "indeterminate"

exact_surface_gap(p, q, clearance) ==
  LET orders == UNION {{compare(exact_triangle_distance(p.mesh[i], q.mesh[j]), Squared(clearance)) :
                          j \in MayBeNear(p, i, q, clearance)} : i \in DOMAIN p.mesh}
  IN IF clearance = 0 THEN "above"
     ELSE IF ~p.pose.cardinal \/ ~q.pose.cardinal THEN conservative_surface_gap(p, q, clearance)
     ELSE IF "below" \in orders THEN "below"
     ELSE IF "equal" \in orders THEN "equal" ELSE "above"

-----------------------------------------------------------------------------
(* Pairs *)

Pair(overlap, gap) == [overlap |-> overlap, gap |-> gap]

(* A gap of at least the clearance along an axis. *)
cardinal_bounds_clearance_proof(p, q, clearance) ==
  /\ p.pose.cardinal /\ q.pose.cardinal
  /\ \E k \in Axes : AxisGap(p.extent, q.extent, k) >= clearance

(* The bounds alone accept the pair. *)
bounds_pair_certificate(p, q, clearance) ==
  separated_by_bounds(p, q, clearance) \/ cardinal_bounds_clearance_proof(p, q, clearance)

(* Contact is not told from a gap, which matters only without a clearance. *)
cardinal_bounds_clearance_certificate(p, q, clearance) ==
  IF cardinal_bounds_clearance_proof(p, q, clearance) THEN {Pair("no", "at_least")} ELSE {}

classify_axis_cuboids(p, q, clearance) ==
  LET gaps == [k \in Axes |-> AxisGap(p.extent, q.extent, k)]
      apart == \E k \in Axes : gaps[k] > 0
  IN IF \A k \in Axes : gaps[k] < 0 THEN Pair("yes", "below")
     ELSE Pair("no", IF clearance = 0 THEN (IF apart THEN "above" ELSE "equal")
                     ELSE IF ~apart THEN "below"
                     ELSE compare(SquaredGap(p.extent, q.extent), Squared(clearance)))

(* A corner, and the interval it lies in. *)
world_vertex(v, pose) == <<v[1] + pose.slip[1], v[2] + pose.slip[2]>>

vertex_interval(v, pose) == Outward(Box(v, v), pose)

classify_shell_witness(w, source, target) ==
  IF source.pose.exact /\ target.pose.exact
  THEN point_in_material(world_vertex(w, source.pose), target)
  ELSE local_interval_point_in_material(vertex_interval(w, source.pose), target)

ShellsInside(p, q) ==
  {classify_shell_witness(w, p, q) : w \in p.witnesses}
    \cup {classify_shell_witness(w, q, p) : w \in q.witnesses}

(* The surfaces are disjoint: a shell lies inside the other solid, or apart. *)
classify_disjoint(p, q, clearance) ==
  LET inside == ShellsInside(p, q)
      overlap == IF "yes" \in inside THEN "yes"
                 ELSE IF "indeterminate" \in inside THEN "indeterminate" ELSE "no"
  IN Pair(overlap, IF overlap = "yes" THEN "below" ELSE exact_surface_gap(p, q, clearance))

OnContact(clearance) == IF clearance > 0 THEN "below" ELSE "equal"

classify_boundaries(p, q, clearance) ==
  LET relation == check_boundaries(p, q)
  IN CASE relation = "transverse_crossing" -> Pair("yes", "below")
       [] relation = "indeterminate" -> Pair("indeterminate", "indeterminate")
       [] relation = "contact" -> Pair("indeterminate", OnContact(clearance))
       [] relation = "disjoint" -> classify_disjoint(p, q, clearance)

classify_pair(p, q, clearance) ==
  IF p.solid = q.solid /\ p.pose = q.pose THEN Pair("yes", OnContact(clearance))
  ELSE IF p.cuboid /\ q.cuboid THEN classify_axis_cuboids(p, q, clearance)
  ELSE IF separated_by_bounds(p, q, clearance) THEN Pair("no", "above")
  ELSE IF clearance = 0 /\ cardinal_bounds_clearance_certificate(p, q, 0) # {}
  THEN CHOOSE pair \in cardinal_bounds_clearance_certificate(p, q, 0) : TRUE
  ELSE IF separated_by_bounds(p, q, 0) THEN Pair("no", exact_surface_gap(p, q, clearance))
  ELSE classify_boundaries(p, q, clearance)

support_directions ==
  UNION {{<<1, k>>, <<1, -k>>, <<k, 1>>, <<k, -1>>} : k \in 1..3}

(* What the corners span along a direction. *)
support_projection(solid, d) ==
  LET values == UNION {{d[1] * (u[1] + i) + d[2] * (u[2] + j) : i, j \in 0..1} : u \in solid}
  IN [first |-> Min(values), last |-> Max(values)]

(* A slanted strip as wide as the clearance lies between the two. *)
support_pair_certificate(a, b, clearance) ==
  \E d \in support_directions :
    LET p == support_projection(a, d)
        q == support_projection(b, d)
        gap == Max({q.first - p.last, p.first - q.last})
    IN gap > 0 /\ Squared(gap) >= Squared(clearance) * SumOfSquares(d)

(* The axis along which it is thinnest; squares are in their first turn here. *)
LayerAxis(solid) ==
  IF High(solid, 2) - Low(solid, 2) < High(solid, 1) - Low(solid, 1) THEN 2 ELSE 1

(* The solid is cut into closed slabs, each as wide as the faces that it meets *)
(* are in full.  Coordinates are scaled by the number of layers.               *)
LayerSlices(solid, axis) ==
  LET Cut(i) == Low(solid, axis) * Layers + i * (High(solid, axis) - Low(solid, axis))
      Meets(i) == {f \in Faces(solid) : /\ f.first[axis] * Layers <= Cut(i + 1)
                                       /\ f.last[axis] * Layers >= Cut(i)}
      Slice(i) == LET hull == Hull(Meets(i))
                  IN Box([k \in Axes |-> IF k = axis THEN Cut(i) ELSE hull.first[k] * Layers],
                         [k \in Axes |-> IF k = axis THEN Cut(i + 1) ELSE hull.last[k] * Layers])
  IN {Slice(i) : i \in {j \in 0..(Layers - 1) : Meets(j) # {}}}

(* Every slab of the one is apart from every slab of the other. *)
layer_support_pair_certificate(a, b, clearance) ==
  /\ LayerAxis(a) = LayerAxis(b)
  /\ \A p \in LayerSlices(a, LayerAxis(a)), q \in LayerSlices(b, LayerAxis(b)) :
       bounds_disjoint(p, q) /\ SquaredGap(p, q) >= Squared(clearance * Layers)

(* What accepts a pair before its solids are placed, cardinal poses only. *)
SupportsAccept(a, x, b, y, clearance) ==
  /\ x.cardinal /\ y.cardinal
  /\ \/ support_pair_certificate(a, b, clearance)
     \/ layer_support_pair_certificate(a, b, clearance)

(* What is refused is invalid; what is neither refused nor decided, in doubt. *)
Validity(refused, answers) ==
  IF refused \/ "below" \in answers THEN "invalid"
  ELSE IF "indeterminate" \in answers THEN "indeterminate" ELSE "valid"

PairValidity(pair) == Validity(pair.overlap = "yes", {pair.overlap, pair.gap})

(* The solids are placed only for pairs that their bounds do not accept. *)
PairVerdict(a, x, b, y, clearance) ==
  IF \/ bounds_pair_certificate(posed_bounds(a, x), posed_bounds(b, y), clearance)
     \/ SupportsAccept(a, x, b, y, clearance)
  THEN "valid"
  ELSE PairValidity(classify_pair(place(a, x), place(b, y), clearance))

-----------------------------------------------------------------------------
(* Containment *)

Inside(empty, gap) == [empty |-> empty, gap |-> gap]

WallGap(gaps, clearance) ==
  IF \E k \in Axes : gaps[k] < clearance THEN "below"
  ELSE IF \E k \in Axes : gaps[k] = clearance THEN "equal" ELSE "above"

(* The smaller of the gaps to the two walls of an axis. *)
WallGaps(box, walls) ==
  [k \in Axes |-> Min({box.first[k] - walls.first[k], walls.last[k] - box.last[k]})]

(* Exact coordinates, or corner by corner what the intervals decide and exact  *)
(* arithmetic on the turned corner where they do not.                          *)
classify_axis_container(p, walls, clearance) ==
  LET gaps == WallGaps(p.extent, walls)
  IN IF \E k \in Axes : gaps[k] < 0 THEN Inside("no", "below")
     ELSE Inside("yes", WallGap(gaps, clearance))

(* With a clearance, bounds that keep it suffice. *)
bounds_box_certificate(p, walls, clearance) ==
  /\ clearance > 0 /\ ~p.pose.cardinal
  /\ \A k \in Axes : WallGaps(p.bounds, walls)[k] >= clearance

classify_box(p, walls, clearance) ==
  IF bounds_box_certificate(p, walls, clearance) THEN Inside("yes", "at_least")
  ELSE classify_axis_container(p, walls, clearance)

(* A cavity of the container may lie inside the copy. *)
ObjectWitnesses(p, c) == {point_in_material(world_vertex(w, p.pose), c) : w \in p.witnesses}

CavityWitnesses(p, c) == {point_in_material(world_vertex(w, c.pose), p) : w \in c.witnesses}

classify_stl_disjoint(p, c, clearance) ==
  IF ObjectWitnesses(p, c) # {"yes"}
  THEN Inside(IF "no" \in ObjectWitnesses(p, c) THEN "no" ELSE "indeterminate", "indeterminate")
  ELSE IF "yes" \in CavityWitnesses(p, c) THEN Inside("no", "indeterminate")
  ELSE IF "indeterminate" \in CavityWitnesses(p, c) THEN Inside("indeterminate", "indeterminate")
  ELSE Inside("yes", exact_surface_gap(p, c, clearance))

classify_stl(p, c, clearance) ==
  LET relation == check_boundaries(p, c)
  IN IF c.cuboid THEN classify_axis_container(p, c.extent, clearance)
     ELSE CASE relation = "transverse_crossing" -> Inside("no", "below")
            [] relation = "contact" -> Inside("indeterminate", OnContact(clearance))
            [] relation = "indeterminate" -> Inside("indeterminate", "indeterminate")
            [] relation = "disjoint" -> classify_stl_disjoint(p, c, clearance)

InsideValidity(result) == Validity(result.empty = "no", {result.empty, result.gap})

ContainmentVerdict(s, p) ==
  InsideValidity(IF s.box THEN classify_box(p, Extent(s.container), s.wall)
                 ELSE classify_stl(p, place(s.container, identity), s.wall))

-----------------------------------------------------------------------------
(* Layouts *)

ProvenByName(base, layout) == {p \in layout : \E q \in base : q.id = p.id}

Position(layout, copy) == Cardinality({p \in layout : p.id <= copy.id})

(* The copies with the name, the pose and the position they have in the layout *)
(* that was validated before.                                                  *)
Proven(base, layout) ==
  {p \in base \cap layout : Position(base, p) = Position(layout, p)}

InOrder(m, n) == m[1] < n[1] \/ (m[1] = n[1] /\ m[2] <= n[2])

(* The first check that does not accept decides: pairs, then containment. *)
Decided(verdicts, inside) ==
  LET refusedPairs == {m \in DOMAIN verdicts : verdicts[m] # "valid"}
      refused == {i \in DOMAIN inside : inside[i] # "valid"}
  IN IF refusedPairs # {}
     THEN verdicts[CHOOSE m \in refusedPairs : \A n \in refusedPairs : InOrder(m, n)]
     ELSE IF refused # {} THEN inside[Min(refused)]
     ELSE "valid"

(* Only what is not taken over from the layout that was validated is checked. *)
checks(s, solids, poses, open) ==
  LET pairs == {m \in (DOMAIN solids) \X (DOMAIN solids) :
                  m[2] < m[1] /\ {m[1], m[2]} \cap open # {}}
  IN Decided([m \in pairs |-> PairVerdict(solids[m[1]], poses[m[1]], solids[m[2]], poses[m[2]], s.pair)],
             [i \in open |-> ContainmentVerdict(s, place(solids[i], poses[i]))])

validate_report(s, base, layout) ==
  LET copies == [i \in 1..Cardinality(layout) |-> CHOOSE p \in layout : Position(layout, p) = i]
  IN checks(s, [i \in DOMAIN copies |-> Solid(s, copies[i])],
            [i \in DOMAIN copies |-> s.pose[copies[i].turn]],
            {i \in DOMAIN copies : copies[i] \notin Proven(base, layout)})

-----------------------------------------------------------------------------
(* What a valid layout is: no squares in common, the pair clearance between    *)
(* any two copies, and the wall clearance to all that is not the container's.  *)
Distance(u, v) == SquaredGap(Box(u, <<u[1] + 1, u[2] + 1>>), Box(v, <<v[1] + 1, v[2] + 1>>))

KeepsApart(solid, other, clearance) ==
  \A u \in solid, v \in other : u # v /\ Distance(u, v) >= Squared(clearance)

KeepsInside(s, solid) ==
  \A u \in solid : KeepsApart({u}, Near(u, s.wall + 1) \ s.container, s.wall)

Packed(s, layout) ==
  /\ \A p \in layout : KeepsInside(s, Solid(s, p))
  /\ \A p, q \in layout : p.id # q.id => KeepsApart(Solid(s, p), Solid(s, q), s.pair)

=============================================================================
