-------------------------- MODULE ConservativeFields --------------------------
(* The fields of cells a layout search correlates (pack_geometry,              *)
(* conservative_fields.cpp and the field part of validation_kernel.cpp), and   *)
(* the update of a workspace to the layout it is asked for (pack_solver,       *)
(* spectral_pipeline.cpp).  A cell is occupied unless it is certain that       *)
(* nothing of what it stands for comes near; what a field leaves out, an       *)
(* occupied layout forgets or an interrupted update leaves half done would     *)
(* offer a place where a copy does not fit.                                    *)
(*                                                                             *)
(* The layout it is asked for is one the kernel has validated (module          *)
(* PlacementKernel), and so are the copies that are put where it offers room.  *)
(* A cell is a closed square of scene.pitch units, named by its index; the     *)
(* lattice starts at the origin; copies may lie off the lattice.               *)
EXTENDS PlacementKernel

VARIABLES scene,     \* the problem of this run
          step,      \* what the search or the update of the workspace does next
          report,    \* the layout that was validated: none or one
          asked,     \* the layout the workspace is asked for
          geometry,  \* the object is prepared (state.geometry)
          mask,      \* the container's field, once it is made: none or one
          live,      \* the layout, blocked field and occupancy in use: none or one
          staged,    \* the blocked field that is being made: none or one
          todo       \* the copies still to remove from it, or to add to it

vars == <<scene, step, report, asked, geometry, mask, live, staged, todo>>

-----------------------------------------------------------------------------
(* Windows of cells *)

CeilDiv(a, b) == -((-a) \div b)

Cells(window) == (window.first[1]..window.last[1]) \X (window.first[2]..window.last[2])

(* The cells around the container, with one more at the low faces and, when a  *)
(* high face lies on a plane of the lattice, one more there.                   *)
Environment(s) ==
  Box([k \in Axes |-> (Low(s.container, k) \div s.pitch) - 1],
      [k \in Axes |-> CeilDiv(High(s.container, k), s.pitch)])

expanded(window, halo) ==
  Box([k \in Axes |-> window.first[k] - halo], [k \in Axes |-> window.last[k] + halo])

(* Bounds in cells, with one more on every side. *)
Trimmed(bounds, pitch) ==
  Box([k \in Axes |-> (bounds.first[k] \div pitch) - 1],
      [k \in Axes |-> (bounds.last[k] \div pitch) + 1])

(* The closed cell and the bounds are strictly apart. *)
Separated(bounds, cell, pitch) ==
  \E k \in Axes : \/ (cell[k] + 1) * pitch < bounds.first[k]
                  \/ cell[k] * pitch > bounds.last[k]

CellBox(cell, pitch) ==
  Box([k \in Axes |-> cell[k] * pitch], [k \in Axes |-> (cell[k] + 1) * pitch])

-----------------------------------------------------------------------------
(* The raw field of a placed solid *)

(* The cells of the window that are tried for a face. *)
FaceRange(face, window, pitch) ==
  Cells(Box([k \in Axes |-> Max({window.first[k], (face.first[k] \div pitch) - 1})],
            [k \in Axes |-> Min({window.last[k], (face.last[k] \div pitch) + 1})]))

(* Closed cells: a face on a plane of the lattice marks the cells of both sides. *)
Touches(face, cell, pitch) ==
  \A k \in Axes : cell[k] * pitch <= face.last[k] /\ face.first[k] <= (cell[k] + 1) * pitch

rasterize_boundary(p, window, pitch) ==
  UNION {{c \in FaceRange(FaceBounds(p, i), window, pitch) : Touches(FaceBounds(p, i), c, pitch)} :
           i \in DOMAIN p.mesh}

(* The first of some cells in the order in which they are scanned. *)
Witness(cells) ==
  CHOOSE c \in cells : \A d \in cells : c[2] < d[2] \/ (c[2] = d[2] /\ c[1] <= d[1])

Adjacent(c) == {<<c[1] - 1, c[2]>>, <<c[1] + 1, c[2]>>, <<c[1], c[2] - 1>>, <<c[1], c[2] + 1>>}

Around(cells) == UNION {Adjacent(c) : c \in cells}

(* The open cells that a cell is connected to. *)
Flood(cell, open) ==
  LET flood[seen \in SUBSET open] ==
        LET next == Around(seen) \cap open
        IN IF next \subseteq seen THEN seen ELSE flood[seen \cup next]
  IN flood[{cell}]

Components(open) == {Flood(c, open) : c \in open}

(* Where a witness lies: its middle, or in a pose that is not exact the whole  *)
(* cell as far as intervals tell.                                              *)
classify_material_witness(p, cell, pitch) ==
  IF Separated(p.bounds, cell, pitch) THEN "no"
  ELSE IF p.pose.exact THEN point_in_material(midpoint(CellBox(cell, pitch)), p)
  ELSE local_interval_point_in_material(CellBox(cell, pitch), p)

(* Every component of cells the boundary leaves is filled as its witness is. *)
fill_components(p, open, pitch) ==
  LET parts == Components(open)
      Are(decision) == UNION {c \in parts :
                                classify_material_witness(p, Witness(c), pitch) = decision}
  IN [material |-> Are("yes"), unknown |-> Are("indeterminate")]

make_raw(p, window, pitch) ==
  LET boundary == rasterize_boundary(p, window, pitch)
      filled == fill_components(p, Cells(window) \ boundary, pitch)
  IN [window |-> window, boundary |-> boundary,
      material |-> filled.material, unknown |-> filled.unknown]

Material(raw) == raw.boundary \cup raw.material \cup raw.unknown

NotMaterial(raw) == Cells(raw.window) \ raw.material

-----------------------------------------------------------------------------
(* Clearance *)

FlooredHalo(clearance, pitch) == clearance \div pitch

clearance_halo(clearance, pitch) ==
  IF clearance = 0 THEN 0 ELSE CeilDiv(clearance, pitch) + 1

Gap(d) == IF d \in {-1, 0, 1} THEN 0 ELSE Max({d, -d}) - 1

(* Closed cells that far apart come within the clearance of each other. *)
euclidean_offset_reaches(d, pitch, clearance) ==
  SumOfSquares(<<pitch * Gap(d[1]), pitch * Gap(d[2])>>) <= Squared(clearance)

make_stencil(clearance, pitch) ==
  LET halo == clearance_halo(clearance, pitch)
  IN {d \in (-halo..halo) \X (-halo..halo) : euclidean_offset_reaches(d, pitch, clearance)}

dilate_and_crop(seeds, stencil, requested) ==
  (UNION {Moved(seeds, d) : d \in stencil}) \cap Cells(requested)

(* The part of the window a placed solid needs: the rest has to be certainly   *)
(* outside, or the whole window is taken.                                      *)
plan_placed_raw_window(bounds, whole, pitch) ==
  LET trimmed == Trimmed(bounds, pitch)
      part == Box([k \in Axes |-> Max({whole.first[k], trimmed.first[k]})],
                  [k \in Axes |-> Min({whole.last[k], trimmed.last[k]})])
      Omitted(k) == {i \in {part.first[k] - 1, part.last[k] + 1} :
                       i \in whole.first[k]..whole.last[k]}
      Clear(i, k) == (i + 1) * pitch < bounds.first[k] \/ i * pitch > bounds.last[k]
  IN IF Cells(part) = {}
     THEN IF \E k \in Axes : \/ (whole.last[k] + 1) * pitch < bounds.first[k]
                             \/ whole.first[k] * pitch > bounds.last[k]
          THEN part ELSE whole
     ELSE IF \A k \in Axes : \A i \in Omitted(k) : Clear(i, k) THEN part ELSE whole

-----------------------------------------------------------------------------
(* The fields of the object, a placed copy and the container *)

(* The kernel: the object turned, at the origin of the lattice, where a        *)
(* cardinal pose rounds nothing.                                               *)
KernelPose(s, turn) == IF s.pose[turn].cardinal THEN identity ELSE s.pose[turn]

KernelWindow(s, turn) ==
  Trimmed(posed_bounds(s.object[turn], KernelPose(s, turn)).bounds, s.pitch)

voxelize_object(s, turn) ==
  Material(make_raw(place(s.object[turn], KernelPose(s, turn)), KernelWindow(s, turn), s.pitch))

voxelize_placed(s, copy) ==
  LET p == place(Solid(s, copy), s.pose[copy.turn])
      requested == Environment(s)
      work == expanded(requested, clearance_halo(s.pair, s.pitch))
      part == plan_placed_raw_window(p.bounds, work, s.pitch)
  IN IF Cells(part) = {} THEN {}
     ELSE dilate_and_crop(Material(make_raw(p, part, s.pitch)),
                          make_stencil(s.pair, s.pitch), requested)

(* A cell of an analytic box is free when it keeps the clearance to its walls. *)
classify_analytic_box_cell(s, cell) ==
  \A k \in Axes : /\ cell[k] * s.pitch >= s.wall
                  /\ (cell[k] + 1) * s.pitch <= High(s.container, k) - s.wall

AnalyticMask(s) ==
  {c \in Cells(Environment(s)) : ~classify_analytic_box_cell(s, c)}

(* An STL container blocks what comes near anything that is not its material. *)
SolidMask(s) ==
  LET requested == Environment(s)
      work == expanded(requested, clearance_halo(s.wall, s.pitch))
  IN dilate_and_crop(NotMaterial(make_raw(place(s.container, identity), work, s.pitch)),
                     make_stencil(s.wall, s.pitch), requested)

voxelize_container(s) == IF s.box THEN AnalyticMask(s) ELSE SolidMask(s)

(* The fields depend on the problem alone: each is made once. *)
KernelOf == [s \in Scenes |-> [turn \in DOMAIN s.object |-> voxelize_object(s, turn)]]

FieldOf == [s \in Scenes |-> [copy \in Copies(s) |-> voxelize_placed(s, copy)]]

MaskOf == [s \in Scenes |-> voxelize_container(s)]

-----------------------------------------------------------------------------
(* The blocked field: how many copies block a cell, and which cells each does *)

make_blocked_field(s) ==
  [counts |-> [c \in Cells(Environment(s)) |-> 0], footprints |-> <<>>]

Counted(blocked, cells, by) ==
  [c \in DOMAIN blocked.counts |-> blocked.counts[c] + (IF c \in cells THEN by ELSE 0)]

CanAdd(blocked, id) == id \notin DOMAIN blocked.footprints

Add(blocked, id, field) ==
  [counts |-> Counted(blocked, field, 1),
   footprints |-> [i \in DOMAIN blocked.footprints \cup {id} |->
                     IF i = id THEN field ELSE blocked.footprints[i]]]

(* A name that is not there, or a count that would go below zero, is refused. *)
CanRemove(blocked, id) ==
  /\ id \in DOMAIN blocked.footprints
  /\ \A c \in blocked.footprints[id] : blocked.counts[c] > 0

ForgetFootprint(blocked, id) ==
  [blocked EXCEPT !.footprints = Restrict(@, DOMAIN @ \ {id})]

Remove(blocked, id) ==
  [counts |-> Counted(blocked, blocked.footprints[id], -1),
   footprints |-> Restrict(blocked.footprints, DOMAIN blocked.footprints \ {id})]

(* A field of its own: what is staged on it leaves the one in use alone. *)
clone(blocked) == [counts |-> blocked.counts, footprints |-> blocked.footprints]

(* Outside the window everything is blocked. *)
IsBlocked(blocked, cell) ==
  \/ cell \notin DOMAIN blocked.counts
  \/ cell \in UNION mask
  \/ blocked.counts[cell] # 0

-----------------------------------------------------------------------------
(* The layouts a search has validated *)

LivePoses == UNION {l.poses : l \in live}

(* The translations, in cells, that keep the kernel's window inside the        *)
(* environment and have a zero correlation with the occupancy.                 *)
Free(turn) ==
  LET whole == Environment(scene)
      own == KernelWindow(scene, turn)
      shifts == Cells(Box([k \in Axes |-> whole.first[k] - own.first[k]],
                          [k \in Axes |-> whole.last[k] - own.last[k]]))
  IN {t \in shifts : \A l \in live : Moved(KernelOf[scene][turn], t) \cap l.occupied = {}}

(* A copy is added to the layout in use, or the one of that name moved. *)
Grown(copy) == {p \in LivePoses : p.id # copy.id} \cup {copy}

Validate(layout, offered) ==
  /\ step' = "report"
  /\ report' = {[layout |-> layout, offered |-> offered,
                 validity |-> validate_report(scene, LivePoses, layout)]}
  /\ UNCHANGED <<scene, asked, geometry, mask, live, staged, todo>>

(* Any layout, such as those that other searches and moves come up with. *)
Propose ==
  /\ step = "idle"
  /\ \E layout \in Layouts(scene)
                  \cup {Grown(c) : c \in [id : Ids, turn : DOMAIN scene.object, at : scene.tries]} :
       Validate(layout, FALSE)

(* A copy at a translation the fields leave free. *)
Offer ==
  /\ step = "idle" /\ live # {}
  /\ \E turn \in DOMAIN scene.object : \E t \in Free(turn), id \in Ids :
       Validate(Grown([id |-> id, turn |-> turn,
                       at |-> <<t[1] * scene.pitch, t[2] * scene.pitch>>]), TRUE)

(* A valid layout is what the workspace is asked for next.  Bound: its copies  *)
(* are at scene.places.                                                        *)
Adopt ==
  /\ step = "report"
  /\ \E r \in report : r.validity = "valid" /\ r.layout \in Layouts(scene) /\ asked' = r.layout
  /\ report' = {} /\ step' = "prepare"
  /\ UNCHANGED <<scene, geometry, mask, live, staged, todo>>

(* It is refused, or the search goes on without it. *)
Discard ==
  /\ step = "report"
  /\ report' = {} /\ step' = "idle"
  /\ UNCHANGED <<scene, asked, geometry, mask, live, staged, todo>>

-----------------------------------------------------------------------------
(* The update of the workspace *)

Init ==
  /\ scene \in Scenes
  /\ step = "idle" /\ report = {} /\ asked = {}
  /\ geometry = FALSE /\ mask = {} /\ live = {} /\ staged = {} /\ todo = {}

(* A copy of one layout that another one has too: same name, same pose. *)
Retained(copy, layout) == copy \in layout

Prepare ==
  /\ step = "prepare"
  /\ geometry' = TRUE /\ step' = "mask"
  /\ UNCHANGED <<scene, report, asked, mask, live, staged, todo>>

MakeMask ==
  /\ step = "mask"
  /\ mask' = IF mask = {} THEN {MaskOf[scene]} ELSE mask
  /\ step' = "compare"
  /\ UNCHANGED <<scene, report, asked, geometry, live, staged, todo>>

Drop == step' = "idle" /\ asked' = {} /\ staged' = {} /\ todo' = {}

(* The layout in use is asked for again, or a new one is staged on a clone of  *)
(* its blocked field: the copies that are gone or have moved are taken out ... *)
Compare ==
  /\ step = "compare"
  /\ IF /\ live # {} /\ Cardinality(asked) = Cardinality(LivePoses)
        /\ \A p \in asked : Retained(p, LivePoses)
     THEN Drop
     ELSE /\ step' = "remove"
          /\ staged' = IF live = {} THEN {make_blocked_field(scene)}
                       ELSE {clone(l.blocked) : l \in live}
          /\ todo' = {p \in LivePoses : ~Retained(p, asked)} /\ UNCHANGED asked
  /\ UNCHANGED <<scene, report, geometry, mask, live>>

RemoveOne ==
  /\ step = "remove" /\ todo # {}
  /\ \E p \in todo, b \in staged :
       /\ CanRemove(b, p.id)
       /\ staged' = {Remove(b, p.id)} /\ todo' = todo \ {p}
  /\ UNCHANGED <<scene, step, report, asked, geometry, mask, live>>

(* ... before those that are new or have moved are put in. *)
Removed ==
  /\ step = "remove" /\ todo = {}
  /\ step' = "add"
  /\ todo' = {p \in asked : ~Retained(p, LivePoses)}
  /\ UNCHANGED <<scene, report, asked, geometry, mask, live, staged>>

AddOne ==
  /\ step = "add" /\ todo # {}
  /\ \E p \in todo, b \in staged :
       /\ CanAdd(b, p.id)
       /\ staged' = {Add(b, p.id, FieldOf[scene][p])} /\ todo' = todo \ {p}
  /\ UNCHANGED <<scene, step, report, asked, geometry, mask, live>>

(* The occupancy is read from the staged field, and all is put in use at once. *)
Publish ==
  /\ step = "add" /\ todo = {}
  /\ \E b \in staged :
       live' = {[poses |-> asked, blocked |-> b,
                 occupied |-> {c \in Cells(Environment(scene)) : IsBlocked(b, c)}]}
  /\ Drop
  /\ UNCHANGED <<scene, report, geometry, mask>>

(* A limit, an allocation or an interruption ends the update anywhere, as does *)
(* a name that is not there to remove or is there already: what is staged is   *)
(* dropped, what was in use stays.                                             *)
Fail ==
  /\ step \notin {"idle", "report"}
  /\ Drop
  /\ UNCHANGED <<scene, report, geometry, mask, live>>

Next ==
  \/ Propose \/ Offer \/ Adopt \/ Discard
  \/ Prepare \/ MakeMask \/ Compare \/ RemoveOne \/ Removed \/ AddOne \/ Publish \/ Fail

Spec == Init /\ [][Next]_vars

-----------------------------------------------------------------------------
(* Properties *)

(* The kernel says that a layout is valid only if no two copies share anything *)
(* or are closer than the pair clearance, and none leaves the material of the  *)
(* container, covers a cavity of it or is closer to its walls than the wall    *)
(* clearance; and that one is invalid only if it is, whatever it takes over    *)
(* from the layout in use and whichever bounds, blocks and witnesses decide.   *)
VerdictsAreTrue ==
  \A r \in report :
    /\ r.validity = "valid" => Packed(scene, r.layout)
    /\ r.validity = "invalid" => ~Packed(scene, r.layout)

(* Every copy is represented exactly.                                          *)
PlacedExactly(layout) == \A p \in layout : scene.pose[p.turn].exact

(* A copy at a translation a search is offered keeps every clearance, wherever *)
(* the copies lie with respect to the lattice, whatever shape the container    *)
(* has and however the poses are rounded or turned; and the kernel, which      *)
(* looks at surfaces, does not turn it down: it accepts what is placed exactly *)
(* and never refuses the rest.                                                 *)
OffersAreAccepted ==
  \A r \in report : r.offered =>
    /\ Packed(scene, r.layout)
    /\ r.validity # "invalid"
    /\ PlacedExactly(r.layout) => r.validity = "valid"

(* The cells a copy blocks: those within the pair clearance of a cell the copy *)
(* touches, over the whole plane.                                              *)
Reach(copy) ==
  LET solid == Solid(scene, copy)
      touched == UNION {{c \in Cells(Trimmed(Extent({u}), scene.pitch)) :
                           ~Separated(Extent({u}), c, scene.pitch)} : u \in solid}
  IN UNION {Moved(touched, d) : d \in make_stencil(scene.pair, scene.pitch)}

(* The occupancy in use is that of the layout it is said to be of: the         *)
(* container's mask and what the copies of that layout reach, no more and no   *)
(* less (more only for copies that are not placed exactly), whatever updates,  *)
(* removals, failures and interruptions came before.                           *)
OccupancyIsFresh ==
  \A l \in live :
    LET want == (UNION mask) \cup ((UNION {Reach(p) : p \in l.poses}) \cap Cells(Environment(scene)))
    IN want \subseteq l.occupied /\ (PlacedExactly(l.poses) => want = l.occupied)

=============================================================================
