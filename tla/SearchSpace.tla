------------------------------ MODULE SearchSpace ------------------------------
(* What a search of the solver looks for and what it has to show for it: the   *)
(* copies that fit (pack_geometry, as the solver uses it), the voxel lattice   *)
(* the correlations work on, the private incumbent of a phase and the outcome  *)
(* a phase leaves to the next one (pack_solver/src/incumbent.cpp, baseline.cpp,*)
(* spectral.cpp).                                                              *)
(*                                                                             *)
(* The container is a line of Length units and a solid is a set of unit cells, *)
(* possibly with holes, so copies can interlock.  A pose is <<o, x>>: an       *)
(* orientation and a translation.  A layout is a set of poses: names and order *)
(* of the copies are not told apart.  A voxel is Pitch units wide.             *)
EXTENDS Integers, FiniteSets, Sequences, FiniteSetsExt, SequencesExt

CONSTANTS Scenes,     \* the problems and limits a run may be given
          Length,     \* the container, in units
          Pitch       \* a voxel, in units; divides Length

ASSUME SpaceAssumption ==
  /\ Length \in Nat /\ Pitch \in Nat \ {0}
  /\ Length % Pitch = 0

(* A solid has units, and a run is given one layout at most. *)
ASSUME SceneAssumption ==
  \A s \in Scenes :
    /\ s.solid \in Seq((SUBSET Nat) \ {{}})
    /\ \A o \in DOMAIN s.solid : IsFiniteSet(s.solid[o])
    /\ \A k, l \in s.initial : k = l

VARIABLES scene,      \* the problem and limits of this run
          halted,     \* stop was asked for or the deadline passed
          faults,     \* denials and failures so far
          phase,      \* the operation that runs
          best,       \* the best snapshot of the run: none or one
          kept,       \* the retained layout: none or one
          reason,     \* why the operation ended
          known,      \* its cause is an allowance a timed run may defer
          deferred,   \* some work was deferred
          used,       \* evaluations, passes and refinements after the grid
          caps,       \* their current caps
          shown       \* the most copies any published snapshot had

space == <<scene, halted, faults, phase, best, kept, reason, known, deferred,
           used, caps, shown>>

(* The members of a set in a strict total order (SetToSortSeq enumerates all   *)
(* sequences of the set).                                                      *)
Sorted(S, less(_, _)) ==
  [i \in 1..Cardinality(S) |-> CHOOSE x \in S : Cardinality({y \in S : less(y, x)}) = i - 1]

-----------------------------------------------------------------------------
(* What fits *)

Orientations == DOMAIN scene.solid

(* The units a copy fills. *)
Body(p) == {p[2] + s : s \in scene.solid[p[1]]}

Width(o) == Max(scene.solid[o]) + 1

Fits(p) == p \in Orientations \X (0..Length) /\ p[2] + Width(p[1]) <= Length

(* A layout the validator certifies: every copy inside, no two of them meet,   *)
(* and no pose it cannot decide (scene.dim).                                   *)
Valid(layout) ==
  /\ layout \cap scene.dim = {}
  /\ \A p \in layout : Fits(p)
  /\ \A p, q \in layout : p = q \/ Body(p) \cap Body(q) = {}

CanAdd(layout, p) == p \notin layout /\ Valid(layout \cup {p})

Extent(layout) ==
  IF layout = {} THEN 0
  ELSE Max({p[2] + Width(p[1]) : p \in layout}) - Min({p[2] : p \in layout})

(* The voxels a layout touches, and those an oriented solid touches at the     *)
(* lattice's origin.                                                           *)
Occupied(layout) == {c \div Pitch : c \in UNION {Body(p) : p \in layout}}

Kernel(o) == {s \div Pitch : s \in scene.solid[o]}

(* The lattice translations that keep the kernel inside the container. *)
Translations(o) == 0..((Length \div Pitch) - Max(Kernel(o)) - 1)

At(o, t) == <<o, t * Pitch>>

(* The voxels of a copy at a translation that are taken, counted one by one.   *)
Overlap(layout, o, t) == Cardinality({k + t : k \in Kernel(o)} \cap Occupied(layout))

(* The cells of a transform: room for every translation at which the kernel    *)
(* meets the container, so that none wraps around onto another.                *)
Padded(o) == (Length \div Pitch) + Max(Kernel(o))

(* The binary correlation of an orientation with a layout, for all those       *)
(* translations: cyclic, as the product of two transforms yields it.           *)
Correlation(layout, o) ==
  LET n == Padded(o)
      taken == Occupied(layout)
  IN [t \in -Max(Kernel(o))..((Length \div Pitch) - 1) |->
        Cardinality({k \in Kernel(o) : (t + k + n) % n \in taken})]

-----------------------------------------------------------------------------
(* The incumbent and the outcome of a phase *)

NoUse == [evals |-> 0, passes |-> 0, refine |-> 0]

(* A layout that is given has been validated before. *)
SpaceInit ==
  /\ scene \in Scenes /\ \A layout \in scene.initial : Valid(layout)
  /\ halted = FALSE /\ faults = 0 /\ phase = "start"
  /\ best = {} /\ kept = scene.initial
  /\ reason = "none" /\ known = FALSE /\ deferred = FALSE
  /\ used = NoUse /\ caps = scene.caps
  /\ shown = 0

(* More copies always win, even when the offer could not be scored; among      *)
(* equals only a scored offer does, over an unscored or a longer one.          *)
Takes(current, layout, scored) ==
  \A b \in current :
    \/ Cardinality(layout) > Cardinality(b.layout)
    \/ /\ Cardinality(layout) = Cardinality(b.layout)
       /\ scored
       /\ b.scored => Extent(layout) < Extent(b.layout)

Snapshot(layout, scored) == [layout |-> layout, scored |-> scored]

(* What may go wrong: scoring is denied, or the observer throws. *)
Issues == {"none", "scoring", "observer"}

(* At most scene.faults of them in one run: a bound of the model. *)
Fault == faults < scene.faults /\ faults' = faults + 1

(* An offer to the incumbent `current` and, when it is taken, its publication. *)
(* An offer that could not be scored is still taken by count and published.    *)
Offer(current, layout, issue) ==
  LET scored == issue # "scoring"
      taken == Takes(current, layout, scored)
  IN /\ IF issue = "none" THEN UNCHANGED faults ELSE Fault
     /\ issue = "observer" => taken
     /\ IF taken
        THEN /\ best' = {Snapshot(layout, scored)}
             /\ kept' = {layout}
             /\ shown' = Max({shown, Cardinality(layout)})
        ELSE UNCHANGED <<best, kept, shown>>

(* The operation ends with a reason and the next one takes over. *)
End(next, why, k) == phase' = next /\ reason' = why /\ known' = k

(* How an offer that went wrong ends the operation. *)
EndOffer(next, issue) ==
  IF issue = "scoring"
  THEN \E k \in BOOLEAN : End(next, "resource", k)
  ELSE End(next, "error", FALSE)

Going == UNCHANGED <<phase, reason, known>>

(* The control of the run: a stop request or the deadline.  It is read at      *)
(* every boundary, so it can take effect between any two steps.                *)
Halt ==
  /\ ~halted /\ phase # "done"
  /\ halted' = TRUE
  /\ UNCHANGED <<scene, faults, phase, best, kept, reason, known, deferred,
                 used, caps, shown>>

(* Counters *)
Use(evals, passes, refine) ==
  used' = [evals |-> used.evals + evals, passes |-> used.passes + passes,
           refine |-> used.refine + refine]
=============================================================================
