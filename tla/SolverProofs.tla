------------------------------ MODULE SolverProofs ------------------------------
(* Proofs about the solver: how a run of it is searched (SpectralSearch and    *)
(* what it extends) and how what it finds is published (Publication), for      *)
(* every set of scenes and every value of the bounds.                          *)
(*                                                                             *)
(* The search: the best layout of a run is certified and is not lost, what the *)
(* correlation pages hold is what is read, the grid takes the poses a greedy   *)
(* choice takes, the gap filler's masks hide no free position, and a trial     *)
(* that put nothing off has tried every pose it could have added.              *)
(*                                                                             *)
(* The way of a packing: the inductive invariant of the gate, the files, the   *)
(* wire and the core, and the refinement of Showcase.                          *)
EXTENDS SpectralSearch, Publication, FiniteSetTheorems, SequenceTheorems,
        WellFoundedInduction, TLAPS

-----------------------------------------------------------------------------
(* Layouts                                                                     *)

(* What the validator certifies, as a set.                                     *)
Layouts == {l \in SUBSET (Orientations \X (0..Length)) : Valid(l)}

(* A certified layout is one of them.                                          *)
LEMMA ValidIsLayout ==
  ASSUME NEW l
  PROVE  Valid(l) <=> l \in Layouts
  BY DEF Layouts, Valid, Fits

(* What is certified does not change during a run.                             *)
LEMMA LayoutsStay ==
  ASSUME scene' = scene
  PROVE  Layouts' = Layouts
  BY DEF Layouts, Valid, Fits, Body, Width, Orientations

(* A layout is finite.                                                         *)
LEMMA LayoutFinite ==
  ASSUME scene \in Scenes, NEW l \in Layouts
  PROVE  IsFiniteSet(l) /\ Cardinality(l) \in Nat
  <1>1. Orientations = 1..Len(scene.solid) /\ IsFiniteSet(Orientations)
    <2>1. Orientations = 1..Len(scene.solid)
      BY SceneAssumption DEF Orientations
    <2>2. Len(scene.solid) \in Nat
      BY SceneAssumption
    <2> QED
      BY <2>1, <2>2, FS_Interval
  <1>2. IsFiniteSet(0..Length)
    BY SpaceAssumption, FS_Interval
  <1>3. IsFiniteSet(Orientations \X (0..Length))
    BY <1>1, <1>2, FS_Product
  <1> QED
    BY <1>3, FS_Subset, FS_CardinalityType DEF Layouts

(* Nothing is certified too.                                                   *)
LEMMA EmptyIsLayout ==
  {} \in Layouts
  BY DEF Layouts, Valid

(* The larger of two sizes.                                                    *)
LEMMA LargerOfTwo ==
  ASSUME NEW m \in Nat, NEW n \in Nat
  PROVE  Max({m, n}) \in Nat /\ Max({m, n}) >= m /\ Max({m, n}) >= n
                             /\ Max({m, n}) \in {m, n}
  <1>1. \E x \in {m, n} : \A y \in {m, n} : x >= y
    OBVIOUS
  <1>2. Max({m, n}) \in {m, n} /\ \A y \in {m, n} : Max({m, n}) >= y
    BY <1>1 DEF Max
  <1> QED
    BY <1>2

-----------------------------------------------------------------------------
(* The incumbents: what is kept covers what was shown and given                *)

AtMostOne(S) == \A x, y \in S : x = y

(* One of the layouts has the copies that were shown, and one those of the     *)
(* layout that was given.                                                      *)
Covers(layouts) ==
  /\ shown > 0 => \E l \in layouts : Cardinality(l) >= shown
  /\ \A i \in scene.initial : \E l \in layouts : Cardinality(l) >= Cardinality(i)

(* What the incumbent of the run and the retained layout are at all times.     *)
Keeping ==
  /\ scene \in Scenes
  /\ scene.initial \subseteq Layouts
  /\ shown \in Nat
  /\ AtMostOne(best) /\ \A b \in best : b.layout \in Layouts
  /\ AtMostOne(kept) /\ kept \subseteq Layouts
  /\ \A b \in best : kept = {b.layout}
  /\ Covers(kept)

(* The phases that need an incumbent.                                          *)
Seeded == {"grid", "stagger", "staggerTrial", "planner", "compaction"}

(* Without an incumbent nothing was shown, and a phase that needs one is not   *)
(* entered.                                                                    *)
Seeding ==
  /\ best = {} /\ phase # "done" => kept = scene.initial /\ shown = 0
  /\ phase \in Seeded => best # {}
  /\ phase = "afterGrid" /\ best = {} => reason = "resource"

(* The layouts the compaction works on are certified.                          *)
Compacting ==
  /\ "layout" \in DOMAIN comp /\ comp.layout \in Layouts
  /\ "base" \in DOMAIN fill /\ fill.base \in Layouts

(* The trials' incumbent is the run's as soon as it has one, and it has one    *)
(* before the first round.                                                     *)
Trying ==
  /\ "step" \in DOMAIN trial
  /\ AtMostOne(retained) /\ retained \subseteq Layouts
  /\ phase \notin {"trial", "done"} => inc = {}
  /\ phase = "trial" =>
       /\ IF inc = {} THEN kept = retained ELSE best = inc
       /\ trial.step = "retained" => inc = {}
       /\ trial.step = "empty" /\ inc = {} => retained = {}
       /\ trial.step \notin {"retained", "empty"} => inc # {}

BestInv == Keeping /\ Seeding /\ Compacting /\ Trying

(* What no step of an incumbent touches keeps the properties.                  *)
LEMMA KeepingStays ==
  ASSUME Keeping, UNCHANGED <<scene, shown, best, kept>>
  PROVE  Keeping'
  <1>1. Layouts' = Layouts
    BY LayoutsStay
  <1> QED
    BY <1>1 DEF Keeping, Covers, AtMostOne

(* An offer to the incumbent, or to none that knows of a smaller layout.       *)
LEMMA OfferKeeps ==
  ASSUME Keeping, scene' = scene,
         NEW current, current = best \/ current = {},
         NEW layout, layout \in Layouts,
         current = {} => \A k \in kept : Cardinality(layout) >= Cardinality(k),
         NEW issue, Offer(current, layout, issue)
  PROVE  /\ Keeping'
         /\ current = {} => best' # {}
         /\ Takes(current, layout, issue # "scoring") => best' # {}
         /\ ~Takes(current, layout, issue # "scoring") => UNCHANGED <<best, kept, shown>>
  <1>1. Layouts' = Layouts
    BY LayoutsStay
  <1> DEFINE taken == Takes(current, layout, issue # "scoring")
             snap == Snapshot(layout, issue # "scoring")
  <1>2. current = {} => taken
    BY DEF Takes
  <1>3. CASE ~taken
    <2>1. UNCHANGED <<best, kept, shown>>
      BY <1>3 DEF Offer
    <2> QED
      BY <1>2, <1>3, <2>1, KeepingStays
  <1>4. CASE taken
    <2>1. best' = {snap} /\ kept' = {layout} /\ shown' = Max({shown, Cardinality(layout)})
      BY <1>4 DEF Offer
    <2>2. snap.layout = layout
      BY DEF Snapshot
    <2>3. /\ Cardinality(layout) \in Nat
          /\ \A l \in Layouts : Cardinality(l) \in Nat
      BY LayoutFinite DEF Keeping
    <2>4. /\ shown' \in Nat /\ shown' \in {shown, Cardinality(layout)}
      BY <2>1, <2>3, LargerOfTwo DEF Keeping
    <2>5. \A k \in kept : Cardinality(layout) >= Cardinality(k)
      <3>1. CASE current = {}
        BY <3>1
      <3>2. CASE current # {}
        <4>1. PICK b \in best : b \in current
          BY <3>2
        <4>2. kept = {b.layout} /\ b.layout \in Layouts
          BY DEF Keeping
        <4>3. \/ Cardinality(layout) > Cardinality(b.layout)
              \/ Cardinality(layout) = Cardinality(b.layout)
          BY <1>4, <4>1 DEF Takes
        <4> QED
          BY <4>2, <4>3, <2>3
      <3> QED
        BY <3>1, <3>2
    <2>6. Covers({layout})'
      <3>1. ASSUME shown' > 0
            PROVE  Cardinality(layout) >= shown'
        <4>1. CASE shown' = Cardinality(layout)
          BY <2>3, <4>1
        <4>2. CASE shown' = shown
          <5>1. PICK k \in kept : Cardinality(k) >= shown
            BY <3>1, <4>2 DEF Keeping, Covers
          <5> QED
            BY <4>2, <5>1, <2>3, <2>4, <2>5 DEF Keeping
        <4> QED
          BY <4>1, <4>2, <2>4
      <3>2. ASSUME NEW i \in scene.initial
            PROVE  Cardinality(layout) >= Cardinality(i)
        <4>1. PICK k \in kept : Cardinality(k) >= Cardinality(i)
          BY DEF Keeping, Covers
        <4>2. Cardinality(i) \in Nat /\ Cardinality(k) \in Nat
          BY <2>3 DEF Keeping
        <4> QED
          BY <4>1, <4>2, <2>3, <2>5
      <3> QED
        BY <3>1, <3>2 DEF Covers
    <2>7. Keeping'
      BY <1>1, <2>1, <2>2, <2>4, <2>6 DEF Keeping, AtMostOne
    <2> QED
      BY <1>4, <2>1, <2>7
  <1> QED
    BY <1>3, <1>4

(* A step that leaves the incumbents before the trials.                        *)
LEMMA QuietStep ==
  ASSUME BestInv, UNCHANGED <<scene, shown, best, kept, retained, inc>>,
         phase \notin {"trial", "done"}, phase' # "trial",
         comp'.layout \in Layouts, "layout" \in DOMAIN comp',
         fill'.base \in Layouts, "base" \in DOMAIN fill',
         "step" \in DOMAIN trial',
         phase' \in Seeded => best # {},
         phase' = "afterGrid" /\ best = {} => reason' = "resource"
  PROVE  BestInv'
  <1>1. Layouts' = Layouts
    BY LayoutsStay
  <1>2. Keeping'
    BY KeepingStays DEF BestInv
  <1>3. Seeding'
    BY DEF BestInv, Seeding
  <1>4. Compacting'
    BY <1>1 DEF Compacting
  <1>5. Trying'
    BY <1>1 DEF BestInv, Trying, AtMostOne
  <1> QED
    BY <1>2, <1>3, <1>4, <1>5 DEF BestInv

(* A phase that offers a certified layout to the incumbent of the run.         *)
LEMMA PhaseOffers ==
  ASSUME BestInv, phase \notin {"trial", "done"}, UNCHANGED <<scene, retained, inc, trial>>,
         NEW layout, layout \in Layouts, NEW issue, Offer(best, layout, issue),
         best # {} \/ \A k \in kept : Cardinality(layout) >= Cardinality(k),
         phase' # "trial",
         comp'.layout \in Layouts, "layout" \in DOMAIN comp',
         fill'.base \in Layouts, "base" \in DOMAIN fill'
  PROVE  BestInv'
  <1>1. Layouts' = Layouts
    BY LayoutsStay
  <1>2. Keeping' /\ best' # {}
    <2>1. CASE best = {}
      BY <2>1, OfferKeeps DEF BestInv
    <2>2. CASE best # {}
      BY <2>2, OfferKeeps DEF BestInv, Offer
    <2> QED
      BY <2>1, <2>2
  <1>3. Seeding'
    BY <1>2 DEF Seeding
  <1>4. Compacting'
    BY <1>1 DEF Compacting
  <1>5. Trying'
    BY <1>1 DEF BestInv, Trying, AtMostOne
  <1> QED
    BY <1>2, <1>3, <1>4, <1>5 DEF BestInv

(* The grid and the stagger.                                                   *)
LEMMA BaselineKeepsBest ==
  ASSUME BestInv, BaselineStep, UNCHANGED <<turn, comp, fill, retained, inc, trial>>
  PROVE  BestInv'
  <1>0. /\ comp'.layout \in Layouts /\ "layout" \in DOMAIN comp'
        /\ fill'.base \in Layouts /\ "base" \in DOMAIN fill'
        /\ "step" \in DOMAIN trial'
    BY DEF BestInv, Compacting, Trying
  <1>1. CASE StartGrid
    <2>1. scene' = scene /\ phase = "start"
      BY <1>1 DEF StartGrid
    <2>2. ASSUME NEW issue \in Issues,
                 Offer(best, IF scene.initial = {} THEN {}
                             ELSE CHOOSE l \in scene.initial : TRUE, issue),
                 IF issue = "none" THEN phase' = "grid" ELSE EndOffer("afterGrid", issue)
          PROVE  BestInv'
      <3> DEFINE first == IF scene.initial = {} THEN {} ELSE CHOOSE l \in scene.initial : TRUE
      <3>1. first \in Layouts
        BY EmptyIsLayout DEF BestInv, Keeping
      <3>2. best = {} => \A k \in kept : Cardinality(first) >= Cardinality(k)
        <4>1. SUFFICES ASSUME best = {}, NEW k \in kept
                       PROVE  Cardinality(first) >= Cardinality(k)
          OBVIOUS
        <4>2. kept = scene.initial /\ AtMostOne(kept) /\ kept \subseteq Layouts
          BY <2>1, <4>1 DEF BestInv, Seeding, Keeping
        <4>3. first = k /\ k \in Layouts
          BY <4>1, <4>2 DEF AtMostOne
        <4>4. Cardinality(k) \in Nat
          BY <4>3, LayoutFinite DEF BestInv, Keeping
        <4>5. Cardinality(first) = Cardinality(k)
          BY <4>3
        <4> HIDE DEF first
        <4> QED
          BY <4>4, <4>5
      <3>3. phase' # "trial"
        BY <2>2 DEF EndOffer, End
      <3> QED
        BY <1>0, <2>1, <2>2, <3>1, <3>2, <3>3, PhaseOffers
    <2>3. ASSUME NEW k \in BOOLEAN, End("afterGrid", "resource", k),
                 UNCHANGED <<best, kept, shown>>
          PROVE  BestInv'
      BY <1>0, <2>1, <2>3, QuietStep DEF End, Seeded
    <2> QED
      BY <1>1, <2>2, <2>3 DEF StartGrid
  <1>2. CASE GridSeed
    BY <1>0, <1>2, QuietStep DEF GridSeed, End, Going, BestInv, Seeding, Seeded
  <1>3. CASE GridTake
    BY <1>0, <1>3, QuietStep DEF GridTake, End, Going, BestInv, Seeding, Seeded
  <1>4. ASSUME NEW batch, NEW passed, NEW failed, Submit(batch, passed, failed),
               scene' = scene, phase = "grid"
        PROVE  BestInv'
    <2>1. best # {}
      BY <1>4 DEF BestInv, Seeding, Seeded
    <2> DEFINE layout == grid.working \cup ToSet(batch)
    <2>2. CASE ~(\E issue \in Issues : Valid(layout) /\ Offer(best, layout, issue))
      BY <1>0, <1>4, <2>1, <2>2, QuietStep DEF Submit, End, Going, Seeded
    <2>3. CASE \E issue \in Issues : Valid(layout) /\ Offer(best, layout, issue)
               /\ phase' \in {"grid", "afterGrid"}
      BY <1>0, <1>4, <2>1, <2>3, PhaseOffers, ValidIsLayout
    <2>4. phase' \in {"grid", "afterGrid"}
      BY <1>4 DEF Submit, End, EndOffer, Going
    <2> QED
      BY <2>2, <2>3, <2>4
  <1>5. CASE GridFlush \/ GridRetry
    BY <1>4, <1>5 DEF GridFlush, GridRetry
  <1>6. CASE GridEndSeed
    BY <1>0, <1>6, QuietStep DEF GridEndSeed, End, Going, BestInv, Seeding, Seeded
  <1>7. CASE GridDenied
    BY <1>0, <1>7, QuietStep DEF GridDenied, End, BestInv, Seeding, Seeded
  <1>8. CASE AfterGrid
    BY <1>0, <1>8, QuietStep DEF AfterGrid, Deferrable, Defer, BestInv, Seeding, Seeded
  <1>9. CASE StaggerPlan
    BY <1>0, <1>9, QuietStep DEF StaggerPlan, BestInv, Seeding, Seeded
  <1>10. CASE StaggerTrial
    <2>1. best # {} /\ scene' = scene
      BY <1>10 DEF StaggerTrial, BestInv, Seeding, Seeded
    <2>2. CASE UNCHANGED <<best, kept, shown>> /\ phase' \in {"staggerTrial", "afterStagger"}
      BY <1>0, <1>10, <2>1, <2>2, QuietStep DEF StaggerTrial
    <2>3. CASE \E issue \in Issues : /\ Valid(Head(plan)) /\ Offer(best, Head(plan), issue)
                                     /\ phase' \in {"staggerTrial", "afterStagger"}
      BY <1>0, <1>10, <2>1, <2>3, PhaseOffers, ValidIsLayout DEF StaggerTrial
    <2> QED
      BY <1>10, <2>2, <2>3 DEF StaggerTrial, End, EndOffer, Going
  <1>11. CASE StaggerDenied
    BY <1>0, <1>11, QuietStep DEF StaggerDenied, End, BestInv, Seeding, Seeded
  <1>12. CASE AfterStagger
    BY <1>0, <1>12, QuietStep DEF AfterStagger, Deferrable, Defer, BestInv, Seeding, Seeded
  <1>13. CASE BaselineInterrupted
    BY <1>0, <1>13, QuietStep DEF BaselineInterrupted, End, BestInv, Seeding, Seeded
  <1> QED
    BY <1>1, <1>2, <1>3, <1>5, <1>6, <1>7, <1>8, <1>9, <1>10, <1>11, <1>12, <1>13
       DEF BaselineStep

(* The layout searches, but for the compaction.                                *)
LEMMA PlannersKeepBest ==
  ASSUME BestInv, NextLayout \/ SlabTrial \/ BlockTrial \/ StaggerPairTrial \/ PlannerDenied
                  \/ AfterLayout \/ LayoutInterrupted,
         UNCHANGED <<retained, inc, trial>>
  PROVE  BestInv'
  <1>0. /\ comp.layout \in Layouts /\ "layout" \in DOMAIN comp
        /\ fill.base \in Layouts /\ "base" \in DOMAIN fill
        /\ "step" \in DOMAIN trial
        /\ NoCompaction.layout \in Layouts /\ "layout" \in DOMAIN NoCompaction
    BY EmptyIsLayout DEF BestInv, Compacting, Trying, NoCompaction
  <1>1. BestLayout \in Layouts
    <2>1. CASE best = {}
      BY <2>1, EmptyIsLayout DEF BestLayout
    <2>2. CASE best # {}
      <3>1. PICK b \in best : best = {b} /\ b.layout \in Layouts
        BY <2>2 DEF BestInv, Keeping, AtMostOne
      <3>2. BestLayout = b.layout
        BY <3>1 DEF BestLayout
      <3> QED
        BY <3>1, <3>2
    <2> QED
      BY <2>1, <2>2
  <1>2. CASE NextLayout
    <2>1. /\ UNCHANGED <<scene, best, kept, shown, fill>> /\ phase = "layouts"
          /\ phase' \in {"entry", "afterLayout", "compaction", "planner"}
          /\ phase' \in {"compaction", "planner"} => best # {}
      BY <1>2 DEF NextLayout, End
    <2>2. comp' = comp \/ comp' = [NoCompaction EXCEPT !.step = "sweep", !.layout = BestLayout]
      BY <1>2 DEF NextLayout
    <2>3. comp'.layout \in Layouts /\ "layout" \in DOMAIN comp'
      BY <1>0, <1>1, <2>2 DEF NoCompaction
    <2> QED
      BY <1>0, <2>1, <2>3, QuietStep DEF Seeded
  <1>3. CASE SlabTrial
    <2>1. /\ best # {} /\ UNCHANGED <<scene, comp, fill>> /\ phase = "planner"
          /\ phase' \in {"planner", "afterLayout"}
      BY <1>3 DEF SlabTrial, EndPlanner, End, EndOffer, Going, BestInv, Seeding, Seeded
    <2>2. CASE UNCHANGED <<best, kept, shown>>
      BY <1>0, <2>1, <2>2, QuietStep
    <2>3. CASE \E issue \in Issues : Valid(Head(plan)) /\ Offer(best, Head(plan), issue)
      BY <1>0, <2>1, <2>3, PhaseOffers, ValidIsLayout
    <2> QED
      BY <1>3, <2>2, <2>3 DEF SlabTrial
  <1>4. ASSUME NEW found, TryNext(found)
        PROVE  BestInv'
    <2>1. /\ best # {} /\ UNCHANGED <<scene, comp, fill>> /\ phase = "planner"
      BY <1>4 DEF TryNext, BestInv, Seeding, Seeded
    <2>2. CASE UNCHANGED <<best, kept, shown>> /\ phase' \in {"planner", "afterLayout"}
      BY <1>0, <2>1, <2>2, QuietStep
    <2>3. ASSUME NEW layout, Check(layout)
          PROVE  BestInv'
      <3>1. phase' \in {"planner", "afterLayout"}
        BY <2>1, <2>3 DEF Check, End, EndOffer, Going
      <3>2. CASE \E issue \in Issues : Valid(layout) /\ Offer(best, layout, issue)
        BY <1>0, <2>1, <3>1, <3>2, PhaseOffers, ValidIsLayout
      <3> QED
        BY <2>2, <2>3, <3>1, <3>2 DEF Check
    <2> QED
      BY <1>4, <2>1, <2>2, <2>3 DEF TryNext, EndPlanner, End, Going
  <1>5. CASE BlockTrial \/ StaggerPairTrial
    BY <1>4, <1>5 DEF BlockTrial, StaggerPairTrial
  <1>6. CASE PlannerDenied
    BY <1>0, <1>6, QuietStep DEF PlannerDenied, EndPlanner, End, Seeded
  <1>7. CASE AfterLayout
    BY <1>0, <1>7, QuietStep DEF AfterLayout, Seeded
  <1>8. CASE LayoutInterrupted
    BY <1>0, <1>8, QuietStep DEF LayoutInterrupted, End, Seeded
  <1> QED
    BY <1>2, <1>3, <1>5, <1>6, <1>7, <1>8

(* The compaction: what it accepts is certified.                               *)
LEMMA CompactionKeepsBest ==
  ASSUME BestInv, Sweep \/ Contract \/ Slide \/ Drop \/ SweepCut \/ SettleLayout
                  \/ FillStart \/ FillStep \/ FillEnds \/ FillOffer \/ Greedier
                  \/ CompactionDenied,
         UNCHANGED <<retained, inc, trial>>
  PROVE  BestInv'
  <1>0. /\ comp.layout \in Layouts /\ "layout" \in DOMAIN comp
        /\ fill.base \in Layouts /\ "base" \in DOMAIN fill
        /\ "step" \in DOMAIN trial
        /\ NoCompaction.layout \in Layouts /\ "layout" \in DOMAIN NoCompaction
        /\ NoFill.base \in Layouts /\ "base" \in DOMAIN NoFill
    BY EmptyIsLayout DEF BestInv, Compacting, Trying, NoCompaction, NoFill
  <1>1. phase = "compaction" /\ scene' = scene /\ best # {}
    <2>1. phase = "compaction" /\ scene' = scene
      BY DEF Sweep, Contract, Slide, Drop, SweepCut, SettleLayout, FillStart, FillStep, FillEnds,
             FillOffer, Greedier, CompactionDenied
    <2> QED
      BY <2>1 DEF BestInv, Seeding, Seeded
  <1>2. ASSUME UNCHANGED <<best, kept, shown>>, phase' \in {"compaction", "afterLayout"},
               comp'.layout \in Layouts, "layout" \in DOMAIN comp',
               fill'.base \in Layouts, "base" \in DOMAIN fill'
        PROVE  BestInv'
    BY <1>0, <1>1, <1>2, QuietStep
  <1>3. CASE Sweep
    <2>1. /\ UNCHANGED <<best, kept, shown, fill>> /\ phase' \in {"compaction", "afterLayout"}
      BY <1>1, <1>3 DEF Sweep, End, Going
    <2>2. \/ comp' = CompStep("fill") \/ comp' = NoCompaction
          \/ comp' = [comp EXCEPT !.step = "contract", !.tries = 0, !.original = comp.layout,
                                  !.low = 0, !.high = 2^(Tries - 1)]
      BY <1>3 DEF Sweep
    <2>3. comp'.layout \in Layouts /\ "layout" \in DOMAIN comp'
      BY <1>0, <2>2 DEF CompStep
    <2> QED
      BY <1>0, <1>2, <2>1, <2>3
  <1>4. ASSUME NEW proposal, NEW taken, NEW rejected, Accept(proposal, taken, rejected),
               taken.layout \in Layouts, "layout" \in DOMAIN taken,
               rejected.layout \in Layouts, "layout" \in DOMAIN rejected
        PROVE  comp'.layout \in Layouts /\ "layout" \in DOMAIN comp'
    <2>1. \/ comp' = rejected \/ comp' = [comp EXCEPT !.stopped = TRUE, !.step = "settle"]
          \/ Valid(proposal) /\ comp' = [taken EXCEPT !.layout = proposal]
      BY <1>4 DEF Accept
    <2> QED
      BY <1>0, <1>4, <2>1, ValidIsLayout
  <1>5. CASE Contract
    <2>1. UNCHANGED <<best, kept, shown, fill, phase>>
      BY <1>5 DEF Contract, Going
    <2> DEFINE parts == IF comp.tries = 0 THEN comp.high ELSE (comp.low + comp.high) \div 2
               tried == [comp EXCEPT !.tries = @ + 1]
               taken == IF comp.tries = 0 THEN [tried EXCEPT !.step = "slide"]
                        ELSE [tried EXCEPT !.low = parts]
               rejected == [tried EXCEPT !.high = parts]
    <2>2. /\ taken.layout \in Layouts /\ "layout" \in DOMAIN taken
          /\ rejected.layout \in Layouts /\ "layout" \in DOMAIN rejected
      BY <1>0
    <2>3. comp' = CompStep("slide") \/ Accept(Pulled(comp.original, parts), taken, rejected)
      BY <1>5 DEF Contract
    <2> HIDE DEF parts, taken, rejected, tried
    <2>4. comp'.layout \in Layouts /\ "layout" \in DOMAIN comp'
      BY <1>0, <1>4, <2>2, <2>3 DEF CompStep
    <2> QED
      BY <1>0, <1>1, <1>2, <2>1, <2>4
  <1>6. CASE Slide
    <2>1. UNCHANGED <<best, kept, shown, fill, phase>>
      BY <1>6 DEF Slide, Going
    <2> DEFINE drop == [comp EXCEPT !.step = "drop", !.turnOf = 1]
    <2>2. /\ drop.layout \in Layouts /\ "layout" \in DOMAIN drop
          /\ CompStep("settle").layout \in Layouts /\ "layout" \in DOMAIN CompStep("settle")
      BY <1>0 DEF CompStep
    <2>3. comp' = drop \/ Accept(Slid(comp.layout, Direction), drop, CompStep("settle"))
      BY <1>6 DEF Slide
    <2> HIDE DEF drop
    <2>4. comp'.layout \in Layouts /\ "layout" \in DOMAIN comp'
      BY <1>4, <2>2, <2>3
    <2> QED
      BY <1>0, <1>1, <1>2, <2>1, <2>4
  <1>7. CASE Drop
    <2>1. UNCHANGED <<best, kept, shown, fill, phase>>
      BY <1>7 DEF Drop, Going
    <2> DEFINE next == [comp EXCEPT !.turnOf = @ + 1]
    <2>2. next.layout \in Layouts /\ "layout" \in DOMAIN next
      BY <1>0
    <2>3. \/ comp' = CompStep("settle") \/ comp' = next
          \/ Accept(comp.layout \cup Drops(comp.layout, comp.turnOf, Direction), comp, next)
      BY <1>7 DEF Drop
    <2> HIDE DEF next
    <2>4. comp'.layout \in Layouts /\ "layout" \in DOMAIN comp'
      BY <1>0, <1>4, <2>2, <2>3 DEF CompStep
    <2> QED
      BY <1>0, <1>1, <1>2, <2>1, <2>4
  <1>8. CASE SweepCut
    BY <1>0, <1>1, <1>2, <1>8 DEF SweepCut, Going
  <1>9. ASSUME NEW layout, layout \in Layouts, NEW next, OfferAccepted(layout, next),
               next.layout \in Layouts, "layout" \in DOMAIN next,
               fill'.base \in Layouts, "base" \in DOMAIN fill'
        PROVE  BestInv'
    <2>1. /\ phase' \in {"compaction", "afterLayout"}
          /\ comp'.layout \in Layouts /\ "layout" \in DOMAIN comp'
      BY <1>0, <1>1, <1>9 DEF OfferAccepted, End, EndOffer, Going
    <2>2. CASE UNCHANGED <<best, kept, shown>>
      BY <1>2, <1>9, <2>1, <2>2
    <2>3. CASE \E issue \in Issues : Offer(best, layout, issue)
      BY <1>1, <1>9, <2>1, <2>3, PhaseOffers
    <2> QED
      BY <1>9, <2>2, <2>3 DEF OfferAccepted
  <1>10. CASE SettleLayout
    <2> DEFINE next == IF comp.stopped THEN CompStep("fill")
                       ELSE [comp EXCEPT !.step = "sweep", !.sweep = @ + 1]
    <2>1. next.layout \in Layouts /\ "layout" \in DOMAIN next
      BY <1>0 DEF CompStep
    <2>2. OfferAccepted(comp.layout, next) /\ fill' = fill
      BY <1>10 DEF SettleLayout
    <2> HIDE DEF next
    <2> QED
      BY <1>0, <1>9, <2>1, <2>2
  <1>11. CASE FillStart
    <2>1. /\ UNCHANGED <<best, kept, shown, phase>>
          /\ comp' = CompStep("filling") \/ comp' = CompStep("filled")
      BY <1>11 DEF FillStart, Going
    <2>2. /\ fill'.base \in {comp.layout, {}} /\ "base" \in DOMAIN fill'
      BY <1>11 DEF FillStart
    <2>3. comp'.layout \in Layouts /\ "layout" \in DOMAIN comp'
      BY <1>0, <2>1 DEF CompStep
    <2> QED
      BY <1>0, <1>1, <1>2, <2>1, <2>2, <2>3, EmptyIsLayout
  <1>12. CASE FillStep
    <2> DEFINE pose == At(Lowest.o, Lowest.t)
    <2>1. UNCHANGED <<best, kept, shown, phase, comp>>
      BY <1>12 DEF FillStep, Going
    <2>2. \/ /\ CanAdd(fill.base, pose)
             /\ fill' = [base |-> fill.base \cup {pose},
                         free |-> Inserted(fill.free, Lowest.o, Lowest.t)]
          \/ fill' = [fill EXCEPT !.free[Lowest.o] = @ \ {Lowest.t}]
      BY <1>12 DEF FillStep
    <2>3. fill'.base \in Layouts /\ "base" \in DOMAIN fill'
      BY <1>0, <2>2, ValidIsLayout DEF CanAdd
    <2> QED
      BY <1>0, <1>1, <1>2, <2>1, <2>3
  <1>13. CASE FillEnds
    BY <1>0, <1>1, <1>2, <1>13 DEF FillEnds, CompStep, Going
  <1>14. CASE FillOffer
    <2> DEFINE next == [comp EXCEPT !.step = "greedy", !.layout = fill.base]
    <2>1. fill' = NoFill /\ next.layout \in Layouts /\ "layout" \in DOMAIN next
      BY <1>0, <1>14 DEF FillOffer
    <2>2. \/ OfferAccepted(fill.base, next)
          \/ UNCHANGED <<phase, best, kept, shown>> /\ comp' = CompStep("greedy")
      BY <1>14 DEF FillOffer, Going
    <2>3. CASE OfferAccepted(fill.base, next)
      <3> HIDE DEF next
      <3> QED
        BY <1>0, <1>9, <2>1, <2>3
    <2>4. CASE UNCHANGED <<phase, best, kept, shown>> /\ comp' = CompStep("greedy")
      BY <1>0, <1>1, <1>2, <2>1, <2>4 DEF CompStep
    <2> QED
      BY <2>2, <2>3, <2>4
  <1>15. CASE Greedier
    BY <1>0, <1>1, <1>2, <1>15 DEF Greedier, End, Going
  <1>16. CASE CompactionDenied
    BY <1>0, <1>1, <1>2, <1>16 DEF CompactionDenied, End
  <1> QED
    BY <1>3, <1>5, <1>6, <1>7, <1>8, <1>10, <1>11, <1>12, <1>13, <1>14, <1>15, <1>16

(* A step of the trials that leaves the incumbents.                            *)
LEMMA QuietTrial ==
  ASSUME BestInv, phase = "trial", UNCHANGED <<scene, comp, fill, retained, outcomeVars>>,
         "step" \in DOMAIN trial',
         \/ trial'.step = trial.step
         \/ trial'.step \notin {"retained", "empty"} /\ inc # {}
         \/ trial'.step = "empty" /\ retained = {} /\ trial.step = "retained"
  PROVE  BestInv'
  <1>1. Layouts' = Layouts
    BY LayoutsStay
  <1>2. Keeping'
    BY KeepingStays DEF BestInv, outcomeVars
  <1>3. Seeding'
    BY DEF BestInv, Seeding, outcomeVars
  <1>4. Compacting'
    BY <1>1 DEF BestInv, Compacting
  <1>5. UNCHANGED <<phase, best, kept, inc, retained>>
    BY DEF outcomeVars
  <1>6. Trying'
    BY <1>1, <1>5 DEF BestInv, Trying, AtMostOne
  <1> QED
    BY <1>2, <1>3, <1>4, <1>6 DEF BestInv

(* What is kept in a trial is what the run ends with.                          *)
LEMMA StopKeeps ==
  ASSUME BestInv, phase = "trial", NEW why, Stop(why),
         UNCHANGED <<scene, comp, fill, retained, trial>>
  PROVE  BestInv'
  <1>1. Layouts' = Layouts
    BY LayoutsStay
  <1>2. phase' = "done" /\ UNCHANGED <<shown, kept>> /\ best' = inc
    <2>1. Latest = kept
      <3>1. CASE inc = {}
        BY <3>1 DEF Latest, BestInv, Trying
      <3>2. CASE inc # {}
        <4>1. PICK b \in best : inc = {b} /\ kept = {b.layout}
          BY <3>2 DEF BestInv, Trying, Keeping, AtMostOne
        <4> QED
          BY <4>1, <3>2 DEF Latest
      <3> QED
        BY <3>1, <3>2
    <2> QED
      BY <2>1 DEF Stop, End
  <1>3. inc = {} \/ inc = best
    BY DEF BestInv, Trying
  <1>4. Keeping'
    <2>1. CASE inc = {}
      BY <1>1, <1>2, <2>1 DEF BestInv, Keeping, Covers, AtMostOne
    <2>2. CASE inc = best
      BY <1>2, <2>2, KeepingStays DEF BestInv
    <2> QED
      BY <1>3, <2>1, <2>2
  <1>5. Seeding' /\ Compacting' /\ Trying'
    BY <1>1, <1>2 DEF BestInv, Seeding, Seeded, Compacting, Trying, AtMostOne
  <1> QED
    BY <1>4, <1>5 DEF BestInv

(* An offer to the trials' incumbent.                                          *)
LEMMA TrialOffers ==
  ASSUME BestInv, phase = "trial", UNCHANGED <<scene, comp, fill, retained>>,
         NEW layout, layout \in Layouts, NEW next, OfferTrial(layout, next),
         inc # {} \/ \A k \in kept : Cardinality(layout) >= Cardinality(k),
         "step" \in DOMAIN next,
         next.step = "retained" => FALSE,
         next.step = "empty" => retained # {}
  PROVE  BestInv'
  <1>1. Layouts' = Layouts
    BY LayoutsStay
  <1>2. PICK issue \in Issues :
          /\ Offer(inc, layout, issue)
          /\ inc' = IF Takes(inc, layout, issue # "scoring") THEN best' ELSE inc
          /\ \/ trial' = next /\ phase' = "trial"
             \/ trial' = trial /\ phase' = "done"
    BY DEF OfferTrial, End, Going
  <1>3. inc = {} \/ inc = best
    BY DEF BestInv, Trying
  <1>4. /\ Keeping'
        /\ inc = {} => best' # {}
        /\ Takes(inc, layout, issue # "scoring") => best' # {}
        /\ ~Takes(inc, layout, issue # "scoring") => UNCHANGED <<best, kept, shown>>
    <2>1. inc = {} => \A k \in kept : Cardinality(layout) >= Cardinality(k)
      OBVIOUS
    <2> QED
      BY <1>2, <1>3, <2>1, OfferKeeps DEF BestInv
  <1>5. inc' = best' /\ inc' # {}
    <2>1. inc = {} => Takes(inc, layout, issue # "scoring")
      BY DEF Takes
    <2> QED
      BY <1>2, <1>3, <1>4, <2>1
  <1>6. Seeding'
    BY <1>2, <1>5 DEF Seeding, Seeded
  <1>7. Compacting'
    BY <1>1 DEF BestInv, Compacting
  <1>8. Trying'
    BY <1>1, <1>2, <1>5 DEF BestInv, Trying, AtMostOne
  <1> QED
    BY <1>4, <1>6, <1>7, <1>8 DEF BestInv

(* A proposal, whatever its verdict.                                           *)
LEMMA ProposalKeepsBest ==
  ASSUME BestInv, phase = "trial", UNCHANGED <<scene, comp, fill, retained>>,
         trial.step \notin {"retained", "empty"},
         NEW pose, NEW refinement, NEW rest, TryPose(pose, refinement, rest),
         "step" \in DOMAIN rest, rest.step = trial.step
  PROVE  BestInv'
  <1>0. inc # {} /\ "step" \in DOMAIN trial
    BY DEF BestInv, Trying
  <1>1. CASE CanAdd(working, pose) /\ working' = working \cup {pose}
             /\ OfferTrial(working', [trial EXCEPT !.step = "open"])
    <2>1. PICK layout : layout = working'
      OBVIOUS
    <2>2. PICK next : next = [trial EXCEPT !.step = "open"]
      OBVIOUS
    <2>3. layout \in Layouts /\ OfferTrial(layout, next)
      BY <1>1, <2>1, <2>2, ValidIsLayout DEF CanAdd
    <2>4. "step" \in DOMAIN next /\ next.step = "open"
      BY <1>0, <2>2
    <2> QED
      BY <1>0, <2>3, <2>4, TrialOffers
  <1>2. CASE trial' = rest /\ UNCHANGED outcomeVars
    BY <1>2, QuietTrial
  <1>3. CASE Defer /\ trial' = rest /\ UNCHANGED <<phase, best, kept, shown, inc>>
    <2>1. Layouts' = Layouts
      BY LayoutsStay
    <2>2. Keeping' /\ Seeding' /\ Compacting'
      BY <1>3, <2>1, KeepingStays DEF BestInv, Seeding, Seeded, Compacting
    <2>3. Trying'
      BY <1>0, <1>3, <2>1 DEF BestInv, Trying, AtMostOne
    <2> QED
      BY <2>2, <2>3 DEF BestInv
  <1>4. CASE (Stop("resource") \/ Stop("error")) /\ UNCHANGED trial
    BY <1>4, StopKeeps
  <1>5. PICK judged \in Verdicts(pose) :
          \/ /\ judged = "valid"
             /\ working' = working \cup {pose}
             /\ OfferTrial(working', [trial EXCEPT !.step = "open"])
          \/ trial' = rest /\ UNCHANGED outcomeVars
          \/ Defer /\ trial' = rest /\ UNCHANGED <<phase, best, kept, shown, inc>>
          \/ (Stop("resource") \/ Stop("error")) /\ UNCHANGED trial
    BY DEF TryPose
  <1>6. judged = "valid" => CanAdd(working, pose)
    BY <1>5 DEF Verdicts
  <1> QED
    BY <1>1, <1>2, <1>3, <1>4, <1>5, <1>6

(* The entry of the trials.                                                    *)
LEMMA EntryKeepsBest ==
  ASSUME BestInv, RunRefused \/ EnterTrials
  PROVE  BestInv'
  <1>0. /\ comp.layout \in Layouts /\ "layout" \in DOMAIN comp
        /\ fill.base \in Layouts /\ "base" \in DOMAIN fill
        /\ "step" \in DOMAIN trial
    BY DEF BestInv, Compacting, Trying
  <1>1. CASE RunRefused
    BY <1>0, <1>1, QuietStep DEF RunRefused, End, fixed, Seeded
  <1>2. CASE EnterTrials
    <2>1. Layouts' = Layouts
      BY <1>2, LayoutsStay DEF EnterTrials, fixed
    <2>2. retained' = kept
      <3>1. retained' = IF best # {} THEN {b.layout : b \in best} ELSE kept
        BY <1>2 DEF EnterTrials
      <3>2. CASE best # {}
        <4>1. PICK b \in best : best = {b} /\ kept = {b.layout}
          BY <3>2 DEF BestInv, Keeping, AtMostOne
        <4> QED
          BY <3>1, <3>2, <4>1
      <3> QED
        BY <3>1, <3>2
    <2>3. UNCHANGED <<scene, comp, fill, best, shown, inc>> /\ phase = "entry"
      BY <1>2 DEF EnterTrials, fixed
    <2>4. kept' = kept
      BY <1>2, <2>2 DEF EnterTrials
    <2>5. \/ phase' = "done" /\ trial' = trial
          \/ phase' = "trial" /\ trial' = Stepped("retained")
      BY <1>2 DEF EnterTrials, End
    <2>6. Keeping' /\ Seeding' /\ Compacting'
      BY <2>1, <2>3, <2>4, <2>5, KeepingStays DEF BestInv, Seeding, Seeded, Compacting
    <2>7. inc = {}
      BY <2>3 DEF BestInv, Trying
    <2>8. "step" \in DOMAIN trial' /\ (phase' = "trial" => trial'.step = "retained")
      BY <1>0, <2>5 DEF Stepped
    <2>9. AtMostOne(kept) /\ kept \subseteq Layouts
      BY DEF BestInv, Keeping
    <2>10. Trying'
      BY <2>1, <2>2, <2>3, <2>4, <2>5, <2>7, <2>8, <2>9 DEF Trying, AtMostOne
    <2> QED
      BY <2>6, <2>10 DEF BestInv
  <1> QED
    BY <1>1, <1>2

(* The two offers before the first round.                                      *)
LEMMA FirstOffersKeepBest ==
  ASSUME BestInv, OfferRetained \/ EmptyStart
  PROVE  BestInv'
  <1>0. /\ phase = "trial" /\ UNCHANGED <<scene, comp, fill, retained>>
        /\ "step" \in DOMAIN trial /\ \A n \in {1, 2} : "step" \in DOMAIN FreshTrial(n)
        /\ FreshTrial(1).step = "open"
    BY DEF OfferRetained, EmptyStart, InTrial, fixed, BestInv, Trying, FreshTrial
  <1>1. CASE OfferRetained
    <2>1. trial.step = "retained" /\ inc = {} /\ kept = retained
      BY <1>1 DEF OfferRetained, InTrial, BestInv, Trying
    <2>2. Stepped("empty").step = "empty" /\ "step" \in DOMAIN Stepped("empty")
      BY <1>0 DEF Stepped
    <2>3. CASE retained = {}
      <3>1. trial' = Stepped("empty") /\ UNCHANGED outcomeVars
        BY <1>1, <2>3 DEF OfferRetained
      <3> QED
        BY <1>0, <2>1, <2>2, <2>3, <3>1, QuietTrial
    <2>4. CASE retained # {}
      <3>1. PICK layout \in retained : OfferTrial(layout, Stepped("empty"))
        BY <1>1, <2>4 DEF OfferRetained
      <3>2. layout \in Layouts /\ kept = {layout}
        BY <2>1 DEF BestInv, Keeping, AtMostOne
      <3>3. Cardinality(layout) \in Nat
        BY <3>2, LayoutFinite DEF BestInv, Keeping
      <3>4. \A k \in kept : Cardinality(layout) >= Cardinality(k)
        BY <3>2, <3>3
      <3>5. PICK next : next = Stepped("empty")
        OBVIOUS
      <3> QED
        BY <1>0, <2>2, <2>4, <3>1, <3>2, <3>4, <3>5, TrialOffers
    <2> QED
      BY <2>3, <2>4
  <1>2. CASE EmptyStart
    <2>1. trial.step = "empty"
      BY <1>2 DEF EmptyStart, InTrial
    <2>2. CASE (Stop("resource") \/ Stop("error")) /\ UNCHANGED trial
      BY <1>0, <2>2, StopKeeps
    <2>3. CASE retained = {} /\ OfferTrial({}, FreshTrial(1))
      <3>1. PICK next : next = FreshTrial(1)
        OBVIOUS
      <3>2. inc # {} \/ kept = {}
        BY <1>0, <2>3 DEF BestInv, Trying
      <3> QED
        BY <1>0, <2>3, <3>1, <3>2, EmptyIsLayout, TrialOffers
    <2>4. CASE retained # {} /\ trial' = FreshTrial(1) /\ UNCHANGED outcomeVars
      <3>1. inc # {}
        BY <1>0, <2>1, <2>4 DEF BestInv, Trying
      <3> QED
        BY <1>0, <2>4, <3>1, QuietTrial
    <2> QED
      BY <1>2, <2>2, <2>3, <2>4 DEF EmptyStart
  <1> QED
    BY <1>1, <1>2

(* The rounds.                                                                 *)
LEMMA RoundsKeepBest ==
  ASSUME BestInv,
         \/ OpenRound \/ LoadPage \/ TakePage \/ PageRefused \/ Choose \/ LatticeDone
         \/ QueryFaces \/ TryFace \/ LoadLow \/ TakeLow \/ LowRefused \/ TryLow \/ LowDone
         \/ OutOfBudget \/ TrialDone \/ Interrupted \/ TrialThrows
  PROVE  BestInv'
  <1>0. /\ phase = "trial" /\ UNCHANGED <<scene, comp, fill, retained>>
        /\ "step" \in DOMAIN trial
    BY DEF OpenRound, LoadPage, TakePage, PageRefused, Refused, Choose, LatticeDone,
           QueryFaces, TryFace, LoadLow, TakeLow, LowRefused, TryLow, LowDone, OutOfBudget,
           TrialDone, Interrupted, TrialThrows, InTrial, fixed, BestInv, Trying
  <1>1. trial.step \notin {"retained", "empty"} => inc # {}
    BY <1>0 DEF BestInv, Trying
  <1>2. ASSUME UNCHANGED outcomeVars, trial.step \notin {"retained", "empty"},
               "step" \in DOMAIN trial', trial'.step \notin {"retained", "empty"}
        PROVE  BestInv'
    BY <1>0, <1>1, <1>2, QuietTrial
  <1>3. ASSUME NEW why, Stop(why), UNCHANGED trial
        PROVE  BestInv'
    BY <1>0, <1>3, StopKeeps
  <1>4. CASE OpenRound
    <2>1. CASE Stop("budget") /\ UNCHANGED trial
      BY <1>3, <2>1
    <2>2. CASE /\ trial' = [FreshTrial(trial.which) EXCEPT !.step = "ordinary"]
               /\ UNCHANGED outcomeVars
      BY <1>2, <1>4, <2>2 DEF FreshTrial, OpenRound, InTrial
    <2> QED
      BY <1>4, <2>1, <2>2 DEF OpenRound
  <1>5. CASE LoadPage \/ TakePage \/ LatticeDone \/ LoadLow \/ TakeLow \/ LowDone
    BY <1>0, <1>2, <1>5 DEF LoadPage, TakePage, LatticeDone, LoadLow, TakeLow, LowDone, InTrial,
                            Stepped
  <1>6. ASSUME NEW rest, Refused(rest), "step" \in DOMAIN rest, rest.step = trial.step
        PROVE  BestInv'
    <2>1. CASE trial' = rest /\ UNCHANGED outcomeVars
      BY <1>0, <1>6, <2>1, QuietTrial
    <2>2. CASE (Stop("resource") \/ Stop("error")) /\ UNCHANGED trial
      BY <1>3, <2>2
    <2> QED
      BY <1>6, <2>1, <2>2 DEF Refused
  <1>7. CASE PageRefused
    <2> DEFINE rest == [trial EXCEPT !.exhausted = @ \cup {build.o}, !.deferred = TRUE]
    <2>1. "step" \in DOMAIN rest /\ rest.step = trial.step /\ Refused(rest)
      BY <1>0, <1>7 DEF PageRefused
    <2> HIDE DEF rest
    <2> QED
      BY <1>6, <2>1
  <1>8. CASE LowRefused
    <2> DEFINE rest == [trial EXCEPT !.next = @ + 1, !.deferred = TRUE]
    <2>1. "step" \in DOMAIN rest /\ rest.step = trial.step /\ Refused(rest)
      BY <1>0, <1>8 DEF LowRefused
    <2> HIDE DEF rest
    <2> QED
      BY <1>6, <2>1
  <1>9. CASE Choose
    <2> DEFINE c == Head(trial.pages[FirstHead("ordinary")])
               rest == [trial EXCEPT !.pages[FirstHead("ordinary")] = Tail(@),
                                     !.cursors[FirstHead("ordinary")] = {c}]
    <2>1. "step" \in DOMAIN rest /\ rest.step = trial.step /\ trial.step = "ordinary"
      BY <1>0, <1>9 DEF Choose, InTrial
    <2>2. \/ TryPose(At(c.o, c.t), FALSE, rest)
          \/ trial' = rest /\ UNCHANGED outcomeVars
      BY <1>9 DEF Choose
    <2> HIDE DEF rest, c
    <2>3. CASE TryPose(At(c.o, c.t), FALSE, rest)
      BY <1>0, <2>1, <2>3, ProposalKeepsBest
    <2> QED
      BY <1>2, <2>1, <2>2, <2>3
  <1>10. CASE QueryFaces
    <2> DEFINE skip == [trial EXCEPT !.next = @ + 1]
    <2>1. trial.step = "query" /\ "step" \in DOMAIN skip /\ skip.step = "query"
      BY <1>0, <1>10 DEF QueryFaces, InTrial
    <2>2. CASE UNCHANGED outcomeVars /\ trial' = [trial EXCEPT !.step = "low", !.next = 1]
      BY <1>0, <1>2, <2>1, <2>2
    <2>3. CASE /\ UNCHANGED outcomeVars
               /\ trial' = [trial EXCEPT !.step = "faces", !.faces = Faces(trial.next)]
      BY <1>0, <1>2, <2>1, <2>3
    <2>4. CASE (Stop("resource") \/ Stop("error")) /\ UNCHANGED trial
      BY <1>3, <2>4
    <2>5. CASE trial' = skip /\ Defer /\ UNCHANGED <<phase, best, kept, shown, inc>>
      <3>1. Layouts' = Layouts
        BY <1>0, LayoutsStay
      <3>2. Keeping' /\ Seeding' /\ Compacting'
        BY <1>0, <2>5, <3>1, KeepingStays DEF BestInv, Seeding, Seeded, Compacting
      <3>3. "step" \in DOMAIN trial' /\ trial'.step = trial.step
        BY <2>1, <2>5
      <3>4. Trying'
        BY <1>0, <2>5, <3>1, <3>3 DEF BestInv, Trying, AtMostOne
      <3> QED
        BY <3>2, <3>4 DEF BestInv
    <2> QED
      BY <1>10, <2>2, <2>3, <2>4, <2>5 DEF QueryFaces
  <1>11. CASE TryFace
    <2> DEFINE rest == [trial EXCEPT !.faces = Tail(@)]
    <2>1. "step" \in DOMAIN rest /\ rest.step = trial.step /\ trial.step = "faces"
      BY <1>0, <1>11 DEF TryFace, InTrial
    <2>2. \/ TryPose(Head(trial.faces), TRUE, rest)
          \/ /\ trial' = [trial EXCEPT !.step = "query", !.next = @ + 1]
             /\ UNCHANGED outcomeVars
      BY <1>11 DEF TryFace
    <2> HIDE DEF rest
    <2>3. CASE TryPose(Head(trial.faces), TRUE, rest)
      BY <1>0, <2>1, <2>3, ProposalKeepsBest
    <2> QED
      BY <1>0, <1>2, <2>1, <2>2, <2>3
  <1>12. CASE TryLow
    <2> DEFINE c == Head(trial.pages[FirstHead("low")])
               rest == [trial EXCEPT !.pages[FirstHead("low")] = Tail(@)]
    <2>1. "step" \in DOMAIN rest /\ rest.step = trial.step /\ trial.step = "low"
      BY <1>0, <1>12 DEF TryLow, InTrial
    <2>2. TryPose(At(c.o, c.t), TRUE, rest)
      BY <1>12 DEF TryLow
    <2> HIDE DEF rest, c
    <2> QED
      BY <1>0, <2>1, <2>2, ProposalKeepsBest
  <1>13. CASE OutOfBudget \/ Interrupted
    BY <1>3, <1>13 DEF OutOfBudget, Interrupted
  <1>14. CASE TrialDone
    <2>1. CASE Stop("resource") /\ UNCHANGED trial
      BY <1>3, <2>1
    <2>2. CASE trial' = FreshTrial(2) /\ UNCHANGED outcomeVars
      <3>1. trial.step = "finish" /\ FreshTrial(2).step = "open" /\ "step" \in DOMAIN FreshTrial(2)
        BY <1>14 DEF TrialDone, InTrial, FreshTrial
      <3> QED
        BY <1>2, <2>2, <3>1
    <2>3. CASE /\ best' = inc /\ kept' = IF inc = {} THEN kept ELSE {b.layout : b \in inc}
               /\ \E why : End("done", why, FALSE)
               /\ UNCHANGED <<deferred, shown, inc, trial>>
      <3>1. kept' = Latest
        BY <1>0, <2>3 DEF Latest, BestInv, Trying
      <3>2. PICK why : Stop(why)
        BY <2>3, <3>1 DEF Stop
      <3> QED
        BY <1>3, <2>3, <3>2
    <2>4. \/ Stop("resource") /\ UNCHANGED trial
          \/ trial' = FreshTrial(2) /\ UNCHANGED outcomeVars
          \/ /\ best' = inc /\ kept' = IF inc = {} THEN kept ELSE {b.layout : b \in inc}
             /\ \E why : End("done", why, FALSE)
             /\ UNCHANGED <<deferred, shown, inc, trial>>
      BY <1>14 DEF TrialDone
    <2> QED
      BY <2>1, <2>2, <2>3, <2>4
  <1>15. CASE TrialThrows
    <2>1. Layouts' = Layouts
      BY <1>0, LayoutsStay
    <2>2. /\ phase' = "done" /\ UNCHANGED <<best, shown, inc, trial>> /\ kept' = Latest
      BY <1>15 DEF TrialThrows, End
    <2>3. Latest = kept
      <3>1. CASE inc = {}
        BY <1>0, <3>1 DEF Latest, BestInv, Trying
      <3>2. CASE inc # {}
        <4>1. PICK b \in best : inc = {b} /\ kept = {b.layout}
          BY <1>0, <3>2 DEF BestInv, Trying, Keeping, AtMostOne
        <4> QED
          BY <4>1, <3>2 DEF Latest
      <3> QED
        BY <3>1, <3>2
    <2>4. Keeping'
      BY <1>0, <2>2, <2>3, KeepingStays DEF BestInv
    <2>5. Seeding' /\ Compacting' /\ Trying'
      BY <1>0, <2>1, <2>2 DEF BestInv, Seeding, Seeded, Compacting, Trying, AtMostOne
    <2> QED
      BY <2>4, <2>5 DEF BestInv
  <1> QED
    BY <1>4, <1>5, <1>7, <1>8, <1>9, <1>10, <1>11, <1>12, <1>13, <1>14, <1>15

(* The invariant holds at first and is kept by every step.                     *)
LEMMA BestInductive ==
  /\ SearchInit => BestInv
  /\ BestInv /\ [SearchNext]_spectralVars => BestInv'
  <1>1. ASSUME SearchInit
        PROVE  BestInv
    <2>1. /\ scene \in Scenes /\ scene.initial \subseteq Layouts /\ shown = 0
          /\ best = {} /\ kept = scene.initial /\ phase = "start"
          /\ comp = NoCompaction /\ fill = NoFill
          /\ retained = {} /\ inc = {} /\ trial = FreshTrial(1)
      BY <1>1, ValidIsLayout DEF SearchInit, WorkspaceInit, LayoutInit, BaselineInit, SpaceInit
    <2>2. \A i \in scene.initial : Cardinality(i) \in Nat
      BY <2>1, LayoutFinite
    <2>3. AtMostOne(scene.initial)
      BY <2>1, SceneAssumption DEF AtMostOne
    <2>4. Keeping
      BY <2>1, <2>2, <2>3 DEF Keeping, Covers, AtMostOne
    <2>5. Compacting
      BY <2>1, EmptyIsLayout DEF Compacting, NoCompaction, NoFill
    <2>6. Seeding /\ Trying
      BY <2>1 DEF Seeding, Seeded, Trying, AtMostOne, FreshTrial
    <2> QED
      BY <2>4, <2>5, <2>6 DEF BestInv
  <1>2. ASSUME BestInv, Step
        PROVE  BestInv'
    <2>1. CASE LayoutStep /\ UNCHANGED <<working, ws, build, threads, retained, inc, trial>>
      BY <1>2, <2>1, BaselineKeepsBest, PlannersKeepBest, CompactionKeepsBest DEF LayoutStep
    <2>2. CASE BuildStep /\ UNCHANGED <<retained, inc, trial>>
      <3>1. /\ UNCHANGED <<scene, comp, fill, outcomeVars>> /\ phase = "trial"
        BY <2>2 DEF BuildStep, BuildEnter, BuildLayout, BuildKernel, BuildBinary, BuildRanked,
                    BuildPage, Recover, GiveUp, Building, buildLeaves, outcomeVars
      <3> QED
        BY <1>2, <2>2, <3>1, QuietTrial DEF BestInv, Trying
    <2>3. CASE SpectralStep
      BY <1>2, <2>3, EntryKeepsBest, FirstOffersKeepBest, RoundsKeepBest DEF SpectralStep
    <2> QED
      BY <1>2, <2>1, <2>2, <2>3 DEF Step
  <1>3. ASSUME BestInv, UNCHANGED <<scene, phase, best, kept, reason, shown, comp, fill,
                                    retained, inc, trial>>
        PROVE  BestInv'
    <2>1. Layouts' = Layouts
      BY <1>3, LayoutsStay
    <2> QED
      BY <1>3, <2>1, KeepingStays DEF BestInv, Seeding, Seeded, Compacting, Trying, AtMostOne
  <1>4. ASSUME BestInv, Stopping
        PROVE  BestInv'
    BY <1>3, <1>4 DEF Stopping, Halt
  <1>5. ASSUME BestInv, UNCHANGED spectralVars
        PROVE  BestInv'
    BY <1>3, <1>5 DEF spectralVars, workspaceVars, layoutVars, baselineVars, space
  <1> QED
    BY <1>1, <1>2, <1>4, <1>5 DEF SearchNext

(* The run never falls behind what it has shown or was given, and ends with    *)
(* the layout of the snapshot it returns.                                      *)
THEOREM RunKeepsBest == SearchSpec => []BestKept
  <1>1. BestInv => BestKept
    BY DEF BestInv, Keeping, Covers, BestKept
  <1> QED
    BY <1>1, BestInductive, PTL DEF SearchSpec

-----------------------------------------------------------------------------
(* The workspace: what a page is built from                                    *)

(* The page the trial's layout calls for, computed from nothing.               *)
Called ==
  LET now == [layout |-> working, o |-> build.o]
  IN Page(build.o, build.mode, build.cursor, now, now, build.o, working)

(* It is what PagesAreFresh compares a page with.                              *)
LEMMA FreshIsCalled ==
  PagesAreFresh <=> (build.step = "ready" => build.page = Called)
  BY DEF PagesAreFresh, Called

(* The same request calls for the same page.                                   *)
LEMMA CalledStays ==
  ASSUME scene' = scene, working' = working,
         build'.o = build.o, build'.mode = build.mode, build'.cursor = build.cursor
  PROVE  Called' = Called
  BY DEF Called, Page, Correlation, Translations, Score, Overlap, Occupied, Body, Kernel,
         Width, Padded, Sorted, Less, RankLess, RefinementLess

(* The correlations that are kept are those of the voxels and the orientation  *)
(* they are labelled with, the proximity never without the binary one.         *)
Labelled(w) ==
  /\ DOMAIN w = DOMAIN NoWorkspace
  /\ w.binary # {} => w.binary = {[layout |-> UNION w.layout, o |-> w.rotation]}
  /\ w.ranked # {} => w.ranked = w.binary

(* What each stage of a page may rely on.                                      *)
StagesReady ==
  /\ build.step \in {"kernel", "binary", "ranked", "page"} => ws.layout = {working}
  /\ build.step \in {"binary", "ranked", "page"} =>
       ws.kernels[1] = build.o /\ (ws.binary # {} => ws.rotation = build.o)
  /\ build.step \in {"ranked", "page"} => ws.binary # {}
  /\ build.step = "page" => ws.ranked # {}
  /\ build.step = "ready" => build.page = Called

(* A page is under construction only in the parts of a round that load pages:  *)
(* nothing changes the trial's layout meanwhile.                               *)
BuildingInRound ==
  /\ build.step # "idle" => trial.step \in {"ordinary", "low"}
  /\ phase \notin {"trial", "done"} => build.step = "idle"

PageInv ==
  DOMAIN build = DOMAIN NoBuild /\ Labelled(ws) /\ StagesReady /\ BuildingInRound

(* Nothing is relied on while no page is built.                                *)
LEMMA IdleKeepsPages ==
  ASSUME PageInv, build' = NoBuild \/ (build.step = "idle" /\ build' = build), ws' = ws
  PROVE  PageInv'
  <1>1. build'.step = "idle" /\ DOMAIN build' = DOMAIN NoBuild
    BY DEF PageInv, NoBuild
  <1>2. Labelled(ws)'
    BY DEF PageInv, Labelled, NoWorkspace
  <1>3. StagesReady' /\ BuildingInRound'
    BY <1>1 DEF StagesReady, BuildingInRound
  <1> QED
    BY <1>1, <1>2, <1>3 DEF PageInv

(* A step that leaves the trial, its layout, the workspace and the page.       *)
LEMMA LeftKeepsPages ==
  ASSUME PageInv, UNCHANGED <<scene, working, ws, build, trial>>,
         phase \in {"trial", "done"} => phase' \in {"trial", "done"}
  PROVE  PageInv'
  <1>1. Called' = Called
    BY CalledStays
  <1>2. Labelled(ws)'
    BY DEF PageInv, Labelled, NoWorkspace
  <1>3. StagesReady' /\ BuildingInRound' /\ DOMAIN build' = DOMAIN NoBuild
    BY <1>1 DEF PageInv, StagesReady, BuildingInRound, NoBuild
  <1> QED
    BY <1>2, <1>3 DEF PageInv

(* A denial relies on nothing but what is labelled.                            *)
LEMMA DenialKeepsPages ==
  ASSUME PageInv, phase = "trial", build.step # "idle",
         Labelled(ws)', UNCHANGED <<trial, phase>>,
         DOMAIN build' = DOMAIN NoBuild, build'.step \in {"denied", "refused", "enter", "layout"}
  PROVE  PageInv'
  <1>1. StagesReady' /\ BuildingInRound'
    BY DEF PageInv, StagesReady, BuildingInRound
  <1> QED
    BY <1>1 DEF PageInv

(* The stages.                                                                 *)
LEMMA StagesKeepPages ==
  ASSUME PageInv, BuildStep, UNCHANGED trial
  PROVE  PageInv'
  <1>0. /\ phase = "trial" /\ UNCHANGED <<scene, phase, working, trial>>
        /\ DOMAIN build = DOMAIN NoBuild /\ DOMAIN ws = DOMAIN NoWorkspace
        /\ build.step # "idle"
    BY DEF BuildStep, BuildEnter, BuildLayout, BuildKernel, BuildBinary, BuildRanked, BuildPage,
           Recover, GiveUp, Building, buildLeaves, PageInv, Labelled
  <1>1. ASSUME NEW kind, Deny(kind), Labelled(ws)'
        PROVE  PageInv'
    <2>1. build'.step = "denied" /\ DOMAIN build' = DOMAIN NoBuild
      BY <1>0, <1>1 DEF Deny, NoBuild
    <2> QED
      BY <1>0, <1>1, <2>1, DenialKeepsPages
  <1>2. ws' = ws => Labelled(ws)'
    BY DEF PageInv, Labelled, NoWorkspace
  <1>3. ASSUME NEW step \in STRING, build' = [build EXCEPT !.step = step]
        PROVE  /\ build'.step = step /\ DOMAIN build' = DOMAIN NoBuild
               /\ build'.o = build.o /\ build'.mode = build.mode
               /\ build'.cursor = build.cursor
    BY <1>0, <1>3 DEF NoBuild
  <1>4. CASE BuildEnter
    <2>1. CASE build' = [build EXCEPT !.step = "layout"] /\ ws' = ws
      BY <1>0, <1>2, <1>3, <2>1, DenialKeepsPages
    <2> QED
      BY <1>1, <1>2, <1>4, <2>1 DEF BuildEnter
  <1>5. CASE BuildLayout
    <2>1. CASE /\ ws' = IF ws.layout = {working} THEN ws
                        ELSE [ws EXCEPT !.layout = {working}, !.binary = {}, !.ranked = {},
                                        !.fresh = FALSE]
               /\ build' = [build EXCEPT !.step = "kernel"]
      <3>1. Labelled(ws)' /\ ws'.layout = {working}
        BY <1>0, <1>2, <2>1 DEF Labelled, NoWorkspace
      <3>2. build'.step = "kernel" /\ DOMAIN build' = DOMAIN NoBuild
        BY <1>0, <2>1 DEF NoBuild
      <3> QED
        BY <1>0, <3>1, <3>2 DEF PageInv, StagesReady, BuildingInRound
    <2> QED
      BY <1>1, <1>2, <1>5, <2>1 DEF BuildLayout
  <1>6. CASE BuildKernel
    <2> DEFINE now == IF CurrentBinary(build.o) THEN ws
                      ELSE [ws EXCEPT !.binary = {}, !.ranked = {}, !.fresh = FALSE]
               other == IF ws.kernels[1] = build.o THEN ws.kernels[2] ELSE ws.kernels[1]
    <2>1. /\ Labelled(now) /\ now.layout = ws.layout
          /\ now.binary # {} => now.rotation = build.o
      BY <1>0 DEF PageInv, Labelled, NoWorkspace, CurrentBinary
    <2>2. CASE ws' = [now EXCEPT !.kernels = <<build.o, other>>]
               /\ build' = [build EXCEPT !.step = "binary"]
      <3>1. build'.step = "binary" /\ build'.o = build.o /\ DOMAIN build' = DOMAIN NoBuild
        BY <1>0, <2>2 DEF NoBuild
      <3>2. ws.layout = {working}
        BY <1>6 DEF BuildKernel, Building, PageInv, StagesReady
      <3> HIDE DEF now, other
      <3>3. /\ Labelled(ws)' /\ ws'.layout = ws.layout /\ ws'.kernels[1] = build.o
            /\ ws'.binary # {} => ws'.rotation = build.o
        BY <2>1, <2>2 DEF Labelled, NoWorkspace
      <3> QED
        BY <1>0, <3>1, <3>2, <3>3 DEF PageInv, StagesReady, BuildingInRound
    <2>3. ASSUME NEW kind, Deny(kind), ws' = [now EXCEPT !.kernels[2] = 0]
          PROVE  PageInv'
      <3> HIDE DEF now
      <3>1. Labelled(ws)'
        BY <2>1, <2>3 DEF Labelled, NoWorkspace
      <3> QED
        BY <1>1, <2>3, <3>1
    <2>4. \/ /\ ws' = [now EXCEPT !.kernels = <<build.o, other>>]
             /\ build' = [build EXCEPT !.step = "binary"]
          \/ \E kind \in Denials : Deny(kind) /\ ws' = [now EXCEPT !.kernels[2] = 0]
      BY <1>6 DEF BuildKernel
    <2> HIDE DEF now, other
    <2> QED
      BY <2>2, <2>3, <2>4
  <1>7. CASE BuildBinary
    <2>1. CASE /\ ws' = IF ws.binary # {} THEN ws
                        ELSE [ws EXCEPT !.binary = Correlated, !.fresh = TRUE,
                                        !.rotation = build.o]
               /\ build' = [build EXCEPT !.step = "ranked"]
      <3>1. build'.step = "ranked" /\ build'.o = build.o /\ DOMAIN build' = DOMAIN NoBuild
        BY <1>0, <2>1 DEF NoBuild
      <3>2. /\ ws.layout = {working} /\ ws.kernels[1] = build.o
            /\ ws.binary # {} => ws.rotation = build.o
        BY <1>7 DEF BuildBinary, Building, PageInv, StagesReady
      <3>3. /\ Labelled(ws)' /\ ws'.layout = ws.layout /\ ws'.kernels = ws.kernels
            /\ ws'.binary # {} /\ ws'.rotation = build.o
        <4>1. CASE ws.binary # {}
          BY <1>2, <2>1, <3>2, <4>1
        <4>2. CASE ws.binary = {}
          <5>1. ws' = [ws EXCEPT !.binary = Correlated, !.fresh = TRUE, !.rotation = build.o]
            BY <2>1, <4>2
          <5>2. ws.ranked = {}
            BY <4>2 DEF PageInv, Labelled
          <5>3. Correlated = {[layout |-> UNION ws.layout, o |-> build.o]}
            BY DEF Correlated
          <5> QED
            BY <1>0, <5>1, <5>2, <5>3 DEF Labelled, NoWorkspace
        <4> QED
          BY <4>1, <4>2
      <3> QED
        BY <1>0, <3>1, <3>2, <3>3 DEF PageInv, StagesReady, BuildingInRound
    <2> QED
      BY <1>1, <1>2, <1>7, <2>1 DEF BuildBinary
  <1>8. CASE BuildRanked
    <2>1. CASE /\ ws' = IF ws.ranked # {} THEN ws ELSE [ws EXCEPT !.ranked = Correlated]
               /\ build' = [build EXCEPT !.step = "page"]
      <3>1. build'.step = "page" /\ build'.o = build.o /\ DOMAIN build' = DOMAIN NoBuild
        BY <1>0, <2>1 DEF NoBuild
      <3>2. /\ ws.layout = {working} /\ ws.kernels[1] = build.o
            /\ ws.binary # {} /\ ws.rotation = build.o
        BY <1>8 DEF BuildRanked, Building, PageInv, StagesReady
      <3>3. Correlated = ws.binary
        BY <3>2 DEF Correlated, PageInv, Labelled
      <3>4. /\ Labelled(ws)' /\ ws'.layout = ws.layout /\ ws'.kernels = ws.kernels
            /\ ws'.binary = ws.binary /\ ws'.rotation = ws.rotation /\ ws'.ranked # {}
        <4>1. CASE ws.ranked # {}
          BY <1>2, <2>1, <4>1
        <4>2. CASE ws.ranked = {}
          <5>1. ws' = [ws EXCEPT !.ranked = ws.binary]
            BY <2>1, <3>3, <4>2
          <5> QED
            BY <1>0, <3>2, <5>1 DEF PageInv, Labelled, NoWorkspace
        <4> QED
          BY <4>1, <4>2
      <3> QED
        BY <1>0, <3>1, <3>2, <3>4 DEF PageInv, StagesReady, BuildingInRound
    <2> QED
      BY <1>1, <1>2, <1>8, <2>1 DEF BuildRanked
  <1>9. CASE BuildPage
    <2> DEFINE page == Page(build.o, build.mode, build.cursor,
                            CHOOSE b \in ws.binary : TRUE, CHOOSE r \in ws.ranked : TRUE,
                            ws.kernels[1], UNION ws.layout)
    <2>1. CASE build' = [build EXCEPT !.step = "ready", !.page = page] /\ ws' = ws
      <3> DEFINE request == [layout |-> working, o |-> build.o]
      <3>1. /\ ws.layout = {working} /\ ws.kernels[1] = build.o
            /\ ws.binary # {} /\ ws.rotation = build.o /\ ws.ranked # {}
        BY <1>9 DEF BuildPage, Building, PageInv, StagesReady
      <3>2. UNION ws.layout = working
        BY <3>1
      <3>3. ws.binary = {request} /\ ws.ranked = {request}
        BY <3>1, <3>2 DEF PageInv, Labelled
      <3>4. page = Called
        <4>1. (CHOOSE b \in ws.binary : TRUE) = request /\ (CHOOSE r \in ws.ranked : TRUE) = request
          BY <3>3
        <4> QED
          BY <3>1, <3>2, <4>1 DEF Called
      <3> HIDE DEF page, request
      <3>5. /\ build'.step = "ready" /\ build'.page = page /\ DOMAIN build' = DOMAIN NoBuild
            /\ build'.o = build.o /\ build'.mode = build.mode /\ build'.cursor = build.cursor
        BY <1>0, <2>1 DEF NoBuild
      <3>6. Called' = Called
        BY <1>0, <3>5, CalledStays
      <3> QED
        BY <1>0, <1>2, <2>1, <3>4, <3>5, <3>6 DEF PageInv, StagesReady, BuildingInRound
    <2> QED
      BY <1>1, <1>2, <1>9, <2>1 DEF BuildPage
  <1>10. CASE Recover
    <2>1. Labelled(ws)'
      <3>1. Labelled(Released)
        BY <1>0 DEF PageInv, Labelled, Released, NoWorkspace
      <3>2. ws' = ws \/ ws' = Released
        BY <1>10 DEF Recover
      <3> QED
        BY <1>2, <3>1, <3>2 DEF Labelled, NoWorkspace
    <2>2. build'.step = "enter" /\ DOMAIN build' = DOMAIN NoBuild
      BY <1>0, <1>10 DEF Recover, Again, NoBuild
    <2> QED
      BY <1>0, <2>1, <2>2, DenialKeepsPages
  <1>11. CASE GiveUp
    <2>1. ws' = ws /\ build' = [build EXCEPT !.step = "refused"]
      BY <1>11 DEF GiveUp
    <2> QED
      BY <1>0, <1>2, <1>3, <2>1, DenialKeepsPages
  <1> QED
    BY <1>4, <1>5, <1>6, <1>7, <1>8, <1>9, <1>10, <1>11 DEF BuildStep

(* A request for a page.                                                       *)
LEMMA LoadKeepsPages ==
  ASSUME PageInv, LoadPage \/ LoadLow
  PROVE  PageInv'
  <1>1. /\ phase = "trial" /\ phase' = phase /\ trial' = trial /\ ws' = ws
        /\ trial.step \in {"ordinary", "low"}
    BY DEF LoadPage, LoadLow, InTrial, outcomeVars
  <1>2. build'.step = "enter" /\ DOMAIN build' = DOMAIN NoBuild
    BY DEF LoadPage, LoadLow, NoBuild
  <1>3. Labelled(ws)'
    BY <1>1 DEF PageInv, Labelled, NoWorkspace
  <1>4. StagesReady' /\ BuildingInRound'
    BY <1>1, <1>2 DEF StagesReady, BuildingInRound
  <1> QED
    BY <1>2, <1>3, <1>4 DEF PageInv

(* The invariant holds at first and is kept by every step.                     *)
LEMMA PagesInductive ==
  /\ SearchInit => PageInv
  /\ PageInv /\ [SearchNext]_spectralVars => PageInv'
  <1>1. ASSUME SearchInit
        PROVE  PageInv
    BY <1>1 DEF SearchInit, WorkspaceInit, PageInv, Labelled, StagesReady, BuildingInRound,
                NoBuild, NoWorkspace
  <1>2. ASSUME PageInv, LayoutStep, UNCHANGED <<working, ws, build, threads, retained, inc, trial>>
        PROVE  PageInv'
    <2>1. CASE BaselineStep
      <3>1. phase \notin {"trial", "done"}
        <4>1. StartGrid \/ AfterGrid \/ AfterStagger => phase \notin {"trial", "done"}
          BY DEF StartGrid, AfterGrid, AfterStagger
        <4>2. GridSeed \/ GridTake \/ GridFlush \/ GridRetry \/ GridEndSeed \/ GridDenied
              => phase = "grid"
          BY DEF GridSeed, GridTake, GridFlush, GridRetry, GridEndSeed, GridDenied
        <4>3. StaggerPlan \/ StaggerTrial \/ StaggerDenied => phase \in {"stagger", "staggerTrial"}
          <5>1. StaggerPlan => phase = "stagger"
            BY SMT DEF StaggerPlan
          <5>2. StaggerTrial \/ StaggerDenied => phase \in {"stagger", "staggerTrial"}
            BY DEF StaggerTrial, StaggerDenied
          <5> QED
            BY <5>1, <5>2
        <4>4. BaselineInterrupted => phase \notin {"trial", "done"}
          BY DEF BaselineInterrupted
        <4> QED
          BY <2>1, <4>1, <4>2, <4>3, <4>4 DEF BaselineStep
      <3> QED
        BY <1>2, <3>1, IdleKeepsPages DEF PageInv, BuildingInRound
    <2>2. CASE NextLayout \/ SlabTrial \/ BlockTrial \/ StaggerPairTrial \/ PlannerDenied
               \/ AfterLayout \/ LayoutInterrupted
      <3>1. phase \notin {"trial", "done"}
        <4>1. ASSUME NEW found, TryNext(found)
              PROVE  phase = "planner"
          BY <4>1 DEF TryNext
        <4> QED
          BY <2>2, <4>1 DEF NextLayout, SlabTrial, BlockTrial, StaggerPairTrial,
               PlannerDenied, AfterLayout, LayoutInterrupted
      <3> QED
        BY <1>2, <3>1, IdleKeepsPages DEF PageInv, BuildingInRound
    <2>3. CASE Sweep \/ Contract \/ Slide \/ Drop \/ SweepCut \/ SettleLayout
               \/ FillStart \/ FillStep \/ FillEnds \/ FillOffer \/ Greedier
               \/ CompactionDenied
      <3>1. phase = "compaction"
        BY <2>3 DEF Sweep, Contract, Slide, Drop, SweepCut, SettleLayout, FillStart, FillStep,
             FillEnds, FillOffer, Greedier, CompactionDenied
      <3> QED
        BY <1>2, <3>1, IdleKeepsPages DEF PageInv, BuildingInRound
    <2> QED
      BY <1>2, <2>1, <2>2, <2>3 DEF LayoutStep
  <1>3. ASSUME PageInv, SpectralStep
        PROVE  PageInv'
    <2>1. CASE RunRefused \/ EnterTrials
      BY <1>3, <2>1, IdleKeepsPages DEF RunRefused, EnterTrials, PageInv, BuildingInRound
    <2>2. CASE OfferRetained \/ EmptyStart \/ OpenRound \/ QueryFaces \/ TryFace \/ TrialDone
      BY <1>3, <2>2, IdleKeepsPages
         DEF OfferRetained, EmptyStart, OpenRound, QueryFaces, TryFace, TrialDone, InTrial,
             PageInv, BuildingInRound
    <2>3. CASE LoadPage \/ LoadLow
      BY <1>3, <2>3, LoadKeepsPages
    <2>4. CASE Choose \/ LatticeDone \/ TryLow \/ LowDone \/ OutOfBudget
      BY <1>3, <2>4, IdleKeepsPages DEF Choose, LatticeDone, TryLow, LowDone, OutOfBudget
    <2>5. CASE TakePage \/ PageRefused \/ TakeLow \/ LowRefused
      BY <1>3, <2>5, IdleKeepsPages DEF TakePage, PageRefused, TakeLow, LowRefused, Refused
    <2>6. CASE Interrupted \/ TrialThrows
      <3>1. UNCHANGED <<scene, working, ws, build, trial>> /\ phase' = "done"
        BY <2>6 DEF Interrupted, TrialThrows, Stop, End, fixed
      <3> QED
        BY <1>3, <3>1, LeftKeepsPages
    <2> QED
      BY <1>3, <2>1, <2>2, <2>3, <2>4, <2>5, <2>6 DEF SpectralStep
  <1>4. ASSUME PageInv, Stopping \/ UNCHANGED spectralVars
        PROVE  PageInv'
    <2>1. UNCHANGED <<scene, working, ws, build, trial, phase>>
      BY <1>4 DEF Stopping, Halt, spectralVars, workspaceVars, layoutVars, baselineVars, space
    <2> QED
      BY <1>4, <2>1, LeftKeepsPages
  <1> QED
    BY <1>1, <1>2, <1>3, <1>4, StagesKeepPages DEF SearchNext, Step

(* A page that is delivered is the page of the trial's layout.                 *)
THEOREM PagesAlwaysFresh == SearchSpec => []PagesAreFresh
  <1>1. PageInv => PagesAreFresh
    BY FreshIsCalled DEF PageInv, StagesReady
  <1> QED
    BY <1>1, PagesInductive, PTL DEF SearchSpec

-----------------------------------------------------------------------------
(* Numbers                                                                     *)

(* A set of naturals that is not empty has a least member.                     *)
LEMMA LeastNat ==
  ASSUME NEW T \in SUBSET Nat, T # {}
  PROVE  \E m \in T : \A n \in T : m <= n
  <1> DEFINE R == OpToRel(<, Nat)
  <1>1. IsWellFoundedOn(R, Nat)
    BY NatLessThanWellFounded
  <1>2. PICK m \in T : \A n \in T : ~ (<<n, m>> \in R)
    <2> HIDE DEF R
    <2> QED BY <1>1, WFMin
  <1>3. \A n \in T : ~ (n < m)
    BY <1>2 DEF OpToRel
  <1> QED
    BY <1>3

(* A finite one has a greatest, by the least size that might have none.        *)
LEMMA GreatestNat ==
  ASSUME NEW T \in SUBSET Nat, T # {}, IsFiniteSet(T)
  PROVE  \E m \in T : \A n \in T : n <= m
  <1> DEFINE Topped(U) == \E m \in U : \A n \in U : n <= m
             bad == {c \in Nat : \E U \in SUBSET T : U # {} /\ Cardinality(U) = c /\ ~Topped(U)}
  <1>1. SUFFICES ASSUME bad # {}
                 PROVE  FALSE
    <2>1. Cardinality(T) \in Nat
      BY FS_CardinalityType
    <2> QED
      BY <2>1
  <1>2. PICK c \in bad : \A n \in bad : c <= n
    BY <1>1, LeastNat
  <1>3. PICK U \in SUBSET T : U # {} /\ Cardinality(U) = c /\ ~Topped(U)
    BY <1>2
  <1>4. PICK x \in U : x \in Nat
    BY <1>3
  <1>5. /\ IsFiniteSet(U \ {x}) /\ Cardinality(U \ {x}) = c - 1
        /\ Cardinality(U \ {x}) \in Nat /\ c \in Nat
    BY <1>2, <1>3, FS_Subset, FS_RemoveElement, FS_CardinalityType
  <1>6. CASE U \ {x} = {}
    <2>1. U = {x}
      BY <1>6
    <2> QED
      BY <1>3, <1>4, <2>1
  <1>7. CASE U \ {x} # {}
    <2>1. Topped(U \ {x})
      <3>1. c - 1 \notin bad
        BY <1>2, <1>5
      <3> QED
        BY <1>5, <1>7, <3>1
    <2>2. PICK m \in U \ {x} : \A n \in U \ {x} : n <= m
      BY <2>1
    <2>3. m \in Nat /\ U \subseteq Nat
      BY <1>3
    <2>4. CASE x <= m
      <3>1. \A n \in U : n <= m
        BY <2>2, <2>4
      <3> QED
        BY <1>3, <3>1
    <2>5. CASE m <= x
      <3>1. \A n \in U : n <= x
        BY <1>4, <2>2, <2>3, <2>5
      <3> QED
        BY <1>3, <3>1
    <2> QED
      BY <1>4, <2>3, <2>4, <2>5
  <1> QED
    BY <1>6, <1>7

(* The greatest member is what Max chooses.                                    *)
LEMMA MaxIsGreatest ==
  ASSUME NEW T \in SUBSET Nat, T # {}, IsFiniteSet(T)
  PROVE  Max(T) \in T /\ Max(T) \in Nat /\ \A n \in T : n <= Max(T)
  <1>1. \E m \in T : \A n \in T : m >= n
    BY GreatestNat
  <1>2. Max(T) \in T /\ \A n \in T : Max(T) >= n
    BY <1>1 DEF Max
  <1> QED
    BY <1>2

(* A solid has a width.                                                        *)
LEMMA WidthIsPositive ==
  ASSUME scene \in Scenes, NEW o \in Orientations
  PROVE  Width(o) \in Nat \ {0}
  <1>1. scene.solid[o] \in SUBSET Nat /\ scene.solid[o] # {} /\ IsFiniteSet(scene.solid[o])
    <2>1. scene.solid \in Seq((SUBSET Nat) \ {{}}) /\ o \in DOMAIN scene.solid
      BY SceneAssumption DEF Orientations
    <2>2. scene.solid[o] \in (SUBSET Nat) \ {{}}
      BY <2>1
    <2> QED
      BY <2>1, <2>2, SceneAssumption
  <1> QED
    BY <1>1, MaxIsGreatest DEF Width

(* More cells are farther along.                                               *)
LEMMA ProductsGrow ==
  ASSUME NEW i \in Nat, NEW j \in Nat, i < j, NEW w \in Nat \ {0}
  PROVE  i * w \in Nat /\ j * w \in Nat /\ i * w < j * w
  <1>1. (j - i) * w >= w
    OBVIOUS
  <1>2. j * w = i * w + (j - i) * w
    OBVIOUS
  <1> QED
    BY <1>1, <1>2

-----------------------------------------------------------------------------
(* The grid: what is placed is what greedy placement would have placed         *)

Cells(o, n) == {Cell(o, i) : i \in 0..(n - 1)}

CellsFrom(o, n, m) == {Cell(o, i) : i \in n..(n + m - 1)}

(* The copies of a layout before a cell.                                       *)
Before(layout, c) == {p \in layout : p[2] < c[2]}

(* The cells lie in order.                                                     *)
LEMMA CellsInOrder ==
  ASSUME scene \in Scenes, NEW o \in Orientations, NEW i \in Nat, NEW j \in Nat
  PROVE  /\ Cell(o, i)[2] \in Nat
         /\ i < j => Cell(o, i)[2] < Cell(o, j)[2]
         /\ Cell(o, i) = Cell(o, j) => i = j
  <1>1. Width(o) \in Nat \ {0}
    BY WidthIsPositive
  <1>2. Cell(o, i)[2] = i * Width(o) /\ Cell(o, j)[2] = j * Width(o)
    BY DEF Cell
  <1>3. i * Width(o) \in Nat /\ j * Width(o) \in Nat
    BY <1>1
  <1>4. i < j => i * Width(o) < j * Width(o)
    BY <1>1, ProductsGrow
  <1>5. j < i => j * Width(o) < i * Width(o)
    BY <1>1, ProductsGrow
  <1> HIDE DEF Cell
  <1>6. Cell(o, i) = Cell(o, j) => i * Width(o) = j * Width(o)
    BY <1>2
  <1> QED
    BY <1>2, <1>3, <1>4, <1>5, <1>6

(* A part of a certified layout is certified.                                  *)
LEMMA PartIsValid ==
  ASSUME NEW whole, Valid(whole), NEW part \in SUBSET whole
  PROVE  Valid(part)
  BY DEF Valid

(* A batch that is certified with the copies before it is what would have been *)
(* placed one by one.                                                          *)
LEMMA BatchIsGreedy ==
  ASSUME scene \in Scenes, NEW o \in Orientations, NEW n \in Nat, NEW m \in Nat,
         NEW layout, IsGreedy(layout, o, n),
         NEW batch, batch = CellsFrom(o, n, m),
         Valid(layout \cup batch)
  PROVE  IsGreedy(layout \cup batch, o, n + m)
  <1>1. layout \subseteq Cells(o, n) /\ batch \subseteq Cells(o, n + m)
        /\ Cells(o, n) \subseteq Cells(o, n + m)
    BY DEF IsGreedy, Cells, CellsFrom
  <1>2. ASSUME NEW i \in 0..(n + m - 1)
        PROVE  Cell(o, i) \in layout \cup batch
                 <=> CanAdd(Before(layout \cup batch, Cell(o, i)), Cell(o, i))
    <2>1. CASE i < n
      <3>1. \A j \in n..(n + m - 1) : Cell(o, i) # Cell(o, j) /\ ~(Cell(o, j)[2] < Cell(o, i)[2])
        <4>1. SUFFICES ASSUME NEW j \in n..(n + m - 1)
                       PROVE  Cell(o, i) # Cell(o, j) /\ ~(Cell(o, j)[2] < Cell(o, i)[2])
          OBVIOUS
        <4>2. i \in Nat /\ j \in Nat /\ i < j
          BY <2>1
        <4> QED
          BY <4>2, CellsInOrder
      <3>2. /\ Cell(o, i) \notin batch
            /\ Before(layout \cup batch, Cell(o, i)) = Before(layout, Cell(o, i))
        BY <3>1 DEF Before, CellsFrom
      <3>3. Cell(o, i) \in layout <=> CanAdd(Before(layout, Cell(o, i)), Cell(o, i))
        BY <2>1 DEF IsGreedy, Before
      <3> QED
        BY <3>2, <3>3
    <2>2. CASE i >= n
      <3>1. Cell(o, i) \in batch
        BY <2>2 DEF CellsFrom
      <3>2. Cell(o, i) \notin Before(layout \cup batch, Cell(o, i))
        <4>1. Cell(o, i)[2] \in Nat
          BY CellsInOrder
        <4> QED
          BY <4>1 DEF Before
      <3>3. Before(layout \cup batch, Cell(o, i)) \cup {Cell(o, i)} \subseteq layout \cup batch
        BY <3>1 DEF Before
      <3> QED
        BY <3>1, <3>2, <3>3, PartIsValid DEF CanAdd
    <2> QED
      BY <2>1, <2>2
  <1> QED
    BY <1>1, <1>2 DEF IsGreedy, Cells, Before

(* A cell that cannot be placed behind the copies before it is left out.       *)
LEMMA RejectionIsGreedy ==
  ASSUME scene \in Scenes, NEW o \in Orientations, NEW n \in Nat,
         NEW layout, IsGreedy(layout, o, n), ~Valid(layout \cup {Cell(o, n)})
  PROVE  IsGreedy(layout, o, n + 1)
  <1>1. layout \subseteq Cells(o, n) /\ layout \subseteq Cells(o, n + 1)
    BY DEF IsGreedy, Cells
  <1>2. ASSUME NEW i \in 0..n
        PROVE  Cell(o, i) \in layout <=> CanAdd(Before(layout, Cell(o, i)), Cell(o, i))
    <2>1. CASE i < n
      BY <2>1 DEF IsGreedy, Before
    <2>2. CASE i = n
      <3>1. \A p \in layout : p # Cell(o, n) /\ p[2] < Cell(o, n)[2]
        <4>1. SUFFICES ASSUME NEW j \in 0..(n - 1)
                       PROVE  Cell(o, j) # Cell(o, n) /\ Cell(o, j)[2] < Cell(o, n)[2]
          BY <1>1 DEF Cells
        <4>2. j \in Nat /\ j < n
          OBVIOUS
        <4> QED
          BY <4>2, CellsInOrder
      <3>2. Before(layout, Cell(o, n)) = layout
        BY <3>1 DEF Before
      <3> QED
        BY <2>2, <3>1, <3>2 DEF CanAdd
    <2> QED
      BY <2>1, <2>2
  <1> QED
    BY <1>1, <1>2 DEF IsGreedy, Cells, Before

(* What is greedy stays so while the scene does.                               *)
LEMMA GreedyStays ==
  ASSUME scene' = scene, NEW layout, NEW o, NEW n
  PROVE  IsGreedy(layout, o, n)' <=> IsGreedy(layout, o, n)
  BY DEF IsGreedy, Cell, CanAdd, Valid, Fits, Body, Width, Orientations

(* Nothing is placed before the first cell.                                    *)
LEMMA NothingIsGreedy ==
  ASSUME NEW o
  PROVE  IsGreedy({}, o, 0)
  BY DEF IsGreedy

(* A sequence of consecutive cells of an orientation.                          *)
From(o, n, batch) == \A i \in 1..Len(batch) : batch[i] = Cell(o, n + i - 1)

Poses == Nat \X Int

GridType ==
  /\ DOMAIN grid = DOMAIN NoGrid
  /\ grid.step \in {"seed", "cell", "flush", "retry"}
  /\ grid.seed \in Nat \ {0} /\ grid.cell \in Nat
  /\ grid.pending \in Seq(Poses) /\ grid.retry \in Seq(Poses)

(* One batch at most is under way: the pending one or the one retried.         *)
GridBatches ==
  /\ grid.step \in {"seed", "retry"} => grid.pending = <<>>
  /\ grid.step = "flush" => grid.pending # <<>>
  /\ grid.step = "retry" <=> grid.retry # <<>>

(* The cells that are decided: those looked at but for the batch.              *)
Decided == grid.cell - Len(grid.pending) - Len(grid.retry)

GridPlaced ==
  grid.step # "seed" =>
    /\ grid.seed \in Orientations
    /\ Decided \in Nat
    /\ From(grid.seed, Decided, grid.pending) /\ From(grid.seed, Decided, grid.retry)
    /\ IsGreedy(grid.working, grid.seed, Decided)

GridInv ==
  /\ scene \in Scenes
  /\ phase = "start" => grid = NoGrid
  /\ phase = "grid" => GridType /\ GridBatches /\ GridPlaced

(* A batch of consecutive cells, as a set.                                     *)
LEMMA BatchCells ==
  ASSUME NEW o, NEW n \in Nat, NEW batch \in Seq(Poses), From(o, n, batch)
  PROVE  ToSet(batch) = CellsFrom(o, n, Len(batch))
  <1>1. Len(batch) \in Nat /\ DOMAIN batch = 1..Len(batch)
    OBVIOUS
  <1>2. ASSUME NEW i \in 1..Len(batch)
        PROVE  n + i - 1 \in n..(n + Len(batch) - 1) /\ batch[i] = Cell(o, n + i - 1)
    BY <1>1, <1>2 DEF From
  <1>3. ASSUME NEW j \in n..(n + Len(batch) - 1)
        PROVE  \E i \in 1..Len(batch) : batch[i] = Cell(o, j)
    <2>1. j - n + 1 \in 1..Len(batch) /\ n + (j - n + 1) - 1 = j
      BY <1>1
    <2> QED
      BY <1>2, <2>1
  <1> QED
    BY <1>1, <1>2, <1>3 DEF ToSet, CellsFrom

(* The grid's state of a step that leaves it.                                  *)
LEMMA GridLeft ==
  ASSUME GridInv, UNCHANGED <<scene, phase, grid>>
  PROVE  GridInv'
  <1>1. phase = "grid" => (GridType /\ GridBatches)'
    BY DEF GridInv, GridType, GridBatches, NoGrid
  <1>2. phase = "grid" => GridPlaced'
    <2>1. PICK layout, o, n : layout = grid.working /\ o = grid.seed /\ n = Decided
      OBVIOUS
    <2>2. IsGreedy(layout, o, n)' <=> IsGreedy(layout, o, n)
      BY GreedyStays
    <2>3. IsGreedy(grid.working, grid.seed, Decided)' <=> IsGreedy(layout, o, n)'
      BY <2>1 DEF IsGreedy, Decided, Cell
    <2>4. Orientations' = Orientations
      BY DEF Orientations
    <2> QED
      BY <2>1, <2>2, <2>3, <2>4 DEF GridInv, GridPlaced, Decided, From, Cell, Width
  <1> QED
    BY <1>1, <1>2 DEF GridInv

(* The cells that are decided after a step.                                    *)
LEMMA PlacedNext ==
  ASSUME scene' = scene, NEW o \in Orientations, NEW n \in Nat,
         NEW layout, IsGreedy(layout, o, n),
         grid'.working = layout, grid'.seed = o, Decided' = n,
         NEW pending, grid'.pending = pending, From(o, n, pending),
         NEW retry, grid'.retry = retry, From(o, n, retry)
  PROVE  GridPlaced'
  <1>1. IsGreedy(layout, o, n)'
    BY GreedyStays
  <1>2. Orientations' = Orientations /\ From(o, n, pending)' /\ From(o, n, retry)'
    BY DEF Orientations, From, Cell, Width
  <1>3. IsGreedy(grid.working, grid.seed, Decided)'
    BY <1>1 DEF IsGreedy, Cell, Width, CanAdd
  <1>4. From(grid.seed, Decided, grid.pending)' /\ From(grid.seed, Decided, grid.retry)'
    BY <1>2 DEF From, Cell, Width
  <1> QED
    BY <1>2, <1>3, <1>4 DEF GridPlaced

(* A submission decides its batch, or passes it to the retry.                  *)
LEMMA SubmissionKeepsGrid ==
  ASSUME GridInv, phase = "grid", scene' = scene, NEW n \in Nat, NEW o \in Orientations,
         IsGreedy(grid.working, o, n),
         NEW batch \in Seq(Poses), batch # <<>>, From(o, n, batch),
         NEW passed, DOMAIN passed = DOMAIN NoGrid,
         passed.step \in {"cell", "retry"}, passed.seed = o, passed.cell = grid.cell,
         passed.pending = <<>>, passed.retry \in Seq(Poses),
         passed.step = "retry" <=> passed.retry # <<>>,
         grid.cell - Len(passed.retry) = n + Len(batch), From(o, n + Len(batch), passed.retry),
         NEW failed, DOMAIN failed = DOMAIN NoGrid,
         failed.step \in {"cell", "retry"}, failed.seed = o, failed.cell = grid.cell,
         failed.pending = <<>>, failed.retry \in Seq(Poses), failed.working = grid.working,
         failed.step = "retry" <=> failed.retry # <<>>,
         \/ Len(batch) = 1 /\ failed.retry = passed.retry
         \/ Len(batch) > 1 /\ failed.retry = batch /\ grid.cell - Len(batch) = n,
         Submit(batch, passed, failed)
  PROVE  GridInv'
  <1> DEFINE spent == grid.evals + Len(batch)
             layout == grid.working \cup ToSet(batch)
  <1>0. /\ grid.cell \in Nat /\ Len(batch) \in Nat \ {0}
        /\ Len(passed.retry) \in Nat /\ Len(<<>>) = 0
    BY DEF GridInv, GridType
  <1>1. CASE phase' # "grid"
    <2>1. phase' = "afterGrid"
      BY <1>1 DEF Submit, End, EndOffer, Going
    <2> QED
      BY <2>1 DEF GridInv
  <1>2. CASE phase' = "grid"
    <2>1. \/ Valid(layout) /\ grid' = [passed EXCEPT !.evals = spent, !.working = layout]
          \/ ~Valid(layout) /\ grid' = [failed EXCEPT !.evals = spent]
      BY <1>2 DEF Submit, End, EndOffer
    <2>2. ToSet(batch) = CellsFrom(o, n, Len(batch))
      <3> HIDE DEF layout, spent
      <3> QED
        BY BatchCells
    <2>3. scene \in Scenes /\ o \in Nat \ {0}
      BY SceneAssumption DEF GridInv, Orientations
    <2>4. CASE Valid(layout) /\ grid' = [passed EXCEPT !.evals = spent, !.working = layout]
      <3>1. IsGreedy(layout, o, n + Len(batch))
        BY <1>0, <2>2, <2>3, <2>4, BatchIsGreedy
      <3> HIDE DEF layout, spent
      <3>2. /\ grid'.working = layout /\ grid'.seed = o /\ grid'.pending = <<>>
            /\ grid'.retry = passed.retry /\ grid'.cell = grid.cell /\ grid'.step = passed.step
            /\ DOMAIN grid' = DOMAIN NoGrid
        BY <2>4 DEF NoGrid
      <3>3. Decided' = n + Len(batch)
        BY <1>0, <3>2 DEF Decided
      <3>4. GridPlaced'
        <4>1. From(o, n + Len(batch), <<>>)
          BY DEF From
        <4>2. n + Len(batch) \in Nat
          BY <1>0
        <4> QED
          BY <3>1, <3>2, <3>3, <4>1, <4>2, PlacedNext
      <3>5. GridType' /\ GridBatches'
        BY <2>3, <3>2 DEF GridType, GridBatches, GridInv, NoGrid
      <3> QED
        BY <1>2, <2>3, <3>4, <3>5 DEF GridInv
    <2>5. CASE ~Valid(layout) /\ grid' = [failed EXCEPT !.evals = spent]
      <3>1. /\ grid'.working = grid.working /\ grid'.seed = o /\ grid'.pending = <<>>
            /\ grid'.retry = failed.retry /\ grid'.cell = grid.cell /\ grid'.step = failed.step
            /\ DOMAIN grid' = DOMAIN NoGrid
        <4> HIDE DEF layout, spent
        <4> QED
          BY <2>5 DEF NoGrid
      <3>2. GridType' /\ GridBatches'
        BY <2>3, <3>1 DEF GridType, GridBatches, GridInv, NoGrid
      <3>3. From(o, n, <<>>) /\ From(o, n + 1, <<>>)
        BY DEF From
      <3>4. CASE Len(batch) = 1 /\ failed.retry = passed.retry
        <4>1. ToSet(batch) = {Cell(o, n)}
          <5>1. n..(n + Len(batch) - 1) = {n}
            BY <3>4
          <5> QED
            BY <2>2, <5>1 DEF CellsFrom
        <4>2. IsGreedy(grid.working, o, n + 1)
          BY <2>3, <2>5, <4>1, RejectionIsGreedy
        <4>3. Decided' = n + 1
          BY <1>0, <3>1, <3>4 DEF Decided
        <4>4. From(o, n + 1, failed.retry)
          BY <3>4
        <4>5. GridPlaced'
          BY <3>1, <3>3, <4>2, <4>3, <4>4, PlacedNext
        <4> QED
          BY <1>2, <2>3, <3>2, <4>5 DEF GridInv
      <3>5. CASE Len(batch) > 1 /\ failed.retry = batch /\ grid.cell - Len(batch) = n
        <4>1. Decided' = n
          BY <1>0, <3>1, <3>5 DEF Decided
        <4>2. GridPlaced'
          BY <3>1, <3>3, <3>5, <4>1, PlacedNext
        <4> QED
          BY <1>2, <2>3, <3>2, <4>2 DEF GridInv
      <3> QED
        BY <3>4, <3>5
    <2> QED
      BY <2>1, <2>4, <2>5
  <1> QED
    BY <1>1, <1>2

(* The steps of the grid.                                                      *)
LEMMA GridKeepsGrid ==
  ASSUME GridInv, GridSeed \/ GridTake \/ GridFlush \/ GridRetry \/ GridEndSeed \/ GridDenied
  PROVE  GridInv'
  <1>0. /\ phase = "grid" /\ scene' = scene /\ scene \in Scenes
        /\ GridType /\ GridBatches /\ GridPlaced
    BY DEF GridSeed, GridTake, GridFlush, GridRetry, GridEndSeed, GridDenied, GridInv
  <1>1. CASE phase' \notin {"start", "grid"}
    BY <1>0, <1>1 DEF GridInv
  <1>2. /\ grid.cell \in Nat /\ Len(grid.pending) \in Nat /\ Len(grid.retry) \in Nat
        /\ Len(<<>>) = 0
    BY <1>0 DEF GridType
  <1>3. \A o, n : From(o, n, <<>>)
    BY DEF From
  <1>4. CASE GridSeed /\ phase' = "grid"
    <2>1. /\ grid' = [grid EXCEPT !.step = "cell", !.cell = 0, !.working = {}]
          /\ grid.step = "seed" /\ ~(grid.seed > Cardinality(Orientations))
      BY <1>4 DEF GridSeed, End
    <2>2. grid.seed \in Orientations
      <3>1. Orientations = 1..Len(scene.solid) /\ Len(scene.solid) \in Nat
        BY <1>0, SceneAssumption DEF Orientations
      <3>2. Cardinality(Orientations) = Len(scene.solid)
        BY <3>1, FS_Interval
      <3>3. grid.seed \in Nat \ {0}
        BY <1>0 DEF GridType
      <3> QED
        BY <2>1, <3>1, <3>2, <3>3
    <2>3. /\ grid'.working = {} /\ grid'.seed = grid.seed /\ grid'.pending = <<>>
          /\ grid'.retry = <<>> /\ grid'.cell = 0 /\ grid'.step = "cell"
          /\ DOMAIN grid' = DOMAIN NoGrid
      BY <1>0, <2>1 DEF GridType, GridBatches, NoGrid
    <2>4. Decided' = 0
      <3>1. Decided' = 0 - Len(<<>>) - Len(<<>>)
        BY <2>3 DEF Decided
      <3>2. PICK l : l = Len(<<>>) /\ l = 0
        OBVIOUS
      <3>3. Decided' = 0 - l - l
        BY <3>1, <3>2
      <3>4. l = 0
        BY <3>2
      <3> QED
        BY <3>3, <3>4
    <2>5. GridPlaced'
      <3>1. PICK o, layout, pending, retry :
              o = grid.seed /\ layout = {} /\ pending = <<>> /\ retry = <<>>
        OBVIOUS
      <3>2. o \in Orientations /\ IsGreedy(layout, o, 0) /\ From(o, 0, pending) /\ From(o, 0, retry)
        BY <1>3, <2>2, <3>1, NothingIsGreedy
      <3>3. /\ grid'.working = layout /\ grid'.seed = o
            /\ grid'.pending = pending /\ grid'.retry = retry
        BY <2>3, <3>1
      <3> QED
        BY <1>0, <2>4, <3>2, <3>3, PlacedNext
    <2>6. GridType' /\ GridBatches'
      BY <1>0, <2>3 DEF GridType, GridBatches, NoGrid
    <2> QED
      BY <1>0, <1>4, <2>5, <2>6 DEF GridInv
  <1>5. CASE GridTake /\ phase' = "grid"
    <2> DEFINE cell == Cell(grid.seed, grid.cell)
               longer == Append(grid.pending, cell)
               step == IF Due(longer) THEN "flush" ELSE "cell"
    <2>1. /\ grid' = [grid EXCEPT !.cell = @ + 1, !.pending = longer, !.step = step]
          /\ grid.step = "cell"
      BY <1>5 DEF GridTake, End
    <2>2. grid.retry = <<>> /\ grid.seed \in Orientations
      BY <1>0, <2>1 DEF GridBatches, GridPlaced
    <2>3. cell \in Poses /\ longer \in Seq(Poses) /\ Len(longer) = Len(grid.pending) + 1
          /\ longer[Len(grid.pending) + 1] = cell
          /\ \A i \in 1..Len(grid.pending) : longer[i] = grid.pending[i]
      <3>1. Width(grid.seed) \in Nat
        BY <1>0, <2>2, WidthIsPositive
      <3>2. grid.cell * Width(grid.seed) \in Nat
        BY <1>2, <3>1
      <3>3. cell \in Poses
        BY <1>0, <3>2 DEF Cell, Poses, GridType
      <3> HIDE DEF cell
      <3> QED
        BY <1>0, <3>3 DEF GridType
    <2>4. grid.cell - Len(grid.pending) = Decided /\ Decided \in Nat
      BY <1>0, <1>2, <2>1, <2>2 DEF Decided, GridPlaced
    <2>5. From(grid.seed, Decided, longer)
      <3>1. SUFFICES ASSUME NEW i \in 1..Len(longer)
                     PROVE  longer[i] = Cell(grid.seed, Decided + i - 1)
        BY DEF From
      <3>2. CASE i \in 1..Len(grid.pending)
        BY <1>0, <2>1, <2>3, <3>2 DEF GridPlaced, From
      <3>3. CASE i = Len(grid.pending) + 1
        <4>1. Decided + i - 1 = grid.cell
          BY <1>2, <2>4, <3>3
        <4> QED
          BY <2>3, <3>3, <4>1
      <3> QED
        BY <1>2, <2>3, <3>2, <3>3
    <2>6. IsGreedy(grid.working, grid.seed, Decided)
      BY <1>0, <2>1 DEF GridPlaced
    <2> HIDE DEF longer, cell
    <2>7. /\ grid'.working = grid.working /\ grid'.seed = grid.seed /\ grid'.pending = longer
          /\ grid'.retry = <<>> /\ grid'.cell = grid.cell + 1 /\ grid'.step \in {"cell", "flush"}
          /\ DOMAIN grid' = DOMAIN NoGrid
      BY <1>0, <2>1, <2>2 DEF GridType, NoGrid
    <2>8. Decided' = Decided
      <3>1. Decided' = grid.cell + 1 - (Len(grid.pending) + 1) - 0
        BY <1>2, <2>3, <2>7 DEF Decided
      <3> QED
        BY <1>2, <2>4, <3>1
    <2>9. GridPlaced'
      <3>1. PICK o, n, layout, pending, retry :
              /\ o = grid.seed /\ n = Decided /\ layout = grid.working
              /\ pending = longer /\ retry = <<>>
        OBVIOUS
      <3>2. /\ o \in Orientations /\ n \in Nat /\ IsGreedy(layout, o, n)
            /\ From(o, n, pending) /\ From(o, n, retry)
        BY <1>3, <2>2, <2>4, <2>5, <2>6, <3>1
      <3>3. /\ grid'.working = layout /\ grid'.seed = o /\ Decided' = n
            /\ grid'.pending = pending /\ grid'.retry = retry
        BY <2>7, <2>8, <3>1
      <3> QED
        BY <1>0, <3>2, <3>3, PlacedNext
    <2>10. GridType' /\ GridBatches'
      <3>1. longer # <<>>
        BY <1>2, <2>3
      <3> QED
        BY <1>0, <1>2, <2>3, <2>7, <3>1 DEF GridType, GridBatches, NoGrid
    <2> QED
      BY <1>0, <1>5, <2>9, <2>10 DEF GridInv
  <1>6. CASE GridFlush
    <2> DEFINE cleared == [grid EXCEPT !.pending = <<>>, !.step = "cell"]
               failed == IF Len(grid.pending) > 1
                         THEN [cleared EXCEPT !.retry = grid.pending, !.step = "retry"]
                         ELSE cleared
    <2>1. Submit(grid.pending, cleared, failed) /\ grid.step = "flush"
      BY <1>6 DEF GridFlush
    <2>2. /\ grid.retry = <<>> /\ grid.pending # <<>> /\ grid.seed \in Orientations
          /\ Decided \in Nat /\ Decided = grid.cell - Len(grid.pending)
          /\ From(grid.seed, Decided, grid.pending) /\ IsGreedy(grid.working, grid.seed, Decided)
      BY <1>0, <1>2, <2>1 DEF GridBatches, GridPlaced, Decided
    <2>3. grid.pending \in Seq(Poses) /\ Len(grid.pending) >= 1
      BY <1>0, <2>2 DEF GridType
    <2>4. /\ DOMAIN cleared = DOMAIN NoGrid /\ cleared.step = "cell" /\ cleared.seed = grid.seed
          /\ cleared.cell = grid.cell /\ cleared.pending = <<>> /\ cleared.retry = <<>>
          /\ cleared.working = grid.working
      BY <1>0, <2>2 DEF GridType, NoGrid
    <2>5. /\ DOMAIN failed = DOMAIN NoGrid /\ failed.seed = grid.seed
          /\ failed.cell = grid.cell /\ failed.pending = <<>> /\ failed.working = grid.working
          /\ IF Len(grid.pending) > 1 THEN failed.step = "retry" /\ failed.retry = grid.pending
             ELSE failed.step = "cell" /\ failed.retry = <<>>
      <3> HIDE DEF cleared
      <3> QED
        BY <2>4 DEF NoGrid
    <2> HIDE DEF cleared, failed
    <2>6. PICK o, n, batch, passed, fallen :
            /\ o = grid.seed /\ n = Decided /\ batch = grid.pending
            /\ passed = cleared /\ fallen = failed
      OBVIOUS
    <2>7. /\ o \in Orientations /\ n \in Nat /\ batch \in Seq(Poses) /\ batch # <<>>
          /\ IsGreedy(grid.working, o, n) /\ From(o, n, batch) /\ Submit(batch, passed, fallen)
      BY <2>1, <2>2, <2>3, <2>6
    <2>8. passed.retry = <<>> /\ grid.cell - Len(passed.retry) = n + Len(batch)
          /\ From(o, n + Len(batch), passed.retry)
      BY <1>2, <1>3, <2>2, <2>4, <2>6
    <2>9. /\ passed.retry \in Seq(Poses) /\ fallen.retry \in Seq(Poses)
          /\ fallen.step \in {"cell", "retry"} /\ (fallen.step = "retry" <=> fallen.retry # <<>>)
          /\ \/ Len(batch) = 1 /\ fallen.retry = passed.retry
             \/ Len(batch) > 1 /\ fallen.retry = batch /\ grid.cell - Len(batch) = n
      <3>1. <<>> \in Seq(Poses)
        OBVIOUS
      <3>2. CASE Len(grid.pending) > 1
        BY <2>2, <2>3, <2>5, <2>6, <2>8, <3>1, <3>2
      <3>3. CASE ~(Len(grid.pending) > 1)
        <4>1. Len(batch) = 1
          <5>1. Len(grid.pending) = 1
            <6>1. PICK l \in Nat : l = Len(grid.pending)
              BY <1>2
            <6>2. l >= 1
              BY <2>3, <6>1
            <6>3. ~(l > 1)
              BY <3>3, <6>1
            <6>4. l = 1
              BY <6>2, <6>3
            <6> QED
              BY <6>1, <6>4
          <5> QED
            BY <2>6, <5>1
        <4> QED
          BY <2>5, <2>6, <2>8, <3>1, <3>3, <4>1
      <3> QED
        BY <3>2, <3>3
    <2> QED
      BY <1>0, <2>4, <2>5, <2>6, <2>7, <2>8, <2>9, SubmissionKeepsGrid
  <1>7. CASE GridRetry
    <2> DEFINE rest == Tail(grid.retry)
               next == [grid EXCEPT !.retry = rest,
                                    !.step = IF rest = <<>> THEN "cell" ELSE "retry"]
    <2>1. Submit(<<Head(grid.retry)>>, next, next) /\ grid.step = "retry"
      BY <1>7 DEF GridRetry
    <2>2. /\ grid.retry # <<>> /\ grid.pending = <<>> /\ grid.seed \in Orientations
          /\ Decided \in Nat /\ Decided = grid.cell - Len(grid.retry)
          /\ From(grid.seed, Decided, grid.retry) /\ IsGreedy(grid.working, grid.seed, Decided)
      BY <1>0, <1>2, <2>1 DEF GridBatches, GridPlaced, Decided
    <2>3. /\ grid.retry \in Seq(Poses) /\ Head(grid.retry) = grid.retry[1]
          /\ Len(grid.retry) >= 1 /\ rest \in Seq(Poses) /\ Len(rest) = Len(grid.retry) - 1
          /\ \A i \in 1..Len(rest) : rest[i] = grid.retry[i + 1]
          /\ Head(grid.retry) \in Poses
      BY <1>0, <2>2 DEF GridType
    <2> HIDE DEF rest
    <2>4. /\ DOMAIN next = DOMAIN NoGrid /\ next.step = (IF rest = <<>> THEN "cell" ELSE "retry")
          /\ next.seed = grid.seed /\ next.cell = grid.cell /\ next.pending = <<>>
          /\ next.retry = rest /\ next.working = grid.working
      BY <1>0, <2>2 DEF GridType, NoGrid
    <2> HIDE DEF next
    <2>5. PICK o, n, batch, passed :
            /\ o = grid.seed /\ n = Decided /\ batch = <<Head(grid.retry)>> /\ passed = next
      OBVIOUS
    <2>6. /\ o \in Orientations /\ n \in Nat /\ batch \in Seq(Poses) /\ batch # <<>>
          /\ Len(batch) = 1 /\ IsGreedy(grid.working, o, n) /\ Submit(batch, passed, passed)
      BY <2>1, <2>2, <2>3, <2>5
    <2>7. From(o, n, batch)
      <3>1. grid.retry[1] = Cell(o, n + 1 - 1) /\ batch[1] = grid.retry[1]
        <4>1. 1 \in 1..Len(grid.retry)
          BY <2>3
        <4>2. grid.retry[1] = Cell(grid.seed, Decided + 1 - 1)
          BY <2>2, <4>1 DEF From
        <4>3. o = grid.seed /\ n = Decided
          BY <2>5
        <4>4. batch[1] = Head(grid.retry)
          BY <2>5
        <4> QED
          BY <2>3, <4>2, <4>3, <4>4
      <3>2. 1..Len(batch) = {1}
        BY <2>6
      <3> QED
        BY <3>1, <3>2 DEF From
    <2>8. From(o, n + Len(batch), passed.retry)
      <3>1. SUFFICES ASSUME NEW i \in 1..Len(rest)
                     PROVE  rest[i] = Cell(o, n + 1 + i - 1)
        BY <2>4, <2>5, <2>6 DEF From
      <3>2. i + 1 \in 1..Len(grid.retry) /\ n + (i + 1) - 1 = n + 1 + i - 1
        <4>1. Len(grid.retry) \in Nat /\ Len(rest) = Len(grid.retry) - 1 /\ i \in 1..Len(rest)
          BY <1>2, <2>3
        <4>2. i \in Int /\ i >= 1 /\ i <= Len(grid.retry) - 1
          BY <4>1
        <4> QED
          BY <2>6, <4>1, <4>2
      <3>3. grid.retry[i + 1] = Cell(o, n + (i + 1) - 1)
        BY <2>2, <2>5, <3>2 DEF From
      <3> QED
        BY <2>3, <3>2, <3>3
    <2>9. grid.cell - Len(passed.retry) = n + Len(batch)
      BY <1>2, <2>2, <2>3, <2>4, <2>5, <2>6
    <2> QED
      BY <1>0, <2>3, <2>4, <2>5, <2>6, <2>7, <2>8, <2>9, SubmissionKeepsGrid, ZenonT(60)
  <1>8. CASE GridEndSeed /\ phase' = "grid"
    <2>1. \/ grid' = GridAt("flush") /\ grid.pending # <<>>
          \/ grid' = [grid EXCEPT !.step = "seed", !.seed = @ + 1, !.passes = @ + 1]
             /\ grid.pending = <<>>
      BY <1>8 DEF GridEndSeed, End
    <2>2. grid.step = "cell" /\ grid.retry = <<>>
      BY <1>0, <1>8 DEF GridEndSeed, GridBatches
    <2>3. CASE grid' = GridAt("flush") /\ grid.pending # <<>>
      <3>1. /\ grid'.working = grid.working /\ grid'.seed = grid.seed
            /\ grid'.pending = grid.pending /\ grid'.retry = grid.retry
            /\ grid'.cell = grid.cell /\ grid'.step = "flush" /\ DOMAIN grid' = DOMAIN NoGrid
        BY <1>0, <2>3 DEF GridAt, GridType, NoGrid
      <3>2. Decided' = Decided
        BY <3>1 DEF Decided
      <3>3. GridPlaced'
        <4>1. PICK o, n, layout, pending, retry :
                /\ o = grid.seed /\ n = Decided /\ layout = grid.working
                /\ pending = grid.pending /\ retry = grid.retry
          OBVIOUS
        <4>2. /\ o \in Orientations /\ n \in Nat /\ IsGreedy(layout, o, n)
              /\ From(o, n, pending) /\ From(o, n, retry)
          BY <1>0, <2>2, <4>1 DEF GridPlaced
        <4>3. /\ grid'.working = layout /\ grid'.seed = o /\ Decided' = n
              /\ grid'.pending = pending /\ grid'.retry = retry
          BY <3>1, <3>2, <4>1
        <4> QED
          BY <1>0, <4>2, <4>3, PlacedNext
      <3>4. GridType' /\ GridBatches'
        BY <1>0, <2>2, <2>3, <3>1 DEF GridType, GridBatches, NoGrid
      <3> QED
        BY <1>0, <1>8, <3>3, <3>4 DEF GridInv
    <2>4. CASE grid' = [grid EXCEPT !.step = "seed", !.seed = @ + 1, !.passes = @ + 1]
               /\ grid.pending = <<>>
      <3>1. /\ grid'.seed = grid.seed + 1 /\ grid'.pending = <<>> /\ grid'.retry = <<>>
            /\ grid'.cell = grid.cell /\ grid'.step = "seed" /\ DOMAIN grid' = DOMAIN NoGrid
        BY <1>0, <2>2, <2>4 DEF GridType, NoGrid
      <3>2. GridType' /\ GridBatches' /\ GridPlaced'
        BY <1>0, <3>1 DEF GridType, GridBatches, GridPlaced, NoGrid
      <3> QED
        BY <1>0, <1>8, <3>2 DEF GridInv
    <2> QED
      BY <2>1, <2>3, <2>4
  <1>9. phase' \notin {"start", "grid"} \/ phase' = "grid"
    <2>1. CASE GridSeed \/ GridTake \/ GridEndSeed \/ GridDenied
      BY <1>0, <2>1 DEF GridSeed, GridTake, GridEndSeed, GridDenied, End, Going
    <2>2. ASSUME NEW batch, NEW passed, NEW failed, Submit(batch, passed, failed)
          PROVE  phase' \in {"grid", "afterGrid"}
      BY <1>0, <2>2 DEF Submit, End, EndOffer, Going
    <2>3. CASE GridFlush \/ GridRetry
      BY <2>2, <2>3 DEF GridFlush, GridRetry
    <2> QED
      BY <2>1, <2>3
  <1>10. GridDenied => phase' = "afterGrid"
    BY DEF GridDenied, End
  <1> QED
    BY <1>1, <1>4, <1>5, <1>6, <1>7, <1>8, <1>9, <1>10

(* The grid starts from nothing.                                               *)
LEMMA StartKeepsGrid ==
  ASSUME GridInv, StartGrid
  PROVE  GridInv'
  <1>0. phase = "start" /\ scene' = scene /\ scene \in Scenes /\ grid = NoGrid
    BY DEF StartGrid, GridInv
  <1>1. CASE phase' # "grid"
    <2>1. phase' = "afterGrid"
      BY <1>1 DEF StartGrid, End, EndOffer
    <2> QED
      BY <1>0, <2>1 DEF GridInv
  <1>2. CASE phase' = "grid"
    <2>1. grid' = GridAt("seed")
      BY <1>2 DEF StartGrid, End, EndOffer
    <2>2. grid' = NoGrid \/ grid' = [NoGrid EXCEPT !.step = "seed"]
      BY <1>0, <2>1 DEF GridAt
    <2>3. /\ grid'.step = "seed" /\ grid'.seed = 1 /\ grid'.cell = 0
          /\ grid'.pending = <<>> /\ grid'.retry = <<>> /\ DOMAIN grid' = DOMAIN NoGrid
      BY <1>0, <2>1 DEF GridAt, NoGrid
    <2>4. GridType'
      BY <2>3 DEF GridType, NoGrid
    <2>5. GridBatches' /\ GridPlaced'
      BY <2>3 DEF GridBatches, GridPlaced
    <2> QED
      BY <1>0, <1>2, <2>4, <2>5 DEF GridInv
  <1> QED
    BY <1>1, <1>2

(* The invariant holds at first and is kept by every step.                     *)
LEMMA GridInductive ==
  /\ SearchInit => GridInv
  /\ GridInv /\ [SearchNext]_spectralVars => GridInv'
  <1>1. ASSUME SearchInit
        PROVE  GridInv
    BY <1>1 DEF SearchInit, WorkspaceInit, LayoutInit, BaselineInit, SpaceInit, GridInv
  <1>2. ASSUME GridInv, scene' = scene, phase' \notin {"start", "grid"}
        PROVE  GridInv'
    BY <1>2 DEF GridInv
  <1>3. ASSUME GridInv, BaselineStep
        PROVE  GridInv'
    <2>1. CASE StartGrid
      BY <1>3, <2>1, StartKeepsGrid
    <2>2. CASE GridSeed \/ GridTake \/ GridFlush \/ GridRetry \/ GridEndSeed \/ GridDenied
      BY <1>3, <2>2, GridKeepsGrid
    <2>3. CASE AfterGrid \/ StaggerDenied \/ AfterStagger \/ BaselineInterrupted
      BY <1>2, <1>3, <2>3 DEF AfterGrid, StaggerDenied, AfterStagger, BaselineInterrupted, End
    <2>4. CASE StaggerPlan
      <3>1. scene' = scene /\ phase' = "staggerTrial"
        BY <2>4, SMT DEF StaggerPlan
      <3> QED
        BY <1>2, <1>3, <3>1
    <2>5. CASE StaggerTrial
      BY <1>2, <1>3, <2>5 DEF StaggerTrial, End, EndOffer, Going
    <2> QED
      BY <1>3, <2>1, <2>2, <2>3, <2>4, <2>5 DEF BaselineStep
  <1>4. ASSUME GridInv, NextLayout \/ SlabTrial \/ BlockTrial \/ StaggerPairTrial \/ PlannerDenied
                        \/ AfterLayout \/ LayoutInterrupted
        PROVE  GridInv'
    <2>1. ASSUME NEW layout, Check(layout), phase = "planner"
          PROVE  phase' \in {"planner", "afterLayout"}
      BY <2>1 DEF Check, End, EndOffer, Going
    <2>2. ASSUME NEW found, TryNext(found)
          PROVE  scene' = scene /\ phase' \in {"planner", "afterLayout"}
      BY <2>1, <2>2 DEF TryNext, EndPlanner, End, Going
    <2>3. CASE BlockTrial \/ StaggerPairTrial
      BY <1>2, <1>4, <2>2, <2>3 DEF BlockTrial, StaggerPairTrial
    <2>4. CASE SlabTrial
      BY <1>2, <1>4, <2>4 DEF SlabTrial, EndPlanner, End, EndOffer, Going
    <2>5. CASE NextLayout \/ PlannerDenied \/ AfterLayout \/ LayoutInterrupted
      BY <1>2, <1>4, <2>5 DEF NextLayout, PlannerDenied, EndPlanner, AfterLayout,
         LayoutInterrupted, End
    <2> QED
      BY <1>4, <2>3, <2>4, <2>5
  <1>5. ASSUME GridInv, Sweep \/ Contract \/ Slide \/ Drop \/ SweepCut \/ SettleLayout
                  \/ FillStart \/ FillStep \/ FillEnds \/ FillOffer \/ Greedier
                  \/ CompactionDenied
        PROVE  GridInv'
    <2>1. ASSUME NEW layout, NEW next, OfferAccepted(layout, next), phase = "compaction"
          PROVE  phase' \in {"compaction", "afterLayout"}
      BY <2>1 DEF OfferAccepted, End, EndOffer, Going
    <2>2. CASE SettleLayout \/ FillOffer
      BY <1>2, <1>5, <2>1, <2>2 DEF SettleLayout, FillOffer, Going
    <2>3. CASE Sweep \/ Greedier \/ CompactionDenied
      BY <1>2, <1>5, <2>3 DEF Sweep, Greedier, CompactionDenied, End, Going
    <2>4. CASE Contract \/ Slide \/ Drop \/ SweepCut
      BY <1>2, <1>5, <2>4 DEF Contract, Slide, Drop, SweepCut, Going
    <2>5. CASE FillStart \/ FillStep \/ FillEnds
      BY <1>2, <1>5, <2>5 DEF FillStart, FillStep, FillEnds, Going
    <2> QED
      BY <1>5, <2>2, <2>3, <2>4, <2>5
  <1>6. ASSUME GridInv, BuildStep
        PROVE  GridInv'
    <2>1. scene' = scene /\ phase' = "trial"
      BY <1>6 DEF BuildStep, BuildEnter, BuildLayout, BuildKernel, BuildBinary, BuildRanked,
                  BuildPage, Recover, GiveUp, Building, buildLeaves
    <2> QED
      BY <1>2, <1>6, <2>1
  <1>7. ASSUME GridInv, SpectralStep
        PROVE  GridInv'
    <2>1. ASSUME NEW why, Stop(why)
          PROVE  phase' = "done"
      BY <2>1 DEF Stop, End
    <2>2. ASSUME NEW layout, NEW next, OfferTrial(layout, next), phase = "trial"
          PROVE  phase' \in {"trial", "done"}
      BY <2>2 DEF OfferTrial, End, Going
    <2>3. ASSUME NEW pose, NEW refinement, NEW rest, TryPose(pose, refinement, rest),
                 phase = "trial"
          PROVE  phase' \in {"trial", "done"}
      BY <2>1, <2>2, <2>3 DEF TryPose, outcomeVars
    <2>4. ASSUME NEW rest, Refused(rest), phase = "trial"
          PROVE  phase' \in {"trial", "done"}
      BY <2>1, <2>4 DEF Refused, outcomeVars
    <2>5. CASE RunRefused \/ EnterTrials
      BY <1>2, <1>7, <2>5 DEF RunRefused, EnterTrials, End, fixed
    <2>6. CASE OfferRetained \/ EmptyStart \/ OpenRound
      BY <1>2, <1>7, <2>1, <2>2, <2>6 DEF OfferRetained, EmptyStart, OpenRound, InTrial,
         outcomeVars, fixed
    <2>7. CASE LoadPage \/ TakePage \/ PageRefused \/ LoadLow \/ TakeLow \/ LowRefused
      BY <1>2, <1>7, <2>4, <2>7 DEF LoadPage, TakePage, PageRefused, Refused, LoadLow, TakeLow,
         LowRefused, InTrial, outcomeVars, fixed
    <2>8. CASE Choose \/ TryFace \/ TryLow
      <3>1. scene' = scene /\ phase = "trial"
        BY <2>8 DEF Choose, TryFace, TryLow, InTrial, fixed
      <3>2. phase' \in {"trial", "done"}
        BY <2>3, <2>8, <3>1 DEF Choose, TryFace, TryLow, outcomeVars
      <3> QED
        BY <1>2, <1>7, <3>1, <3>2
    <2>9. CASE LatticeDone \/ LowDone \/ QueryFaces
      BY <1>2, <1>7, <2>1, <2>9 DEF LatticeDone, LowDone, QueryFaces, InTrial, outcomeVars, fixed
    <2>10. CASE OutOfBudget \/ TrialDone \/ Interrupted \/ TrialThrows
      BY <1>2, <1>7, <2>1, <2>10 DEF OutOfBudget, TrialDone, Interrupted, TrialThrows, InTrial,
         End, outcomeVars, fixed
    <2> QED
      BY <1>7, <2>5, <2>6, <2>7, <2>8, <2>9, <2>10 DEF SpectralStep
  <1>8. ASSUME GridInv, Stopping \/ UNCHANGED spectralVars
        PROVE  GridInv'
    <2>1. UNCHANGED <<scene, phase, grid>>
      BY <1>8 DEF Stopping, Halt, spectralVars, workspaceVars, layoutVars, baselineVars, space
    <2> QED
      BY <1>8, <2>1, GridLeft
  <1>9. ASSUME GridInv, LayoutStep
        PROVE  GridInv'
    BY <1>3, <1>4, <1>5, <1>9 DEF LayoutStep
  <1> QED
    BY <1>1, <1>6, <1>7, <1>8, <1>9 DEF SearchNext, Step

(* However the grid's copies are batched and retried, it places what greedy    *)
(* placement would have placed.                                                *)
THEOREM GridAlwaysGreedy == SearchSpec => []GridIsGreedy
  <1>1. ASSUME GridInv
        PROVE  GridIsGreedy
    <2>1. SUFFICES ASSUME phase = "grid", grid.step = "cell"
                   PROVE  IsGreedy(grid.working, grid.seed, grid.cell - Len(grid.pending))
      BY DEF GridIsGreedy
    <2>2. /\ GridType /\ GridBatches /\ GridPlaced
      BY <1>1, <2>1 DEF GridInv
    <2>3. Len(grid.retry) = 0 /\ grid.cell \in Nat /\ Len(grid.pending) \in Nat
      BY <2>1, <2>2 DEF GridBatches, GridType
    <2>4. Decided = grid.cell - Len(grid.pending)
      BY <2>3 DEF Decided
    <2> QED
      BY <2>1, <2>2, <2>4 DEF GridPlaced
  <1> QED
    BY <1>1, GridInductive, PTL DEF SearchSpec

-----------------------------------------------------------------------------
(* The lattice                                                                 *)

(* A quotient and its remainder.                                               *)
LEMMA QuotientBounds ==
  ASSUME NEW a \in Nat, NEW p \in Nat \ {0}
  PROVE  /\ a \div p \in Nat
         /\ (a \div p) * p <= a /\ a < (a \div p) * p + p
  OBVIOUS

(* It is the only one.                                                         *)
LEMMA QuotientIsUnique ==
  ASSUME NEW a \in Nat, NEW p \in Nat \ {0}, NEW q \in Nat,
         q * p <= a, a < q * p + p
  PROVE  a \div p = q
  <1> DEFINE d == a \div p
  <1>1. d \in Nat /\ d * p <= a /\ a < d * p + p
    BY QuotientBounds
  <1> HIDE DEF d
  <1>2. d * p \in Nat /\ q * p \in Nat
    BY <1>1
  <1>3. ASSUME d < q
        PROVE  FALSE
    <2>1. (d + 1) * p = d * p + p
      BY <1>1
    <2>2. (d + 1) * p <= q * p
      <3>1. d + 1 < q \/ d + 1 = q
        BY <1>1, <1>3
      <3> QED
        BY <1>1, <1>2, <2>1, <3>1, ProductsGrow
    <2> QED
      BY <1>1, <1>2, <2>1, <2>2
  <1>4. ASSUME q < d
        PROVE  FALSE
    <2>1. (q + 1) * p = q * p + p
      OBVIOUS
    <2>2. (q + 1) * p <= d * p
      <3>1. q + 1 < d \/ q + 1 = d
        BY <1>1, <1>4
      <3> QED
        BY <1>1, <1>2, <2>1, <3>1, ProductsGrow
    <2> QED
      BY <1>1, <1>2, <2>1, <2>2
  <1>5. d = q
    BY <1>1, <1>3, <1>4
  <1> QED
    BY <1>5 DEF d

(* Whole voxels shift a quotient by as many.                                   *)
LEMMA QuotientShifts ==
  ASSUME NEW t \in Nat, NEW a \in Nat, NEW p \in Nat \ {0}
  PROVE  (t * p + a) \div p = t + a \div p
  <1> DEFINE d == a \div p
  <1>1. d \in Nat /\ d * p <= a /\ a < d * p + p
    BY QuotientBounds
  <1> HIDE DEF d
  <1>2. (t + d) * p = t * p + d * p /\ t * p \in Nat /\ d * p \in Nat
    BY <1>1
  <1>3. t * p + a \in Nat /\ t + d \in Nat
    BY <1>1, <1>2
  <1>4. (t + d) * p <= t * p + a /\ t * p + a < (t + d) * p + p
    BY <1>1, <1>2
  <1>5. (t * p + a) \div p = t + d
    BY <1>3, <1>4, QuotientIsUnique
  <1> QED
    BY <1>5 DEF d

(* The container is a number of voxels, and a kernel is a finite set of them.  *)
LEMMA KernelIsFinite ==
  ASSUME scene \in Scenes, NEW o \in Orientations
  PROVE  /\ scene.solid[o] \in SUBSET Nat /\ scene.solid[o] # {}
         /\ IsFiniteSet(scene.solid[o])
         /\ Kernel(o) \in SUBSET Nat /\ Kernel(o) # {} /\ IsFiniteSet(Kernel(o))
         /\ Max(Kernel(o)) \in Nat /\ \A k \in Kernel(o) : k <= Max(Kernel(o))
  <1>1. scene.solid[o] \in SUBSET Nat /\ scene.solid[o] # {} /\ IsFiniteSet(scene.solid[o])
    <2>1. scene.solid \in Seq((SUBSET Nat) \ {{}}) /\ o \in DOMAIN scene.solid
      BY SceneAssumption DEF Orientations
    <2>2. scene.solid[o] \in (SUBSET Nat) \ {{}}
      BY <2>1
    <2> QED
      BY <2>1, <2>2, SceneAssumption
  <1>2. Kernel(o) \in SUBSET Nat /\ Kernel(o) # {}
    BY <1>1, SpaceAssumption, QuotientBounds DEF Kernel
  <1>3. IsFiniteSet(Kernel(o))
    <2> DEFINE f == [s \in scene.solid[o] |-> s \div Pitch]
    <2>1. f \in Surjection(scene.solid[o], Kernel(o))
      BY DEF Surjection, Kernel
    <2> QED
      BY <1>1, <2>1, FS_Surjection
  <1> QED
    BY <1>1, <1>2, <1>3, MaxIsGreatest

(* At a translation of the lattice no translation wraps around: the            *)
(* correlation is zero where the voxels are free.                              *)
LEMMA CorrelationFindsFree ==
  ASSUME scene \in Scenes, NEW o \in Orientations, NEW t \in Translations(o), NEW layout
  PROVE  /\ Correlation(layout, o)[t] = 0 <=> Stamp(o, t) \cap Occupied(layout) = {}
         /\ Overlap(layout, o, t) = 0 <=> Stamp(o, t) \cap Occupied(layout) = {}
  <1> DEFINE m == Max(Kernel(o))
             l == Length \div Pitch
             n == Padded(o)
             taken == Occupied(layout)
             meet == {k \in Kernel(o) : (t + k + n) % n \in taken}
  <1>1. /\ Kernel(o) \in SUBSET Nat /\ Kernel(o) # {} /\ IsFiniteSet(Kernel(o))
        /\ m \in Nat /\ \A k \in Kernel(o) : k <= m
    BY KernelIsFinite
  <1>2. l \in Nat
    BY SpaceAssumption, QuotientBounds
  <1>3. t \in 0..(l - m - 1) /\ n = l + m
    BY DEF Translations, Padded
  <1> HIDE DEF m, l
  <1>4. n \in Nat \ {0} /\ t \in Nat /\ t \in -m..(l - 1)
    BY <1>1, <1>2, <1>3
  <1>5. ASSUME NEW k \in Kernel(o)
        PROVE  (t + k + n) % n = k + t
    <2>1. k \in Nat /\ k + t \in Nat /\ k + t < n
      BY <1>1, <1>2, <1>3, <1>4
    <2> HIDE DEF n
    <2> QED
      BY <1>4, <2>1
  <1> HIDE DEF n
  <1>6. Correlation(layout, o)[t] = Cardinality(meet)
    BY <1>4 DEF Correlation, m, l, n
  <1>7. IsFiniteSet(meet)
    BY <1>1, FS_Subset
  <1>8. Cardinality(meet) = 0 <=> meet = {}
    BY <1>7, FS_EmptySet
  <1>9. meet = {} <=> Stamp(o, t) \cap taken = {}
    BY <1>5 DEF Stamp
  <1>10. IsFiniteSet(Stamp(o, t))
    <2> DEFINE f == [k \in Kernel(o) |-> k + t]
    <2>1. f \in Surjection(Kernel(o), Stamp(o, t))
      BY DEF Surjection, Stamp
    <2> QED
      BY <1>1, <2>1, FS_Surjection
  <1>11. IsFiniteSet(Stamp(o, t) \cap taken)
    BY <1>10, FS_Subset
  <1>12. Overlap(layout, o, t) = Cardinality(Stamp(o, t) \cap taken)
    BY DEF Overlap, Stamp
  <1> QED
    BY <1>6, <1>8, <1>9, <1>11, <1>12, FS_EmptySet

(* The voxels a copy on the lattice touches.                                   *)
LEMMA StampIsTouched ==
  ASSUME scene \in Scenes, NEW o \in Orientations, NEW t \in Nat
  PROVE  {c \div Pitch : c \in Body(At(o, t))} = Stamp(o, t)
  <1>1. Body(At(o, t)) = {t * Pitch + s : s \in scene.solid[o]}
    BY DEF Body, At
  <1>2. \A s \in scene.solid[o] : (t * Pitch + s) \div Pitch = s \div Pitch + t
    <2>1. SUFFICES ASSUME NEW s \in scene.solid[o]
                   PROVE  (t * Pitch + s) \div Pitch = s \div Pitch + t
      OBVIOUS
    <2>2. s \in Nat
      BY KernelIsFinite
    <2>3. (t * Pitch + s) \div Pitch = t + s \div Pitch /\ s \div Pitch \in Nat
      BY <2>2, SpaceAssumption, QuotientShifts, QuotientBounds
    <2> QED
      BY <2>3
  <1> QED
    BY <1>1, <1>2 DEF Stamp, Kernel

(* One more copy takes its stamp.                                              *)
LEMMA OccupiedGrows ==
  ASSUME scene \in Scenes, NEW o \in Orientations, NEW t \in Nat, NEW layout
  PROVE  Occupied(layout \cup {At(o, t)}) = Occupied(layout) \cup Stamp(o, t)
  <1> DEFINE Touches(p, v) == \E c \in Body(p) : v = c \div Pitch
  <1>1. \A v, whole : v \in Occupied(whole) <=> \E p \in whole : Touches(p, v)
    BY DEF Occupied
  <1>2. \A v : v \in Stamp(o, t) <=> Touches(At(o, t), v)
    BY StampIsTouched
  <1> HIDE DEF Touches
  <1>3. PICK grown : grown = layout \cup {At(o, t)}
    OBVIOUS
  <1>4. \A v : v \in Occupied(grown) <=> v \in Occupied(layout) \/ v \in Stamp(o, t)
    BY <1>1, <1>2, <1>3
  <1> QED
    BY <1>3, <1>4

(* A translation of the lattice keeps the copy inside.                         *)
LEMMA TranslationFits ==
  ASSUME scene \in Scenes, NEW o \in Orientations, NEW t \in Translations(o)
  PROVE  Fits(At(o, t))
  <1> DEFINE m == Max(scene.solid[o])
             k == Max(Kernel(o))
             l == Length \div Pitch
  <1>1. /\ m \in scene.solid[o] /\ m \in Nat /\ k \in Nat
        /\ \A j \in Kernel(o) : j <= k
    BY KernelIsFinite, MaxIsGreatest
  <1>2. l \in Nat /\ Length = l * Pitch /\ Pitch \in Nat \ {0}
    BY SpaceAssumption
  <1>3. m \div Pitch \in Nat /\ m \div Pitch <= k /\ m < (m \div Pitch) * Pitch + Pitch
    BY <1>1, <1>2, QuotientBounds DEF Kernel
  <1>4. t \in Nat /\ t + k + 1 <= l
    BY <1>1, <1>2 DEF Translations
  <1>5. Width(o) = m + 1
    BY DEF Width
  <1>6. At(o, t) = <<o, t * Pitch>>
    BY DEF At
  <1> DEFINE d == m \div Pitch
  <1> HIDE DEF m, k, l, d
  <1>7. d \in Nat /\ d <= k /\ m < d * Pitch + Pitch
    BY <1>3 DEF d
  <1>8. /\ t * Pitch \in Nat /\ d * Pitch \in Nat
        /\ (t + d + 1) * Pitch = t * Pitch + d * Pitch + Pitch
    BY <1>2, <1>4, <1>7
  <1>9. (t + d + 1) * Pitch <= l * Pitch
    <2>1. t + d + 1 < l \/ t + d + 1 = l
      BY <1>1, <1>2, <1>4, <1>7
    <2> QED
      BY <1>2, <1>4, <1>7, <2>1, ProductsGrow
  <1>10. t * Pitch + Width(o) <= Length /\ t * Pitch \in 0..Length
    BY <1>1, <1>2, <1>5, <1>7, <1>8, <1>9
  <1> QED
    BY <1>6, <1>10 DEF Fits

(* Where the voxels are free, only what cannot be decided stands against       *)
(* another copy.                                                               *)
LEMMA FreeTakesCopy ==
  ASSUME scene \in Scenes, NEW o \in Orientations, NEW t \in Translations(o),
         NEW layout \in Layouts, Stamp(o, t) \cap Occupied(layout) = {},
         At(o, t) \notin scene.dim
  PROVE  CanAdd(layout, At(o, t))
  <1> DEFINE p == At(o, t)
  <1>1. t \in Nat
    BY DEF Translations
  <1>2. ASSUME NEW q \in layout
        PROVE  Body(p) \cap Body(q) = {}
    <2>1. SUFFICES ASSUME NEW c \in Body(p), c \in Body(q)
                   PROVE  FALSE
      OBVIOUS
    <2>2. c \div Pitch \in Stamp(o, t)
      BY <1>1, <2>1, StampIsTouched
    <2>3. c \div Pitch \in Occupied(layout)
      BY <2>1 DEF Occupied
    <2> QED
      BY <2>2, <2>3
  <1>3. Body(p) # {}
    BY KernelIsFinite DEF Body, At
  <1>4. p \notin layout
    BY <1>2, <1>3
  <1>5. Fits(p)
    BY TranslationFits
  <1>6. Valid(layout)
    BY DEF Layouts
  <1> HIDE DEF p
  <1>7. Valid(layout \cup {p})
    BY <1>2, <1>5, <1>6 DEF Valid, p
  <1> QED
    BY <1>4, <1>7 DEF CanAdd, p

-----------------------------------------------------------------------------
(* The gap filler: what is free in its masks                                   *)

(* A mask holds translations of its orientation: only free ones, and all of    *)
(* those but the ones whose pose cannot be decided.                            *)
Masked(base, free) ==
  /\ DOMAIN free = Orientations
  /\ \A o \in Orientations :
       /\ free[o] \subseteq Translations(o)
       /\ \A t \in Translations(o) :
            /\ t \in free[o] => Stamp(o, t) \cap Occupied(base) = {}
            /\ Stamp(o, t) \cap Occupied(base) = {} /\ At(o, t) \notin scene.dim
                 => t \in free[o]

(* The masks are those of the layout while it is filled.                       *)
FillInv ==
  /\ "step" \in DOMAIN comp
  /\ phase = "compaction" /\ comp.step = "filling" =>
       /\ DOMAIN fill = {"base", "free"}
       /\ Masked(fill.base, fill.free)

(* The masks of the correlations are.                                          *)
LEMMA MasksAreCorrelations ==
  ASSUME scene \in Scenes, NEW layout
  PROVE  Masked(layout, FreeOf(layout))
  <1>1. ASSUME NEW o \in Orientations
        PROVE  FreeOf(layout)[o] = {t \in Translations(o) : Correlation(layout, o)[t] = 0}
    BY DEF FreeOf
  <1> QED
    BY <1>1, CorrelationFindsFree DEF Masked, FreeOf

(* The filler inserts a translation it has.                                    *)
LEMMA LowestIsOpen ==
  ASSUME scene \in Scenes, NEW base, Masked(base, fill.free), Open # {}
  PROVE  /\ Lowest.o \in Orientations
         /\ Lowest.t \in fill.free[Lowest.o] /\ Lowest.t \in Translations(Lowest.o)
  <1> DEFINE all == UNION {fill.free[o] : o \in Open}
             t == Min(all)
             those == {o \in Open : t \in fill.free[o]}
  <1>1. Open \subseteq Orientations /\ DOMAIN fill.free = Orientations
    BY DEF Open, Masked
  <1>2. Orientations \subseteq Nat
    <2>1. Orientations = 1..Len(scene.solid)
      BY SceneAssumption DEF Orientations
    <2> QED
      BY <2>1
  <1>3. all \in SUBSET Nat /\ all # {}
    BY <1>1 DEF Open, Masked, Translations
  <1>4. t \in all
    <2>1. \E x \in all : \A y \in all : x <= y
      BY <1>3, LeastNat
    <2> QED
      BY <2>1 DEF Min
  <1>5. those \in SUBSET Nat /\ those # {}
    BY <1>1, <1>2, <1>4
  <1>6. Min(those) \in those
    <2>1. \E x \in those : \A y \in those : x <= y
      BY <1>5, LeastNat
    <2> QED
      BY <2>1 DEF Min
  <1>7. Lowest.o = Min(those) /\ Lowest.t = t
    BY DEF Lowest
  <1> HIDE DEF all, t
  <1> QED
    BY <1>1, <1>6, <1>7 DEF Masked

(* An insertion takes out of every mask what it blocks.                        *)
LEMMA InsertionKeepsMasks ==
  ASSUME scene \in Scenes, NEW base, NEW free, Masked(base, free),
         NEW o \in Orientations, NEW t \in Nat
  PROVE  Masked(base \cup {At(o, t)}, Inserted(free, o, t))
  <1>1. PICK grown : grown = base \cup {At(o, t)}
    OBVIOUS
  <1>2. Occupied(grown) = Occupied(base) \cup Stamp(o, t)
    BY <1>1, OccupiedGrows
  <1>3. DOMAIN Inserted(free, o, t) = Orientations
    BY DEF Inserted, Masked
  <1>4. ASSUME NEW q \in Orientations
        PROVE  /\ Inserted(free, o, t)[q] = {s \in free[q] : Stamp(q, s) \cap Stamp(o, t) = {}}
               /\ Inserted(free, o, t)[q] \subseteq Translations(q)
    BY DEF Inserted, Masked
  <1>5. ASSUME NEW q \in Orientations, NEW s \in Translations(q)
        PROVE  /\ s \in Inserted(free, o, t)[q] => Stamp(q, s) \cap Occupied(grown) = {}
               /\ Stamp(q, s) \cap Occupied(grown) = {} /\ At(q, s) \notin scene.dim
                    => s \in Inserted(free, o, t)[q]
    <2>1. Stamp(q, s) \cap Occupied(grown) = {}
            <=> Stamp(q, s) \cap Occupied(base) = {} /\ Stamp(q, s) \cap Stamp(o, t) = {}
      BY <1>2
    <2> QED
      BY <1>4, <2>1 DEF Masked
  <1>6. Masked(grown, Inserted(free, o, t))
    BY <1>3, <1>4, <1>5 DEF Masked
  <1> QED
    BY <1>1, <1>6

(* What the filler takes out after a rejection could not be decided.           *)
LEMMA RejectionKeepsMasks ==
  ASSUME scene \in Scenes, NEW base \in Layouts, NEW free, Masked(base, free),
         NEW o \in Orientations, NEW t \in free[o], ~CanAdd(base, At(o, t))
  PROVE  Masked(base, [free EXCEPT ![o] = @ \ {t}])
  <1>1. t \in Translations(o) /\ Stamp(o, t) \cap Occupied(base) = {}
    BY DEF Masked
  <1>2. At(o, t) \in scene.dim
    BY <1>1, FreeTakesCopy
  <1> QED
    BY <1>2 DEF Masked

(* The lattice is the same after a step.                                       *)
LEMMA LatticeStays ==
  ASSUME scene' = scene
  PROVE  /\ Orientations' = Orientations
         /\ \A base : Occupied(base)' = Occupied(base)
         /\ \A o : Kernel(o)' = Kernel(o)
         /\ \A o : Translations(o)' = Translations(o)
         /\ \A o, t : Stamp(o, t)' = Stamp(o, t)
         /\ \A base, free : Masked(base, free) => Masked(base, free)'
  <1>1. Orientations' = Orientations
    BY DEF Orientations
  <1>2. ASSUME NEW base
        PROVE  Occupied(base)' = Occupied(base)
    <2>1. \A p : Body(p)' = Body(p)
      BY DEF Body
    <2> QED
      BY <2>1 DEF Occupied
  <1>3. ASSUME NEW o
        PROVE  Kernel(o)' = Kernel(o)
    BY DEF Kernel
  <1>4. ASSUME NEW o
        PROVE  Translations(o)' = Translations(o)
    BY <1>3 DEF Translations
  <1>5. ASSUME NEW o, NEW t
        PROVE  Stamp(o, t)' = Stamp(o, t)
    BY <1>3 DEF Stamp
  <1>6. ASSUME NEW base, NEW free, Masked(base, free)
        PROVE  Masked(base, free)'
    BY <1>1, <1>2, <1>4, <1>5, <1>6 DEF Masked, At
  <1> QED
    BY <1>1, <1>2, <1>3, <1>4, <1>5, <1>6

(* A step that is not the filler's.                                            *)
LEMMA MasksStay ==
  ASSUME FillInv, scene' = scene, "step" \in DOMAIN comp',
         \/ phase' # "compaction"
         \/ comp'.step # "filling"
         \/ UNCHANGED <<phase, comp, fill>>
  PROVE  FillInv'
  <1>1. CASE phase' # "compaction" \/ comp'.step # "filling"
    BY <1>1 DEF FillInv
  <1>2. CASE UNCHANGED <<phase, comp, fill>>
    <2>1. PICK base, masks : base = fill.base /\ masks = fill.free
      OBVIOUS
    <2>2. Masked(base, masks) => Masked(fill.base, fill.free)'
      <3>1. Masked(base, masks) => Masked(base, masks)'
        BY LatticeStays
      <3>2. fill'.base = base /\ fill'.free = masks
        BY <1>2, <2>1
      <3> QED
        BY <3>1, <3>2
    <2> QED
      BY <1>2, <2>1, <2>2 DEF FillInv
  <1> QED
    BY <1>1, <1>2

(* The compaction but for the filling of gaps.                                 *)
LEMMA SweepsLeaveMasks ==
  ASSUME FillInv, Sweep \/ Contract \/ Slide \/ Drop \/ SweepCut \/ SettleLayout
                  \/ FillEnds \/ FillOffer \/ Greedier \/ CompactionDenied
  PROVE  FillInv'
  <1>0. scene' = scene /\ "step" \in DOMAIN comp /\ "step" \in DOMAIN NoCompaction
        /\ NoCompaction.step = "off"
    BY DEF Sweep, Contract, Slide, Drop, SweepCut, SettleLayout, FillEnds, FillOffer, Greedier,
           CompactionDenied, FillInv, NoCompaction
  <1>1. CASE Sweep
    BY <1>0, <1>1, MasksStay DEF Sweep, CompStep, End
  <1>2. ASSUME NEW proposal, NEW taken, NEW rejected, Accept(proposal, taken, rejected),
               "step" \in DOMAIN taken, taken.step # "filling",
               "step" \in DOMAIN rejected, rejected.step # "filling"
        PROVE  "step" \in DOMAIN comp' /\ comp'.step # "filling"
    BY <1>0, <1>2 DEF Accept
  <1>3. CASE Contract
    <2> DEFINE parts == IF comp.tries = 0 THEN comp.high ELSE (comp.low + comp.high) \div 2
               tried == [comp EXCEPT !.tries = @ + 1]
               taken == IF comp.tries = 0 THEN [tried EXCEPT !.step = "slide"]
                        ELSE [tried EXCEPT !.low = parts]
               rejected == [tried EXCEPT !.high = parts]
    <2>1. /\ "step" \in DOMAIN taken /\ taken.step # "filling"
          /\ "step" \in DOMAIN rejected /\ rejected.step # "filling"
      BY <1>0, <1>3 DEF Contract
    <2>2. comp' = CompStep("slide") \/ Accept(Pulled(comp.original, parts), taken, rejected)
      BY <1>3 DEF Contract
    <2> HIDE DEF parts, tried, taken, rejected
    <2>3. "step" \in DOMAIN comp' /\ comp'.step # "filling"
      BY <1>0, <1>2, <2>1, <2>2 DEF CompStep
    <2> QED
      BY <1>0, <2>3, MasksStay
  <1>4. CASE Slide
    <2> DEFINE drop == [comp EXCEPT !.step = "drop", !.turnOf = 1]
    <2>1. /\ "step" \in DOMAIN drop /\ drop.step # "filling"
          /\ "step" \in DOMAIN CompStep("settle") /\ CompStep("settle").step # "filling"
      BY <1>0 DEF CompStep
    <2>2. comp' = drop \/ Accept(Slid(comp.layout, Direction), drop, CompStep("settle"))
      BY <1>4 DEF Slide
    <2> HIDE DEF drop
    <2>3. "step" \in DOMAIN comp' /\ comp'.step # "filling"
      BY <1>2, <2>1, <2>2
    <2> QED
      BY <1>0, <2>3, MasksStay
  <1>5. CASE Drop
    <2> DEFINE next == [comp EXCEPT !.turnOf = @ + 1]
    <2>1. /\ "step" \in DOMAIN next /\ next.step # "filling"
          /\ "step" \in DOMAIN comp /\ comp.step # "filling"
      BY <1>0, <1>5 DEF Drop
    <2>2. \/ comp' = CompStep("settle") \/ comp' = next
          \/ Accept(comp.layout \cup Drops(comp.layout, comp.turnOf, Direction), comp, next)
      BY <1>5 DEF Drop
    <2> HIDE DEF next
    <2>3. "step" \in DOMAIN comp' /\ comp'.step # "filling"
      BY <1>0, <1>2, <2>1, <2>2 DEF CompStep
    <2> QED
      BY <1>0, <2>3, MasksStay
  <1>6. CASE SweepCut
    BY <1>0, <1>6, MasksStay DEF SweepCut
  <1>7. CASE SettleLayout
    BY <1>0, <1>7, MasksStay DEF SettleLayout, OfferAccepted, CompStep, End, EndOffer
  <1>8. CASE FillEnds
    BY <1>0, <1>8, MasksStay DEF FillEnds, CompStep
  <1>9. CASE FillOffer
    BY <1>0, <1>9, MasksStay DEF FillOffer, OfferAccepted, CompStep, End, EndOffer
  <1>10. CASE Greedier
    BY <1>0, <1>10, MasksStay DEF Greedier, End
  <1>11. CASE CompactionDenied
    BY <1>0, <1>11, MasksStay DEF CompactionDenied, End
  <1> QED
    BY <1>1, <1>3, <1>4, <1>5, <1>6, <1>7, <1>8, <1>9, <1>10, <1>11

(* The filler starts with the masks of its layout.                             *)
LEMMA StartKeepsMasks ==
  ASSUME FillInv, BestInv, FillStart
  PROVE  FillInv'
  <1>1. /\ scene \in Scenes /\ scene' = scene /\ "step" \in DOMAIN comp
    BY DEF BestInv, Keeping, FillInv, FillStart
  <1>2. CASE comp' = CompStep("filled")
    BY <1>1, <1>2, MasksStay DEF CompStep
  <1>3. ASSUME NEW start, fill' = [base |-> start, free |-> FreeOf(start)],
               comp' = CompStep("filling")
        PROVE  FillInv'
    <2>1. Masked(start, FreeOf(start))
      BY <1>1, MasksAreCorrelations
    <2>2. PICK masks : masks = FreeOf(start)
      OBVIOUS
    <2>3. fill' = [base |-> start, free |-> masks] /\ Masked(start, masks)
      BY <1>3, <2>1, <2>2
    <2>4. Masked(fill.base, fill.free)'
      <3>1. Masked(start, masks)'
        BY <1>1, <2>3, LatticeStays
      <3>2. fill'.base = start /\ fill'.free = masks
        BY <2>3
      <3> QED
        BY <3>1, <3>2
    <2> QED
      BY <1>1, <1>3, <2>3, <2>4 DEF FillInv, CompStep
  <1> QED
    BY <1>2, <1>3 DEF FillStart

(* An insertion.                                                               *)
LEMMA StepKeepsMasks ==
  ASSUME FillInv, BestInv, FillStep
  PROVE  FillInv'
  <1>1. /\ scene \in Scenes /\ scene' = scene /\ phase' = phase /\ comp' = comp
        /\ fill.base \in Layouts /\ Masked(fill.base, fill.free)
        /\ DOMAIN fill = {"base", "free"} /\ "step" \in DOMAIN comp
    BY DEF BestInv, Keeping, Compacting, FillInv, FillStep, Going
  <1> DEFINE o == Lowest.o
             t == Lowest.t
  <1>2. o \in Orientations /\ t \in fill.free[o] /\ t \in Translations(o) /\ t \in Nat
    BY <1>1, LowestIsOpen DEF FillStep, Translations
  <1>3. PICK base, masks : Masked(base, masks) /\ fill' = [base |-> base, free |-> masks]
    <2>1. CASE CanAdd(fill.base, At(o, t))
      <3>1. Masked(fill.base \cup {At(o, t)}, Inserted(fill.free, o, t))
        BY <1>1, <1>2, InsertionKeepsMasks
      <3> QED
        BY <2>1, <3>1 DEF FillStep
    <2>2. CASE ~CanAdd(fill.base, At(o, t))
      <3> DEFINE masks == [fill.free EXCEPT ![o] = @ \ {t}]
      <3>1. Masked(fill.base, masks)
        BY <1>1, <1>2, <2>2, RejectionKeepsMasks
      <3>2. fill' = [fill EXCEPT !.free = masks]
        BY <2>2 DEF FillStep
      <3> HIDE DEF masks
      <3>3. fill' = [base |-> fill.base, free |-> masks]
        BY <1>1, <3>2
      <3> QED
        BY <3>1, <3>3
    <2> QED
      BY <2>1, <2>2
  <1>4. Masked(fill.base, fill.free)'
    <2>1. Masked(base, masks)'
      BY <1>1, <1>3, LatticeStays
    <2>2. fill'.base = base /\ fill'.free = masks
      BY <1>3
    <2> QED
      BY <2>1, <2>2
  <1> QED
    BY <1>1, <1>3, <1>4 DEF FillInv

(* The invariant of the filler holds initially and is kept by every step.      *)
LEMMA MasksInductive ==
  /\ SearchInit => FillInv
  /\ FillInv /\ BestInv /\ [SearchNext]_spectralVars => FillInv'
  <1>1. ASSUME SearchInit
        PROVE  FillInv
    BY <1>1 DEF SearchInit, WorkspaceInit, LayoutInit, BaselineInit, SpaceInit, FillInv,
                NoCompaction
  <1>2. ASSUME FillInv, UNCHANGED <<scene, phase, comp, fill>>
        PROVE  FillInv'
    BY <1>2, MasksStay DEF FillInv
  <1>3. ASSUME FillInv, UNCHANGED <<scene, comp>>, phase' # "compaction"
        PROVE  FillInv'
    BY <1>3, MasksStay DEF FillInv
  <1>4. ASSUME FillInv, BaselineStep, UNCHANGED <<turn, comp, fill>>
        PROVE  FillInv'
    <2>1. phase' # "compaction"
      <3>1. ASSUME NEW batch, NEW passed, NEW failed, phase = "grid",
                   Submit(batch, passed, failed)
            PROVE  phase' # "compaction"
        BY <3>1 DEF Submit, End, EndOffer, Going
      <3>2. CASE GridFlush
        BY <3>1, <3>2 DEF GridFlush
      <3>3. CASE GridRetry
        BY <3>1, <3>3 DEF GridRetry
      <3>4. CASE StartGrid
        BY <3>4 DEF StartGrid, End, EndOffer
      <3>5. CASE GridSeed \/ GridTake \/ GridEndSeed \/ GridDenied \/ AfterGrid
        BY <3>5 DEF GridSeed, GridTake, GridEndSeed, GridDenied, AfterGrid, End, Going
      <3>6. CASE StaggerPlan \/ StaggerTrial \/ StaggerDenied \/ AfterStagger
        BY <3>6 DEF StaggerPlan, StaggerTrial, StaggerDenied, AfterStagger, End, EndOffer, Going
      <3>7. CASE BaselineInterrupted
        BY <3>7 DEF BaselineInterrupted, End
      <3> QED
        BY <1>4, <3>2, <3>3, <3>4, <3>5, <3>6, <3>7 DEF BaselineStep
    <2>2. CASE GridFlush \/ GridRetry \/ StartGrid \/ StaggerTrial \/ BaselineInterrupted
      BY <1>3, <1>4, <2>1, <2>2 DEF GridFlush, GridRetry, StartGrid, StaggerTrial,
                                    BaselineInterrupted
    <2>3. CASE GridSeed \/ GridTake \/ GridEndSeed \/ GridDenied \/ AfterGrid
      BY <1>3, <1>4, <2>1, <2>3 DEF GridSeed, GridTake, GridEndSeed, GridDenied, AfterGrid
    <2>4. CASE StaggerPlan
      BY <1>3, <1>4, <2>1, <2>4 DEF StaggerPlan
    <2>5. CASE StaggerDenied \/ AfterStagger
      BY <1>3, <1>4, <2>1, <2>5 DEF StaggerDenied, AfterStagger
    <2> QED
      BY <1>4, <2>2, <2>3, <2>4, <2>5 DEF BaselineStep
  <1>5. ASSUME FillInv, NextLayout \/ SlabTrial \/ BlockTrial \/ StaggerPairTrial \/ PlannerDenied
                        \/ AfterLayout \/ LayoutInterrupted
        PROVE  FillInv'
    <2>1. CASE NextLayout
      <3>1. scene' = scene /\ (phase' # "compaction" \/ comp'.step # "filling")
            /\ "step" \in DOMAIN comp'
        BY <1>5, <2>1 DEF NextLayout, NoCompaction, FillInv, End
      <3> QED
        BY <1>5, <3>1, MasksStay
    <2>2. CASE SlabTrial \/ BlockTrial \/ StaggerPairTrial
      BY <1>3, <1>5, <2>2 DEF SlabTrial, BlockTrial, StaggerPairTrial, TryNext, Check, EndPlanner,
                              End, EndOffer, Going
    <2>3. CASE PlannerDenied \/ AfterLayout
      BY <1>3, <1>5, <2>3 DEF PlannerDenied, AfterLayout, EndPlanner, End
    <2>4. CASE LayoutInterrupted
      BY <1>5, <2>4, MasksStay DEF LayoutInterrupted, End, NoCompaction
    <2> QED
      BY <1>5, <2>1, <2>2, <2>3, <2>4
  <1>6. ASSUME FillInv, BuildStep
        PROVE  FillInv'
    <2>1. UNCHANGED <<scene, phase, comp, fill>>
      BY <1>6 DEF BuildStep, BuildEnter, BuildLayout, BuildKernel, BuildBinary, BuildRanked,
                  BuildPage, Recover, GiveUp, buildLeaves
    <2> QED
      BY <1>2, <1>6, <2>1
  <1>7. ASSUME FillInv, SpectralStep
        PROVE  FillInv'
    <2>1. UNCHANGED <<scene, comp, fill>>
      BY <1>7 DEF SpectralStep, RunRefused, EnterTrials, OfferRetained, EmptyStart, OpenRound,
                  LoadPage, TakePage, PageRefused, Refused, Choose, LatticeDone, QueryFaces,
                  TryFace, LoadLow, TakeLow, LowRefused, TryLow, LowDone, OutOfBudget, TrialDone,
                  Interrupted, TrialThrows, fixed
    <2>2. phase' # "compaction"
      BY <1>7 DEF SpectralStep, RunRefused, EnterTrials, OfferRetained, EmptyStart, OpenRound,
                  LoadPage, TakePage, PageRefused, Refused, Choose, LatticeDone, QueryFaces,
                  TryFace, LoadLow, TakeLow, LowRefused, TryLow, LowDone, OutOfBudget, TrialDone,
                  Interrupted, TrialThrows, TryPose, OfferTrial, Stop, End, Going, InTrial,
                  outcomeVars
    <2> QED
      BY <1>3, <1>7, <2>1, <2>2
  <1>8. ASSUME FillInv, Stopping
        PROVE  FillInv'
    BY <1>2, <1>8 DEF Stopping, Halt
  <1>9. ASSUME FillInv, UNCHANGED spectralVars
        PROVE  FillInv'
    BY <1>2, <1>9 DEF spectralVars, workspaceVars, layoutVars, baselineVars, space
  <1> QED
    BY <1>1, <1>4, <1>5, <1>6, <1>7, <1>8, <1>9, SweepsLeaveMasks, StartKeepsMasks,
       StepKeepsMasks DEF SearchNext, Step, LayoutStep

(* The masks of the gap filler, correlated once and cut down by each           *)
(* insertion, stay those of the layout that grows under them.                  *)
THEOREM MasksStayTrue == SearchSpec => []FreeIsClear
  <1>1. BestInv /\ FillInv => FreeIsClear
    <2>1. SUFFICES ASSUME BestInv, FillInv, phase = "compaction", comp.step = "filling",
                          NEW o \in Orientations, NEW t \in Translations(o)
                   PROVE  /\ t \in fill.free[o] => Overlap(fill.base, o, t) = 0
                          /\ Overlap(fill.base, o, t) = 0 /\ At(o, t) \notin scene.dim
                               => t \in fill.free[o]
      BY DEF FreeIsClear
    <2>2. Masked(fill.base, fill.free) /\ scene \in Scenes
      BY <2>1 DEF FillInv, BestInv, Keeping
    <2>3. Overlap(fill.base, o, t) = 0 <=> Stamp(o, t) \cap Occupied(fill.base) = {}
      BY <2>2, CorrelationFindsFree
    <2> QED
      BY <2>2, <2>3 DEF Masked
  <1> QED
    BY <1>1, BestInductive, MasksInductive, PTL DEF SearchSpec

-----------------------------------------------------------------------------
(* Sorting: the members of a finite set take the places of a total order       *)

(* The members of a set below one of them.                                     *)
Below(S, R, x) == {y \in S : <<y, x>> \in R}

StrictOrder(S, R) ==
  /\ \A x \in S : <<x, x>> \notin R
  /\ \A x, y, z \in S : <<x, y>> \in R /\ <<y, z>> \in R => <<x, z>> \in R
  /\ \A x, y \in S : x = y \/ <<x, y>> \in R \/ <<y, x>> \in R

(* What is lower has fewer members below it.                                   *)
LEMMA LowerHasLess ==
  ASSUME NEW S, IsFiniteSet(S), NEW R, StrictOrder(S, R), NEW x \in S
  PROVE  /\ Cardinality(Below(S, R, x)) \in Nat
         /\ Cardinality(Below(S, R, x)) < Cardinality(S)
         /\ \A y \in S : <<y, x>> \in R
              => Cardinality(Below(S, R, y)) < Cardinality(Below(S, R, x))
  <1>1. IsFiniteSet(Below(S, R, x)) /\ Cardinality(Below(S, R, x)) \in Nat
        /\ Cardinality(S) \in Nat
    BY FS_Subset, FS_CardinalityType DEF Below
  <1>2. Cardinality(Below(S, R, x)) < Cardinality(S)
    <2>1. Below(S, R, x) \in SUBSET S /\ x \notin Below(S, R, x)
      BY DEF Below, StrictOrder
    <2>2. /\ Cardinality(Below(S, R, x)) <= Cardinality(S)
          /\ Cardinality(S) = Cardinality(Below(S, R, x)) => S = Below(S, R, x)
      BY <2>1, FS_Subset
    <2> QED
      BY <1>1, <2>1, <2>2
  <1>3. ASSUME NEW y \in S, <<y, x>> \in R
        PROVE  Cardinality(Below(S, R, y)) < Cardinality(Below(S, R, x))
    <2>1. Below(S, R, y) \in SUBSET Below(S, R, x)
      BY <1>3 DEF Below, StrictOrder
    <2>2. y \in Below(S, R, x) /\ y \notin Below(S, R, y)
      BY <1>3 DEF Below, StrictOrder
    <2>3. /\ Cardinality(Below(S, R, y)) <= Cardinality(Below(S, R, x))
          /\ Cardinality(Below(S, R, x)) = Cardinality(Below(S, R, y))
               => Below(S, R, x) = Below(S, R, y)
          /\ IsFiniteSet(Below(S, R, y))
      BY <1>1, <2>1, FS_Subset
    <2>4. Cardinality(Below(S, R, y)) \in Nat
      BY <2>3, FS_CardinalityType
    <2> QED
      BY <1>1, <2>2, <2>3, <2>4
  <1> QED
    BY <1>1, <1>2, <1>3

(* Each place is taken by one member.                                          *)
LEMMA PlacesAreTaken ==
  ASSUME NEW S, IsFiniteSet(S), NEW R, StrictOrder(S, R)
  PROVE  /\ Cardinality(S) \in Nat
         /\ \A i \in 1..Cardinality(S) :
              \E x \in S : Cardinality(Below(S, R, x)) = i - 1
  <1> DEFINE n == Cardinality(S)
             f == [x \in S |-> Cardinality(Below(S, R, x)) + 1]
  <1>1. n \in Nat
    BY FS_CardinalityType
  <1>2. IsFiniteSet(1..n) /\ Cardinality(1..n) = n
    <2> HIDE DEF n
    <2>1. IsFiniteSet(1..n) /\ Cardinality(1..n) = IF 1 > n THEN 0 ELSE n - 1 + 1
      BY <1>1, FS_Interval
    <2> QED
      BY <1>1, <2>1
  <1>3. \A x \in S : f[x] \in 1..n
    <2>1. SUFFICES ASSUME NEW x \in S
                   PROVE  Cardinality(Below(S, R, x)) + 1 \in 1..n
      OBVIOUS
    <2>2. PICK c : c = Cardinality(Below(S, R, x))
      OBVIOUS
    <2>3. c \in Nat /\ c < n
      BY <2>2, LowerHasLess
    <2> HIDE DEF n
    <2> QED
      BY <1>1, <2>2, <2>3
  <1>4. \A x, y \in S : f[x] = f[y] => x = y
    <2>1. SUFFICES ASSUME NEW x \in S, NEW y \in S, x # y, f[x] = f[y]
                   PROVE  FALSE
      OBVIOUS
    <2>2. PICK c, d : c = Cardinality(Below(S, R, x)) /\ d = Cardinality(Below(S, R, y))
      OBVIOUS
    <2>3. c \in Nat /\ d \in Nat
      BY <2>2, LowerHasLess
    <2>4. c + 1 = d + 1
      BY <2>1, <2>2
    <2>5. c < d \/ d < c
      <3>1. <<x, y>> \in R \/ <<y, x>> \in R
        BY <2>1 DEF StrictOrder
      <3> QED
        BY <2>2, <3>1, LowerHasLess
    <2> QED
      BY <2>3, <2>4, <2>5
  <1>5. f \in Injection(S, 1..n)
    <2>1. f \in [S -> 1..n]
      BY <1>3
    <2> HIDE DEF f, n
    <2> QED
      BY <1>4, <2>1 DEF Injection, IsInjective
  <1>6. f \in Surjection(S, 1..n)
    <2> HIDE DEF f
    <2> QED
      BY <1>2, <1>5, FS_Injection
  <1>7. ASSUME NEW i \in 1..n
        PROVE  \E x \in S : Cardinality(Below(S, R, x)) = i - 1
    <2>1. PICK x \in S : f[x] = i
      <3> HIDE DEF f, n
      <3> QED
        BY <1>6 DEF Surjection
    <2>2. PICK c : c = Cardinality(Below(S, R, x))
      OBVIOUS
    <2>3. c \in Nat /\ c + 1 = i
      BY <2>1, <2>2, LowerHasLess
    <2>4. c = i - 1
      BY <2>3
    <2> QED
      BY <2>2, <2>4
  <1> QED
    BY <1>1, <1>7

(* A function on the first numbers is a sequence.                              *)
LEMMA FunctionIsSeq ==
  ASSUME NEW S, NEW n \in Nat, NEW f \in [1..n -> S]
  PROVE  f \in Seq(S) /\ Len(f) = n
  OBVIOUS

(* A sequence has each member of a set, in order.                              *)
Sorts(placed, S, R) ==
  /\ Cardinality(S) \in Nat
  /\ placed \in Seq(S) /\ Len(placed) = Cardinality(S)
  /\ \A x \in S : \E i \in 1..Cardinality(S) : placed[i] = x
  /\ \A i, j \in 1..Cardinality(S) : i < j => <<placed[i], placed[j]>> \in R

(* So the members of a set, placed, are a sequence in order that has them all. *)
LEMMA PlacedInOrder ==
  ASSUME NEW S, IsFiniteSet(S), NEW R, StrictOrder(S, R),
         NEW placed \in [1..Cardinality(S) -> S],
         \A i \in 1..Cardinality(S) : Cardinality(Below(S, R, placed[i])) = i - 1
  PROVE  Sorts(placed, S, R)
  <1> DEFINE n == Cardinality(S)
             rank(x) == Cardinality(Below(S, R, x))
  <1>1. n \in Nat /\ \A i \in 1..n : \E x \in S : rank(x) = i - 1
    BY PlacesAreTaken
  <1>2. \A x \in S : rank(x) \in Nat /\ rank(x) < n
    BY LowerHasLess
  <1>3. \A x, y \in S : <<y, x>> \in R => rank(y) < rank(x)
    BY LowerHasLess
  <1>4. \A x, y \in S : x = y \/ <<x, y>> \in R \/ <<y, x>> \in R
    BY DEF StrictOrder
  <1> HIDE DEF n, rank
  <1>5. \A i \in 1..n : placed[i] \in S /\ rank(placed[i]) = i - 1
    BY <1>1 DEF n, rank
  <1>6. placed \in Seq(S) /\ Len(placed) = n
    <2>1. placed \in [1..n -> S]
      BY <1>5 DEF n
    <2> QED
      BY <1>1, <2>1, FunctionIsSeq
  <1>7. \A x, y \in S : rank(x) = rank(y) => x = y
    <2>1. SUFFICES ASSUME NEW x \in S, NEW y \in S, rank(x) = rank(y), x # y
                   PROVE  FALSE
      OBVIOUS
    <2>2. rank(x) \in Nat /\ rank(y) \in Nat /\ (rank(x) < rank(y) \/ rank(y) < rank(x))
      BY <1>2, <1>3, <1>4, <2>1
    <2> QED
      BY <2>1, <2>2
  <1>8. ASSUME NEW x \in S
        PROVE  \E i \in 1..n : placed[i] = x
    <2>1. rank(x) \in Nat /\ rank(x) < n
      BY <1>2
    <2>2. rank(x) + 1 \in 1..n /\ (rank(x) + 1) - 1 = rank(x)
      BY <1>1, <2>1
    <2>3. placed[rank(x) + 1] \in S /\ rank(placed[rank(x) + 1]) = rank(x)
      BY <1>5, <2>2
    <2> QED
      BY <1>7, <2>2, <2>3
  <1>9. ASSUME NEW i \in 1..n, NEW j \in 1..n, i < j
        PROVE  <<placed[i], placed[j]>> \in R
    <2>1. /\ placed[i] \in S /\ rank(placed[i]) = i - 1
          /\ placed[j] \in S /\ rank(placed[j]) = j - 1
      BY <1>5
    <2>2. i \in Nat /\ j \in Nat /\ ~(j - 1 < i - 1) /\ i - 1 # j - 1
      BY <1>9
    <2>3. placed[i] # placed[j]
      BY <2>1, <2>2
    <2>4. <<placed[j], placed[i]>> \notin R
      BY <1>3, <2>1, <2>2
    <2> QED
      BY <1>4, <2>1, <2>3, <2>4
  <1> QED
    BY <1>1, <1>6, <1>8, <1>9 DEF n, Sorts

-----------------------------------------------------------------------------
(* The candidates of a page                                                    *)

(* What is listed of a translation.                                            *)
Candidate(layout, o, t) ==
  [o |-> o, t |-> t, score |-> Score(layout, o, t), overlap |-> Correlation(layout, o)[t],
   direct |-> Overlap(layout, o, t) = 0]

Candidates(layout, o) == {Candidate(layout, o, t) : t \in Translations(o)}

(* What the ranking needs to know of a candidate.                              *)
Comparable(c) == c.o \in Nat /\ c.t \in Nat /\ c.score \in Int

(* The ranking is a total order but for candidates of the same pose.           *)
LEMMA RankIsOrder ==
  ASSUME NEW a, NEW b, NEW c, Comparable(a), Comparable(b), Comparable(c)
  PROVE  /\ ~RankLess(a, a)
         /\ RankLess(a, b) /\ RankLess(b, c) => RankLess(a, c)
         /\ RankLess(a, b) \/ RankLess(b, a) \/ (a.o = b.o /\ a.t = b.t)
  BY DEF RankLess, Comparable

(* A candidate is comparable, tells its translation and its voxels apart.      *)
LEMMA CandidateIs ==
  ASSUME scene \in Scenes, NEW layout, NEW o \in Orientations, NEW t \in Translations(o)
  PROVE  LET c == Candidate(layout, o, t)
         IN /\ Comparable(c) /\ c.o = o /\ c.t = t
            /\ c.overlap = 0 <=> Overlap(layout, o, t) = 0
            /\ c.direct <=> Overlap(layout, o, t) = 0
  <1> DEFINE c == Candidate(layout, o, t)
  <1>1. c.o = o /\ c.t = t /\ c.score = Score(layout, o, t)
        /\ c.overlap = Correlation(layout, o)[t]
    BY DEF Candidate
  <1>2. c.direct <=> Overlap(layout, o, t) = 0
    BY Zenon DEF Candidate
  <1>3. o \in Nat
    <2>1. Orientations = 1..Len(scene.solid)
      BY SceneAssumption DEF Orientations
    <2> QED
      BY <2>1
  <1>4. t \in Nat
    BY DEF Translations
  <1>5. Score(layout, o, t) \in Int
    <2> DEFINE near == {k \in Kernel(o) : \/ k + t - 1 \in Occupied(layout)
                                          \/ k + t + 1 \in Occupied(layout)}
    <2>1. Cardinality(near) \in Nat
      BY KernelIsFinite, FS_Subset, FS_CardinalityType
    <2>2. Width(o) \in Nat /\ Pitch \in Nat
      BY WidthIsPositive, SpaceAssumption
    <2>3. Score(layout, o, t) = 2 * (t * Pitch + Width(o)) - Cardinality(near)
      BY DEF Score
    <2>4. t * Pitch \in Nat
      BY <1>4, <2>2
    <2> HIDE DEF near
    <2> QED
      BY <2>1, <2>2, <2>3, <2>4
  <1>6. Correlation(layout, o)[t] = 0 <=> Overlap(layout, o, t) = 0
    BY CorrelationFindsFree
  <1> HIDE DEF c
  <1> QED
    BY <1>1, <1>2, <1>3, <1>4, <1>5, <1>6 DEF Comparable, c

(* The candidates with free voxels after a cursor.                             *)
After(layout, o, cursor) ==
  {c \in Candidates(layout, o) : c.overlap = 0 /\ \A last \in cursor : RankLess(last, c)}

(* The ranking as a relation.                                                  *)
RankOf(S) == {p \in S \X S : RankLess(p[1], p[2])}

LEMMA CandidatesInOrder ==
  ASSUME scene \in Scenes, NEW layout, NEW o \in Orientations,
         NEW S \in SUBSET Candidates(layout, o)
  PROVE  /\ IsFiniteSet(S)
         /\ StrictOrder(S, RankOf(S))
         /\ \A x \in S : Below(S, RankOf(S), x) = {y \in S : RankLess(y, x)}
  <1>1. IsFiniteSet(S)
    <2>1. IsFiniteSet(Translations(o))
      <3>1. Length \div Pitch \in Int /\ Max(Kernel(o)) \in Int
        BY KernelIsFinite, SpaceAssumption, QuotientBounds
      <3>2. (Length \div Pitch) - Max(Kernel(o)) - 1 \in Int
        BY <3>1
      <3> QED
        BY <3>2, FS_Interval DEF Translations
    <2> DEFINE f == [t \in Translations(o) |-> Candidate(layout, o, t)]
    <2>2. f \in Surjection(Translations(o), Candidates(layout, o))
      BY DEF Surjection, Candidates
    <2>3. IsFiniteSet(Candidates(layout, o))
      BY <2>1, <2>2, FS_Surjection
    <2> QED
      BY <2>3, FS_Subset
  <1>2. \A x \in S : Comparable(x) /\ x.o = o /\ x.t \in Translations(o)
                      /\ x = Candidate(layout, o, x.t)
    BY CandidateIs DEF Candidates
  <1>3. StrictOrder(S, RankOf(S))
    <2>1. \A x, y : <<x, y>> \in RankOf(S) <=> x \in S /\ y \in S /\ RankLess(x, y)
      BY DEF RankOf
    <2>2. \A x, y \in S : x.t = y.t => x = y
      BY <1>2
    <2> QED
      BY <1>2, <2>1, <2>2, RankIsOrder DEF StrictOrder
  <1>4. \A x \in S : Below(S, RankOf(S), x) = {y \in S : RankLess(y, x)}
    BY DEF Below, RankOf
  <1> QED
    BY <1>1, <1>3, <1>4

(* The first part of a sequence.                                               *)
LEMMA FirstPart ==
  ASSUME NEW S, NEW s \in Seq(S), NEW m \in Nat, m <= Len(s)
  PROVE  /\ SubSeq(s, 1, m) \in Seq(S) /\ Len(SubSeq(s, 1, m)) = m
         /\ \A i \in 1..m : SubSeq(s, 1, m)[i] = s[i]
  OBVIOUS

(* A page is a sequence of candidates in order: the first ones after the       *)
(* cursor, so that what it leaves out comes after all of them.                 *)
LEMMA PageIsNext ==
  ASSUME scene \in Scenes, NEW layout, NEW o \in Orientations, NEW cursor, NEW page,
         page = Page(o, "ordinary", cursor, [layout |-> layout, o |-> o],
                     [layout |-> layout, o |-> o], o, layout)
  PROVE  /\ page \in Seq(After(layout, o, cursor))
         /\ \A i, j \in 1..Len(page) : i < j => RankLess(page[i], page[j])
         /\ \A c \in After(layout, o, cursor) :
              \/ c \in ToSet(page)
              \/ page # <<>> /\ \A i \in 1..Len(page) : RankLess(page[i], c)
  <1>1. PICK mode, now : mode = "ordinary" /\ now = [layout |-> layout, o |-> o]
    OBVIOUS
  <1> DEFINE overlap == Correlation(now.layout, now.o)
             listed == {[o |-> o, t |-> t, score |-> Score(now.layout, now.o, t),
                         overlap |-> overlap[t],
                         direct |-> mode = "ordinary" /\ Overlap(layout, o, t) = 0] :
                          t \in Translations(o)}
             S == {c \in listed : /\ mode = "ordinary" => c.overlap = 0
                                  /\ \A last \in cursor : Less(mode, last, c)}
             n == Cardinality(S)
             sorted == [i \in 1..n |->
                          CHOOSE x \in S : Cardinality({y \in S : Less(mode, y, x)}) = i - 1]
  <1>2. page = SubSeq(sorted, 1, Min({PageSize, Len(sorted)}))
    BY <1>1 DEF Page, Sorted
  <1>3. S = After(layout, o, cursor)
    <2>1. listed = Candidates(layout, o)
      <3>1. ASSUME NEW t \in Translations(o)
            PROVE  [o |-> o, t |-> t, score |-> Score(now.layout, now.o, t),
                    overlap |-> overlap[t],
                    direct |-> mode = "ordinary" /\ Overlap(layout, o, t) = 0]
                     = Candidate(layout, o, t)
        BY <1>1 DEF Candidate
      <3> QED
        BY <3>1 DEF Candidates
    <2> HIDE DEF listed
    <2> QED
      BY <1>1, <2>1 DEF After, Less
  <1>4. ASSUME NEW x \in S
        PROVE  Below(S, RankOf(S), x) = {y \in S : Less(mode, y, x)}
    BY <1>1 DEF Below, RankOf, Less
  <1>5. IsFiniteSet(S) /\ StrictOrder(S, RankOf(S))
    BY <1>3, CandidatesInOrder DEF After
  <1> HIDE DEF S
  <1>6. n \in Nat /\ \A i \in 1..n : \E x \in S : Cardinality({y \in S : Less(mode, y, x)}) = i - 1
    <2>1. n \in Nat /\ \A i \in 1..n : \E x \in S : Cardinality(Below(S, RankOf(S), x)) = i - 1
      BY <1>5, PlacesAreTaken
    <2> QED
      BY <1>4, <2>1
  <1>7. \A i \in 1..n : /\ sorted[i] \in S
                        /\ Cardinality({y \in S : Less(mode, y, sorted[i])}) = i - 1
    BY <1>6
  <1>8. /\ sorted \in Seq(S) /\ Len(sorted) = n
        /\ \A x \in S : \E i \in 1..n : sorted[i] = x
        /\ \A i, j \in 1..n : i < j => RankLess(sorted[i], sorted[j])
    <2>1. sorted \in [1..n -> S]
      BY <1>7
    <2>2. \A i \in 1..n : Cardinality(Below(S, RankOf(S), sorted[i])) = i - 1
      BY <1>4, <1>7
    <2> HIDE DEF sorted, n
    <2>3. /\ sorted \in Seq(S) /\ Len(sorted) = n
          /\ \A x \in S : \E i \in 1..n : sorted[i] = x
          /\ \A i, j \in 1..n : i < j => <<sorted[i], sorted[j]>> \in RankOf(S)
      <3>1. PICK placed : placed = sorted
        OBVIOUS
      <3>2. /\ placed \in [1..Cardinality(S) -> S]
            /\ \A i \in 1..Cardinality(S) : Cardinality(Below(S, RankOf(S), placed[i])) = i - 1
        BY <2>1, <2>2, <3>1 DEF n
      <3>3. /\ placed \in Seq(S) /\ Len(placed) = Cardinality(S)
            /\ \A x \in S : \E i \in 1..Cardinality(S) : placed[i] = x
            /\ \A i, j \in 1..Cardinality(S) : i < j => <<placed[i], placed[j]>> \in RankOf(S)
        <4>1. PICK R : R = RankOf(S)
          OBVIOUS
        <4>2. /\ IsFiniteSet(S) /\ StrictOrder(S, R)
              /\ placed \in [1..Cardinality(S) -> S]
              /\ \A i \in 1..Cardinality(S) : Cardinality(Below(S, R, placed[i])) = i - 1
          BY <1>5, <3>2, <4>1
        <4>3. Sorts(placed, S, R)
          BY <4>2, PlacedInOrder
        <4> QED
          BY <4>1, <4>3 DEF Sorts
      <3> QED
        BY <3>1, <3>3 DEF n
    <2>4. \A a, b : <<a, b>> \in RankOf(S) => RankLess(a, b)
      BY DEF RankOf
    <2> QED
      BY <2>3, <2>4
  <1> DEFINE m == Min({PageSize, n})
  <1>9. m \in Nat /\ m <= n /\ (m = n \/ m = PageSize) /\ (n > 0 => m > 0)
    <2>1. PageSize \in Nat \ {0}
      BY WorkspaceAssumption
    <2> HIDE DEF n
    <2>2. \E x \in {PageSize, n} : \A y \in {PageSize, n} : x <= y
      BY <1>6, <2>1
    <2>3. m \in {PageSize, n} /\ \A y \in {PageSize, n} : m <= y
      BY <2>2 DEF Min
    <2> HIDE DEF m
    <2> QED
      BY <1>6, <2>1, <2>3
  <1> HIDE DEF sorted, n, m
  <1>10. page \in Seq(S) /\ Len(page) = m /\ \A i \in 1..m : page[i] = sorted[i]
    <2>1. page = SubSeq(sorted, 1, m)
      BY <1>2, <1>8 DEF m
    <2> QED
      <3>1. PICK all, k : all = sorted /\ k = m
        OBVIOUS
      <3>2. all \in Seq(S) /\ k \in Nat /\ k <= Len(all)
        BY <1>8, <1>9, <3>1
      <3>3. /\ SubSeq(all, 1, k) \in Seq(S) /\ Len(SubSeq(all, 1, k)) = k
            /\ \A i \in 1..k : SubSeq(all, 1, k)[i] = all[i]
        BY <3>2, FirstPart
      <3> QED
        BY <2>1, <3>1, <3>3
  <1>11. \A i, j \in 1..Len(page) : i < j => RankLess(page[i], page[j])
    BY <1>6, <1>8, <1>9, <1>10
  <1>12. ASSUME NEW c \in S, c \notin ToSet(page)
         PROVE  page # <<>> /\ \A i \in 1..Len(page) : RankLess(page[i], c)
    <2>1. PICK j \in 1..n : sorted[j] = c
      BY <1>8
    <2>2. m < j
      <3>1. j \notin 1..m
        <4>1. ASSUME j \in 1..m
              PROVE  page[j] = c /\ j \in DOMAIN page
          BY <1>10, <2>1, <4>1
        <4> QED
          BY <1>12, <4>1 DEF ToSet
      <3> QED
        BY <1>9, <2>1, <3>1
    <2>3. m > 0
      BY <1>6, <1>9, <2>1
    <2>4. page # <<>>
      BY <1>9, <1>10, <2>3
    <2> QED
      BY <1>6, <1>8, <1>9, <1>10, <2>1, <2>2, <2>4
  <1> QED
    BY <1>3, <1>10, <1>11, <1>12

-----------------------------------------------------------------------------
(* A round of a trial: what has been looked at                                 *)

(* A translation where the voxels are free and a copy can be added.            *)
Worth(layout, o, t) == Overlap(layout, o, t) = 0 /\ CanAdd(layout, At(o, t))

(* The rest of a page lies in order after the cursor.                          *)
InQueue(layout, o, page, cursor) ==
  /\ cursor \subseteq Candidates(layout, o)
  /\ page \in Seq(After(layout, o, cursor))
  /\ \A i, j \in 1..Len(page) : i < j => RankLess(page[i], page[j])

(* What is worth a trial is in the page, or comes after all of it in an        *)
(* orientation that may have another page.                                     *)
Ahead(layout, o, page, cursor, exhausted) ==
  \A t \in Translations(o) :
    Worth(layout, o, t) =>
      \/ Candidate(layout, o, t) \in ToSet(page)
      \/ /\ o \notin exhausted
         /\ \A last \in cursor : RankLess(last, Candidate(layout, o, t))
         /\ \A i \in 1..Len(page) : RankLess(page[i], Candidate(layout, o, t))

(* What is left of a sequence without its head.                                *)
LEMMA TailIs ==
  ASSUME NEW S, NEW s \in Seq(S), s # <<>>
  PROVE  \E n \in Nat :
           /\ Len(s) = n + 1 /\ s \in [1..(n + 1) -> S]
           /\ Head(s) = s[1]
           /\ Tail(s) \in Seq(S) /\ Len(Tail(s)) = n /\ Tail(s) \in [1..n -> S]
           /\ \A i \in 1..n : Tail(s)[i] = s[i + 1]
  <1>1. PICK n \in Nat : Len(s) = n + 1
    <2>1. PICK l \in Nat : l = Len(s) /\ l # 0
      OBVIOUS
    <2>2. l - 1 \in Nat /\ l = (l - 1) + 1
      BY <2>1
    <2> QED
      BY <2>1, <2>2
  <1>2. s \in [1..(n + 1) -> S] /\ Head(s) = s[1]
    BY <1>1
  <1>3. Tail(s) \in Seq(S) /\ Len(Tail(s)) = n
    BY <1>1
  <1>4. Tail(s) \in [1..n -> S]
    <2>1. \A r \in Seq(S) : r \in [1..Len(r) -> S]
      OBVIOUS
    <2> QED
      BY <1>3, <2>1
  <1>5. \A i \in 1..n : Tail(s)[i] = s[i + 1]
    BY <1>1
  <1> QED
    BY <1>1, <1>2, <1>3, <1>4, <1>5

(* A round begins with everything ahead.                                       *)
LEMMA RoundBegins ==
  ASSUME NEW layout, NEW o
  PROVE  InQueue(layout, o, <<>>, {}) /\ Ahead(layout, o, <<>>, {}, {})
  <1>1. PICK none : none = <<>>
    OBVIOUS
  <1>2. none \in Seq(After(layout, o, {})) /\ Len(none) = 0
    BY <1>1
  <1>3. 1..Len(none) = {}
    BY <1>2
  <1>4. InQueue(layout, o, none, {}) /\ Ahead(layout, o, none, {}, {})
    BY <1>2, <1>3 DEF InQueue, Ahead
  <1> QED
    BY <1>1, <1>4

(* The next page: an empty one leaves nothing ahead.                           *)
LEMMA PageIsAhead ==
  ASSUME scene \in Scenes, NEW layout, NEW o \in Orientations, NEW cursor, NEW page, NEW exhausted,
         InQueue(layout, o, <<>>, cursor),
         page = Page(o, "ordinary", cursor, [layout |-> layout, o |-> o],
                     [layout |-> layout, o |-> o], o, layout)
  PROVE  /\ InQueue(layout, o, page, cursor)
         /\ Ahead(layout, o, <<>>, cursor, exhausted) =>
              /\ page # <<>> => Ahead(layout, o, page, cursor, exhausted)
              /\ page = <<>> => \A left : Ahead(layout, o, <<>>, cursor, left)
  <1>1. /\ page \in Seq(After(layout, o, cursor))
        /\ \A i, j \in 1..Len(page) : i < j => RankLess(page[i], page[j])
        /\ \A c \in After(layout, o, cursor) :
             \/ c \in ToSet(page)
             \/ page # <<>> /\ \A i \in 1..Len(page) : RankLess(page[i], c)
    BY PageIsNext
  <1>2. PICK none : none = <<>>
    OBVIOUS
  <1>3. ToSet(none) = {}
    BY <1>2 DEF ToSet
  <1>4. ASSUME Ahead(layout, o, <<>>, cursor, exhausted),
               NEW t \in Translations(o), Worth(layout, o, t)
        PROVE  /\ Candidate(layout, o, t) \in After(layout, o, cursor)
               /\ o \notin exhausted
               /\ \A last \in cursor : RankLess(last, Candidate(layout, o, t))
    <2>1. /\ o \notin exhausted
          /\ \A last \in cursor : RankLess(last, Candidate(layout, o, t))
      BY <1>2, <1>3, <1>4 DEF Ahead
    <2>2. Candidate(layout, o, t).overlap = 0
      BY <1>4, CandidateIs DEF Worth
    <2> QED
      BY <2>1, <2>2 DEF After, Candidates
  <1>5. ASSUME Ahead(layout, o, <<>>, cursor, exhausted), page # <<>>
        PROVE  Ahead(layout, o, page, cursor, exhausted)
    BY <1>1, <1>4, <1>5 DEF Ahead
  <1>6. ASSUME Ahead(layout, o, <<>>, cursor, exhausted), page = none
        PROVE  \A left : Ahead(layout, o, none, cursor, left)
    <2>1. After(layout, o, cursor) = {}
      BY <1>1, <1>2, <1>3, <1>6
    <2> QED
      BY <1>4, <1>6, <2>1 DEF Ahead
  <1>7. InQueue(layout, o, page, cursor)
    BY <1>1 DEF InQueue
  <1> QED
    BY <1>2, <1>5, <1>6, <1>7

(* The head of a page is one of its orientation's candidates.                  *)
LEMMA HeadIs ==
  ASSUME scene \in Scenes, NEW layout, NEW o \in Orientations, NEW cursor, NEW page,
         InQueue(layout, o, page, cursor), page # <<>>
  PROVE  /\ Head(page).o = o /\ Head(page).t \in Translations(o) /\ Head(page).direct
         /\ Comparable(Head(page)) /\ Head(page) \in After(layout, o, cursor)
         /\ Head(page) = Candidate(layout, o, Head(page).t)
  <1> DEFINE S == After(layout, o, cursor)
  <1>1. page \in Seq(S) /\ page # <<>>
    BY DEF InQueue
  <1>2. Head(page) \in S
    <2> HIDE DEF S
    <2> QED
      BY <1>1, TailIs
  <1>3. PICK c : c = Head(page)
    OBVIOUS
  <1>4. PICK u \in Translations(o) : c = Candidate(layout, o, u)
    BY <1>2, <1>3 DEF After, Candidates
  <1>5. c.o = o /\ c.t = u /\ c.direct /\ Comparable(c)
    BY <1>2, <1>3, <1>4, CandidateIs DEF After, Candidates
  <1> QED
    BY <1>2, <1>3, <1>4, <1>5

(* Of a page, the head is looked at and becomes the cursor.                    *)
LEMMA HeadIsTried ==
  ASSUME scene \in Scenes, NEW layout, NEW o \in Orientations, NEW cursor, NEW page, NEW exhausted,
         InQueue(layout, o, page, cursor), page # <<>>
  PROVE  /\ InQueue(layout, o, Tail(page), {Head(page)})
         /\ Ahead(layout, o, page, cursor, exhausted) /\ ~CanAdd(layout, At(o, Head(page).t))
              => Ahead(layout, o, Tail(page), {Head(page)}, exhausted)
  <1> DEFINE S == After(layout, o, cursor)
  <1>1. PICK n \in Nat :
          /\ Len(page) = n + 1 /\ page \in [1..(n + 1) -> S]
          /\ Head(page) = page[1]
          /\ Tail(page) \in Seq(S) /\ Len(Tail(page)) = n /\ Tail(page) \in [1..n -> S]
          /\ \A i \in 1..n : Tail(page)[i] = page[i + 1]
    <2>1. page \in Seq(S) /\ page # <<>>
      BY DEF InQueue
    <2> HIDE DEF S
    <2> QED
      BY <2>1, TailIs
  <1>2. PICK c, rest : c = Head(page) /\ rest = Tail(page)
    OBVIOUS
  <1>3. /\ page[1] = c /\ c \in S /\ 1 \in 1..(n + 1)
        /\ rest \in [1..n -> S] /\ Len(rest) = n
        /\ \A i \in 1..n : rest[i] = page[i + 1] /\ i + 1 \in 1..(n + 1)
    <2> HIDE DEF S
    <2> QED
      BY <1>1, <1>2
  <1>4. \A i, j \in 1..(n + 1) : i < j => RankLess(page[i], page[j])
    BY <1>1 DEF InQueue
  <1> HIDE DEF S
  <1>5. PICK u \in Translations(o) : c = Candidate(layout, o, u) /\ c.overlap = 0
    BY <1>3 DEF S, After, Candidates
  <1>6. c.o = o /\ c.t = u /\ c.direct /\ Comparable(c)
    BY <1>5, CandidateIs
  <1>7. \A i \in 1..n : RankLess(c, rest[i]) /\ rest[i] \in S
    BY <1>3, <1>4
  <1>8. InQueue(layout, o, rest, {c})
    <2>1. rest \in [1..n -> After(layout, o, {c})]
      BY <1>3, <1>7 DEF After, S
    <2>2. rest \in Seq(After(layout, o, {c}))
      BY <2>1, FunctionIsSeq
    <2>3. \A i, j \in 1..n : i < j => RankLess(rest[i], rest[j])
      BY <1>3, <1>4
    <2>4. c \in Candidates(layout, o)
      BY <1>5 DEF Candidates
    <2> QED
      BY <1>3, <2>2, <2>3, <2>4 DEF InQueue
  <1>9. ASSUME Ahead(layout, o, page, cursor, exhausted), ~CanAdd(layout, At(o, u))
        PROVE  Ahead(layout, o, rest, {c}, exhausted)
    <2>1. SUFFICES ASSUME NEW t \in Translations(o), Worth(layout, o, t),
                          Candidate(layout, o, t) \notin ToSet(rest)
                   PROVE  /\ o \notin exhausted
                          /\ RankLess(c, Candidate(layout, o, t))
                          /\ \A i \in 1..Len(rest) : RankLess(rest[i], Candidate(layout, o, t))
      BY DEF Ahead
    <2>2. Candidate(layout, o, t) # c
      <3>1. t # u
        BY <1>9, <2>1 DEF Worth
      <3> QED
        BY <1>6, <3>1, CandidateIs
    <2>3. Candidate(layout, o, t) \notin ToSet(page)
      <3>1. SUFFICES ASSUME NEW i \in 1..(n + 1), page[i] = Candidate(layout, o, t)
                     PROVE  FALSE
        BY <1>1 DEF ToSet
      <3>2. i # 1
        BY <1>3, <2>2, <3>1
      <3>3. i - 1 \in 1..n /\ (i - 1) + 1 = i
        BY <3>1, <3>2
      <3>4. rest[i - 1] = Candidate(layout, o, t) /\ i - 1 \in DOMAIN rest
        BY <1>3, <3>1, <3>3
      <3> QED
        BY <2>1, <3>4 DEF ToSet
    <2>4. /\ o \notin exhausted
          /\ \A i \in 1..(n + 1) : RankLess(page[i], Candidate(layout, o, t))
      BY <1>1, <1>9, <2>1, <2>3 DEF Ahead
    <2> QED
      BY <1>3, <2>4
  <1> QED
    BY <1>2, <1>5, <1>6, <1>8, <1>9

(* The face poses of an orientation in a layout, as a set.                     *)
FacesAt(layout, o) ==
  LET last == Length - Width(o)
      touching == {0, last} \cup {q[2] + Width(q[1]) : q \in layout}
                            \cup {q[2] - Width(o) : q \in layout}
  IN {<<o, x>> : x \in touching \cap 0..last}

(* A round goes through all of them.                                           *)
LEMMA FacesAreAll ==
  ASSUME scene \in Scenes, NEW o \in Orientations
  PROVE  Faces(o) \in Seq(FacesAt(working, o)) /\ ToSet(Faces(o)) = FacesAt(working, o)
  <1> DEFINE last == Length - Width(o)
             S == FacesAt(working, o)
             R == {z \in S \X S : z[1][2] < z[2][2]}
             faces == [i \in 1..Cardinality(S) |->
                         CHOOSE p \in S : Cardinality({q \in S : q[2] < p[2]}) = i - 1]
  <1>1. Faces(o) = faces
    BY DEF Faces, FacesAt, Sorted
  <1>2. last \in Int
    BY WidthIsPositive, SpaceAssumption
  <1>3. \A p \in S : p = <<o, p[2]>> /\ p[2] \in 0..last
    BY DEF FacesAt
  <1>4. IsFiniteSet(S)
    <2> DEFINE places == {x \in 0..last : <<o, x>> \in S}
               f == [x \in places |-> <<o, x>>]
    <2>1. IsFiniteSet(places)
      <3>1. IsFiniteSet(0..last)
        BY <1>2, FS_Interval
      <3> QED
        BY <3>1, FS_Subset
    <2>2. f \in Surjection(places, S)
      BY <1>3 DEF Surjection
    <2> QED
      BY <2>1, <2>2, FS_Surjection
  <1> HIDE DEF S, last
  <1>5. \A x, y : <<x, y>> \in R <=> x \in S /\ y \in S /\ x[2] < y[2]
    OBVIOUS
  <1>6. \A x \in S : Below(S, R, x) = {q \in S : q[2] < x[2]}
    BY <1>5 DEF Below
  <1> HIDE DEF R
  <1>7. StrictOrder(S, R)
    <2>1. \A x \in S : x[2] \in Int /\ x = <<o, x[2]>>
      BY <1>2, <1>3
    <2> QED
      BY <1>5, <2>1 DEF StrictOrder
  <1>8. \A i \in 1..Cardinality(S) : \E p \in S : Cardinality({q \in S : q[2] < p[2]}) = i - 1
    <2>1. \A i \in 1..Cardinality(S) : \E p \in S : Cardinality(Below(S, R, p)) = i - 1
      BY <1>4, <1>7, PlacesAreTaken
    <2> QED
      BY <1>6, <2>1
  <1>9. \A i \in 1..Cardinality(S) :
          faces[i] \in S /\ Cardinality({q \in S : q[2] < faces[i][2]}) = i - 1
    BY <1>8
  <1>10. PICK placed : placed = faces
    OBVIOUS
  <1>11. /\ placed \in [1..Cardinality(S) -> S]
         /\ \A i \in 1..Cardinality(S) : Cardinality(Below(S, R, placed[i])) = i - 1
    BY <1>6, <1>9, <1>10
  <1>12. Sorts(placed, S, R)
    BY <1>4, <1>7, <1>11, PlacedInOrder
  <1>13. placed \in Seq(S) /\ ToSet(placed) = S
    <2>1. DOMAIN placed = 1..Cardinality(S)
      BY <1>11
    <2> QED
      BY <1>12, <2>1 DEF Sorts, ToSet
  <1> QED
    BY <1>1, <1>10, <1>13 DEF S

LatticeTried(layout) ==
  \A o \in Orientations : \A t \in Translations(o) : ~Worth(layout, o, t)

FacesTried(layout, o) == \A p \in FacesAt(layout, o) : ~CanAdd(layout, p)

(* Work of the run was put off.                                                *)
PutOff(round, put) == round.deferred = TRUE \/ put = TRUE

(* The page that is being built is the next one of an orientation without any. *)
Requested(round, page) ==
  page.step # "idle" =>
    /\ page.o \in Orientations \ round.exhausted /\ page.mode = "ordinary"
    /\ page.cursor = round.cursors[page.o] /\ round.pages[page.o] = <<>>

(* What a round has seen of everything that could be tried, unless work was    *)
(* put off: first the lattice, then the faces.                                 *)
RoundInOrder(layout, round, put, page) ==
  /\ round.step = "ordinary" =>
       /\ Requested(round, page)
       /\ \A o \in Orientations : InQueue(layout, o, round.pages[o], round.cursors[o])
       /\ \/ PutOff(round, put)
          \/ \A o \in Orientations :
               Ahead(layout, o, round.pages[o], round.cursors[o], round.exhausted)
  /\ round.step \in {"query", "faces", "low", "finish"} =>
       PutOff(round, put) \/ LatticeTried(layout)
  /\ round.step \in {"query", "faces"} =>
       \/ PutOff(round, put)
       \/ \A o \in Orientations : o < round.next => FacesTried(layout, o)
  /\ round.step = "faces" =>
       /\ round.faces \in Seq(FacesAt(layout, round.next))
       /\ \/ PutOff(round, put)
          \/ \A p \in FacesAt(layout, round.next) :
               CanAdd(layout, p) => p \in ToSet(round.faces)
  /\ round.step \in {"low", "finish"} /\ scene.caps.refine # 0 =>
       PutOff(round, put) \/ \A o \in Orientations : FacesTried(layout, o)

Shaped(round) ==
  /\ DOMAIN round = {"which", "step", "deferred", "next", "faces", "pages", "cursors", "exhausted"}
  /\ DOMAIN round.pages = Orientations /\ DOMAIN round.cursors = Orientations
  /\ round.next \in Nat \ {0}

TrialInv ==
  /\ Shaped(trial)
  /\ phase = "trial" => RoundInOrder(working, trial, deferred, build)

(* What can be tried is the same after a step.                                 *)
LEMMA ProposalsStay ==
  ASSUME scene' = scene
  PROVE  /\ \A layout, o : After(layout, o, {})' = After(layout, o, {})
         /\ \A layout, o, page, cursor :
              InQueue(layout, o, page, cursor)' <=> InQueue(layout, o, page, cursor)
         /\ \A layout, o, page, cursor, exhausted :
              Ahead(layout, o, page, cursor, exhausted)'
                <=> Ahead(layout, o, page, cursor, exhausted)
         /\ \A layout : LatticeTried(layout)' <=> LatticeTried(layout)
         /\ \A layout, p : CanAdd(layout, p)' <=> CanAdd(layout, p)
         /\ \A layout, o : FacesAt(layout, o)' = FacesAt(layout, o)
         /\ \A layout, o : FacesTried(layout, o)' <=> FacesTried(layout, o)
  <1>1. /\ Orientations' = Orientations
        /\ \A layout : Occupied(layout)' = Occupied(layout)
        /\ \A o : Kernel(o)' = Kernel(o)
        /\ \A o : Translations(o)' = Translations(o)
    BY LatticeStays
  <1>2. \A o : Width(o)' = Width(o)
    BY DEF Width
  <1>3. \A p : Body(p)' = Body(p)
    BY DEF Body
  <1>4. \A p : Fits(p)' <=> Fits(p)
    BY <1>1, <1>2 DEF Fits
  <1>5. \A layout : Valid(layout)' <=> Valid(layout)
    BY <1>3, <1>4 DEF Valid
  <1>6. \A layout, p : CanAdd(layout, p)' <=> CanAdd(layout, p)
    BY <1>5 DEF CanAdd
  <1>7. \A layout, o, t : Overlap(layout, o, t)' = Overlap(layout, o, t)
    BY <1>1 DEF Overlap
  <1>8. \A layout, o : Correlation(layout, o)' = Correlation(layout, o)
    BY <1>1 DEF Correlation, Padded
  <1>9. \A layout, o, t : Score(layout, o, t)' = Score(layout, o, t)
    BY <1>1, <1>2 DEF Score
  <1>10. \A layout, o, t : Candidate(layout, o, t)' = Candidate(layout, o, t)
    BY <1>7, <1>8, <1>9 DEF Candidate
  <1>11. \A layout, o : Candidates(layout, o)' = Candidates(layout, o)
    BY <1>1, <1>10 DEF Candidates
  <1>12. \A layout, o, cursor : After(layout, o, cursor)' = After(layout, o, cursor)
    BY <1>11 DEF After, RankLess
  <1>13. ASSUME NEW layout, NEW o, NEW page, NEW cursor
         PROVE  InQueue(layout, o, page, cursor)' <=> InQueue(layout, o, page, cursor)
    BY <1>11, <1>12 DEF InQueue, RankLess
  <1>14. \A layout, o, t : Worth(layout, o, t)' <=> Worth(layout, o, t)
    BY <1>6, <1>7 DEF Worth, At
  <1>15. ASSUME NEW layout, NEW o, NEW page, NEW cursor, NEW exhausted
         PROVE  Ahead(layout, o, page, cursor, exhausted)'
                  <=> Ahead(layout, o, page, cursor, exhausted)
    BY <1>1, <1>10, <1>14 DEF Ahead, RankLess
  <1>16. \A layout : LatticeTried(layout)' <=> LatticeTried(layout)
    BY <1>1, <1>14 DEF LatticeTried
  <1>17. \A layout, o : FacesAt(layout, o)' = FacesAt(layout, o)
    BY <1>2 DEF FacesAt
  <1>18. \A layout, o : FacesTried(layout, o)' <=> FacesTried(layout, o)
    BY <1>6, <1>17 DEF FacesTried
  <1> QED
    BY <1>6, <1>12, <1>13, <1>15, <1>16, <1>17, <1>18

(* So is a round.                                                              *)
LEMMA RoundStays ==
  ASSUME scene' = scene, NEW layout, NEW round, NEW put, NEW page,
         RoundInOrder(layout, round, put, page)
  PROVE  RoundInOrder(layout, round, put, page)'
  <1>1. Orientations' = Orientations
    BY DEF Orientations
  <1> QED
    BY <1>1, ProposalsStay DEF RoundInOrder, Requested, PutOff

(* A step that leaves a round in order.                                        *)
LEMMA RoundKept ==
  ASSUME scene' = scene, NEW layout, NEW round, NEW put, NEW page,
         layout = working', round = trial', put = deferred', page = build',
         Shaped(round), phase' = "trial" => RoundInOrder(layout, round, put, page)
  PROVE  TrialInv'
  <1>1. Orientations' = Orientations
    BY DEF Orientations
  <1>2. Shaped(trial)'
    BY <1>1 DEF Shaped
  <1>3. ASSUME phase' = "trial"
        PROVE  RoundInOrder(working, trial, deferred, build)'
    <2>1. RoundInOrder(layout, round, put, page)'
      BY <1>3, RoundStays
    <2> QED
      BY <2>1
  <1> QED
    BY <1>2, <1>3 DEF TrialInv

-----------------------------------------------------------------------------
(* The steps of a round                                                        *)

(* A step that is not a round's.                                               *)
LEMMA OutsideRound ==
  ASSUME TrialInv, scene' = scene, trial' = trial, phase' # "trial"
  PROVE  TrialInv'
  <1>1. Orientations' = Orientations
    BY DEF Orientations
  <1> QED
    BY <1>1 DEF TrialInv, Shaped

(* A step that changes nothing a round has seen.                               *)
LEMMA RoundUnchanged ==
  ASSUME TrialInv, UNCHANGED <<scene, working, trial, phase, deferred, build>>
  PROVE  TrialInv'
  <1>1. PICK layout, round, put, page :
          layout = working' /\ round = trial' /\ put = deferred' /\ page = build'
    OBVIOUS
  <1>2. Shaped(round) /\ (phase' = "trial" => RoundInOrder(layout, round, put, page))
    BY <1>1 DEF TrialInv
  <1> QED
    BY <1>1, <1>2, RoundKept

(* A page under construction stays the one that was asked for.                 *)
LEMMA StagesKeepRound ==
  ASSUME TrialInv, DOMAIN build = DOMAIN NoBuild, BuildStep, UNCHANGED trial
  PROVE  TrialInv'
  <1>1. UNCHANGED <<scene, working, phase, deferred>> /\ build.step # "idle"
    BY DEF BuildStep, BuildEnter, BuildLayout, BuildKernel, BuildBinary, BuildRanked, BuildPage,
           Recover, GiveUp, Building, buildLeaves
  <1>2. build'.o = build.o /\ build'.mode = build.mode /\ build'.cursor = build.cursor
    <2>1. DOMAIN build = {"step", "o", "mode", "cursor", "page", "grants", "evicted", "reduced",
                          "denial"}
      BY DEF NoBuild
    <2>2. ASSUME NEW kind, Deny(kind)
          PROVE  build'.o = build.o /\ build'.mode = build.mode /\ build'.cursor = build.cursor
      BY <2>1, <2>2 DEF Deny
    <2>3. CASE BuildEnter \/ BuildLayout \/ BuildKernel \/ BuildBinary \/ BuildRanked
      BY <2>1, <2>2, <2>3 DEF BuildEnter, BuildLayout, BuildKernel, BuildBinary, BuildRanked
    <2>4. CASE BuildPage
      BY <2>1, <2>2, <2>4 DEF BuildPage
    <2>5. CASE Recover \/ GiveUp
      BY <2>1, <2>5 DEF Recover, GiveUp, Again
    <2> QED
      BY <2>3, <2>4, <2>5 DEF BuildStep
  <1>3. PICK layout, round, put, page :
          layout = working' /\ round = trial' /\ put = deferred' /\ page = build'
    OBVIOUS
  <1>4. Shaped(round) /\ (phase' = "trial" => RoundInOrder(layout, round, put, page))
    BY <1>1, <1>2, <1>3 DEF TrialInv, RoundInOrder, Requested
  <1> QED
    BY <1>1, <1>3, <1>4, RoundKept

(* An offer ends the run or leads on.                                          *)
LEMMA OfferLeads ==
  ASSUME TrialInv, scene' = scene, phase = "trial", NEW layout, NEW next, OfferTrial(layout, next),
         Shaped(next), next.step \in {"open", "empty"}
  PROVE  TrialInv'
  <1>1. \/ trial' = next /\ phase' = "trial"
        \/ trial' = trial /\ phase' = "done"
    BY DEF OfferTrial, End, Going
  <1>2. CASE trial' = trial /\ phase' = "done"
    BY <1>2, OutsideRound
  <1>3. CASE trial' = next
    <2>1. PICK grown, put, page : grown = working' /\ put = deferred' /\ page = build'
      OBVIOUS
    <2>2. RoundInOrder(grown, next, put, page)
      BY DEF RoundInOrder
    <2> QED
      BY <1>3, <2>1, <2>2, RoundKept
  <1> QED
    BY <1>1, <1>2, <1>3

(* A proposal: after a rejection the pose cannot be added, and what could not  *)
(* be afforded is put off.                                                     *)
LEMMA ProposalKeepsRound ==
  ASSUME TrialInv, scene' = scene, build' = build, phase = "trial",
         NEW pose, NEW refinement, NEW rest, TryPose(pose, refinement, rest), Shaped(rest),
         ~CanAdd(working, pose) => RoundInOrder(working, rest, deferred, build),
         RoundInOrder(working, rest, TRUE, build)
  PROVE  TrialInv'
  <1>1. CASE OfferTrial(working', [trial EXCEPT !.step = "open"])
    <2>1. PICK next : next = [trial EXCEPT !.step = "open"]
      OBVIOUS
    <2>2. Shaped(next) /\ next.step = "open"
      BY <2>1 DEF TrialInv, Shaped
    <2>3. PICK layout : layout = working'
      OBVIOUS
    <2>4. OfferTrial(layout, next)
      BY <1>1, <2>1, <2>3
    <2> QED
      BY <2>2, <2>4, OfferLeads
  <1>2. CASE ~CanAdd(working, pose) /\ trial' = rest /\ UNCHANGED <<working, outcomeVars>>
    <2>1. PICK layout, put, page : layout = working /\ put = deferred /\ page = build
      OBVIOUS
    <2>2. RoundInOrder(layout, rest, put, page)
      BY <1>2, <2>1
    <2>3. layout = working' /\ rest = trial' /\ put = deferred' /\ page = build'
      BY <1>2, <2>1 DEF outcomeVars
    <2> QED
      BY <2>2, <2>3, RoundKept
  <1>3. CASE Defer /\ trial' = rest /\ working' = working
    <2>1. PICK layout, page : layout = working /\ page = build
      OBVIOUS
    <2>2. RoundInOrder(layout, rest, TRUE, page)
      BY <2>1
    <2>3. layout = working' /\ rest = trial' /\ TRUE = deferred' /\ page = build'
      BY <1>3, <2>1 DEF Defer
    <2> QED
      BY <2>2, <2>3, RoundKept
  <1>4. CASE trial' = trial /\ phase' = "done"
    BY <1>4, OutsideRound
  <1> QED
    BY <1>1, <1>2, <1>3, <1>4 DEF TryPose, Verdicts, Stop, End

(* What enters a trial, opens a round or ends one.                             *)
LEMMA EntryKeepsRound ==
  ASSUME TrialInv, PageInv,
         RunRefused \/ EnterTrials \/ OfferRetained \/ EmptyStart \/ OpenRound
         \/ OutOfBudget \/ TrialDone \/ Interrupted \/ TrialThrows
  PROVE  TrialInv'
  <1>0. Shaped(trial) /\ scene' = scene
    BY DEF TrialInv, RunRefused, EnterTrials, OfferRetained, EmptyStart, OpenRound, OutOfBudget,
           TrialDone, Interrupted, TrialThrows, fixed
  <1>1. ASSUME NEW round, round = trial', Shaped(round),
               round.step \in {"retained", "empty", "open"}
        PROVE  TrialInv'
    <2>1. PICK layout, put, page : layout = working' /\ put = deferred' /\ page = build'
      OBVIOUS
    <2>2. RoundInOrder(layout, round, put, page)
      BY <1>1 DEF RoundInOrder
    <2> QED
      BY <1>0, <1>1, <2>1, <2>2, RoundKept
  <1>2. \A which : Shaped(FreshTrial(which)) /\ FreshTrial(which).step = "open"
    BY DEF FreshTrial, Shaped
  <1>3. \A step : Shaped(Stepped(step)) /\ Stepped(step).step = step
    BY <1>0 DEF Stepped, Shaped
  <1>4. CASE RunRefused
    BY <1>0, <1>4, OutsideRound DEF RunRefused, End
  <1>5. CASE EnterTrials
    <2>1. CASE trial' = Stepped("retained")
      BY <1>1, <1>3, <2>1
    <2>2. CASE trial' = trial /\ phase' = "done"
      BY <1>0, <2>2, OutsideRound
    <2> QED
      BY <1>5, <2>1, <2>2 DEF EnterTrials, End
  <1>6. CASE OfferRetained
    <2>1. CASE trial' = Stepped("empty")
      BY <1>1, <1>3, <2>1
    <2>2. ASSUME NEW layout, OfferTrial(layout, Stepped("empty"))
          PROVE  TrialInv'
      <3>1. PICK next : next = Stepped("empty")
        OBVIOUS
      <3> QED
        BY <1>0, <1>3, <1>6, <2>2, <3>1, OfferLeads DEF OfferRetained, InTrial
    <2> QED
      BY <1>6, <2>1, <2>2 DEF OfferRetained
  <1>7. CASE EmptyStart
    <2>1. CASE trial' = FreshTrial(1)
      BY <1>1, <1>2, <2>1
    <2>2. CASE OfferTrial({}, FreshTrial(1))
      <3>1. PICK next : next = FreshTrial(1)
        OBVIOUS
      <3> QED
        BY <1>0, <1>2, <1>7, <2>2, <3>1, OfferLeads DEF EmptyStart, InTrial
    <2>3. CASE trial' = trial /\ phase' = "done"
      BY <1>0, <2>3, OutsideRound
    <2> QED
      BY <1>7, <2>1, <2>2, <2>3 DEF EmptyStart, Stop, End
  <1>8. CASE OpenRound
    <2>1. CASE trial' = trial /\ phase' = "done"
      BY <1>0, <2>1, OutsideRound
    <2>2. CASE trial' = [FreshTrial(trial.which) EXCEPT !.step = "ordinary"]
               /\ UNCHANGED <<working, build>> /\ build.step = "idle"
      <3>1. PICK layout, round, put, page :
              layout = working' /\ round = trial' /\ put = deferred' /\ page = build'
        OBVIOUS
      <3>2. /\ round.step = "ordinary" /\ round.exhausted = {} /\ page.step = "idle"
            /\ \A o \in Orientations : round.pages[o] = <<>> /\ round.cursors[o] = {}
            /\ Shaped(round)
        BY <1>2, <2>2, <3>1 DEF FreshTrial, Shaped
      <3>3. RoundInOrder(layout, round, put, page)
        BY <3>2, RoundBegins DEF RoundInOrder, Requested
      <3> QED
        BY <1>0, <3>1, <3>2, <3>3, RoundKept
    <2>3. build.step = "idle"
      BY <1>8 DEF OpenRound, InTrial, PageInv, BuildingInRound
    <2> QED
      BY <1>8, <2>1, <2>2, <2>3 DEF OpenRound, Stop, End
  <1>9. CASE OutOfBudget \/ Interrupted \/ TrialThrows
    BY <1>0, <1>9, OutsideRound DEF OutOfBudget, Interrupted, TrialThrows, Stop, End
  <1>10. CASE TrialDone
    <2>1. CASE trial' = FreshTrial(2)
      BY <1>1, <1>2, <2>1
    <2>2. CASE trial' = trial /\ phase' = "done"
      BY <1>0, <2>2, OutsideRound
    <2> QED
      BY <1>10, <2>1, <2>2 DEF TrialDone, Stop, End
  <1> QED
    BY <1>4, <1>5, <1>6, <1>7, <1>8, <1>9, <1>10

(* The orientations are numbered.                                              *)
LEMMA OrientationsAreNumbered ==
  ASSUME scene \in Scenes
  PROVE  /\ Count \in Nat /\ Orientations = 1..Count
         /\ IsFiniteSet(Orientations)
  <1>1. PICK n \in Nat : Orientations = 1..n
    BY SceneAssumption DEF Orientations
  <1>2. IsFiniteSet(1..n) /\ Cardinality(1..n) = IF 1 > n THEN 0 ELSE n - 1 + 1
    BY <1>1, FS_Interval
  <1>3. Cardinality(1..n) = n
    BY <1>1, <1>2
  <1> QED
    BY <1>1, <1>2, <1>3 DEF Count

(* An orientation is asked for its next page as long as one has any.           *)
LEMMA AllAsked ==
  ASSUME scene \in Scenes, trial.next \in Nat, Ready = {}, Wanted = {}
  PROVE  \A o \in Orientations : trial.pages[o] = <<>> /\ o \in trial.exhausted
  <1> DEFINE open == {o \in Orientations \ Ready : o \notin trial.exhausted}
             rank(o) == IF scene.timed THEN (o - trial.next) % Count ELSE o
  <1>1. \A o \in Orientations : trial.pages[o] = <<>>
    BY DEF Ready
  <1>2. {o \in open : \A q \in open : rank(o) <= rank(q)} = {}
    BY DEF Wanted
  <1>3. \A o \in Orientations : rank(o) \in Nat
    <2>1. SUFFICES ASSUME NEW o \in Orientations
                   PROVE  rank(o) \in Nat
      OBVIOUS
    <2>2. o \in Nat /\ Count \in Nat \ {0}
      BY OrientationsAreNumbered
    <2>3. o - trial.next \in Int
      BY <2>2
    <2>4. (o - trial.next) % Count \in Nat
      BY <2>2, <2>3
    <2> QED
      BY <2>2, <2>4
  <1> HIDE DEF rank
  <1>4. open = {}
    <2>1. SUFFICES ASSUME open # {}
                   PROVE  FALSE
      OBVIOUS
    <2>2. {rank(o) : o \in open} \in SUBSET Nat /\ {rank(o) : o \in open} # {}
      BY <1>3, <2>1
    <2>3. PICK m \in {rank(o) : o \in open} : \A n \in {rank(o) : o \in open} : m <= n
      BY <2>2, LeastNat
    <2> QED
      BY <1>2, <2>3
  <1> QED
    BY <1>1, <1>4

(* The best head is one of the pages'.                                         *)
LEMMA HeadIsFound ==
  ASSUME scene \in Scenes, Ready # {}, NEW layout,
         \A o \in Orientations : InQueue(layout, o, trial.pages[o], trial.cursors[o])
  PROVE  FirstHead("ordinary") \in Ready
  <1> DEFINE head(o) == Head(trial.pages[o])
             R == {z \in Ready \X Ready : RankLess(head(z[1]), head(z[2]))}
  <1>1. Ready \subseteq Orientations /\ IsFiniteSet(Ready)
    BY OrientationsAreNumbered, FS_Subset DEF Ready
  <1>2. \A o \in Ready : Comparable(head(o)) /\ head(o).o = o
    <2>1. SUFFICES ASSUME NEW o \in Ready
                   PROVE  Comparable(head(o)) /\ head(o).o = o
      OBVIOUS
    <2>2. PICK page, cursor, left :
            page = trial.pages[o] /\ cursor = trial.cursors[o] /\ left = trial.exhausted
      OBVIOUS
    <2>3. o \in Orientations /\ page # <<>> /\ InQueue(layout, o, page, cursor)
      BY <1>1, <2>1, <2>2 DEF Ready
    <2>4. Head(page).o = o /\ Comparable(Head(page))
      BY <2>3, HeadIs
    <2> QED
      BY <2>2, <2>4
  <1> HIDE DEF head
  <1>3. \A x, y : <<x, y>> \in R <=> x \in Ready /\ y \in Ready /\ RankLess(head(x), head(y))
    OBVIOUS
  <1> HIDE DEF R
  <1>4. StrictOrder(Ready, R)
    BY <1>2, <1>3, RankIsOrder DEF StrictOrder
  <1>5. PICK n \in Nat : n = Cardinality(Ready) /\ 1 \in 1..n
    <2>1. Cardinality(Ready) \in Nat /\ Cardinality(Ready) # 0
      BY <1>1, FS_EmptySet, FS_CardinalityType
    <2> QED
      BY <2>1
  <1>6. PICK o \in Ready : Cardinality(Below(Ready, R, o)) = 1 - 1
    BY <1>1, <1>4, <1>5, PlacesAreTaken
  <1>7. Below(Ready, R, o) = {}
    <2>1. IsFiniteSet(Below(Ready, R, o))
      BY <1>1, FS_Subset DEF Below
    <2> QED
      BY <1>6, <2>1, FS_EmptySet
  <1>8. \A q \in Ready \ {o} : RankLess(head(o), head(q))
    BY <1>3, <1>4, <1>7 DEF Below, StrictOrder
  <1>9. \E p \in Ready : \A q \in Ready \ {p} :
          Less("ordinary", Head(trial.pages[p]), Head(trial.pages[q]))
    BY <1>8 DEF head, Less
  <1> QED
    BY <1>9 DEF FirstHead

(* Asking for a page.                                                          *)
LEMMA LoadKeepsRound ==
  ASSUME TrialInv, LoadPage
  PROVE  TrialInv'
  <1>1. PICK o \in Wanted :
          build' = [NoBuild EXCEPT !.step = "enter", !.o = o, !.cursor = trial.cursors[o]]
    BY DEF LoadPage
  <1>2. o \in Orientations /\ trial.pages[o] = <<>> /\ o \notin trial.exhausted
    BY <1>1 DEF Wanted, Ready
  <1>3. /\ UNCHANGED <<scene, working, trial, phase, deferred>>
        /\ phase = "trial" /\ trial.step = "ordinary"
    BY DEF LoadPage, InTrial, fixed, outcomeVars
  <1>4. PICK layout, round, put, page :
          layout = working' /\ round = trial' /\ put = deferred' /\ page = build'
    OBVIOUS
  <1>5. page.o = o /\ page.mode = "ordinary" /\ page.cursor = trial.cursors[o]
    BY <1>1, <1>4 DEF NoBuild
  <1>6. Requested(round, page)
    BY <1>2, <1>3, <1>4, <1>5 DEF Requested
  <1>7. Shaped(round) /\ RoundInOrder(layout, round, put, page)
    BY <1>3, <1>4, <1>6 DEF TrialInv, RoundInOrder
  <1> QED
    BY <1>3, <1>4, <1>7, RoundKept

(* A page that was built: an empty one leaves its orientation with nothing to  *)
(* try.                                                                        *)
LEMMA TakeKeepsRound ==
  ASSUME TrialInv, PageInv, scene \in Scenes, TakePage
  PROVE  TrialInv'
  <1>1. PICK o, page, cursor :
          o = build.o /\ page = build.page /\ cursor = trial.cursors[build.o]
    OBVIOUS
  <1>2. /\ UNCHANGED <<scene, working, phase, deferred>>
        /\ phase = "trial" /\ trial.step = "ordinary" /\ build.step = "ready"
        /\ build' = NoBuild
        /\ trial' = IF page = <<>>
                    THEN [trial EXCEPT !.exhausted = @ \cup {o}]
                    ELSE [trial EXCEPT !.pages[o] = page, !.next = (o % Count) + 1]
    BY <1>1 DEF TakePage, InTrial, fixed, outcomeVars
  <1>3. Shaped(trial) /\ RoundInOrder(working, trial, deferred, build)
    BY <1>2 DEF TrialInv
  <1>4. /\ o \in Orientations /\ trial.pages[o] = <<>> /\ build.mode = "ordinary"
        /\ cursor = build.cursor /\ InQueue(working, o, <<>>, cursor)
    BY <1>1, <1>2, <1>3 DEF RoundInOrder, Requested
  <1>5. page = Page(o, "ordinary", cursor, [layout |-> working, o |-> o],
                    [layout |-> working, o |-> o], o, working)
    BY <1>1, <1>2, <1>4 DEF PageInv, StagesReady, Called
  <1>6. PICK layout, exhausted, round, put, idle :
          /\ layout = working /\ exhausted = trial.exhausted
          /\ round = trial' /\ put = deferred' /\ idle = build'
    OBVIOUS
  <1>7. /\ InQueue(layout, o, page, cursor)
        /\ Ahead(layout, o, <<>>, cursor, exhausted) =>
             /\ page # <<>> => Ahead(layout, o, page, cursor, exhausted)
             /\ page = <<>> => \A left : Ahead(layout, o, <<>>, cursor, left)
    BY <1>4, <1>5, <1>6, PageIsAhead
  <1>8. (o % Count) + 1 \in Nat \ {0}
    <2>1. o \in Nat /\ Count \in Nat \ {0}
      BY <1>4, OrientationsAreNumbered
    <2>2. o % Count \in Nat
      BY <2>1
    <2> QED
      BY <2>2
  <1>9. Shaped(round) /\ idle.step = "idle" /\ round.step = "ordinary"
        /\ round.cursors = trial.cursors /\ round.deferred = trial.deferred
    BY <1>2, <1>3, <1>6, <1>8 DEF Shaped, NoBuild
  <1>10. CASE page = <<>>
    <2>1. round.pages = trial.pages /\ round.exhausted = exhausted \cup {o}
      BY <1>2, <1>3, <1>6, <1>10 DEF Shaped
    <2>2. ASSUME NEW q \in Orientations, NEW rest, NEW last, q # o,
                 Ahead(layout, q, rest, last, exhausted)
          PROVE  Ahead(layout, q, rest, last, exhausted \cup {o})
      BY <2>2 DEF Ahead
    <2>3. ASSUME \A q \in Orientations :
                   Ahead(layout, q, trial.pages[q], trial.cursors[q], exhausted),
                 NEW q \in Orientations
          PROVE  Ahead(layout, q, trial.pages[q], trial.cursors[q], exhausted \cup {o})
      BY <1>1, <1>4, <1>7, <1>10, <2>2, <2>3
    <2>4. RoundInOrder(layout, round, put, idle)
      BY <1>2, <1>3, <1>6, <1>9, <2>1, <2>3 DEF RoundInOrder, Requested, PutOff
    <2> QED
      BY <1>2, <1>6, <1>9, <2>4, RoundKept
  <1>11. CASE page # <<>>
    <2>1. round.pages = [trial.pages EXCEPT ![o] = page] /\ round.exhausted = exhausted
      BY <1>2, <1>3, <1>6, <1>11 DEF Shaped
    <2>2. /\ round.pages[o] = page
          /\ \A q \in Orientations \ {o} : round.pages[q] = trial.pages[q]
      BY <1>3, <1>4, <2>1 DEF Shaped
    <2>3. ASSUME \A q \in Orientations :
                   Ahead(layout, q, trial.pages[q], trial.cursors[q], exhausted),
                 NEW q \in Orientations
          PROVE  Ahead(layout, q, round.pages[q], trial.cursors[q], exhausted)
      BY <1>1, <1>4, <1>7, <1>11, <2>2, <2>3
    <2>4. ASSUME NEW q \in Orientations
          PROVE  InQueue(layout, q, round.pages[q], trial.cursors[q])
      BY <1>1, <1>2, <1>3, <1>6, <1>7, <2>2 DEF RoundInOrder
    <2>5. RoundInOrder(layout, round, put, idle)
      BY <1>2, <1>3, <1>6, <1>9, <2>1, <2>3, <2>4 DEF RoundInOrder, Requested, PutOff
    <2> QED
      BY <1>2, <1>6, <1>9, <2>5, RoundKept
  <1> QED
    BY <1>10, <1>11

(* A page that was refused is put off.                                         *)
LEMMA RefusalKeepsRound ==
  ASSUME TrialInv, scene \in Scenes, PageRefused \/ LowRefused
  PROVE  TrialInv'
  <1>1. scene' = scene /\ working' = working /\ phase = "trial" /\ build' = NoBuild
        /\ trial.step \in {"ordinary", "low"}
    BY DEF PageRefused, LowRefused, Refused, InTrial, fixed
  <1>2. CASE trial' = trial /\ phase' = "done"
    BY <1>1, <1>2, OutsideRound
  <1>3. ASSUME trial' = [trial EXCEPT !.exhausted = @ \cup {build.o}, !.deferred = TRUE]
               \/ trial' = [trial EXCEPT !.next = @ + 1, !.deferred = TRUE],
               UNCHANGED outcomeVars
        PROVE  TrialInv'
    <2>1. PICK layout, round, put, page :
            layout = working' /\ round = trial' /\ put = deferred' /\ page = build'
      OBVIOUS
    <2>2. trial.next + 1 \in Nat \ {0}
      BY DEF TrialInv, Shaped
    <2>3. /\ Shaped(round) /\ round.deferred = TRUE /\ round.step = trial.step
          /\ round.pages = trial.pages /\ round.cursors = trial.cursors
      BY <1>3, <2>1, <2>2 DEF TrialInv, Shaped
    <2>4. page.step = "idle"
      BY <1>1, <2>1 DEF NoBuild
    <2>5. RoundInOrder(layout, round, put, page)
      BY <1>1, <2>1, <2>3, <2>4 DEF TrialInv, RoundInOrder, Requested, PutOff
    <2> QED
      BY <1>1, <2>1, <2>3, <2>5, RoundKept
  <1> QED
    BY <1>2, <1>3 DEF PageRefused, LowRefused, Refused, Stop, End

(* The best head of the pages is looked at.                                    *)
LEMMA ChooseKeepsRound ==
  ASSUME TrialInv, PageInv, scene \in Scenes, Choose
  PROVE  TrialInv'
  <1>1. PICK o, c, page, cursor, layout, exhausted, rest :
          /\ o = FirstHead("ordinary") /\ page = trial.pages[o] /\ c = Head(page)
          /\ cursor = trial.cursors[o] /\ layout = working /\ exhausted = trial.exhausted
          /\ rest = [trial EXCEPT !.pages[o] = Tail(@), !.cursors[o] = {c}]
    OBVIOUS
  <1>2. /\ phase = "trial" /\ trial.step = "ordinary" /\ build.step = "idle" /\ Ready # {}
        /\ UNCHANGED <<scene, build>>
        /\ c.direct => TryPose(At(c.o, c.t), FALSE, rest)
    BY <1>1 DEF Choose, InTrial, fixed
  <1>3. Shaped(trial) /\ RoundInOrder(layout, trial, deferred, build)
    BY <1>1, <1>2 DEF TrialInv
  <1>4. o \in Ready
    BY <1>1, <1>2, <1>3, HeadIsFound DEF RoundInOrder
  <1>5. o \in Orientations /\ page # <<>> /\ InQueue(layout, o, page, cursor)
    BY <1>1, <1>2, <1>3, <1>4 DEF Ready, RoundInOrder
  <1>6. c.o = o /\ c.direct
    BY <1>1, <1>5, HeadIs
  <1>7. /\ InQueue(layout, o, Tail(page), {c})
        /\ Ahead(layout, o, page, cursor, exhausted) /\ ~CanAdd(layout, At(o, c.t))
             => Ahead(layout, o, Tail(page), {c}, exhausted)
    BY <1>1, <1>5, HeadIsTried
  <1>8. /\ Shaped(rest) /\ rest.step = "ordinary" /\ rest.deferred = trial.deferred
        /\ rest.exhausted = exhausted
        /\ rest.pages[o] = Tail(page) /\ rest.cursors[o] = {c}
        /\ \A q \in Orientations \ {o} :
             rest.pages[q] = trial.pages[q] /\ rest.cursors[q] = trial.cursors[q]
    BY <1>1, <1>2, <1>3, <1>5 DEF Shaped
  <1>9. ASSUME NEW q \in Orientations
        PROVE  InQueue(layout, q, rest.pages[q], rest.cursors[q])
    BY <1>2, <1>3, <1>7, <1>8 DEF RoundInOrder
  <1>10. RoundInOrder(layout, rest, TRUE, build)
    BY <1>2, <1>8, <1>9 DEF RoundInOrder, Requested, PutOff
  <1>11. ASSUME ~CanAdd(layout, At(o, c.t))
         PROVE  RoundInOrder(layout, rest, deferred, build)
    <2>1. ASSUME \A q \in Orientations :
                   Ahead(layout, q, trial.pages[q], trial.cursors[q], exhausted),
                 NEW q \in Orientations
          PROVE  Ahead(layout, q, rest.pages[q], rest.cursors[q], exhausted)
      BY <1>1, <1>5, <1>7, <1>8, <1>11, <2>1
    <2>2. \/ PutOff(trial, deferred)
          \/ \A q \in Orientations :
               Ahead(layout, q, trial.pages[q], trial.cursors[q], exhausted)
      BY <1>1, <1>2, <1>3 DEF RoundInOrder
    <2> QED
      BY <1>2, <1>8, <1>9, <2>1, <2>2 DEF RoundInOrder, Requested, PutOff
  <1>12. PICK pose : pose = At(o, c.t)
    OBVIOUS
  <1>13. TryPose(pose, FALSE, rest)
    BY <1>2, <1>6, <1>12
  <1> QED
    BY <1>1, <1>2, <1>8, <1>10, <1>11, <1>12, <1>13, ProposalKeepsRound

(* Nothing is left of the lattice.                                             *)
LEMMA LatticeDoneKeepsRound ==
  ASSUME TrialInv, scene \in Scenes, LatticeDone
  PROVE  TrialInv'
  <1>1. /\ phase = "trial" /\ trial.step = "ordinary" /\ Ready = {} /\ Wanted = {}
        /\ UNCHANGED <<scene, working, phase, deferred>>
        /\ \/ scene.caps.refine = 0 /\ trial' = Stepped("finish")
           \/ trial' = [trial EXCEPT !.step = "query", !.next = 1]
    BY DEF LatticeDone, InTrial, fixed, outcomeVars
  <1>2. Shaped(trial) /\ RoundInOrder(working, trial, deferred, build)
    BY <1>1 DEF TrialInv
  <1>3. \A o \in Orientations : trial.pages[o] = <<>> /\ o \in trial.exhausted
    BY <1>1, <1>2, AllAsked DEF Shaped
  <1>4. PutOff(trial, deferred) \/ LatticeTried(working)
    <2>1. PICK none : none = <<>>
      OBVIOUS
    <2>2. ToSet(none) = {}
      BY <2>1 DEF ToSet
    <2>3. SUFFICES ASSUME \A o \in Orientations : Ahead(working, o, trial.pages[o],
                                                        trial.cursors[o], trial.exhausted),
                          NEW o \in Orientations, NEW t \in Translations(o), Worth(working, o, t)
                   PROVE  FALSE
      BY <1>1, <1>2 DEF RoundInOrder, LatticeTried
    <2>4. PICK cursor, exhausted : cursor = trial.cursors[o] /\ exhausted = trial.exhausted
      OBVIOUS
    <2>5. Ahead(working, o, none, cursor, exhausted) /\ o \in exhausted
      BY <1>3, <2>1, <2>3, <2>4
    <2> QED
      BY <2>2, <2>3, <2>5 DEF Ahead
  <1>5. PICK layout, round, put, page :
          layout = working' /\ round = trial' /\ put = deferred' /\ page = build'
    OBVIOUS
  <1>6. /\ Shaped(round) /\ round.deferred = trial.deferred
        /\ \/ round.step = "finish" /\ scene.caps.refine = 0
           \/ round.step = "query" /\ round.next = 1
    <2>1. CASE scene.caps.refine = 0 /\ trial' = Stepped("finish")
      <3>1. Shaped(round) /\ round.deferred = trial.deferred /\ round.step = "finish"
        BY <1>2, <1>5, <2>1 DEF Stepped, Shaped
      <3> QED
        BY <2>1, <3>1
    <2>2. CASE trial' = [trial EXCEPT !.step = "query", !.next = 1]
      <3>1. /\ Shaped(round) /\ round.deferred = trial.deferred
            /\ round.step = "query" /\ round.next = 1
        BY <1>2, <1>5, <2>2 DEF Shaped
      <3> QED
        BY <3>1
    <2> QED
      BY <1>1, <2>1, <2>2
  <1>7. ASSUME round.next = 1
        PROVE  \A o \in Orientations : ~(o < round.next)
    BY <1>7, OrientationsAreNumbered
  <1>8. RoundInOrder(layout, round, put, page)
    BY <1>1, <1>4, <1>5, <1>6, <1>7 DEF RoundInOrder, PutOff
  <1> QED
    BY <1>1, <1>5, <1>6, <1>8, RoundKept

(* The face poses of an orientation are found.                                 *)
LEMMA QueryKeepsRound ==
  ASSUME TrialInv, scene \in Scenes, QueryFaces
  PROVE  TrialInv'
  <1>1. /\ phase = "trial" /\ trial.step = "query" /\ UNCHANGED <<scene, working>>
        /\ Shaped(trial) /\ RoundInOrder(working, trial, deferred, build)
    BY DEF QueryFaces, InTrial, fixed, TrialInv
  <1>2. trial.next \in Nat \ {0} /\ Count \in Nat /\ Orientations = 1..Count
    BY <1>1, OrientationsAreNumbered DEF Shaped
  <1>3. PICK layout, round, put, page :
          layout = working' /\ round = trial' /\ put = deferred' /\ page = build'
    OBVIOUS
  <1>4. CASE /\ trial.next > Count /\ UNCHANGED outcomeVars
             /\ trial' = [trial EXCEPT !.step = "low", !.next = 1]
    <2>1. Shaped(round) /\ round.deferred = trial.deferred /\ round.step = "low"
      BY <1>1, <1>3, <1>4 DEF Shaped
    <2>2. \A o \in Orientations : o < trial.next
      BY <1>2, <1>4
    <2>3. RoundInOrder(layout, round, put, page)
      BY <1>1, <1>3, <1>4, <2>1, <2>2 DEF RoundInOrder, PutOff, outcomeVars
    <2> QED
      BY <1>1, <1>3, <2>1, <2>3, RoundKept
  <1>5. CASE /\ ~(trial.next > Count) /\ UNCHANGED outcomeVars
             /\ trial' = [trial EXCEPT !.step = "faces", !.faces = Faces(trial.next)]
    <2>1. PICK o, faces : o = trial.next /\ faces = Faces(o)
      OBVIOUS
    <2>2. /\ Shaped(round) /\ round.deferred = trial.deferred /\ round.step = "faces"
          /\ round.next = o /\ round.faces = faces
      BY <1>1, <1>3, <1>5, <2>1 DEF Shaped
    <2>3. o \in Orientations
      BY <1>2, <1>5, <2>1
    <2>4. faces \in Seq(FacesAt(working, o)) /\ ToSet(faces) = FacesAt(working, o)
      BY <2>1, <2>3, FacesAreAll
    <2>5. RoundInOrder(layout, round, put, page)
      BY <1>1, <1>3, <1>5, <2>1, <2>2, <2>4 DEF RoundInOrder, PutOff, outcomeVars
    <2> QED
      BY <1>1, <1>3, <2>2, <2>5, RoundKept
  <1>6. CASE Defer /\ trial' = [trial EXCEPT !.next = @ + 1]
    <2>1. trial.next + 1 \in Nat \ {0}
      BY <1>2
    <2>2. Shaped(round) /\ round.step = "query" /\ put = TRUE
      BY <1>1, <1>3, <1>6, <2>1 DEF Shaped, Defer
    <2>3. RoundInOrder(layout, round, put, page)
      BY <2>2 DEF RoundInOrder, PutOff
    <2> QED
      BY <1>1, <1>3, <2>2, <2>3, RoundKept
  <1>7. CASE trial' = trial /\ phase' = "done"
    BY <1>1, <1>7, OutsideRound
  <1> QED
    BY <1>4, <1>5, <1>6, <1>7 DEF QueryFaces, Stop, End

(* A face pose is tried.                                                       *)
LEMMA FaceKeepsRound ==
  ASSUME TrialInv, scene \in Scenes, TryFace
  PROVE  TrialInv'
  <1>1. PICK layout, faces, o, put, page :
          /\ layout = working /\ faces = trial.faces /\ o = trial.next /\ put = deferred
          /\ page = build
    OBVIOUS
  <1>2. /\ phase = "trial" /\ trial.step = "faces" /\ UNCHANGED <<scene, build>>
        /\ Shaped(trial) /\ RoundInOrder(layout, trial, put, page)
    BY <1>1 DEF TryFace, InTrial, fixed, TrialInv
  <1>3. /\ PutOff(trial, put) \/ LatticeTried(layout)
        /\ \/ PutOff(trial, put)
           \/ \A q \in Orientations : q < o => FacesTried(layout, q)
        /\ faces \in Seq(FacesAt(layout, o))
        /\ \/ PutOff(trial, put)
           \/ \A p \in FacesAt(layout, o) : CanAdd(layout, p) => p \in ToSet(faces)
        /\ o \in Nat \ {0}
    BY <1>1, <1>2 DEF RoundInOrder, Shaped
  <1>4. CASE /\ faces = <<>> /\ UNCHANGED <<working, outcomeVars>>
             /\ trial' = [trial EXCEPT !.step = "query", !.next = @ + 1]
    <2>1. PICK round : round = trial'
      OBVIOUS
    <2>2. o + 1 \in Nat \ {0}
      BY <1>3
    <2>3. /\ Shaped(round) /\ round.deferred = trial.deferred /\ round.step = "query"
          /\ round.next = o + 1
      BY <1>1, <1>2, <1>4, <2>1, <2>2 DEF Shaped
    <2>4. ToSet(faces) = {}
      BY <1>4 DEF ToSet
    <2>5. PutOff(trial, put) \/ FacesTried(layout, o)
      BY <1>3, <2>4 DEF FacesTried
    <2>6. \A q \in Orientations : q < o + 1 => q < o \/ q = o
      BY <1>3, OrientationsAreNumbered
    <2>7. RoundInOrder(layout, round, put, page)
      BY <1>3, <2>3, <2>5, <2>6 DEF RoundInOrder, PutOff
    <2>8. layout = working' /\ put = deferred' /\ page = build'
      BY <1>1, <1>2, <1>4 DEF outcomeVars
    <2> QED
      BY <1>2, <2>1, <2>3, <2>7, <2>8, RoundKept
  <1>5. CASE faces # <<>> /\ TryPose(Head(faces), TRUE, [trial EXCEPT !.faces = Tail(@)])
    <2>1. PICK pose, rest, left :
            pose = Head(faces) /\ left = Tail(faces) /\ rest = [trial EXCEPT !.faces = left]
      OBVIOUS
    <2>2. /\ Shaped(rest) /\ rest.deferred = trial.deferred /\ rest.step = "faces"
          /\ rest.next = o /\ rest.faces = left
      BY <1>1, <1>2, <2>1 DEF Shaped
    <2>3. PICK S : S = FacesAt(layout, o)
      OBVIOUS
    <2>4. PICK n \in Nat :
            /\ Len(faces) = n + 1 /\ faces \in [1..(n + 1) -> S]
            /\ Head(faces) = faces[1]
            /\ Tail(faces) \in Seq(S) /\ Len(Tail(faces)) = n /\ Tail(faces) \in [1..n -> S]
            /\ \A i \in 1..n : Tail(faces)[i] = faces[i + 1]
      BY <1>3, <1>5, <2>3, TailIs
    <2>5. \A p : p \in ToSet(faces) => p = pose \/ p \in ToSet(left)
      <3>1. SUFFICES ASSUME NEW i \in 1..(n + 1)
                     PROVE  faces[i] = pose \/ faces[i] \in ToSet(left)
        BY <2>4 DEF ToSet
      <3>2. CASE i = 1
        BY <2>1, <2>4, <3>2
      <3>3. CASE i # 1
        <4>1. i - 1 \in 1..n /\ (i - 1) + 1 = i
          BY <3>3
        <4>2. left[i - 1] = faces[i] /\ i - 1 \in DOMAIN left
          BY <2>1, <2>4, <4>1
        <4> QED
          BY <4>2 DEF ToSet
      <3> QED
        BY <3>2, <3>3
    <2>6. left \in Seq(FacesAt(layout, o))
      BY <2>1, <2>3, <2>4
    <2>7. RoundInOrder(layout, rest, TRUE, page)
      BY <2>2, <2>6 DEF RoundInOrder, PutOff
    <2>8. ASSUME ~CanAdd(layout, pose)
          PROVE  RoundInOrder(layout, rest, put, page)
      <3>1. \/ PutOff(trial, put)
            \/ \A p \in FacesAt(layout, o) : CanAdd(layout, p) => p \in ToSet(left)
        BY <1>3, <2>5, <2>8
      <3> QED
        BY <1>3, <2>2, <2>6, <3>1 DEF RoundInOrder, PutOff
    <2>9. TryPose(pose, TRUE, rest)
      BY <1>1, <1>5, <2>1
    <2> QED
      BY <1>1, <1>2, <2>2, <2>7, <2>8, <2>9, ProposalKeepsRound
  <1> QED
    BY <1>1, <1>4, <1>5 DEF TryFace

(* The pages of low overlap.                                                   *)
LEMMA LowKeepsRound ==
  ASSUME TrialInv, scene \in Scenes, LoadLow \/ TakeLow \/ TryLow \/ LowDone
  PROVE  TrialInv'
  <1>1. /\ phase = "trial" /\ trial.step = "low" /\ scene' = scene
        /\ Shaped(trial) /\ RoundInOrder(working, trial, deferred, build)
    BY DEF LoadLow, TakeLow, TryLow, LowDone, InTrial, fixed, TrialInv
  <1>2. PICK put : put = deferred
    OBVIOUS
  <1>3. /\ PutOff(trial, put) \/ LatticeTried(working)
        /\ scene.caps.refine # 0 =>
             PutOff(trial, put) \/ \A o \in Orientations : FacesTried(working, o)
    BY <1>1, <1>2 DEF RoundInOrder
  <1>4. ASSUME NEW rest, Shaped(rest), rest.step \in {"low", "finish"},
               rest.deferred = trial.deferred, NEW after, after = put \/ after = TRUE, NEW page
        PROVE  RoundInOrder(working, rest, after, page)
    BY <1>3, <1>4 DEF RoundInOrder, PutOff
  <1>5. CASE LoadLow \/ TakeLow \/ LowDone
    <2>1. PICK layout, round, page : layout = working' /\ round = trial' /\ page = build'
      OBVIOUS
    <2>2. UNCHANGED <<working, deferred>>
      BY <1>5 DEF LoadLow, TakeLow, LowDone, outcomeVars
    <2>3. trial.next + 1 \in Nat \ {0}
      BY <1>1 DEF Shaped
    <2>4. Shaped(round) /\ round.step \in {"low", "finish"} /\ round.deferred = trial.deferred
      BY <1>1, <1>5, <2>1, <2>3 DEF LoadLow, TakeLow, LowDone, Stepped, Shaped
    <2>5. RoundInOrder(layout, round, put, page)
      BY <1>4, <2>1, <2>2, <2>4
    <2> QED
      BY <1>1, <1>2, <2>1, <2>2, <2>4, <2>5, RoundKept
  <1>6. CASE TryLow
    <2>1. PICK o, pose, rest :
            /\ o = FirstHead("low") /\ rest = [trial EXCEPT !.pages[o] = Tail(@)]
            /\ pose = At(Head(trial.pages[o]).o, Head(trial.pages[o]).t)
      OBVIOUS
    <2>2. TryPose(pose, TRUE, rest) /\ build' = build
      BY <1>6, <2>1 DEF TryLow
    <2>3. Shaped(rest) /\ rest.step = "low" /\ rest.deferred = trial.deferred
      BY <1>1, <2>1 DEF Shaped
    <2>4. RoundInOrder(working, rest, deferred, build) /\ RoundInOrder(working, rest, TRUE, build)
      <3>1. PICK page : page = build
        OBVIOUS
      <3>2. RoundInOrder(working, rest, put, page) /\ RoundInOrder(working, rest, TRUE, page)
        BY <1>4, <2>3
      <3> QED
        BY <1>2, <3>1, <3>2
    <2> QED
      BY <1>1, <2>2, <2>3, <2>4, ProposalKeepsRound
  <1> QED
    BY <1>5, <1>6

(* No step of the other strategies is a round's.                               *)
LEMMA EarlierKeepRound ==
  ASSUME TrialInv, LayoutStep, UNCHANGED trial
  PROVE  TrialInv'
  <1>1. CASE BaselineStep
    <2>1. ASSUME NEW batch, NEW passed, NEW failed, Submit(batch, passed, failed), phase = "grid"
          PROVE  phase' # "trial"
      BY <2>1 DEF Submit, End, EndOffer, Going
    <2>2. CASE GridFlush \/ GridRetry
      <3>1. phase' # "trial"
        BY <2>1, <2>2 DEF GridFlush, GridRetry
      <3>2. scene' = scene
        BY <2>2 DEF GridFlush, GridRetry
      <3> QED
        BY <3>1, <3>2, OutsideRound
    <2>3. CASE StartGrid \/ GridSeed \/ GridTake \/ GridEndSeed \/ GridDenied
      <3>1. phase' # "trial" /\ scene' = scene
        BY <2>3 DEF StartGrid, GridSeed, GridTake, GridEndSeed, GridDenied, End, EndOffer, Going
      <3> QED
        BY <3>1, OutsideRound
    <2>4. CASE StaggerPlan
      <3>1. phase' # "trial" /\ scene' = scene
        BY <2>4, SMT DEF StaggerPlan
      <3> QED
        BY <3>1, OutsideRound
    <2>5. CASE AfterGrid \/ StaggerTrial \/ StaggerDenied \/ AfterStagger \/ BaselineInterrupted
      <3>1. phase' # "trial" /\ scene' = scene
        BY <2>5 DEF AfterGrid, StaggerTrial, StaggerDenied, AfterStagger, BaselineInterrupted,
                    End, EndOffer, Going
      <3> QED
        BY <3>1, OutsideRound
    <2> QED
      BY <1>1, <2>2, <2>3, <2>4, <2>5 DEF BaselineStep
  <1>2. CASE NextLayout \/ SlabTrial \/ BlockTrial \/ StaggerPairTrial \/ PlannerDenied
             \/ AfterLayout \/ LayoutInterrupted
    <2>0. ASSUME NEW layout, Check(layout), phase = "planner"
          PROVE  phase' # "trial"
      BY <2>0 DEF Check, End, EndOffer, Going
    <2>1. ASSUME NEW found, TryNext(found)
          PROVE  phase' # "trial" /\ scene' = scene
      BY <2>0, <2>1 DEF TryNext, EndPlanner, End, Going
    <2>2. CASE BlockTrial \/ StaggerPairTrial
      <3>1. phase' # "trial" /\ scene' = scene
        BY <2>1, <2>2 DEF BlockTrial, StaggerPairTrial
      <3> QED
        BY <3>1, OutsideRound
    <2>3. CASE NextLayout \/ SlabTrial \/ PlannerDenied \/ AfterLayout \/ LayoutInterrupted
      <3>1. phase' # "trial" /\ scene' = scene
        BY <2>3 DEF NextLayout, SlabTrial, PlannerDenied, AfterLayout, LayoutInterrupted,
                    EndPlanner, End, EndOffer, Going
      <3> QED
        BY <3>1, OutsideRound
    <2> QED
      BY <1>2, <2>2, <2>3
  <1>3. CASE Sweep \/ Contract \/ Slide \/ Drop \/ SweepCut \/ SettleLayout
             \/ FillStart \/ FillStep \/ FillEnds \/ FillOffer \/ Greedier \/ CompactionDenied
    <2>1. ASSUME NEW layout, NEW next, OfferAccepted(layout, next), phase = "compaction"
          PROVE  phase' # "trial"
      BY <2>1 DEF OfferAccepted, End, EndOffer, Going
    <2>2. CASE SettleLayout \/ FillOffer
      <3>1. phase' # "trial" /\ scene' = scene
        BY <2>1, <2>2 DEF SettleLayout, FillOffer, Going
      <3> QED
        BY <3>1, OutsideRound
    <2>3. CASE Sweep \/ Contract \/ Slide \/ Drop \/ SweepCut
      <3>1. phase' # "trial" /\ scene' = scene
        BY <2>3 DEF Sweep, Contract, Slide, Drop, SweepCut, End, Going
      <3> QED
        BY <3>1, OutsideRound
    <2>4. CASE FillStart \/ FillStep \/ FillEnds \/ Greedier \/ CompactionDenied
      <3>1. phase' # "trial" /\ scene' = scene
        BY <2>4 DEF FillStart, FillStep, FillEnds, Greedier, CompactionDenied, End, Going
      <3> QED
        BY <3>1, OutsideRound
    <2> QED
      BY <1>3, <2>2, <2>3, <2>4
  <1> QED
    BY <1>1, <1>2, <1>3 DEF LayoutStep

(* TrialInv is inductive.                                                      *)
LEMMA TrialInductive ==
  /\ SearchInit => TrialInv
  /\ TrialInv /\ BestInv /\ PageInv /\ [SearchNext]_spectralVars => TrialInv'
  <1>1. ASSUME SearchInit
        PROVE  TrialInv
    <2>1. trial = FreshTrial(1) /\ phase = "start"
      BY <1>1 DEF SearchInit, WorkspaceInit, LayoutInit, BaselineInit, SpaceInit
    <2> QED
      BY <2>1 DEF FreshTrial, TrialInv, Shaped
  <1>2. ASSUME TrialInv, BestInv, PageInv, SpectralStep
        PROVE  TrialInv'
    <2>1. scene \in Scenes
      BY <1>2 DEF BestInv, Keeping
    <2>2. CASE RunRefused \/ EnterTrials \/ OfferRetained \/ EmptyStart \/ OpenRound
               \/ OutOfBudget \/ TrialDone \/ Interrupted \/ TrialThrows
      BY <1>2, <2>2, EntryKeepsRound
    <2>3. CASE LoadPage
      BY <1>2, <2>3, LoadKeepsRound
    <2>4. CASE TakePage
      BY <1>2, <2>1, <2>4, TakeKeepsRound
    <2>5. CASE PageRefused \/ LowRefused
      BY <1>2, <2>1, <2>5, RefusalKeepsRound
    <2>6. CASE Choose
      BY <1>2, <2>1, <2>6, ChooseKeepsRound
    <2>7. CASE LatticeDone
      BY <1>2, <2>1, <2>7, LatticeDoneKeepsRound
    <2>8. CASE QueryFaces
      BY <1>2, <2>1, <2>8, QueryKeepsRound
    <2>9. CASE TryFace
      BY <1>2, <2>1, <2>9, FaceKeepsRound
    <2>10. CASE LoadLow \/ TakeLow \/ TryLow \/ LowDone
      BY <1>2, <2>1, <2>10, LowKeepsRound
    <2> QED
      BY <1>2, <2>2, <2>3, <2>4, <2>5, <2>6, <2>7, <2>8, <2>9, <2>10 DEF SpectralStep
  <1>3. ASSUME TrialInv, PageInv, BuildStep, UNCHANGED trial
        PROVE  TrialInv'
    BY <1>3, StagesKeepRound DEF PageInv
  <1>4. ASSUME TrialInv, Stopping \/ UNCHANGED spectralVars
        PROVE  TrialInv'
    <2>1. UNCHANGED <<scene, working, trial, phase, deferred, build>>
      BY <1>4 DEF Stopping, Halt, spectralVars, workspaceVars, layoutVars, baselineVars, space
    <2> QED
      BY <1>4, <2>1, RoundUnchanged
  <1> QED
    BY <1>1, <1>2, <1>3, <1>4, EarlierKeepRound DEF SearchNext, Step

(* A trial that ends with nothing put off has tried every translation of the   *)
(* lattice where the voxels are free and, with refinement, every face.         *)
THEOREM TrialsAreMaximal == SearchSpec => []TrialMaximal
  <1>1. ASSUME TrialInv, BestInv
        PROVE  TrialMaximal
    <2>1. SUFFICES ASSUME InTrial("finish"), ~trial.deferred, ~deferred, NEW o \in Orientations
                   PROVE  /\ \A t \in Translations(o) :
                               Overlap(working, o, t) = 0 => ~CanAdd(working, At(o, t))
                          /\ scene.caps.refine # 0 => \A p \in ToSet(Faces(o)) : ~CanAdd(working, p)
      BY DEF TrialMaximal
    <2>2. RoundInOrder(working, trial, deferred, build) /\ trial.step = "finish"
      BY <1>1, <2>1 DEF TrialInv, InTrial
    <2>3. /\ LatticeTried(working)
          /\ scene.caps.refine # 0 => FacesTried(working, o)
      BY <2>1, <2>2 DEF RoundInOrder, PutOff
    <2>4. ToSet(Faces(o)) = FacesAt(working, o)
      BY <1>1, <2>1, FacesAreAll DEF BestInv, Keeping
    <2> QED
      BY <2>1, <2>3, <2>4 DEF LatticeTried, Worth, FacesTried
  <1> QED
    BY <1>1, BestInductive, PagesInductive, TrialInductive, PTL DEF SearchSpec

-----------------------------------------------------------------------------
(* The inductive invariant.                                                *)

Searching == enginePc \in {"search", "returning"}

(* Nothing of a run is left when the core is at rest.                      *)
RestInv ==
  stage = "idle" =>
    /\ enginePc = "idle"
    /\ sought = 0 /\ gate = {} /\ revision = 0 /\ ~gateFailed
    /\ artifact = {} /\ slot = {} /\ ~undeliverable
    /\ pipe = <<>> /\ mark = [rev |-> 0, count |-> 0]

(* What exists at which place of the engine, and of the core.              *)
ControlInv ==
  /\ ~Searching => incumbent = {}
  /\ ~Searching /\ enginePc # "export" => retained_solution = {}
  /\ Searching \/ enginePc = "export" => artifact = {}
  /\ enginePc = "answered" => slot = {}
  /\ stage = "settle" => enginePc = "answered"
  /\ stage \in {"reap", "settle"} => pipe = <<>>
  /\ outcome = "lost" => stage \in {"reap", "settle"}
  /\ stage = "reap" => outcome = "lost"

(* The answer is the last record of a run.                                 *)
AnswerInv ==
  \A i \in 1..Len(pipe) :
    pipe[i].kind = "response" => i = Len(pipe) /\ enginePc = "answered"

(* The search retains its incumbent, which is its best, whatever phase it  *)
(* is in.                                                                  *)
SearchInv ==
  Searching =>
    \E s \in Solution \cup {Empty} :
      /\ retained_solution = {s}
      /\ sought = s.count
      /\ \A b \in incumbent : b.sol = s
      /\ incumbent = {} => s = Empty

(* What is exported is what is public, or all there is.                    *)
Exportable(s) ==
  /\ \A g \in gate : s = g.sol
  /\ gate = {} => gateFailed \/ s = Empty
  /\ gateFailed \/ s.count >= sought

ExportInv ==
  /\ enginePc = "export" => \A s \in retained_solution : Exportable(s)
  /\ \A a \in artifact :
       Exportable(a.sol) /\ a.sol # Empty /\ a.op = op /\ a.rev = revision

(* Everything between the gate and the display is a packing the gate holds *)
(* or held before.                                                         *)
SameAs(p, g) == p.rev = g.rev /\ p.sol = g.sol

GateInv ==
  /\ \A g \in gate : g.rev = revision /\ revision > 0
  /\ \A p \in slot : \E g \in gate : SameAs(p, g)

Held(p) ==
  /\ p.rev > 0
  /\ \E g \in gate : (SameAs(p, g) /\ slot = {}) \/ Follows(p, g)

PipeHeld ==
  \A i \in 1..Len(pipe) : pipe[i].kind = "packing" => Held(pipe[i])

PipeOrder ==
  \A i, j \in 1..Len(pipe) :
    i < j /\ pipe[i].kind = "packing" /\ pipe[j].kind = "packing" =>
      Follows(pipe[i], pipe[j])

PipeInv == PipeHeld /\ PipeOrder

(* The client's mark is the packing shown of this run.                     *)
ShownInv ==
  stage # "idle" =>
    \A l \in live :
      l.op = op =>
        /\ mark = [rev |-> l.rev, count |-> l.sol.count]
        /\ Held(l)
        /\ \A i \in 1..Len(pipe) :
             pipe[i].kind = "packing" => Follows(l, pipe[i])

MarkInv ==
  /\ \A l \in live : l.op <= op
  /\ stage # "idle" /\ mark # [rev |-> 0, count |-> 0] =>
       \E l \in live : l.op = op

(* The public packing is on its way, or shown.                             *)
Arrived(g) == \E l \in live : l.op = op /\ SameAs(l, g)

ArrivalInv ==
  \A g \in gate :
    \/ undeliverable \/ outcome = "lost"
    \/ slot # {}
    \/ \E i \in 1..Len(pipe) : pipe[i].kind = "packing" /\ SameAs(pipe[i], g)
    \/ Arrived(g)

ChainInv ==
  GateInv /\ PipeInv /\ ShownInv /\ MarkInv /\ ArrivalInv

PublicationInv ==
  /\ TypeOK
  /\ RestInv
  /\ ControlInv
  /\ AnswerInv
  /\ SearchInv
  /\ ExportInv
  /\ ChainInv
-----------------------------------------------------------------------------
(* Facts about the data.                                                   *)

Element == [kind : {"packing"}, rev : Nat, sol : Solution]
             \cup [kind : {"response"}, ok : BOOLEAN]

(* A solution has a count above zero, the empty one has none.              *)
LEMMA SolutionTypes ==
  /\ \A s \in Solution \cup {Empty} :
       s.count \in Nat /\ s.count \in 0..MaxCount /\ s.span \in Nat
  /\ \A s \in Solution : s.count > 0 /\ s # Empty
  /\ \A s \in Solution \cup {Empty} : s.count > 0 => s \in Solution
  BY BoundsAssumption DEF Solution, Empty

(* Following is transitive.                                                *)
LEMMA FollowsTransitive ==
  ASSUME NEW p, NEW q, NEW r,
         p.rev \in Nat, q.rev \in Nat, r.rev \in Nat,
         p.sol \in Solution \cup {Empty}, q.sol \in Solution \cup {Empty},
         r.sol \in Solution \cup {Empty},
         Follows(p, q), Follows(q, r)
  PROVE  Follows(p, r)
  BY SolutionTypes DEF Follows

(* Appending keeps the old positions and adds one.                         *)
LEMMA Appended ==
  ASSUME NEW S, NEW s \in Seq(S), NEW e \in S
  PROVE  /\ Append(s, e) \in Seq(S) /\ Len(s) \in Nat
         /\ Len(Append(s, e)) = Len(s) + 1
         /\ \A i \in 1..Len(s) : Append(s, e)[i] = s[i]
         /\ Append(s, e)[Len(s) + 1] = e
         /\ \A i \in 1..Len(Append(s, e)) : i \in 1..Len(s) \/ i = Len(s) + 1
  BY AppendProperties, LenProperties

(* Taking the head moves the other elements one position down.             *)
LEMMA Taken ==
  ASSUME NEW S, NEW s \in Seq(S), s # <<>>
  PROVE  /\ Head(s) = s[1] /\ Head(s) \in S
         /\ Len(s) \in Nat /\ 1 \in 1..Len(s)
         /\ Tail(s) \in Seq(S) /\ Len(Tail(s)) = Len(s) - 1
         /\ \A i \in 1..Len(Tail(s)) :
              i + 1 \in 1..Len(s) /\ Tail(s)[i] = s[i + 1]
  BY HeadTailProperties, LenProperties, EmptySeq

(* The empty sequence has no records.                                      *)
LEMMA NoRecords == Len(<<>>) = 0 /\ \A S : <<>> \in Seq(S)
  OBVIOUS

(* An option is empty or holds one element.                                *)
LEMMA OneOption ==
  ASSUME NEW T
  PROVE  /\ Option({}, T)
         /\ \A x \in T : Option({x}, T)
         /\ \A S : Option(S, T) => \A x \in S : x \in T /\ S = {x}
  BY DEF Option

(* What the gate may do with an offer: nothing it keeps changes, or it     *)
(* advances to the packing offered and hands it to the writer.             *)
GateEntry == [rev : Nat, sol : Solution, scored : BOOLEAN]

GateKept == UNCHANGED <<gate, revision, slot>>

GateAdvances(s) ==
  \E g \in GateEntry :
    /\ revision' = revision + 1
    /\ g.rev = revision' /\ g.sol = s
    /\ gate' = {g}
    /\ slot' = {[rev |-> g.rev, sol |-> s]}
    /\ \A h \in gate : Follows(h, g)

(* A publication keeps the gate or advances it; an emptied gate has        *)
(* failed, or was offered nothing.                                         *)
LEMMA PublishMoves ==
  ASSUME TypeOK, GateInv, NEW s \in Solution \cup {Empty},
         NEW scored \in BOOLEAN, Publish(s, scored)
  PROVE  /\ GateKept \/ GateAdvances(s)
         /\ gateFailed => gateFailed'
         /\ gateFailed' \in BOOLEAN
         /\ gate' = {} => gateFailed' \/ s = Empty
         /\ gateFailed' \/ \A g \in gate' : g.sol.count >= s.count
  <1>1. CASE UNCHANGED <<gateVars, slot>> /\ ~GateTakes(s, scored)
    <2>1. CASE s.count = 0
      BY <1>1, <2>1, SolutionTypes
         DEF gateVars, GateKept, TypeOK, Option
    <2>2. CASE s.count > 0
      <3>1. PICK g \in gate : ~(s.count > g.sol.count)
        BY <1>1, <2>2 DEF GateTakes
      <3>2. g.sol \in Solution /\ \A h \in gate : h = g
        BY DEF TypeOK, Option
      <3> QED
        BY <1>1, <3>1, <3>2, SolutionTypes DEF gateVars, GateKept, TypeOK
    <2> QED
      BY <2>1, <2>2, SolutionTypes
  <1>2. CASE gateFailed' = TRUE /\ UNCHANGED <<gate, revision, slot>>
    BY <1>2 DEF GateKept
  <1>3. CASE /\ GateTakes(s, scored)
             /\ revision' = revision + 1
             /\ gate' = {[rev |-> revision', sol |-> s, scored |-> scored]}
             /\ slot' = {[rev |-> revision', sol |-> s]}
             /\ UNCHANGED gateFailed
    <2> DEFINE g == [rev |-> revision', sol |-> s, scored |-> scored]
    <2>1. s \in Solution
      BY <1>3, SolutionTypes DEF GateTakes
    <2>2. revision \in Nat /\ revision' \in Nat
      BY <1>3 DEF TypeOK
    <2>3. g \in GateEntry
      BY <2>1, <2>2 DEF GateEntry
    <2>4. ASSUME NEW h \in gate PROVE Follows(h, g)
      <3>1. h.rev = revision /\ h.sol \in Solution
        BY DEF GateInv, TypeOK, Option
      <3>2. \/ s.count > h.sol.count
            \/ s.count = h.sol.count /\ s.span < h.sol.span
        BY <1>3 DEF GateTakes
      <3> QED
        BY <1>3, <2>2, <3>1, <3>2 DEF Follows
    <2>5. GateAdvances(s)
      BY <1>3, <2>3, <2>4 DEF GateAdvances
    <2>6. \A x \in gate' : x.sol.count >= s.count
      BY <1>3, <2>1, SolutionTypes
    <2> QED
      BY <1>3, <2>5, <2>6 DEF TypeOK
  <1> QED
    BY <1>1, <1>2, <1>3 DEF Publish

-----------------------------------------------------------------------------
(* Type correctness.                                                       *)

BestEntry == [sol : Solution \cup {Empty}, scored : BOOLEAN, keyed : BOOLEAN]

GateTypes ==
  /\ Option(gate, GateEntry)
  /\ revision \in Nat
  /\ Option(slot, [rev : Nat, sol : Solution])

SearchTypes ==
  /\ Option(incumbent, BestEntry)
  /\ Option(retained_solution, Solution \cup {Empty})
  /\ sought \in 0..MaxCount

ControlTypes ==
  /\ enginePc \in {"idle", "search", "returning", "export", "flush", "answered"}
  /\ spectral \in BOOLEAN
  /\ stage \in {"idle", "run", "reap", "settle"}
  /\ op \in 0..MaxOps
  /\ verdict \in {"none", "ok", "failed"}
  /\ outcome \in {"none", "ok", "failed", "lost"}
  /\ token \in {"none", "live", "stale"}
  /\ failure \in {"none", "failed", "mismatch"}

DataTypes ==
  /\ gateFailed \in BOOLEAN
  /\ undeliverable \in BOOLEAN
  /\ pipe \in Seq(Element)
  /\ mark \in [rev : Nat, count : 0..MaxCount]
  /\ Option(artifact, Packing)
  /\ Option(live, Packing)
  /\ Option(result, Packing)

(* The types, by owner.                                                    *)
LEMMA TypeParts ==
  TypeOK <=> GateTypes /\ SearchTypes /\ ControlTypes /\ DataTypes
  BY DEF TypeOK, GateTypes, GateEntry, SearchTypes, BestEntry, ControlTypes,
     DataTypes, Element

(* An admission keeps the types of the search.                             *)
LEMMA AdmitType ==
  ASSUME TypeOK, NEW s \in Solution \cup {Empty}, NEW scored \in BOOLEAN,
         Admit(s, scored)
  PROVE  SearchTypes'
  <1>1. [sol |-> s, scored |-> scored, keyed |-> scored] \in BestEntry
    BY DEF BestEntry
  <1>2. Option(incumbent', BestEntry) /\ Option(retained_solution', Solution \cup {Empty})
    BY <1>1, OneOption DEF Admit
  <1>3. sought' \in 0..MaxCount
    BY SolutionTypes DEF Admit, TypeOK
  <1> QED
    BY <1>2, <1>3 DEF SearchTypes

(* A publication keeps the types of the gate.                              *)
LEMMA GateType ==
  ASSUME TypeOK, NEW s \in Solution \cup {Empty}, GateKept \/ GateAdvances(s)
  PROVE  GateTypes'
  <1>1. GateTypes
    BY TypeParts
  <1>2. CASE GateKept
    BY <1>1, <1>2 DEF GateKept, GateTypes
  <1>3. CASE GateAdvances(s)
    <2>1. PICK g \in GateEntry :
            /\ revision' = revision + 1 /\ g.sol = s /\ gate' = {g}
            /\ slot' = {[rev |-> g.rev, sol |-> s]}
      BY <1>3 DEF GateAdvances
    <2>2. [rev |-> g.rev, sol |-> s] \in [rev : Nat, sol : Solution]
      BY <2>1 DEF GateEntry
    <2>3. Option(gate', GateEntry) /\ Option(slot', [rev : Nat, sol : Solution])
      BY <2>1, <2>2, OneOption
    <2> QED
      BY <1>1, <2>1, <2>3 DEF GateTypes
  <1> QED
    BY <1>2, <1>3

(* Every variable keeps its type.                                          *)
LEMMA TypeStep ==
  ASSUME TypeOK, GateInv, Next \/ UNCHANGED vars
  PROVE  TypeOK'
  <1>a. GateTypes /\ SearchTypes /\ ControlTypes /\ DataTypes
    BY TypeParts
  <1>b. SUFFICES (GateTypes /\ SearchTypes /\ ControlTypes /\ DataTypes)'
    BY DEF TypeOK, GateTypes, GateEntry, SearchTypes, BestEntry, ControlTypes,
           DataTypes, Element
  <1> USE <1>a DEF GateTypes, SearchTypes, ControlTypes, DataTypes,
          searchVars, gateVars, fileVars, wireVars, runVars, coreVars
  <1>1. CASE Start
    <2>1. op' \in 0..MaxOps
      BY <1>1, BoundsAssumption DEF Start
    <2>2. Option(retained_solution', Solution \cup {Empty})
      BY <1>1, OneOption DEF Start
    <2> QED
      BY <1>1, <2>1, <2>2 DEF Start
  <1>2. CASE StartFails
    <2>1. op' \in 0..MaxOps
      BY <1>2, BoundsAssumption DEF StartFails
    <2> QED
      BY <1>2, <2>1 DEF StartFails
  <1>3. CASE ReplaceObject
    BY <1>3, OneOption DEF ReplaceObject
  <1>4. CASE OpenProject
    <2>1. PICK s \in Solution : result' = {[op |-> 0, rev |-> 1, sol |-> s]}
      BY <1>4 DEF OpenProject
    <2>2. [op |-> 0, rev |-> 1, sol |-> s] \in Packing
      BY BoundsAssumption DEF Packing
    <2> QED
      BY <1>4, <2>1, <2>2, OneOption DEF OpenProject
  <1>5. CASE ReplaceFails
    <2>1. token' \in {"none", "live", "stale"}
      BY <1>5 DEF ReplaceFails
    <2> QED
      BY <1>5, <2>1 DEF ReplaceFails
  <1>6. CASE OfferSolution
    <2>1. PICK s \in Solution \cup {Empty}, scored \in BOOLEAN :
            Admit(s, scored) /\ Publish(s, scored)
      BY <1>6 DEF OfferSolution
    <2>2. SearchTypes'
      BY <2>1, AdmitType
    <2>3. GateTypes' /\ gateFailed' \in BOOLEAN
      BY <2>1, PublishMoves, GateType
    <2> QED
      BY <1>6, <2>2, <2>3 DEF OfferSolution
  <1>7. CASE OfferExhausted
    <2>1. SearchTypes'
      BY <1>7, AdmitType DEF OfferExhausted
    <2> QED
      BY <1>7, <2>1 DEF OfferExhausted
  <1>8. CASE ResumePhase
    <2>1. PICK b \in incumbent : incumbent' = {[b EXCEPT !.keyed = FALSE]}
      BY <1>8 DEF ResumePhase
    <2>2. b \in BestEntry
      BY <2>1, OneOption
    <2>3. [b EXCEPT !.keyed = FALSE] \in BestEntry
      BY <2>2 DEF BestEntry
    <2>4. Option(incumbent', BestEntry)
      BY <2>1, <2>3, OneOption
    <2> QED
      BY <1>8, <2>4 DEF ResumePhase
  <1>9. CASE SpectralPhase
    <2>1. PICK s \in retained_solution, scored \in BOOLEAN :
            /\ incumbent' = {[sol |-> s, scored |-> scored, keyed |-> scored]}
            /\ Publish(s, scored)
      BY <1>9 DEF SpectralPhase
    <2>2. s \in Solution \cup {Empty}
      BY <2>1, OneOption
    <2>3. [sol |-> s, scored |-> scored, keyed |-> scored] \in BestEntry
      BY <2>1, <2>2 DEF BestEntry
    <2>4. Option(incumbent', BestEntry)
      BY <2>1, <2>3, OneOption
    <2>5. GateTypes' /\ gateFailed' \in BOOLEAN
      BY <2>1, <2>2, PublishMoves, GateType
    <2> QED
      BY <1>9, <2>4, <2>5 DEF SpectralPhase
  <1>10. CASE ReturnSearch
    <2>1. PICK s \in retained_solution : Publish(s, FALSE)
      BY <1>10 DEF ReturnSearch
    <2>2. s \in Solution \cup {Empty}
      BY <2>1, OneOption
    <2>3. GateTypes' /\ gateFailed' \in BOOLEAN
      BY <2>1, <2>2, PublishMoves, GateType
    <2>4. Option(retained_solution', Solution \cup {Empty})
      <3>1. \A g \in gate' : g.sol \in Solution /\ gate' = {g}
        BY <2>3 DEF Option, GateEntry
      <3>2. \A g \in gate' : {x.sol : x \in gate'} = {g.sol}
        BY <3>1
      <3>3. \/ retained_solution' = retained_solution
            \/ \E g \in gate' : retained_solution' = {g.sol}
        BY <1>10, <3>2 DEF ReturnSearch
      <3>4. \A g \in gate' : Option({g.sol}, Solution \cup {Empty})
        BY <3>1, OneOption
      <3> QED
        BY <3>3, <3>4
    <2>5. Option(incumbent', BestEntry)
      BY <1>10, OneOption DEF ReturnSearch, SearchEnds
    <2> QED
      BY <1>10, <2>3, <2>4, <2>5 DEF ReturnSearch, SearchEnds
  <1>11. CASE Export
    <2>1. \A s \in retained_solution : [op |-> op, rev |-> revision, sol |-> s] \in Packing
      BY DEF Packing, Option
    <2>2. Option(artifact', Packing)
      BY <1>11, <2>1 DEF Export, Option
    <2>3. Option(retained_solution', Solution \cup {Empty}) /\ verdict' \in {"ok", "failed"}
      BY <1>11, OneOption DEF Export
    <2> QED
      BY <1>11, <2>2, <2>3 DEF Export
  <1>12. CASE FailSolve
    <2>1. verdict' \in {"ok", "failed"}
      BY <1>12 DEF FailSolve
    <2> QED
      BY <1>12, <2>1, OneOption, ZenonT(60) DEF FailSolve
  <1>13. CASE WriteSlot
    <2>1. \/ \E p \in slot : pipe' = Append(pipe, [kind |-> "packing", rev |-> p.rev,
                                                    sol |-> p.sol])
          \/ UNCHANGED pipe
      BY <1>13 DEF WriteSlot
    <2>2. \A p \in slot : [kind |-> "packing", rev |-> p.rev, sol |-> p.sol] \in Element
      BY DEF Element, Option
    <2>3. pipe' \in Seq(Element)
      <3>1. CASE UNCHANGED pipe
        BY <3>1
      <3>2. ASSUME NEW p \in slot,
                   pipe' = Append(pipe, [kind |-> "packing", rev |-> p.rev,
                                         sol |-> p.sol])
            PROVE  pipe' \in Seq(Element)
        BY <2>2, <3>2, Appended
      <3> QED
        BY <2>1, <3>1, <3>2
    <2>4. Option(slot', [rev : Nat, sol : Solution]) /\ undeliverable' \in BOOLEAN
      BY <1>13, OneOption DEF WriteSlot
    <2> QED
      BY <1>13, <2>3, <2>4 DEF WriteSlot
  <1>14. CASE Answer
    <2>1. PICK ok \in BOOLEAN : pipe' = Append(pipe, [kind |-> "response", ok |-> ok])
      BY <1>14 DEF Answer
    <2>2. [kind |-> "response", ok |-> ok] \in Element
      BY DEF Element
    <2>3. pipe' \in Seq(Element)
      BY <2>1, <2>2, Appended
    <2> QED
      BY <1>14, <2>3 DEF Answer
  <1>15. CASE ReadPacking
    <2> DEFINE p == Head(pipe)
    <2>1. /\ p \in Element /\ p.kind = "packing" /\ pipe' \in Seq(Element)
      BY <1>15, Taken DEF ReadPacking
    <2>2. p.rev \in Nat /\ p.sol \in Solution
      BY <2>1 DEF Element
    <2>3. p.sol.count \in 0..MaxCount
      BY <2>2, SolutionTypes
    <2>4. mark' \in [rev : Nat, count : 0..MaxCount]
      BY <1>15, <2>2, <2>3 DEF ReadPacking
    <2>5. [op |-> op, rev |-> p.rev, sol |-> p.sol] \in Packing
      BY <2>2 DEF Packing
    <2>6. Option(live', Packing) /\ Option(result', Packing)
      <3>1. \/ UNCHANGED <<live, result>>
            \/ /\ live' = {[op |-> op, rev |-> p.rev, sol |-> p.sol]}
               /\ result' = {}
        BY <1>15 DEF ReadPacking, ShowPacking
      <3>2. Option({[op |-> op, rev |-> p.rev, sol |-> p.sol]}, Packing)
        BY <2>5, OneOption
      <3>3. Option({}, Packing)
        BY OneOption
      <3> QED
        BY <3>1, <3>2, <3>3
    <2> QED
      BY <1>15, <2>1, <2>4, <2>6 DEF ReadPacking
  <1>16. CASE ReadResponse
    <2>1. pipe' \in Seq(Element)
      BY <1>16, Taken DEF ReadResponse
    <2>2. outcome' \in {"ok", "failed"} /\ token' \in {"none", "live", "stale"}
      BY <1>16 DEF ReadResponse
    <2> QED
      BY <1>16, <2>1, <2>2 DEF ReadResponse
  <1>17. CASE LoseTransport
    BY <1>17, NoRecords DEF LoseTransport
  <1>18. CASE ReapChild
    BY <1>18, OneOption DEF ReapChild
  <1>19. CASE Settle
    <2>1. Option(result', Packing)
      BY <1>19 DEF Settle
    <2>2. failure' \in {"none", "failed", "mismatch"}
      BY <1>19 DEF Settle
    <2>3. mark' \in [rev : Nat, count : 0..MaxCount] /\ sought' \in 0..MaxCount
      BY <1>19, BoundsAssumption DEF Settle, RunForgotten
    <2>4. /\ Option(gate', GateEntry) /\ Option(artifact', Packing)
          /\ UNCHANGED <<incumbent, spectral, retained_solution, slot, pipe, op, token, live>>
      BY <1>19, OneOption DEF Settle, RunForgotten
    <2>5. /\ stage' = "idle" /\ enginePc' = "idle" /\ revision' = 0
          /\ gateFailed' = FALSE /\ verdict' = "none" /\ outcome' = "none"
          /\ undeliverable' = FALSE
      BY <1>19 DEF Settle, RunForgotten
    <2> QED
      BY <2>1, <2>2, <2>3, <2>4, <2>5
  <1>20. CASE UNCHANGED vars
    BY <1>20 DEF vars
  <1> QED
    BY <1>1, <1>2, <1>3, <1>4, <1>5, <1>6, <1>7, <1>8, <1>9, <1>10, <1>11,
       <1>12, <1>13, <1>14, <1>15, <1>16, <1>17, <1>18, <1>19, <1>20 DEF
       Next

-----------------------------------------------------------------------------
(* Control: what exists at which place.                                    *)

(* Every step keeps what exists at which place.                            *)
LEMMA ControlStep ==
  ASSUME TypeOK, RestInv, ControlInv, AnswerInv, Next \/ UNCHANGED vars
  PROVE  RestInv' /\ ControlInv'
  <1> USE DEF RestInv, ControlInv, Searching, searchVars, gateVars, fileVars,
          wireVars, runVars, coreVars
  <1>1. CASE Start
    BY <1>1 DEF Start
  <1>2. CASE StartFails
    BY <1>2 DEF StartFails
  <1>3. CASE ReplaceObject
    BY <1>3 DEF ReplaceObject
  <1>4. CASE OpenProject
    BY <1>4 DEF OpenProject
  <1>5. CASE ReplaceFails
    BY <1>5 DEF ReplaceFails
  <1>6. CASE OfferSolution
    BY <1>6 DEF OfferSolution, Admit
  <1>7. CASE OfferExhausted
    BY <1>7 DEF OfferExhausted, Admit
  <1>8. CASE ResumePhase
    BY <1>8 DEF ResumePhase
  <1>9. CASE SpectralPhase
    BY <1>9 DEF SpectralPhase
  <1>10. CASE ReturnSearch
    BY <1>10 DEF ReturnSearch, SearchEnds
  <1>11. CASE Export
    BY <1>11 DEF Export
  <1>12. CASE FailSolve
    BY <1>12 DEF FailSolve
  <1>13. CASE WriteSlot
    BY <1>13 DEF WriteSlot
  <1>14. CASE Answer
    BY <1>14 DEF Answer
  <1>15. CASE ReadPacking
    BY <1>15 DEF ReadPacking, ShowPacking
  <1>16. CASE ReadResponse
    <2>1. /\ Head(pipe) = pipe[1] /\ 1 \in 1..Len(pipe)
          /\ pipe \in Seq(Element) /\ Tail(pipe) \in Seq(Element)
          /\ Len(Tail(pipe)) = Len(pipe) - 1 /\ Len(pipe) \in Nat
      BY <1>16, Taken, TypeParts DEF ReadResponse, DataTypes
    <2>2. enginePc = "answered" /\ Len(pipe) = 1
      BY <1>16, <2>1 DEF ReadResponse, AnswerInv
    <2>3. pipe' = <<>>
      BY <1>16, <2>1, <2>2, EmptySeq DEF ReadResponse
    <2> QED
      BY <1>16, <2>2, <2>3 DEF ReadResponse
  <1>17. CASE LoseTransport
    BY <1>17 DEF LoseTransport
  <1>18. CASE ReapChild
    BY <1>18 DEF ReapChild
  <1>19. CASE Settle
    BY <1>19 DEF Settle, RunForgotten
  <1>20. CASE UNCHANGED vars
    BY <1>20 DEF vars
  <1> QED
    BY <1>1, <1>2, <1>3, <1>4, <1>5, <1>6, <1>7, <1>8, <1>9, <1>10, <1>11,
       <1>12, <1>13, <1>14, <1>15, <1>16, <1>17, <1>18, <1>19, <1>20 DEF
       Next

(* An answer stays the last record of the pipe.                            *)
LEMMA AnswerStays ==
  ASSUME TypeOK, RestInv, ControlInv, AnswerInv, Next \/ UNCHANGED vars
  PROVE  AnswerInv'
  <1>a. pipe \in Seq(Element)
    BY TypeParts DEF DataTypes
  <1> USE DEF AnswerInv, searchVars, gateVars, fileVars, wireVars, runVars,
          coreVars
  <1>1. CASE Start
    BY <1>1, NoRecords DEF Start, RestInv
  <1>2. CASE StartFails
    BY <1>2 DEF StartFails
  <1>3. CASE ReplaceObject
    BY <1>3 DEF ReplaceObject
  <1>4. CASE OpenProject
    BY <1>4 DEF OpenProject
  <1>5. CASE ReplaceFails
    BY <1>5 DEF ReplaceFails
  <1>6. CASE OfferSolution
    BY <1>6 DEF OfferSolution, Admit
  <1>7. CASE OfferExhausted
    BY <1>7 DEF OfferExhausted, Admit
  <1>8. CASE ResumePhase
    BY <1>8 DEF ResumePhase
  <1>9. CASE SpectralPhase
    BY <1>9 DEF SpectralPhase
  <1>10. CASE ReturnSearch
    BY <1>10 DEF ReturnSearch, SearchEnds
  <1>11. CASE Export
    BY <1>11 DEF Export
  <1>12. CASE FailSolve
    BY <1>12 DEF FailSolve
  <1>13. CASE WriteSlot
    <2>1. CASE UNCHANGED pipe
      BY <1>13, <2>1 DEF WriteSlot
    <2>2. ASSUME NEW p \in slot,
                 pipe' = Append(pipe, [kind |-> "packing", rev |-> p.rev,
                                       sol |-> p.sol])
          PROVE  AnswerInv'
      <3>1. [kind |-> "packing", rev |-> p.rev, sol |-> p.sol] \in Element
        BY DEF Element, TypeOK, Option
      <3>2. enginePc # "answered"
        BY <1>13 DEF WriteSlot, ControlInv
      <3> QED
        BY <1>13, <1>a, <2>2, <3>1, <3>2, Appended DEF WriteSlot
    <2> QED
      BY <1>13, <2>1, <2>2 DEF WriteSlot
  <1>14. CASE Answer
    <2>1. PICK ok \in BOOLEAN : pipe' = Append(pipe, [kind |-> "response", ok |-> ok])
      BY <1>14 DEF Answer
    <2>2. [kind |-> "response", ok |-> ok] \in Element
      BY DEF Element
    <2> QED
      BY <1>14, <1>a, <2>1, <2>2, Appended DEF Answer
  <1>15. CASE ReadPacking
    BY <1>15, <1>a, Taken DEF ReadPacking
  <1>16. CASE ReadResponse
    BY <1>16, <1>a, Taken DEF ReadResponse
  <1>17. CASE LoseTransport
    BY <1>17, NoRecords DEF LoseTransport
  <1>18. CASE ReapChild
    BY <1>18, NoRecords DEF ReapChild, ControlInv
  <1>19. CASE Settle
    BY <1>19, NoRecords DEF Settle, RunForgotten, ControlInv
  <1>20. CASE UNCHANGED vars
    BY <1>20 DEF vars
  <1> QED
    BY <1>1, <1>2, <1>3, <1>4, <1>5, <1>6, <1>7, <1>8, <1>9, <1>10, <1>11,
       <1>12, <1>13, <1>14, <1>15, <1>16, <1>17, <1>18, <1>19, <1>20 DEF
       Next

-----------------------------------------------------------------------------
(* The search retains its best, and what is exported is public.            *)

(* A solution that is admitted is at least as large as any before.         *)
LEMMA AdmitKeeps ==
  ASSUME TypeOK, SearchInv, Searching,
         NEW s \in Solution \cup {Empty}, NEW scored \in BOOLEAN,
         Admit(s, scored)
  PROVE  /\ retained_solution' = {s}
         /\ sought' = s.count
         /\ incumbent' # {} /\ \A b \in incumbent' : b.sol = s
  <1>1. PICK r \in Solution \cup {Empty} :
          /\ retained_solution = {r} /\ sought = r.count
          /\ \A b \in incumbent : b.sol = r
          /\ incumbent = {} => r = Empty
    BY DEF SearchInv
  <1>2. s.count \in Nat /\ r.count \in Nat
    BY SolutionTypes
  <1>3. s.count >= sought
    <2>1. CASE incumbent = {}
      BY <1>1, <1>2, <2>1 DEF Empty
    <2>2. CASE incumbent # {}
      <3>1. PICK b \in incumbent : Better(s, scored, b)
        BY <2>2 DEF Admit
      <3> QED
        BY <1>1, <1>2, <3>1 DEF Better
    <2> QED
      BY <2>1, <2>2
  <1> QED
    BY <1>1, <1>2, <1>3 DEF Admit

(* Every step keeps the best at least as good as everything sought.        *)
LEMMA SearchStep ==
  ASSUME TypeOK, RestInv, ControlInv, SearchInv, Next \/ UNCHANGED vars
  PROVE  SearchInv'
  <1> USE DEF SearchInv, Searching, searchVars, gateVars, fileVars, wireVars,
          runVars, coreVars
  <1>1. CASE Start
    BY <1>1 DEF Start, RestInv, ControlInv, Empty
  <1>2. CASE StartFails
    BY <1>2 DEF StartFails
  <1>3. CASE ReplaceObject
    BY <1>3 DEF ReplaceObject
  <1>4. CASE OpenProject
    BY <1>4 DEF OpenProject
  <1>5. CASE ReplaceFails
    BY <1>5 DEF ReplaceFails
  <1>6. CASE OfferSolution
    <2>1. PICK s \in Solution \cup {Empty}, scored \in BOOLEAN : Admit(s, scored)
      BY <1>6 DEF OfferSolution
    <2> QED
      BY <1>6, <2>1, AdmitKeeps DEF OfferSolution
  <1>7. CASE OfferExhausted
    <2>1. PICK s \in Solution, scored \in BOOLEAN : Admit(s, scored)
      BY <1>7 DEF OfferExhausted
    <2> QED
      BY <1>7, <2>1, AdmitKeeps DEF OfferExhausted
  <1>8. CASE ResumePhase
    <2>1. PICK b \in incumbent : incumbent' = {[b EXCEPT !.keyed = FALSE]}
      BY <1>8 DEF ResumePhase
    <2>2. b \in BestEntry
      BY DEF TypeOK, Option, BestEntry
    <2>3. [b EXCEPT !.keyed = FALSE].sol = b.sol
      BY <2>2 DEF BestEntry
    <2> QED
      BY <1>8, <2>1, <2>3 DEF ResumePhase
  <1>9. CASE SpectralPhase
    <2>1. PICK s \in retained_solution, scored \in BOOLEAN :
            incumbent' = {[sol |-> s, scored |-> scored, keyed |-> scored]}
      BY <1>9 DEF SpectralPhase
    <2>2. incumbent' # {} /\ \A b \in incumbent' : b.sol = s
      BY <2>1
    <2>3. UNCHANGED <<enginePc, retained_solution, sought>>
      BY <1>9 DEF SpectralPhase
    <2> QED
      BY <1>9, <2>1, <2>2, <2>3 DEF SpectralPhase
  <1>10. CASE ReturnSearch
    BY <1>10 DEF ReturnSearch, SearchEnds
  <1>11. CASE Export
    BY <1>11 DEF Export
  <1>12. CASE FailSolve
    BY <1>12 DEF FailSolve
  <1>13. CASE WriteSlot
    BY <1>13 DEF WriteSlot
  <1>14. CASE Answer
    BY <1>14 DEF Answer
  <1>15. CASE ReadPacking
    BY <1>15 DEF ReadPacking, ShowPacking
  <1>16. CASE ReadResponse
    BY <1>16 DEF ReadResponse
  <1>17. CASE LoseTransport
    BY <1>17 DEF LoseTransport
  <1>18. CASE ReapChild
    BY <1>18 DEF ReapChild
  <1>19. CASE Settle
    BY <1>19 DEF Settle, RunForgotten
  <1>20. CASE UNCHANGED vars
    BY <1>20 DEF vars
  <1> QED
    BY <1>1, <1>2, <1>3, <1>4, <1>5, <1>6, <1>7, <1>8, <1>9, <1>10, <1>11,
       <1>12, <1>13, <1>14, <1>15, <1>16, <1>17, <1>18, <1>19, <1>20 DEF
       Next

(* Only the search and its end move the gate.                              *)
LEMMA ExportStep ==
  ASSUME TypeOK, RestInv, ControlInv, SearchInv, GateInv, ExportInv,
         Next \/ UNCHANGED vars
  PROVE  ExportInv'
  <1>a. Searching \/ enginePc = "export" => artifact = {}
    BY DEF ControlInv
  <1> USE DEF ExportInv, Exportable, Searching, searchVars, gateVars, fileVars,
          wireVars, runVars, coreVars
  <1>1. CASE Start
    BY <1>1 DEF Start, RestInv
  <1>2. CASE StartFails
    BY <1>2 DEF StartFails, RestInv, ControlInv
  <1>3. CASE ReplaceObject
    BY <1>3 DEF ReplaceObject
  <1>4. CASE OpenProject
    BY <1>4 DEF OpenProject
  <1>5. CASE ReplaceFails
    BY <1>5 DEF ReplaceFails
  <1>6. CASE OfferSolution
    BY <1>6, <1>a DEF OfferSolution
  <1>7. CASE OfferExhausted
    BY <1>7, <1>a DEF OfferExhausted
  <1>8. CASE ResumePhase
    BY <1>8, <1>a DEF ResumePhase
  <1>9. CASE SpectralPhase
    BY <1>9, <1>a DEF SpectralPhase
  <1>10. CASE ReturnSearch
    <2>1. PICK s \in Solution \cup {Empty} :
            retained_solution = {s} /\ sought = s.count
      BY <1>10 DEF ReturnSearch, SearchEnds, SearchInv
    <2>2. Publish(s, FALSE)
      BY <1>10, <2>1 DEF ReturnSearch
    <2>3. /\ gate' = {} => gateFailed' \/ s = Empty
          /\ gateFailed' \/ \A g \in gate' : g.sol.count >= s.count
      BY <2>2, PublishMoves
    <2>4. \A x \in gate' : gate' = {x} /\ x.sol.count \in Nat
      <3>1. Option(gate', GateEntry)
        BY <2>2, PublishMoves, GateType DEF GateTypes
      <3> QED
        BY <3>1, SolutionTypes DEF Option, GateEntry
    <2>5. /\ enginePc' = "export" /\ sought' = sought /\ artifact' = {}
      BY <1>10, <1>a DEF ReturnSearch, SearchEnds
    <2>6. s.count \in Nat
      BY <2>1, SolutionTypes
    <2>7. CASE gate' = {}
      <3>1. retained_solution' = {s}
        BY <1>10, <2>1, <2>7 DEF ReturnSearch
      <3> QED
        BY <2>1, <2>3, <2>5, <2>6, <2>7, <3>1
    <2>8. ASSUME NEW g \in gate' PROVE ExportInv'
      <3>1. retained_solution' = {x.sol : x \in gate'}
        BY <1>10, <2>8 DEF ReturnSearch
      <3>2. \A r \in retained_solution' : r = g.sol
        BY <2>4, <3>1
      <3> QED
        BY <2>1, <2>3, <2>4, <2>5, <3>2
    <2> QED
      BY <2>7, <2>8
  <1>11. CASE Export
    BY <1>11 DEF Export
  <1>12. CASE FailSolve
    BY <1>12, <1>a DEF FailSolve
  <1>13. CASE WriteSlot
    BY <1>13 DEF WriteSlot
  <1>14. CASE Answer
    BY <1>14 DEF Answer
  <1>15. CASE ReadPacking
    BY <1>15 DEF ReadPacking, ShowPacking
  <1>16. CASE ReadResponse
    BY <1>16 DEF ReadResponse
  <1>17. CASE LoseTransport
    BY <1>17 DEF LoseTransport
  <1>18. CASE ReapChild
    BY <1>18 DEF ReapChild
  <1>19. CASE Settle
    BY <1>19 DEF Settle, RunForgotten
  <1>20. CASE UNCHANGED vars
    BY <1>20 DEF vars
  <1> QED
    BY <1>1, <1>2, <1>3, <1>4, <1>5, <1>6, <1>7, <1>8, <1>9, <1>10, <1>11,
       <1>12, <1>13, <1>14, <1>15, <1>16, <1>17, <1>18, <1>19, <1>20 DEF
       Next

-----------------------------------------------------------------------------
(* The chain from the gate to the display.                                 *)

(* What the chain is made of is well typed.                                *)
Link(p) == p.rev \in Nat /\ p.sol \in Solution \cup {Empty}

(* The members of the chain are well typed, one each.                      *)
LEMMA Links ==
  ASSUME TypeOK
  PROVE  /\ \A g \in gate : Link(g) /\ gate = {g}
         /\ \A p \in slot : Link(p) /\ slot = {p}
         /\ \A l \in live : Link(l) /\ live = {l}
         /\ \A i \in 1..Len(pipe) : pipe[i].kind = "packing" => Link(pipe[i])
         /\ pipe \in Seq(Element)
         /\ revision \in Nat /\ op \in Nat
  <1>1. pipe \in Seq(Element) /\ \A i \in 1..Len(pipe) : pipe[i] \in Element
    BY TypeParts DEF DataTypes
  <1>2. \A i \in 1..Len(pipe) : pipe[i].kind = "packing" => Link(pipe[i])
    BY <1>1 DEF Element, Link
  <1>3. op \in Nat
    BY BoundsAssumption DEF TypeOK
  <1> QED
    BY <1>1, <1>2, <1>3 DEF TypeOK, Option, Link, Packing

chainVars == <<gate, revision, slot, pipe, mark, stage, op, outcome, live,
               undeliverable>>

(* The chain holds while its members rest.                                 *)
LEMMA ChainUnmoved == ChainInv /\ UNCHANGED chainVars => ChainInv'
  BY DEF ChainInv, GateInv, PipeInv, PipeHeld, PipeOrder, ShownInv, MarkInv,
         ArrivalInv, chainVars, Held, SameAs, Follows, Arrived

(* A gate that advances leaves everything it held behind the new packing.  *)
LEMMA ChainAdvances ==
  ASSUME TypeOK, ChainInv, NEW s \in Solution \cup {Empty},
         GateKept \/ GateAdvances(s),
         UNCHANGED <<pipe, mark, stage, op, outcome, live, undeliverable>>
  PROVE  ChainInv'
  <1>1. CASE GateKept
    BY <1>1, ChainUnmoved DEF GateKept, chainVars
  <1>2. CASE GateAdvances(s)
    <2>1. PICK g \in GateEntry :
            /\ revision' = revision + 1
            /\ g.rev = revision' /\ g.sol = s
            /\ gate' = {g}
            /\ slot' = {[rev |-> g.rev, sol |-> s]}
            /\ \A h \in gate : Follows(h, g)
      BY <1>2 DEF GateAdvances
    <2>2. Link(g)
      BY <2>1 DEF GateEntry, Link
    <2>3. ASSUME NEW p, Link(p), Held(p) PROVE Follows(p, g) /\ Held(p)'
      <3>1. PICK h \in gate : SameAs(p, h) \/ Follows(p, h)
        BY <2>3 DEF Held
      <3>2. Follows(h, g) /\ Link(h)
        BY <2>1, Links
      <3>3. Follows(p, g)
        <4>1. CASE SameAs(p, h)
          BY <3>2, <4>1 DEF SameAs, Follows
        <4>2. CASE Follows(p, h)
          BY <2>2, <2>3, <3>2, <4>2, FollowsTransitive DEF Link
        <4> QED
          BY <3>1, <4>1, <4>2
      <3> QED
        BY <2>1, <2>3, <3>3 DEF Held
    <2>4. GateInv'
      BY <2>1, Links DEF GateInv, SameAs
    <2>5. PipeInv'
      BY <2>3, Links DEF ChainInv, PipeInv, PipeHeld, PipeOrder, Follows
    <2>6. ShownInv'
      BY <2>3, Links DEF ChainInv, ShownInv, Follows
    <2>7. MarkInv' /\ ArrivalInv'
      BY <2>1 DEF ChainInv, MarkInv, ArrivalInv
    <2> QED
      BY <2>4, <2>5, <2>6, <2>7 DEF ChainInv
  <1> QED
    BY <1>1, <1>2

(* The writer sends the packing of the slot behind everything before it.   *)
LEMMA ChainWrites ==
  ASSUME TypeOK, ChainInv, WriteSlot
  PROVE  ChainInv'
  <1>1. PICK p \in slot :
          \/ pipe' = Append(pipe, [kind |-> "packing", rev |-> p.rev,
                                   sol |-> p.sol])
          \/ undeliverable' = TRUE /\ UNCHANGED pipe
    BY DEF WriteSlot
  <1>2. PICK g \in gate : SameAs(p, g)
    BY DEF ChainInv, GateInv
  <1>3. /\ UNCHANGED <<gate, revision, mark, stage, op, outcome, live>>
        /\ slot # {} /\ slot' = {}
    BY DEF WriteSlot, gateVars, coreVars
  <1>4. gate = {g} /\ Link(g) /\ Link(p) /\ g.rev > 0
    BY Links DEF ChainInv, GateInv
  <1>5. ASSUME NEW q, Held(q) PROVE Follows(q, p) /\ Held(q)'
    BY <1>2, <1>3, <1>4, <1>5 DEF Held, Follows, SameAs
  <1>6. GateInv'
    BY <1>3 DEF ChainInv, GateInv
  <1>7. MarkInv'
    BY <1>3 DEF ChainInv, MarkInv
  <1>8. CASE undeliverable' = TRUE /\ UNCHANGED pipe
    <2>1. PipeInv' /\ ShownInv' /\ ArrivalInv'
      BY <1>3, <1>5, <1>8
         DEF ChainInv, PipeInv, PipeHeld, PipeOrder, ShownInv,
             ArrivalInv, Follows
    <2> QED
      BY <1>6, <1>7, <2>1 DEF ChainInv
  <1>9. ASSUME pipe' = Append(pipe, [kind |-> "packing", rev |-> p.rev,
                                     sol |-> p.sol])
        PROVE  ChainInv'
    <2> DEFINE x == [kind |-> "packing", rev |-> p.rev, sol |-> p.sol]
    <2>1. x \in Element /\ pipe \in Seq(Element)
      BY Links DEF Element, TypeOK, Option
    <2>2. /\ Len(pipe) \in Nat
          /\ Len(pipe') = Len(pipe) + 1
          /\ \A i \in 1..Len(pipe) : pipe'[i] = pipe[i]
          /\ pipe'[Len(pipe) + 1] = x
          /\ \A i \in 1..Len(pipe') : i \in 1..Len(pipe) \/ i = Len(pipe) + 1
      BY <1>9, <2>1, Appended
    <2>3. Held(x)'
      BY <1>2, <1>3, <1>4 DEF Held, SameAs
    <2>4. ASSUME NEW q, Held(q) PROVE Follows(q, x)
      BY <1>5, <2>4 DEF Follows
    <2>5. PipeInv'
      <3>1. PipeHeld'
        BY <1>5, <2>2, <2>3 DEF ChainInv, PipeInv, PipeHeld
      <3>2. ASSUME NEW i \in 1..Len(pipe'), NEW j \in 1..Len(pipe'), i < j,
                   pipe'[i].kind = "packing", pipe'[j].kind = "packing"
            PROVE  Follows(pipe'[i], pipe'[j])
        BY <2>2, <2>4, <3>2 DEF ChainInv, PipeInv, PipeHeld, PipeOrder
      <3> QED
        BY <3>1, <3>2 DEF PipeInv, PipeOrder, Follows
    <2>6. ShownInv'
      BY <1>3, <1>5, <2>2, <2>4 DEF ChainInv, ShownInv, Follows
    <2>7. ArrivalInv'
      BY <1>2, <1>3, <1>4, <2>2 DEF ArrivalInv, SameAs
    <2> QED
      BY <1>6, <1>7, <2>5, <2>6, <2>7 DEF ChainInv
  <1> QED
    BY <1>1, <1>8, <1>9

(* The answer is no packing.                                               *)
LEMMA ChainAnswers ==
  ASSUME TypeOK, ChainInv, Answer
  PROVE  ChainInv'
  <1>1. PICK ok \in BOOLEAN : pipe' = Append(pipe, [kind |-> "response", ok |-> ok])
    BY DEF Answer
  <1> DEFINE x == [kind |-> "response", ok |-> ok]
  <1>2. x \in Element /\ pipe \in Seq(Element)
    BY Links DEF Element
  <1>3. /\ Len(pipe) \in Nat
        /\ \A i \in 1..Len(pipe) : i \in 1..Len(pipe') /\ pipe'[i] = pipe[i]
        /\ \A i \in 1..Len(pipe') :
             pipe'[i].kind = "packing" => i \in 1..Len(pipe)
    BY <1>1, <1>2, Appended
  <1>4. UNCHANGED <<gate, revision, slot, mark, stage, op, outcome, live,
                    undeliverable>>
    BY DEF Answer, gateVars, coreVars
  <1> USE DEF ChainInv, Held, SameAs, Follows
  <1>5. GateInv' /\ MarkInv'
    BY <1>4 DEF GateInv, MarkInv
  <1>6. PipeInv'
    <2>1. PipeHeld'
      <3> SUFFICES ASSUME NEW i \in 1..Len(pipe'), pipe'[i].kind = "packing"
                   PROVE  Held(pipe[i])'
        BY DEF PipeHeld
      <3>1. i \in 1..Len(pipe) /\ pipe'[i] = pipe[i]
        BY <1>3
      <3>2. Held(pipe[i])
        BY <3>1 DEF PipeInv, PipeHeld
      <3> QED
        BY <1>4, <3>1, <3>2
    <2>2. PipeOrder'
      BY <1>3, <1>4 DEF PipeInv, PipeOrder
    <2> QED
      BY <2>1, <2>2 DEF PipeInv
  <1>7. ShownInv'
    BY <1>3, <1>4 DEF ShownInv
  <1>8. ArrivalInv'
    BY <1>3, <1>4 DEF ArrivalInv, Arrived
  <1> QED
    BY <1>5, <1>6, <1>7, <1>8

(* What the client reads it passes on, and the core shows it.              *)
LEMMA ReadIsShown ==
  ASSUME TypeOK, ChainInv, stage # "idle", pipe # <<>>,
         Head(pipe).kind = "packing"
  PROVE  Passes(Head(pipe)) /\ Accepts(Head(pipe))
  <1> DEFINE p == Head(pipe)
  <1>1. p = pipe[1] /\ 1 \in 1..Len(pipe) /\ p \in Element
    BY Links, Taken
  <1>2. Link(p) /\ Held(p)
    BY <1>1, Links DEF ChainInv, PipeInv, PipeHeld
  <1>3. \A l \in live : l.op = op =>
          /\ mark = [rev |-> l.rev, count |-> l.sol.count]
          /\ Follows(l, p) /\ Link(l)
    BY <1>1, Links DEF ChainInv, ShownInv
  <1>4. Accepts(p)
    BY <1>2, <1>3, SolutionTypes DEF Accepts, Follows, Link
  <1>5. Passes(p)
    <2>1. CASE mark = [rev |-> 0, count |-> 0]
      BY <1>2, <2>1, SolutionTypes DEF Passes, Held, Link
    <2>2. CASE mark # [rev |-> 0, count |-> 0]
      <3>1. PICK l \in live : l.op = op
        BY <2>2 DEF ChainInv, MarkInv
      <3> QED
        BY <1>2, <1>3, <3>1, SolutionTypes DEF Passes, Follows, Link
    <2> QED
      BY <2>1, <2>2
  <1> QED
    BY <1>4, <1>5

(* A packing read from the pipe keeps the order of the chain, shown or     *)
(* not.                                                                    *)
LEMMA ChainReads ==
  ASSUME TypeOK, ChainInv, ReadPacking
  PROVE  ChainInv'
  <1>a. PICK p : p = Head(pipe)
    OBVIOUS
  <1>b. PICK x : x = [op |-> op, rev |-> p.rev, sol |-> p.sol]
    OBVIOUS
  <1> USE <1>a
  <1>1. stage = "run" /\ pipe # <<>> /\ p.kind = "packing"
    BY DEF ReadPacking
  <1>2. /\ p = pipe[1] /\ 1 \in 1..Len(pipe) /\ Len(pipe) \in Nat
        /\ Len(pipe') = Len(pipe) - 1
        /\ \A i \in 1..Len(pipe') :
             i + 1 \in 1..Len(pipe) /\ pipe'[i] = pipe[i + 1]
    BY <1>1, Links, Taken DEF ReadPacking
  <1>3. /\ live' = {x} /\ mark' = [rev |-> p.rev, count |-> p.sol.count]
        /\ UNCHANGED <<gate, revision, slot, stage, op, outcome, undeliverable>>
    BY <1>1, <1>b, ReadIsShown DEF ReadPacking, ShowPacking, gateVars
  <1>4. Link(p) /\ Held(p)
    BY <1>1, <1>2, Links DEF ChainInv, PipeInv, PipeHeld
  <1>5. ASSUME NEW q, NEW r, q.rev = r.rev, q.sol = r.sol, Held(r)
        PROVE  Held(q)'
    BY <1>3, <1>5 DEF Held, SameAs, Follows
  <1>6. x.op = op /\ x.rev = p.rev /\ x.sol = p.sol
    BY <1>b
  <1>7. GateInv'
    BY <1>3 DEF ChainInv, GateInv
  <1>8. PipeInv'
    <2>1. PipeHeld'
      BY <1>2, <1>5 DEF ChainInv, PipeInv, PipeHeld
    <2>2. PipeOrder'
      <3> SUFFICES ASSUME NEW i \in 1..Len(pipe'), NEW j \in 1..Len(pipe'),
                          i < j, pipe'[i].kind = "packing",
                          pipe'[j].kind = "packing"
                   PROVE  Follows(pipe'[i], pipe'[j])
        BY DEF PipeOrder, Follows
      <3> QED
        BY <1>2, SMTT(30) DEF ChainInv, PipeInv, PipeOrder
    <2> QED
      BY <2>1, <2>2 DEF PipeInv
  <1>9. ShownInv'
    <2>1. Held(x)'
      BY <1>4, <1>5, <1>6
    <2>2. ASSUME NEW i \in 1..Len(pipe'), pipe'[i].kind = "packing"
          PROVE  Follows(x, pipe'[i])
      <3>1. 1 < i + 1 /\ pipe[i + 1].kind = "packing" /\ pipe[1].kind = "packing"
        BY <1>1, <1>2, <2>2
      <3>2. Follows(pipe[1], pipe[i + 1])
        BY <1>2, <3>1 DEF ChainInv, PipeInv, PipeOrder
      <3> QED
        BY <1>2, <1>6, <3>2 DEF Follows
    <2> QED
      BY <1>3, <1>6, <2>1, <2>2 DEF ShownInv, Follows
  <1>10. MarkInv'
    BY <1>3, <1>6, Links DEF MarkInv
  <1>11. ArrivalInv'
    <2> SUFFICES ASSUME NEW g \in gate, ~undeliverable, outcome # "lost",
                        slot = {}
                 PROVE  \/ \E i \in 1..Len(pipe') :
                             pipe'[i].kind = "packing" /\ SameAs(pipe'[i], g)
                        \/ SameAs(x, g)
      BY <1>3, <1>6 DEF ArrivalInv, Arrived, SameAs
    <2>1. CASE SameAs(p, g)
      BY <1>6, <2>1 DEF SameAs
    <2>2. CASE ~SameAs(p, g)
      <3>1. Follows(p, g)
        BY <1>4, <2>2, Links DEF Held
      <3>2. ~Arrived(g)
        <4> SUFFICES ASSUME NEW l \in live, l.op = op, SameAs(l, g)
                     PROVE  FALSE
          BY DEF Arrived
        <4>1. Follows(l, p)
          BY <1>1, <1>2 DEF ChainInv, ShownInv
        <4> QED
          BY <1>4, <3>1, <4>1, Links DEF Follows, SameAs, Link
      <3>3. PICK i \in 1..Len(pipe) : pipe[i].kind = "packing" /\ SameAs(pipe[i], g)
        BY <3>2 DEF ChainInv, ArrivalInv
      <3>4. i # 1
        BY <1>2, <2>2, <3>3
      <3>5. i - 1 \in 1..Len(pipe') /\ pipe'[i - 1] = pipe[i]
        BY <1>2, <3>4
      <3> QED
        BY <3>3, <3>5
    <2> QED
      BY <2>1, <2>2
  <1> QED
    BY <1>7, <1>8, <1>9, <1>10, <1>11 DEF ChainInv

(* Every step keeps the order of the chain.                                *)
LEMMA ChainStep ==
  ASSUME TypeOK, RestInv, ControlInv, AnswerInv, SearchInv, ChainInv,
         Next \/ UNCHANGED vars
  PROVE  ChainInv'
  <1>a. GateInv
    BY DEF ChainInv
  <1> USE DEF searchVars, gateVars, fileVars, wireVars, runVars, coreVars
  <1>1. CASE Start
    <2>1. /\ gate' = {} /\ slot' = {} /\ pipe' = <<>> /\ Len(pipe') = 0
          /\ mark' = [rev |-> 0, count |-> 0]
      BY <1>1, NoRecords DEF Start, RestInv
    <2>2. \A l \in live' : l.op < op' /\ l.op <= op'
      <3>1. \A l \in live : l.op \in Int
        BY BoundsAssumption DEF TypeOK, Option, Packing
      <3>2. live' = live /\ op' = op + 1
        BY <1>1 DEF Start
      <3>3. op \in Int
        BY Links
      <3>4. \A l \in live : l.op <= op
        BY DEF ChainInv, MarkInv
      <3> QED
        BY <3>1, <3>2, <3>3, <3>4
    <2> QED
      BY <2>1, <2>2, <1>1, Links
         DEF Start, ChainInv, GateInv, PipeInv, PipeHeld, PipeOrder, ShownInv,
             MarkInv, ArrivalInv
  <1>2. CASE StartFails
    <2>1. /\ gate' = {} /\ slot' = {} /\ pipe' = <<>> /\ Len(pipe') = 0
          /\ mark' = [rev |-> 0, count |-> 0]
      BY <1>2, NoRecords DEF StartFails, RestInv
    <2>2. \A l \in live' : l.op < op' /\ l.op <= op'
      <3>1. \A l \in live : l.op \in Int
        BY BoundsAssumption DEF TypeOK, Option, Packing
      <3>2. live' = live /\ op' = op + 1
        BY <1>2 DEF StartFails
      <3>3. op \in Int
        BY Links
      <3>4. \A l \in live : l.op <= op
        BY DEF ChainInv, MarkInv
      <3> QED
        BY <3>1, <3>2, <3>3, <3>4
    <2> QED
      BY <2>1, <2>2, <1>2, Links
         DEF StartFails, ChainInv, GateInv, PipeInv, PipeHeld, PipeOrder, ShownInv,
             MarkInv, ArrivalInv
  <1>3. CASE ReplaceObject
    <2>1. /\ gate' = {} /\ slot' = {} /\ pipe' = <<>> /\ Len(pipe') = 0
          /\ mark' = [rev |-> 0, count |-> 0]
      BY <1>3, NoRecords DEF ReplaceObject, RestInv
    <2>2. \A l \in live' : l.op <= op'
      BY <1>3, Links DEF ReplaceObject, ChainInv, MarkInv
    <2> QED
      BY <2>1, <2>2, <1>3, Links
         DEF ReplaceObject, ChainInv, GateInv, PipeInv, PipeHeld, PipeOrder, ShownInv,
             MarkInv, ArrivalInv
  <1>4. CASE OpenProject
    <2>1. /\ gate' = {} /\ slot' = {} /\ pipe' = <<>> /\ Len(pipe') = 0
          /\ mark' = [rev |-> 0, count |-> 0]
      BY <1>4, NoRecords DEF OpenProject, RestInv
    <2>2. \A l \in live' : l.op <= op'
      BY <1>4, Links DEF OpenProject, ChainInv, MarkInv
    <2> QED
      BY <2>1, <2>2, <1>4, Links
         DEF OpenProject, ChainInv, GateInv, PipeInv, PipeHeld, PipeOrder, ShownInv,
             MarkInv, ArrivalInv
  <1>5. CASE ReplaceFails
    <2>1. /\ gate' = {} /\ slot' = {} /\ pipe' = <<>> /\ Len(pipe') = 0
          /\ mark' = [rev |-> 0, count |-> 0]
      BY <1>5, NoRecords DEF ReplaceFails, RestInv
    <2>2. \A l \in live' : l.op <= op'
      BY <1>5, Links DEF ReplaceFails, ChainInv, MarkInv
    <2> QED
      BY <2>1, <2>2, <1>5, Links
         DEF ReplaceFails, ChainInv, GateInv, PipeInv, PipeHeld, PipeOrder, ShownInv,
             MarkInv, ArrivalInv
  <1>6. CASE OfferSolution
    <2>1. PICK s \in Solution \cup {Empty}, scored \in BOOLEAN : Publish(s, scored)
      BY <1>6 DEF OfferSolution
    <2> QED
      BY <1>6, <1>a, <2>1, PublishMoves, ChainAdvances DEF OfferSolution
  <1>7. CASE OfferExhausted
    BY <1>7, ChainUnmoved DEF OfferExhausted, chainVars
  <1>8. CASE ResumePhase
    BY <1>8, ChainUnmoved DEF ResumePhase, chainVars
  <1>9. CASE SpectralPhase
    <2>1. PICK s \in retained_solution, scored \in BOOLEAN : Publish(s, scored)
      BY <1>9 DEF SpectralPhase
    <2>2. s \in Solution \cup {Empty}
      BY DEF TypeOK, Option
    <2> QED
      BY <1>9, <1>a, <2>1, <2>2, PublishMoves, ChainAdvances DEF SpectralPhase
  <1>10. CASE ReturnSearch
    <2>1. PICK s \in retained_solution : Publish(s, FALSE)
      BY <1>10 DEF ReturnSearch
    <2>2. s \in Solution \cup {Empty}
      BY DEF TypeOK, Option
    <2> QED
      BY <1>10, <1>a, <2>1, <2>2, PublishMoves, ChainAdvances
         DEF ReturnSearch, SearchEnds
  <1>11. CASE Export
    BY <1>11, ChainUnmoved DEF Export, chainVars
  <1>12. CASE FailSolve
    BY <1>12, ChainUnmoved DEF FailSolve, chainVars
  <1>13. CASE WriteSlot
    BY <1>13, ChainWrites
  <1>14. CASE Answer
    BY <1>14, ChainAnswers
  <1>15. CASE ReadPacking
    BY <1>15, ChainReads
  <1>16. CASE ReadResponse
    <2>1. /\ Head(pipe) = pipe[1] /\ 1 \in 1..Len(pipe)
          /\ pipe \in Seq(Element) /\ Len(pipe) \in Nat
          /\ Len(Tail(pipe)) = Len(pipe) - 1
      BY <1>16, Taken, Links DEF ReadResponse
    <2>2. pipe[1].kind = "response" /\ Len(pipe) = 1
      BY <1>16, <2>1 DEF ReadResponse, AnswerInv
    <2>3. Len(pipe') = 0 /\ stage # "idle" /\ stage' # "idle"
      BY <1>16, <2>1, <2>2 DEF ReadResponse
    <2>4. outcome' # "lost" /\ outcome # "lost"
      BY <1>16 DEF ReadResponse, ControlInv
    <2>5. /\ UNCHANGED <<gate, revision, slot, mark, op, live, undeliverable>>
          /\ stage = "run"
      BY <1>16 DEF ReadResponse
    <2>6. \A i \in 1..Len(pipe) : pipe[i].kind # "packing"
      BY <2>2
    <2> QED
      BY <2>3, <2>4, <2>5, <2>6
         DEF ChainInv, GateInv, PipeInv, PipeHeld, PipeOrder, ShownInv, MarkInv,
             ArrivalInv, Arrived, Held, SameAs, Follows
  <1>17. CASE LoseTransport
    <2>1. Len(pipe') = 0 /\ outcome' = "lost"
      BY <1>17, NoRecords DEF LoseTransport
    <2> QED
      BY <1>17, <2>1
         DEF LoseTransport, ChainInv, GateInv, PipeInv, PipeHeld, PipeOrder,
             ShownInv, MarkInv, ArrivalInv, Held, SameAs, Follows
  <1>18. CASE ReapChild
    <2>1. /\ Len(pipe) = 0 /\ Len(pipe') = 0
          /\ outcome = "lost" /\ outcome' = "lost"
      BY <1>18, NoRecords DEF ReapChild, ControlInv
    <2> QED
      BY <1>18, <2>1
         DEF ReapChild, ChainInv, GateInv, PipeInv, PipeHeld, PipeOrder,
             ShownInv, MarkInv, ArrivalInv, Held, SameAs, Follows
  <1>19. CASE Settle
    <2>1. Len(pipe') = 0 /\ slot' = {}
      BY <1>19, NoRecords DEF Settle, RunForgotten, ControlInv
    <2> QED
      BY <1>19, <2>1
         DEF Settle, RunForgotten, ChainInv, GateInv, PipeInv, PipeHeld,
             PipeOrder, ShownInv, MarkInv, ArrivalInv
  <1>20. CASE UNCHANGED vars
    BY <1>20, ChainUnmoved DEF vars, chainVars
  <1> QED
    BY <1>1, <1>2, <1>3, <1>4, <1>5, <1>6, <1>7, <1>8, <1>9, <1>10, <1>11,
       <1>12, <1>13, <1>14, <1>15, <1>16, <1>17, <1>18, <1>19, <1>20 DEF
       Next

-----------------------------------------------------------------------------
(* The invariant holds at first.                                           *)
LEMMA Initially == Init => PublicationInv
  <1> SUFFICES ASSUME Init PROVE PublicationInv
    OBVIOUS
  <1>1. /\ sought \in 0..MaxCount /\ op \in 0..MaxOps
        /\ mark \in [rev : Nat, count : 0..MaxCount]
        /\ pipe \in Seq(Element) /\ Len(pipe) = 0
    BY BoundsAssumption, NoRecords DEF Init
  <1>2. GateTypes /\ SearchTypes /\ ControlTypes /\ DataTypes
    BY <1>1, OneOption DEF Init, GateTypes, SearchTypes, ControlTypes, DataTypes
  <1>3. TypeOK
    BY <1>2, TypeParts
  <1>4. RestInv /\ ControlInv /\ SearchInv /\ ExportInv
    BY DEF Init, RestInv, ControlInv, SearchInv, ExportInv, Searching
  <1>5. AnswerInv /\ ChainInv
    BY <1>1
       DEF Init, AnswerInv, ChainInv, GateInv, PipeInv, PipeHeld, PipeOrder,
           ShownInv, MarkInv, ArrivalInv
  <1> QED
    BY <1>3, <1>4, <1>5 DEF PublicationInv

(* Every step keeps it.                                                    *)
LEMMA InvariantStep == PublicationInv /\ [Next]_vars => PublicationInv'
  <1> SUFFICES ASSUME PublicationInv, Next \/ UNCHANGED vars
               PROVE  PublicationInv'
    OBVIOUS
  <1>1. TypeOK'
    BY TypeStep DEF PublicationInv, ChainInv
  <1>2. RestInv' /\ ControlInv' /\ AnswerInv'
    BY ControlStep, AnswerStays DEF PublicationInv
  <1>3. SearchInv' /\ ExportInv'
    BY SearchStep, ExportStep DEF PublicationInv, ChainInv
  <1>4. ChainInv'
    BY ChainStep DEF PublicationInv
  <1> QED
    BY <1>1, <1>2, <1>3, <1>4 DEF PublicationInv

(* In every reachable state the way of a packing satisfies the invariant.  *)
THEOREM PublicationInvariant == Spec => []PublicationInv
  <1> QED
    BY Initially, InvariantStep, PTL DEF Spec

(* Every variable keeps its type.                                          *)
THEOREM PublicationTypes == Spec => []TypeOK
  <1>1. PublicationInv => TypeOK
    BY DEF PublicationInv
  <1> QED
    BY <1>1, PublicationInvariant, PTL

(* The file of a run never holds fewer copies than a solution the run      *)
(* validated (incumbent.cpp, count_publication.hpp, solve.cpp).            *)
THEOREM NothingIsLost == Spec => []BestNotLost
  <1>1. PublicationInv => BestNotLost
    BY DEF PublicationInv, ExportInv, Exportable, BestNotLost
  <1> QED
    BY <1>1, PublicationInvariant, PTL

(* When a run settles, its file is of the packing that is shown.           *)
LEMMA SettledFile ==
  ASSUME PublicationInv, stage = "settle", outcome # "lost", ~undeliverable,
         ~(gateFailed /\ gate = {}), NEW a \in artifact
  PROVE  a \in live
  <1>1. /\ Exportable(a.sol) /\ a.sol # Empty /\ a.op = op /\ a.rev = revision
    BY DEF PublicationInv, ExportInv
  <1>2. PICK g \in gate : a.sol = g.sol
    BY <1>1 DEF Exportable
  <1>3. g.rev = revision
    BY DEF PublicationInv, ChainInv, GateInv
  <1>4. slot = {} /\ Len(pipe) = 0
    BY NoRecords DEF PublicationInv, ControlInv
  <1>5. PICK l \in live : l.op = op /\ SameAs(l, g)
    BY <1>4 DEF PublicationInv, ChainInv, ArrivalInv, Arrived
  <1>6. a \in Packing /\ l \in Packing
    BY DEF PublicationInv, TypeOK, Option
  <1> QED
    BY <1>1, <1>2, <1>3, <1>5, <1>6 DEF SameAs, Packing

(* A run is refused with PUBLICATION_MISMATCH only if the transport was    *)
(* lost, a record could not be encoded, or nothing could be published      *)
(* (core.rs public_artifact_matches).                                      *)
THEOREM MismatchHasCause == Spec => NoMismatch
  <1>1. PublicationInv /\ [Next]_vars =>
          [failure' = "mismatch" /\ stage = "settle" =>
             outcome = "lost" \/ undeliverable \/ (gateFailed /\ gate = {})]_vars
    <2> SUFFICES ASSUME PublicationInv, Next, failure' = "mismatch",
                        stage = "settle", outcome # "lost", ~undeliverable,
                        ~(gateFailed /\ gate = {})
                 PROVE  FALSE
      OBVIOUS
    <2>1. \A a \in artifact : Matches(a)
      BY SettledFile DEF Matches
    <2>2. enginePc = "answered"
      BY DEF PublicationInv, ControlInv
    <2>3. Settle
      BY <2>2
         DEF Next, Start, StartFails, ReplaceObject, OpenProject, ReplaceFails,
             OfferSolution, OfferExhausted, ResumePhase, SpectralPhase,
             ReturnSearch, SearchEnds, Export, FailSolve, WriteSlot, Answer,
             ReadPacking, ReadResponse, LoseTransport, ReapChild
    <2> QED
      BY <2>1, <2>3 DEF Settle
  <1> QED
    BY <1>1, PublicationInvariant, PTL DEF Spec, NoMismatch

-----------------------------------------------------------------------------
(* The refinement of Showcase.                                             *)

(* At first nothing is shown.                                              *)
LEMMA ShowcaseInit == Init => Promise!Init
  BY DEF Init, Promise!Init

(* Showing a packing is Show, installing the file of the packing shown is  *)
(* Finalise, another object or project is Replace; the rest stutters.      *)
LEMMA ShowcaseStep ==
  ASSUME PublicationInv, Next \/ UNCHANGED vars
  PROVE  Promise!Next \/ UNCHANGED <<live, result>>
  <1>a. TypeOK /\ ChainInv
    BY DEF PublicationInv
  <1> USE DEF searchVars, gateVars, fileVars, wireVars, runVars, coreVars
  <1>1. CASE ReplaceObject
    BY <1>1 DEF ReplaceObject, Promise!Next, Promise!Replace
  <1>2. CASE OpenProject
    <2>1. PICK s \in Solution : result' = {[op |-> 0, rev |-> 1, sol |-> s]}
      BY <1>2 DEF OpenProject
    <2>2. [op |-> 0, rev |-> 1, sol |-> s] \in Packing
      BY BoundsAssumption DEF Packing
    <2> QED
      BY <1>2, <2>1, <2>2 DEF OpenProject, Promise!Next, Promise!Replace
  <1>3. CASE ReadPacking
    <2>1. stage # "idle" /\ pipe # <<>> /\ Head(pipe).kind = "packing"
      BY <1>3 DEF ReadPacking
    <2>a. PICK p : p = Head(pipe)
      OBVIOUS
    <2>b. PICK x : x = [op |-> op, rev |-> p.rev, sol |-> p.sol]
      OBVIOUS
    <2>2. live' = {x} /\ result' = {}
      BY <1>a, <1>3, <2>a, <2>b, <2>1, ReadIsShown DEF ReadPacking, ShowPacking
    <2>3. /\ 1 \in 1..Len(pipe) /\ p = pipe[1] /\ p \in Element
      BY <1>a, <2>a, <2>1, Links, Taken
    <2>4. x \in Packing
      BY <1>a, <2>a, <2>b, <2>1, <2>3 DEF Element, Packing, TypeOK
    <2>5. ASSUME NEW q \in live
          PROVE  q.op < x.op \/ (q.op = x.op /\ Follows(q, x))
      <3>1. q.op <= op /\ q.op \in Nat /\ op \in Nat
        BY <1>a, Links DEF ChainInv, MarkInv, TypeOK, Option, Packing
      <3>2. CASE q.op = op
        <4>1. Follows(q, p)
          BY <1>a, <2>a, <2>1, <2>3, <3>2 DEF ChainInv, ShownInv
        <4> QED
          BY <2>b, <3>2, <4>1 DEF Follows
      <3> QED
        BY <2>b, <3>1, <3>2
    <2>6. Promise!Show
      BY <2>2, <2>4, <2>5 DEF Promise!Show
    <2> QED
      BY <2>6 DEF Promise!Next
  <1>4. CASE Settle
    <2>1. CASE result' = result
      BY <1>4, <2>1 DEF Settle
    <2>2. CASE artifact # {} /\ result' = artifact /\ \A a \in artifact : Matches(a)
      <3>1. live # {} /\ artifact = live
        BY <1>a, <2>2, Links, ZenonT(60) DEF Matches
      <3> QED
        BY <1>4, <2>2, <3>1, ZenonT(60) DEF Settle, Promise!Next, Promise!Finalise
    <2> QED
      BY <1>4, <2>1, <2>2 DEF Settle
  <1>5. CASE ~(ReplaceObject \/ OpenProject \/ ReadPacking \/ Settle)
    BY <1>5
       DEF Next, vars, Start, StartFails, ReplaceFails, OfferSolution,
           OfferExhausted, ResumePhase, SpectralPhase, ReturnSearch, SearchEnds,
           Export, FailSolve, WriteSlot, Answer, ReadResponse, LoseTransport,
           ReapChild
  <1> QED
    BY <1>1, <1>2, <1>3, <1>4, <1>5

(* The chain of gates keeps what the desktop promises of a packing it      *)
(* shows (core.rs accept_live, native_session.rs request_with_packing).    *)
THEOREM PublicationIsShowcase == Spec => IsShowcase
  <1>1. PublicationInv /\ [Next]_vars => [Promise!Next]_(Promise!vars)
    BY ShowcaseStep DEF Promise!vars
  <1> QED
    BY <1>1, ShowcaseInit, PublicationInvariant, PTL
       DEF Spec, IsShowcase, Promise!Spec

=============================================================================
