----------------------------- MODULE BaselineSearch -----------------------------
(* The first two phases of a search (pack_solver/src/baseline.cpp, called by   *)
(* spectral.cpp): the grid, which lays copies of one orientation side by side  *)
(* and has them validated in batches, and the stagger, which has whole         *)
(* proposals validated, best first.  They run one after the other in one       *)
(* thread; what interleaves with them is the control of the run (Halt), and    *)
(* what may fail under them is a resource denial, the scoring of an offer or   *)
(* the observer of the snapshots.                                              *)
EXTENDS SearchSpace

CONSTANT Batch   \* copies the grid submits together (32 in the code)

ASSUME BatchAssumption == Batch \in Nat \ {0}

VARIABLES grid,   \* the grid's progress
          plan    \* the proposals a phase has still to try

baselineVars == <<space, grid, plan>>

NoGrid == [step |-> "off", seed |-> 1, cell |-> 0, pending |-> <<>>,
           retry |-> <<>>, working |-> {}, evals |-> 0, passes |-> 0]

BaselineInit == SpaceInit /\ grid = NoGrid /\ plan = <<>>

GridAt(step) == [grid EXCEPT !.step = step]

-----------------------------------------------------------------------------
(* The grid *)

(* The i-th cell of an orientation's grid. *)
Cell(o, i) == <<o, i * Width(o)>>

CellCount(o) == Length \div Width(o)

EvalsLeft == scene.grid.evals - grid.evals

CopiesLeft == scene.copies - Cardinality(grid.working)

(* A run starts from its initial layout, or from the validated empty one.  The *)
(* fixed storage may not fit, which a timed run may defer.                     *)
StartGrid ==
  /\ phase = "start" /\ ~halted
  /\ \/ \E issue \in Issues :
          LET first == IF scene.initial = {} THEN {} ELSE CHOOSE l \in scene.initial : TRUE
          IN /\ Offer(best, first, issue)
             /\ IF issue = "none"
                THEN phase' = "grid" /\ grid' = GridAt("seed") /\ UNCHANGED <<reason, known>>
                ELSE EndOffer("afterGrid", issue) /\ UNCHANGED grid
     \/ /\ Fault
        /\ \E k \in BOOLEAN : End("afterGrid", "resource", k)
        /\ UNCHANGED <<best, kept, shown, grid>>
  /\ UNCHANGED <<scene, halted, deferred, used, caps, plan>>

(* The next orientation: the grid of the previous one is dropped. *)
GridSeed ==
  /\ phase = "grid" /\ grid.step = "seed" /\ ~halted
  /\ IF grid.seed > Cardinality(Orientations)
     THEN End("afterGrid", "stalled", FALSE) /\ grid' = NoGrid
     ELSE IF grid.passes >= scene.grid.passes
     THEN End("afterGrid", "budget", TRUE) /\ grid' = NoGrid
     ELSE Going /\ grid' = [grid EXCEPT !.step = "cell", !.cell = 0, !.working = {}]
  /\ UNCHANGED <<scene, halted, faults, best, kept, deferred, used, caps, shown, plan>>

(* A batch is full at its size, one copy while nothing is placed yet, or when  *)
(* it holds all the evaluations or copies that are left.                       *)
Due(pending) ==
  \/ Len(pending) >= (IF grid.working = {} \/ ~scene.box THEN 1 ELSE Batch)
  \/ Len(pending) >= EvalsLeft
  \/ Len(pending) >= CopiesLeft

GridTake ==
  /\ phase = "grid" /\ grid.step = "cell" /\ ~halted
  /\ grid.cell < CellCount(grid.seed)
  /\ IF EvalsLeft <= 0 \/ CopiesLeft <= 0
     THEN End("afterGrid", "budget", TRUE) /\ grid' = NoGrid
     ELSE LET pending == Append(grid.pending, Cell(grid.seed, grid.cell))
          IN /\ Going
             /\ grid' = [grid EXCEPT !.cell = @ + 1, !.pending = pending,
                                     !.step = IF Due(pending) THEN "flush" ELSE "cell"]
  /\ UNCHANGED <<scene, halted, faults, best, kept, deferred, used, caps, shown, plan>>

(* Validates the working prefix with a batch, and offers it when it is valid.  *)
(* `passed` and `failed` are the grid's states after either.                   *)
Submit(batch, passed, failed) ==
  IF Len(batch) > EvalsLeft \/ Len(batch) > CopiesLeft
  THEN /\ End("afterGrid", "budget", TRUE) /\ grid' = NoGrid
       /\ UNCHANGED <<faults, best, kept, shown>>
  ELSE LET spent == grid.evals + Len(batch)
           layout == grid.working \cup ToSet(batch)
       IN IF Valid(layout)
          THEN \E issue \in Issues :
                 /\ Offer(best, layout, issue)
                 /\ IF issue = "none"
                    THEN Going /\ grid' = [passed EXCEPT !.evals = spent, !.working = layout]
                    ELSE EndOffer("afterGrid", issue) /\ grid' = NoGrid
          ELSE /\ Going /\ grid' = [failed EXCEPT !.evals = spent]
               /\ UNCHANGED <<faults, best, kept, shown>>

(* Faulty variant: a batch with one bad copy is dropped as a whole. *)
FlushDropsBatch ==
  /\ phase = "grid" /\ grid.step = "flush" /\ ~halted
  /\ LET cleared == [grid EXCEPT !.pending = <<>>, !.step = "cell"]
     IN Submit(grid.pending, cleared, cleared)
  /\ UNCHANGED <<scene, halted, deferred, used, caps, plan>>

(* The pending batch; when it is rejected its copies are tried one by one. *)
GridFlush ==
  /\ phase = "grid" /\ grid.step = "flush" /\ ~halted
  /\ LET cleared == [grid EXCEPT !.pending = <<>>, !.step = "cell"]
     IN Submit(grid.pending, cleared,
               IF Len(grid.pending) > 1
               THEN [cleared EXCEPT !.retry = grid.pending, !.step = "retry"]
               ELSE cleared)
  /\ UNCHANGED <<scene, halted, deferred, used, caps, plan>>

GridRetry ==
  /\ phase = "grid" /\ grid.step = "retry" /\ ~halted
  /\ LET rest == Tail(grid.retry)
         next == [grid EXCEPT !.retry = rest, !.step = IF rest = <<>> THEN "cell" ELSE "retry"]
     IN Submit(<<Head(grid.retry)>>, next, next)
  /\ UNCHANGED <<scene, halted, deferred, used, caps, plan>>

(* The cells are exhausted: the last batch is submitted, the pass is counted.  *)
GridEndSeed ==
  /\ phase = "grid" /\ grid.step = "cell" /\ ~halted
  /\ grid.cell = CellCount(grid.seed)
  /\ IF grid.pending # <<>> THEN grid' = GridAt("flush") /\ Going
     ELSE IF EvalsLeft <= 0
     THEN End("afterGrid", "budget", TRUE) /\ grid' = NoGrid
     ELSE /\ Going
          /\ grid' = [grid EXCEPT !.step = "seed", !.seed = @ + 1, !.passes = @ + 1]
  /\ UNCHANGED <<scene, halted, faults, best, kept, deferred, used, caps, shown, plan>>

(* A query or a validation of the grid is denied, or fails. *)
GridDenied ==
  /\ phase = "grid" /\ ~halted
  /\ Fault
  /\ \/ \E k \in BOOLEAN : End("afterGrid", "resource", k)
     \/ End("afterGrid", "error", FALSE)
  /\ grid' = NoGrid
  /\ UNCHANGED <<scene, halted, best, kept, deferred, used, caps, shown, plan>>

-----------------------------------------------------------------------------
(* What the composition does with the outcome of a phase *)

(* A timed run may put off what a known allowance denied. *)
Deferrable == scene.timed /\ reason # "error" /\ known

Defer == deferred' = TRUE /\ reason' = "stalled" /\ known' = FALSE

AfterGrid ==
  /\ phase = "afterGrid" /\ ~halted
  /\ IF reason \in {"resource", "error"} /\ ~Deferrable
     THEN phase' = "done" /\ UNCHANGED <<deferred, reason, known>>
     ELSE /\ IF Deferrable THEN Defer ELSE UNCHANGED <<deferred, reason, known>>
          /\ phase' = IF caps.evals = 0 \/ caps.passes = 0 THEN "done"
                      ELSE IF best # {} \/ ~scene.timed THEN "stagger"
                      ELSE "layouts"
  /\ UNCHANGED <<scene, halted, faults, best, kept, used, caps, shown, grid, plan>>

-----------------------------------------------------------------------------
(* The stagger *)

(* Rows that nest into each other: on the line, copies one unit closer than    *)
(* side by side, from either end of a unit.  They may collide.                 *)
Stagger(o, parity) ==
  LET pitch == Max({1, Width(o) - 1})
      fit == {p \in {<<o, parity + i * pitch>> : i \in 0..Length} : Fits(p)}
      first == {p \in fit : Cardinality({q \in fit : q[2] < p[2]}) < scene.copies}
  IN first

(* More copies first, then the orientation, then the parity. *)
Ranked(proposals) ==
  Sorted(proposals, LAMBDA a, b :
    \/ Cardinality(a.layout) > Cardinality(b.layout)
    \/ /\ Cardinality(a.layout) = Cardinality(b.layout)
       /\ a.seed < b.seed \/ (a.seed = b.seed /\ a.parity < b.parity))

StaggerPlan ==
  /\ phase = "stagger" /\ ~halted
  /\ LET seeds == {o \in Orientations : o <= caps.passes}
         ranked == Ranked({[seed |-> o, parity |-> p, layout |-> Stagger(o, p)] :
                             o \in seeds, p \in {0, 1}})
     IN /\ Use(0, Cardinality(seeds), 0)
        /\ plan' = [i \in DOMAIN ranked |-> ranked[i].layout]
  /\ phase' = "staggerTrial"
  /\ UNCHANGED <<scene, halted, faults, best, kept, reason, known, deferred, caps, shown, grid>>

(* The copies of the best layout so far. *)
BestCount == IF best = {} THEN 0 ELSE Cardinality((CHOOSE b \in best : TRUE).layout)

(* The proposals in order, until one cannot beat the best by count. *)
StaggerTrial ==
  /\ phase = "staggerTrial" /\ ~halted
  /\ IF plan = <<>> \/ (plan # <<>> /\ Cardinality(Head(plan)) <= BestCount)
     THEN /\ End("afterStagger", "stalled", FALSE) /\ plan' = <<>>
          /\ UNCHANGED <<faults, best, kept, shown, used>>
     ELSE IF used.evals >= caps.evals
     THEN /\ End("afterStagger", "budget", TRUE) /\ plan' = <<>>
          /\ UNCHANGED <<faults, best, kept, shown, used>>
     ELSE /\ Use(1, 0, 0)
          /\ IF Valid(Head(plan))
             THEN \E issue \in Issues :
                    /\ Offer(best, Head(plan), issue)
                    /\ IF issue = "none" THEN Going /\ plan' = Tail(plan)
                       ELSE EndOffer("afterStagger", issue) /\ plan' = <<>>
             ELSE Going /\ plan' = Tail(plan) /\ UNCHANGED <<faults, best, kept, shown>>
  /\ UNCHANGED <<scene, halted, deferred, caps, grid>>

StaggerDenied ==
  /\ phase \in {"stagger", "staggerTrial"} /\ ~halted
  /\ Fault
  /\ \/ \E k \in BOOLEAN : End("afterStagger", "resource", k)
     \/ End("afterStagger", "error", FALSE)
  /\ plan' = <<>>
  /\ UNCHANGED <<scene, halted, best, kept, deferred, used, caps, shown, grid>>

AfterStagger ==
  /\ phase = "afterStagger"
  /\ \/ reason = "stalled" /\ phase' = "layouts" /\ UNCHANGED <<deferred, reason, known>>
     \/ reason # "stalled" /\ ~halted /\ Deferrable /\ Defer /\ phase' = "layouts"
     \/ /\ reason # "stalled" /\ ~halted /\ ~Deferrable
        /\ phase' = "done" /\ UNCHANGED <<deferred, reason, known>>
  /\ UNCHANGED <<scene, halted, faults, best, kept, used, caps, shown, grid, plan>>

(* A stop or the deadline ends the phase and with it the run; what is kept     *)
(* stays kept.                                                                 *)
BaselineInterrupted ==
  /\ halted
  /\ \/ phase \in {"start", "grid", "afterGrid", "stagger", "staggerTrial"}
     \/ phase = "afterStagger" /\ reason # "stalled"
  /\ End("done", "interrupted", FALSE)
  /\ grid' = NoGrid /\ plan' = <<>>
  /\ UNCHANGED <<scene, halted, faults, best, kept, deferred, used, caps, shown>>

BaselineStep ==
  \/ StartGrid \/ GridSeed \/ GridTake \/ GridFlush \/ GridRetry \/ GridEndSeed
  \/ GridDenied \/ AfterGrid \/ StaggerPlan \/ StaggerTrial \/ StaggerDenied
  \/ AfterStagger \/ BaselineInterrupted

-----------------------------------------------------------------------------
(* A layout has the copies of the first n cells that can be placed one after   *)
(* the other: a cell is in it when it can be added to the copies before it.    *)
IsGreedy(layout, o, n) ==
  /\ layout \subseteq {Cell(o, i) : i \in 0..(n - 1)}
  /\ \A c \in {Cell(o, i) : i \in 0..(n - 1)} :
       c \in layout <=> CanAdd({p \in layout : p[2] < c[2]}, c)

(* Batching changes what a validation costs, never what the grid places: with  *)
(* no batch under way, the working prefix is exactly what placing the cells    *)
(* one by one would have placed (flush, submit; a rejected batch falls back to *)
(* single copies).                                                             *)
GridIsGreedy ==
  phase = "grid" /\ grid.step = "cell" =>
    IsGreedy(grid.working, grid.seed, grid.cell - Len(grid.pending))
=============================================================================
