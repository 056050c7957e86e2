------------------------------ MODULE LayoutSearch ------------------------------
(* The five layout searches of a timed run (spectral.cpp, the layout loop;     *)
(* baseline.cpp): slab lattices, blocks (block_layout.hpp), interlocking and   *)
(* mixed staggers, each of which has whole proposals validated, and the        *)
(* compaction, which slides the copies of the best layout together, drops new  *)
(* ones in from the far side (compaction.hpp) and fills the gaps that are left *)
(* from correlation masks it keeps up to date as it inserts (gap_fill.cpp),    *)
(* also starting from nothing.  The blocks are planned here; the lattices the  *)
(* slab and stagger planners find in a mesh are data (scene.plans).            *)
EXTENDS BaselineSearch

CONSTANTS Sweeps,     \* sweeps of a compaction (4 rounds of 3 axes in the code)
          Tries,      \* how often a contraction is tried (8 in the code)
          Part,       \* the first one pulls by 1/Part (1/10 in the code)
          Rounds,     \* greedy layouts from nothing (6 axis orders in the code)
          FewCopies,  \* below it one greedy layout is enough (8 in the code)
          Depths,     \* how deep blocks are partitioned (3 in the code)
          Headroom    \* what the longer box of a loose stagger adds (1/16 copy)

ASSUME LayoutAssumption ==
  /\ {Sweeps, Rounds, FewCopies, Depths, Headroom} \subseteq Nat
  /\ {Tries, Part} \subseteq Nat \ {0}

VARIABLES turn,   \* the layout searches begun
          comp,   \* the compaction's progress
          fill    \* the gap filler's layout and its masks of free translations

layoutVars == <<baselineVars, turn, comp, fill>>

NoCompaction == [step |-> "off", layout |-> {}, sweep |-> 0, turnOf |-> 1,
                 stopped |-> FALSE, round |-> 0,
                 tries |-> 0, original |-> {}, low |-> 0, high |-> 0]

NoFill == [base |-> {}, free |-> <<>>]

LayoutInit == BaselineInit /\ turn = 0 /\ comp = NoCompaction /\ fill = NoFill

BestLayout == UNION {b.layout : b \in best}

-----------------------------------------------------------------------------
(* Blocks: a row of one shape, and what is left of the space planned again *)

(* The first orientation of each size. *)
Shapes == {o \in Orientations : \A q \in 1..(o - 1) : Width(q) # Width(o)}

LowestPoses(layout, n) ==
  {p \in layout : Cardinality({q \in layout : q[2] < p[2]}) < n}

(* The shapes of which a row fits, no longer than the copies allowed; with     *)
(* depth left the rest of the space is planned too, as far as copies are left; *)
(* the first one with the most copies wins.                                    *)
Blocks[depth \in 0..Depths, room \in 0..Length] ==
  LET fit == {o \in Shapes : room \div Width(o) \in 1..scene.copies}
      row(o) == {<<o, i * Width(o)>> : i \in 0..(room \div Width(o) - 1)}
      rest(o) == LET n == room \div Width(o)
                     left == Blocks[depth - 1, room - n * Width(o)]
                 IN {<<p[1], p[2] + n * Width(o)>> : p \in LowestPoses(left, scene.copies - n)}
      block == [o \in fit |-> row(o) \cup (IF depth = 0 THEN {} ELSE rest(o))]
      most == {o \in fit : \A q \in fit : Cardinality(block[q]) <= Cardinality(block[o])}
  IN IF fit = {} THEN {} ELSE block[Min(most)]

-----------------------------------------------------------------------------
(* Staggers of an orientation with itself, or with its half turn *)

(* The orientations in order, each with itself; or the pairs half a turn apart *)
(* (scene.turned), those of the orientation the best layout has first -- which *)
(* the layout, a set, does not tell -- before the others.                      *)
Alone == [o \in Orientations |-> <<o, o>>]

Turned(first) ==
  Sorted(scene.turned, LAMBDA a, b :
    \/ a[1] = first /\ b[1] # first
    \/ /\ (a[1] = first) = (b[1] = first)
       /\ a[1] < b[1] \/ (a[1] = b[1] /\ a[2] < b[2]))

(* The copies of a planned lattice that do not stick out of a box. *)
Standing(lattice, length) == {p \in lattice : p[2] + Width(p[1]) <= length}

(* A lattice planned in a box with headroom is pulled together into the real   *)
(* one, translation by translation.                                            *)
Contracted(lattice) ==
  {<<p[1], (p[2] * (Length - Width(p[1]))) \div (Length + Headroom - Width(p[1]))>> :
     p \in lattice}

(* What is proposed for a pair: the first lattice with more copies than the    *)
(* best layout, of the two that are planned.  The second one of two different  *)
(* orientations is planned in the longer box, unless a copy fills the box.     *)
Interlocked(pair) ==
  LET plans == IF pair \in DOMAIN scene.plans.stagger THEN scene.plans.stagger[pair]
               ELSE <<{}, {}>>
      mixed == pair[1] # pair[2]
      tight == Standing(plans[1], Length)
      loose == CASE ~mixed -> Standing(plans[2], Length)
                 [] mixed /\ Width(pair[1]) < Length -> Standing(plans[2], Length + Headroom)
                 [] OTHER -> {}
  IN IF Cardinality(tight) > BestCount THEN {tight}
     ELSE IF Cardinality(loose) > BestCount
     THEN {IF mixed THEN Contracted(loose) ELSE loose}
     ELSE {}

-----------------------------------------------------------------------------
(* Whole proposals *)

(* What a planner goes through: lattices, blocks by depth, pairs. *)
Proposals(planner) ==
  CASE planner = 1 -> {scene.plans.slab}
    [] planner = 2 -> {[depth \in 1..Depths |-> Blocks[depth, Length]]}
    [] planner = 3 -> {Alone}
    [] planner = 4 -> {Turned(o) : o \in {p[1] : p \in BestLayout}}
                        \cup {Turned(1) : b \in {b \in best : b.layout = {}}}

(* The searches need a box, and some of them copies to start from, not too     *)
(* many: without them they end at once.                                        *)
Idle(search) == ~scene.box \/ (search \in {1, 5} /\ BestCount \notin 1..scene.copies)

(* The next layout search of a timed run that has a layout.                    *)
NextLayout ==
  /\ phase = "layouts"
  /\ IF turn = 5 \/ ~scene.timed \/ best = {} \/ halted
     THEN /\ phase' = "entry"
          /\ UNCHANGED <<reason, known, turn, plan, comp>>
     ELSE /\ turn' = turn + 1
          /\ IF Idle(turn + 1)
             THEN End("afterLayout", "stalled", FALSE) /\ UNCHANGED <<plan, comp>>
             ELSE /\ phase' = IF turn = 4 THEN "compaction" ELSE "planner"
                  /\ UNCHANGED <<reason, known>>
                  /\ IF turn = 4 THEN plan' = <<>> ELSE plan' \in Proposals(turn + 1)
                  /\ comp' = IF turn = 4
                             THEN [NoCompaction EXCEPT !.step = "sweep", !.layout = BestLayout]
                             ELSE comp
  /\ UNCHANGED <<scene, halted, faults, best, kept, deferred, used, caps, shown, grid, fill>>

EndPlanner(why) == End("afterLayout", why, FALSE) /\ plan' = <<>>

(* The slab lattices that are planned, until one is valid. *)
SlabTrial ==
  /\ phase = "planner" /\ turn = 1 /\ ~halted
  /\ IF plan = <<>> \/ used.evals >= caps.evals
     THEN EndPlanner("stalled") /\ UNCHANGED <<faults, best, kept, shown, used>>
     ELSE /\ Use(1, 0, 0)
          /\ IF Valid(Head(plan))
             THEN \E issue \in Issues :
                    /\ Offer(best, Head(plan), issue)
                    /\ plan' = <<>>
                    /\ IF issue = "none" THEN End("afterLayout", "stalled", FALSE)
                       ELSE EndOffer("afterLayout", issue)
             ELSE Going /\ plan' = Tail(plan) /\ UNCHANGED <<faults, best, kept, shown>>
  /\ UNCHANGED <<scene, halted, deferred, caps, grid, turn, comp, fill>>

(* A proposal of the other searches is validated and offered when it is valid; *)
(* the next one is tried either way.                                           *)
Check(layout) ==
  /\ Use(1, 1, 0)
  /\ IF Valid(layout)
     THEN \E issue \in Issues :
            /\ Offer(best, layout, issue)
            /\ IF issue = "none" THEN Going /\ plan' = Tail(plan)
               ELSE EndOffer("afterLayout", issue) /\ plan' = <<>>
     ELSE Going /\ plan' = Tail(plan) /\ UNCHANGED <<faults, best, kept, shown>>

(* What is tried next, if anything is left. *)
Upcoming == {plan[i] : i \in DOMAIN plan \cap {1}}

(* Each of them counts a pass, also when nothing comes of it that has more     *)
(* copies than the best layout: `found` is empty then.                         *)
TryNext(found) ==
  /\ phase = "planner" /\ ~halted
  /\ IF plan = <<>>
     THEN EndPlanner("stalled") /\ UNCHANGED <<faults, best, kept, shown, used>>
     ELSE IF used.passes >= caps.passes \/ used.evals >= caps.evals
     THEN EndPlanner("budget") /\ UNCHANGED <<faults, best, kept, shown, used>>
     ELSE \/ \E layout \in found : Check(layout)
          \/ /\ found = {}
             /\ Use(0, 1, 0) /\ plan' = Tail(plan)
             /\ Going /\ UNCHANGED <<faults, best, kept, shown>>
  /\ UNCHANGED <<scene, halted, deferred, caps, grid, turn, comp, fill>>

BlockTrial ==
  turn = 2 /\ TryNext({block \in Upcoming : Cardinality(block) > BestCount})

StaggerPairTrial == turn \in {3, 4} /\ TryNext(UNION {Interlocked(pair) : pair \in Upcoming})

(* A query, a planner's storage or a validation is denied, or fails. *)
PlannerDenied ==
  /\ phase = "planner" /\ ~halted
  /\ Fault
  /\ \E why \in {"resource", "error"} : EndPlanner(why)
  /\ UNCHANGED <<scene, halted, best, kept, deferred, used, caps, shown, grid, turn, comp, fill>>

-----------------------------------------------------------------------------
(* Compaction: contractions, slides and drops *)

(* A pose as seen from the face the copies move to: 1 is the low face. *)
Far(p, direction) == IF direction = 1 THEN p[2] ELSE Length - Width(p[1]) - p[2]

Seen(o, y, direction) == <<o, IF direction = 1 THEN y ELSE Length - Width(o) - y>>

(* The positions, seen from that face, where a copy meets none of the others.  *)
Clear(layout, o, direction) ==
  {y \in 0..(Length - Width(o)) :
     \A q \in layout : Body(Seen(o, y, direction)) \cap Body(q) = {}}

(* A copy slides to where it first touches another one. *)
SlideFrom(layout, o, y, direction) ==
  LET clear == Clear(layout, o, direction)
  IN Seen(o, Min({z \in 0..y : z..y \subseteq clear}), direction)

(* All copies slide, the nearest to the face first. *)
Slid(layout, direction) ==
  LET near == Sorted(layout, LAMBDA p, q :
                \/ Far(p, direction) < Far(q, direction)
                \/ Far(p, direction) = Far(q, direction) /\ p[1] < q[1])
  IN FoldLeft(LAMBDA moved, p :
                UNION {others \cup {SlideFrom(others, p[1], Far(p, direction), direction)} :
                         others \in {moved \ {p}}},
              layout, near)

(* A new copy comes in from the far face, past what it can pass, and slides.   *)
Drops(layout, o, direction) ==
  LET clear == Clear(layout, o, direction)
  IN IF clear = {} THEN {} ELSE {SlideFrom(layout, o, Max(clear), direction)}

Direction == IF comp.sweep % 2 = 0 THEN 1 ELSE -1

(* The native check of a proposal: no evaluations left, or a denial, stops the *)
(* compaction; a rejected proposal leaves the accepted layout.                 *)
Accept(proposal, taken, rejected) ==
  \/ /\ used.evals < caps.evals
     /\ Use(1, 0, 0)
     /\ comp' = IF Valid(proposal) /\ Cardinality(proposal) >= Cardinality(comp.layout)
                THEN [taken EXCEPT !.layout = proposal] ELSE rejected
     /\ UNCHANGED faults
  \/ /\ used.evals >= caps.evals
     /\ comp' = [comp EXCEPT !.stopped = TRUE, !.step = "settle"]
     /\ UNCHANGED <<used, faults>>
  \/ /\ used.evals < caps.evals
     /\ Use(1, 0, 0) /\ Fault
     /\ comp' = [comp EXCEPT !.stopped = TRUE, !.step = "settle"]

CompStep(step) == [comp EXCEPT !.step = step]

(* All copies pulled towards the lowest one, in parts of the whole distance.   *)
Units == Part * 2^(Tries - 1)

Pulled(layout, parts) ==
  LET first == Min({p[2] : p \in layout})
  IN {<<p[1], p[2] - ((p[2] - first) * parts) \div Units>> : p \in layout}

(* The next sweep counts a pass and begins with a contraction. *)
Sweep ==
  /\ phase = "compaction" /\ comp.step = "sweep" /\ ~halted
  /\ IF comp.sweep = Sweeps
     THEN comp' = CompStep("fill") /\ Going /\ UNCHANGED used
     ELSE IF used.passes >= caps.passes \/ used.evals >= caps.evals
     THEN End("afterLayout", "budget", FALSE) /\ comp' = NoCompaction /\ UNCHANGED used
     ELSE /\ Use(0, 1, 0) /\ Going
          /\ comp' = [comp EXCEPT !.step = "contract", !.tries = 0, !.original = comp.layout,
                                  !.low = 0, !.high = 2^(Tries - 1)]
  /\ UNCHANGED <<scene, halted, faults, best, kept, deferred, caps, shown, grid, plan, turn, fill>>

(* The first pull is the strongest and, when it is valid, the only one; else   *)
(* the fraction is bisected.  Copies that are pulled onto each other collide.  *)
Contract ==
  /\ phase = "compaction" /\ comp.step = "contract" /\ ~halted
  /\ IF comp.tries = Tries \/ Cardinality({p[2] : p \in comp.original}) < 2
     THEN comp' = CompStep("slide") /\ UNCHANGED <<used, faults>>
     ELSE LET parts == IF comp.tries = 0 THEN comp.high ELSE (comp.low + comp.high) \div 2
              pulled == Pulled(comp.original, parts)
              tried == [comp EXCEPT !.tries = @ + 1]
          IN Accept(pulled,
                    IF comp.tries = 0 THEN [tried EXCEPT !.step = "slide"]
                    ELSE [tried EXCEPT !.low = parts],
                    [tried EXCEPT !.high = parts])
  /\ Going
  /\ UNCHANGED <<scene, halted, best, kept, deferred, caps, shown, grid, plan, turn, fill>>

(* The slid copies are checked together. *)
Slide ==
  /\ phase = "compaction" /\ comp.step = "slide" /\ ~halted
  /\ LET slid == Slid(comp.layout, Direction)
         drop == [comp EXCEPT !.step = "drop", !.turnOf = 1]
     IN IF slid = comp.layout THEN comp' = drop /\ UNCHANGED <<used, faults>>
        ELSE Accept(slid, drop, CompStep("settle"))
  /\ Going
  /\ UNCHANGED <<scene, halted, best, kept, deferred, caps, shown, grid, plan, turn, fill>>

(* New copies of each orientation, until one does not come in. *)
Drop ==
  /\ phase = "compaction" /\ comp.step = "drop" /\ ~halted
  /\ IF comp.turnOf > Cardinality(Orientations) \/ Cardinality(comp.layout) >= scene.copies
     THEN comp' = CompStep("settle") /\ UNCHANGED <<used, faults>>
     ELSE LET drops == Drops(comp.layout, comp.turnOf, Direction)
              next == [comp EXCEPT !.turnOf = @ + 1]
          IN IF drops = {} THEN comp' = next /\ UNCHANGED <<used, faults>>
             ELSE Accept(comp.layout \cup drops, comp, next)
  /\ Going
  /\ UNCHANGED <<scene, halted, best, kept, deferred, caps, shown, grid, plan, turn, fill>>

(* A stop cuts a sweep short; what it has accepted so far is still offered. *)
SweepCut ==
  /\ phase = "compaction" /\ comp.step \in {"contract", "slide", "drop"} /\ halted
  /\ comp' = [comp EXCEPT !.step = "settle", !.stopped = TRUE]
  /\ Going
  /\ UNCHANGED <<scene, halted, faults, best, kept, deferred, used, caps, shown, grid, plan,
                 turn, fill>>

(* Offers what the compaction has accepted unless it is the best already. *)
OfferAccepted(layout, next) ==
  IF layout = BestLayout
  THEN Going /\ comp' = next /\ UNCHANGED <<faults, best, kept, shown>>
  ELSE \E issue \in Issues :
         /\ Offer(best, layout, issue)
         /\ IF issue = "none" THEN Going /\ comp' = next
            ELSE EndOffer("afterLayout", issue) /\ comp' = NoCompaction

SettleLayout ==
  /\ phase = "compaction" /\ comp.step = "settle"
  /\ OfferAccepted(comp.layout,
                   IF comp.stopped THEN CompStep("fill")
                   ELSE [comp EXCEPT !.step = "sweep", !.sweep = @ + 1])
  /\ UNCHANGED <<scene, halted, deferred, used, caps, grid, plan, turn, fill>>

-----------------------------------------------------------------------------
(* Compaction: gap filling *)

(* The masks of a layout: the translations where the correlation is zero. *)
FreeOf(layout) ==
  [o \in Orientations |->
     UNION {{t \in Translations(o) : value[t] = 0} : value \in {Correlation(layout, o)}}]

(* The voxels of a copy the filler inserts. *)
Stamp(o, t) == {k + t : k \in Kernel(o)}

(* The lowest free translation over the orientations, the first among equals.  *)
Open == {o \in DOMAIN fill.free : fill.free[o] # {}}

Lowest ==
  LET t == Min(UNION {fill.free[o] : o \in Open})
  IN [o |-> Min({o \in Open : t \in fill.free[o]}), t |-> t]

(* Faulty variant: an insertion is taken out of its own rotation's mask only. *)
InsertedOwnMask(free, o, t) ==
  [free EXCEPT ![o] = {s \in @ : Stamp(o, s) \cap Stamp(o, t) = {}}]

(* An insertion at o, t blocks the translations whose kernel meets it, in the  *)
(* masks of all rotations; the masks are never computed again.                 *)
Inserted(free, o, t) ==
  [q \in DOMAIN free |-> {s \in free[q] : Stamp(q, s) \cap Stamp(o, t) = {}}]

(* The first filling starts from the accepted layout, the later ones from      *)
(* nothing.  A full layout, a stop, or a resolution or a field that is denied  *)
(* leave it as it is.                                                          *)
FillStart ==
  /\ phase = "compaction" /\ comp.step = "fill"
  /\ LET start == IF comp.round = 0 THEN comp.layout ELSE {}
         full == Cardinality(start) >= scene.copies
     IN \/ /\ ~halted /\ ~full
           /\ fill' = [base |-> start, free |-> FreeOf(start)]
           /\ comp' = CompStep("filling")
           /\ UNCHANGED faults
        \/ /\ fill' = [base |-> start, free |-> <<>>]
           /\ comp' = CompStep("filled")
           /\ IF halted \/ full THEN UNCHANGED faults ELSE Fault
  /\ Going
  /\ UNCHANGED <<scene, halted, best, kept, deferred, used, caps, shown, grid, plan, turn>>

(* One insertion, checked natively. *)
FillStep ==
  /\ phase = "compaction" /\ comp.step = "filling"
  /\ ~halted /\ used.evals < caps.evals
  /\ Open # {} /\ Cardinality(fill.base) < scene.copies
  /\ Use(1, 0, 0)
  /\ LET pose == At(Lowest.o, Lowest.t)
     IN fill' = IF CanAdd(fill.base, pose)
                THEN [base |-> fill.base \cup {pose},
                      free |-> Inserted(fill.free, Lowest.o, Lowest.t)]
                ELSE [fill EXCEPT !.free[Lowest.o] = @ \ {Lowest.t}]
  /\ Going
  /\ UNCHANGED <<scene, halted, faults, best, kept, deferred, caps, shown, grid, plan, turn, comp>>

(* No free translation, the copies' or the evaluations' cap, a stop; or a      *)
(* field or a correlation that is denied.  The layout is used as it is.        *)
FillEnds ==
  /\ phase = "compaction" /\ comp.step = "filling"
  /\ IF halted \/ used.evals >= caps.evals \/ Open = {} \/ Cardinality(fill.base) >= scene.copies
     THEN UNCHANGED faults ELSE Fault
  /\ comp' = CompStep("filled")
  /\ Going
  /\ UNCHANGED <<scene, halted, best, kept, deferred, used, caps, shown, grid, plan, turn, fill>>

(* The filled layout is offered; a greedy one only when it has more copies     *)
(* than the best of the compaction so far.                                     *)
FillOffer ==
  /\ phase = "compaction" /\ comp.step = "filled"
  /\ LET next == [comp EXCEPT !.step = "greedy", !.layout = fill.base]
     IN IF comp.round = 0 \/ Cardinality(fill.base) > Cardinality(comp.layout)
        THEN OfferAccepted(fill.base, next)
        ELSE Going /\ comp' = CompStep("greedy") /\ UNCHANGED <<faults, best, kept, shown>>
  /\ fill' = NoFill
  /\ UNCHANGED <<scene, halted, deferred, used, caps, grid, plan, turn>>

(* The next greedy layout from nothing, or the end of the compaction.  They    *)
(* are left out when the capacity is reached already, and after the first one  *)
(* when there are few copies.                                                  *)
Greedier ==
  /\ phase = "compaction" /\ comp.step = "greedy"
  /\ IF \/ halted \/ comp.round = Rounds
        \/ comp.round = 0 /\ Cardinality(comp.layout) >= scene.copies
        \/ comp.round > 0 /\ Cardinality(comp.layout) < FewCopies
     THEN /\ End("afterLayout", IF comp.stopped THEN "resource" ELSE "stalled", FALSE)
          /\ comp' = NoCompaction
     ELSE comp' = [comp EXCEPT !.step = "fill", !.round = @ + 1] /\ Going
  /\ UNCHANGED <<scene, halted, faults, best, kept, deferred, used, caps, shown, grid, plan,
                 turn, fill>>

(* The accounting of the compaction's work or memory fails. *)
CompactionDenied ==
  /\ phase = "compaction" /\ comp.step \in {"sweep", "slide", "filled"}
  /\ Fault
  /\ End("afterLayout", "resource", FALSE)
  /\ comp' = NoCompaction /\ fill' = NoFill
  /\ UNCHANGED <<scene, halted, best, kept, deferred, used, caps, shown, grid, plan, turn>>

-----------------------------------------------------------------------------

(* Only an error ends the run here: what a search ran out of is not looked at. *)
AfterLayout ==
  /\ phase = "afterLayout" /\ ~halted
  /\ phase' = IF reason = "error" THEN "done" ELSE "layouts"
  /\ UNCHANGED <<scene, halted, faults, best, kept, reason, known, deferred, used, caps,
                 shown, grid, plan, turn, comp, fill>>

LayoutInterrupted ==
  /\ halted
  /\ \/ phase \in {"planner", "afterLayout"}
     \/ phase = "compaction" /\ comp.step = "sweep"
  /\ End("done", "interrupted", FALSE)
  /\ plan' = <<>> /\ comp' = NoCompaction
  /\ UNCHANGED <<scene, halted, faults, best, kept, deferred, used, caps, shown, grid, turn, fill>>

LayoutStep ==
  \/ BaselineStep /\ UNCHANGED <<turn, comp, fill>>
  \/ NextLayout \/ SlabTrial \/ BlockTrial \/ StaggerPairTrial \/ PlannerDenied
  \/ Sweep \/ Contract \/ Slide \/ Drop \/ SweepCut \/ SettleLayout
  \/ FillStart \/ FillStep \/ FillEnds \/ FillOffer \/ Greedier \/ CompactionDenied
  \/ AfterLayout \/ LayoutInterrupted

-----------------------------------------------------------------------------
(* The masks stay those of the layout that grows under them: what is free is   *)
(* clear of every copy, and a clear translation is never lost, unless the      *)
(* validator could not decide its pose (fill_gaps keeps them by subtracting    *)
(* what each insertion blocks, rotation by rotation).                          *)
FreeIsClear ==
  phase = "compaction" /\ comp.step = "filling" /\ ~halted =>
    \A o \in Orientations : \A t \in Translations(o) :
      /\ t \in fill.free[o] => Overlap(fill.base, o, t) = 0
      /\ Overlap(fill.base, o, t) = 0 /\ At(o, t) \notin scene.dim => t \in fill.free[o]
=============================================================================
