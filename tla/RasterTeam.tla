----------------------------- MODULE RasterTeam -----------------------------
(***************************************************************************)
(* The raster team of engine/pack_geometry/src/raster_execution.cpp and    *)
(* the surface raster it runs (rasterize_boundary and run_raster_cursor of *)
(* validation_kernel.cpp): a coordinator, worker 0, that prepares the faces*)
(* of a solid batch by batch, and rounds of grants in which every worker   *)
(* spends its share of the remaining work and cell visits on the rows of   *)
(* the window it owns, parks, and hands back what it did not use.          *)
(*                                                                         *)
(* An item is a cell in the box of a face.  A cursor of the code walks the *)
(* items of the rows its worker owns in the order of faces, rows and       *)
(* columns; here it is the set of the items it has not passed.  The costs  *)
(* are scaled: what matters is that a test costs more than a lookup.       *)
(***************************************************************************)
EXTENDS Integers, FiniteSets

CONSTANTS
  Count,        \* threads of the team: 2..8 in the code
  Faces,        \* faces, 1..n, in the order of the mesh
  Batch,        \* the batch of a face, from 1: consecutive runs of faces
  Box,          \* [Faces -> sets of <<row, column>>]: cells in a face's range
  Touch,        \* [Faces -> sets of cells]: cells the face meets
  FaceWork,     \* kRasterFaceWork
  LookupWork,   \* kRasterLookupWork; 0 when existing tags are not skipped
  TestWork,     \* work of a triangle against a cell
  WorkLimits,   \* work that may be left when a raster begins
  VisitLimits,  \* cell visits that may be left when a raster begins
  Generations,  \* values of Storage::generation: 2^64 in the code
  MaxRuns       \* bound: rasters of one team

ASSUME RasterAssumption ==
  /\ Count \in Nat /\ Count >= 2
  /\ Faces \subseteq Nat /\ IsFiniteSet(Faces)
  /\ Batch \in [Faces -> Nat \ {0}]
  /\ \A f \in Faces : \A b \in 1..Batch[f] : \E g \in Faces : Batch[g] = b
  /\ \A f, g \in Faces : f < g => Batch[f] <= Batch[g]
  /\ \A f \in Faces : Box[f] \subseteq Nat \X Nat /\ IsFiniteSet(Box[f])
  /\ \A f \in Faces : Touch[f] \subseteq Box[f]
  /\ {FaceWork, LookupWork, TestWork} \subseteq Nat
  /\ TestWork > 0
  /\ WorkLimits \cup VisitLimits \subseteq Nat
  /\ Generations \in Nat /\ Generations >= 2
  /\ MaxRuns \in Nat

Workers == 0..Count - 1

Peers == 1..Count - 1

Items == UNION {{f} \X Box[f] : f \in Faces}

Cells == UNION {Box[f] : f \in Faces}

Batches == {Batch[f] : f \in Faces}

VARIABLES
  pc,          \* control state of each worker; pc[0] is the coordinator's
  asleep,      \* workers blocked on Storage::wake
  seen,        \* generation each worker last took
  generation,  \* Storage::generation
  finished,    \* Storage::finished
  created,     \* Storage::created
  shutdown,    \* Storage::shutdown
  abort,       \* RasterBatch::abort
  stopped,     \* the stop token was stopped
  late,        \* the deadline has passed
  failures,    \* cursors that recorded a failure
  batch,       \* the batch being rasterized
  left,        \* items each cursor has still to pass
  done,        \* cursors that have noticed that nothing is left
  pending,     \* RasterCursor::pending_sat
  need,        \* RasterCursor::next_work and next_visit
  grant,       \* RasterCursor::work_grant and visit_grant
  spent,       \* RasterCursor::work and visits
  budget,      \* work and visits the raster has left
  boundary,    \* cells tagged as surface
  runs,        \* rasters begun
  limits,      \* history: what was left when the raster began
  result,      \* what the last raster returned
  passed       \* history: how often this raster passed each item

vars == <<pc, asleep, seen, generation, finished, created, shutdown, abort,
          stopped, late, failures, batch, left, done, pending, need, grant,
          spent, budget, boundary, runs, limits, result, passed>>

parkVars   == <<asleep, seen, generation, finished>>
lifeVars   == <<created, shutdown>>
envVars    == <<stopped, late>>
cursorVars == <<failures, left, done, pending, need, spent, boundary, passed>>
callVars   == <<batch, grant, budget, runs, limits, result>>

None == [work |-> 0, visits |-> 0]

Cost(work, visits) == [work |-> work, visits |-> visits]

Fits(cost, funds) == cost.work <= funds.work /\ cost.visits <= funds.visits

Minus(a, b) == [work |-> a.work - b.work, visits |-> a.visits - b.visits]

Plus(a, b) == [work |-> a.work + b.work, visits |-> a.visits + b.visits]

Larger(a, b) == IF a >= b THEN a ELSE b

Interrupted == stopped \/ late

Goto(w, state) == pc' = [pc EXCEPT ![w] = state]

(* A row of the window belongs to one worker.                              *)
Owner(item) == item[2][1] % Count

Before(i, j) ==
  \/ i[1] < j[1]
  \/ i[1] = j[1] /\ i[2][1] < j[2][1]
  \/ i[1] = j[1] /\ i[2][1] = j[2][1] /\ i[2][2] <= j[2][2]

Current(w) == CHOOSE i \in left[w] : \A j \in left[w] : Before(i, j)

Lookup == Cost(LookupWork, 1)

Test == Cost(TestWork, 0)

(* What the first primitive of a batch needs.                              *)
First == IF LookupWork > 0 THEN Lookup ELSE Cost(TestWork, 1)

-----------------------------------------------------------------------------
(* Construction of the team.                                               *)

Create ==
  /\ pc[0] = "create"
  /\ created < Count - 1
  /\ created' = created + 1
  /\ Goto(created + 1, "parked")
  /\ UNCHANGED <<parkVars, shutdown, abort, envVars, cursorVars, callVars>>

Created ==
  /\ pc[0] = "create"
  /\ created = Count - 1
  /\ Goto(0, "idle")
  /\ UNCHANGED <<parkVars, lifeVars, abort, envVars, cursorVars, callVars>>

(* A thread cannot start: the destructor joins those that did.             *)
StartFails ==
  /\ pc[0] = "create"
  /\ created < Count - 1
  /\ Goto(0, "join")
  /\ result' = "failure"
  /\ UNCHANGED <<parkVars, lifeVars, abort, envVars, cursorVars, batch, grant,
                 budget, runs, limits>>

-----------------------------------------------------------------------------
(* The coordinator: rasterize_boundary.                                    *)

(* A joined team is never idle again: it refuses every later raster        *)
(* (RASTER_EXECUTION_CLOSED).                                              *)
Begin ==
  /\ pc[0] = "idle"
  /\ runs < MaxRuns
  /\ \E work \in WorkLimits, visits \in VisitLimits :
       /\ budget' = Cost(work, visits)
       /\ limits' = Cost(work, visits)
  /\ runs' = runs + 1
  /\ batch' = 0
  /\ boundary' = {}
  /\ passed' = [i \in Items |-> 0]
  /\ result' = "none"
  /\ Goto(0, "prepare")
  /\ UNCHANGED <<parkVars, lifeVars, abort, envVars, failures, left, done,
                 pending, need, spent, grant>>

Fail(outcome) ==
  /\ Goto(0, "join")
  /\ result' = outcome

PrepareCost(b) == FaceWork * Cardinality({f \in Faces : Batch[f] = b})

(* The faces of the next batch are described and every cursor is reset.    *)
Prepare ==
  /\ pc[0] = "prepare"
  /\ batch + 1 \in Batches
  /\ PrepareCost(batch + 1) <= budget.work
  /\ batch' = batch + 1
  /\ budget' = Minus(budget, Cost(PrepareCost(batch + 1), 0))
  /\ left' = [w \in Workers |->
                {i \in Items : Batch[i[1]] = batch + 1 /\ Owner(i) = w}]
  /\ done' = {}
  /\ pending' = [w \in Workers |-> FALSE]
  /\ need' = [w \in Workers |-> First]
  /\ failures' = {}
  /\ abort' = FALSE
  /\ Goto(0, "divide")
  /\ UNCHANGED <<parkVars, lifeVars, envVars, grant, spent, boundary, passed,
                 runs, limits, result>>

(* The work does not suffice, the control was polled, or a face is out of  *)
(* the range of the indices.                                               *)
PrepareFails ==
  /\ pc[0] = "prepare"
  /\ batch + 1 \in Batches
  /\ \/ PrepareCost(batch + 1) > budget.work /\ Fail("limit")
     \/ Interrupted /\ Fail("interrupted")
     \/ Fail("failure")
  /\ UNCHANGED <<parkVars, lifeVars, abort, envVars, cursorVars, batch, grant,
                 budget, runs, limits>>

Succeeds ==
  /\ pc[0] = "prepare"
  /\ batch + 1 \notin Batches
  /\ Goto(0, "idle")
  /\ result' = "success"
  /\ UNCHANGED <<parkVars, lifeVars, abort, envVars, cursorVars, batch, grant,
                 budget, runs, limits>>

-----------------------------------------------------------------------------
(* The coordinator: RasterAccess::run.                                     *)

(* Faulty variant: what is left is divided evenly, even into grants too    *)
(* small for a single primitive.                                           *)
DivisionEven(undone) ==
  [w \in Workers |->
     IF w \in undone
     THEN Cost(budget.work \div Cardinality(undone),
               budget.visits \div Cardinality(undone))
     ELSE None]

(* Faulty variant: a grant is not deducted from what the others share.     *)
DivisionUndeducted(undone) ==
  [w \in Workers |->
     LET waiting == Cardinality({v \in undone : v >= w})
     IN IF w \in undone /\ Fits(need[w], budget)
        THEN Cost(Larger(need[w].work, budget.work \div waiting),
                  Larger(need[w].visits, budget.visits \div waiting))
        ELSE None]

(* The loop over the cursors that divides what is left: Division(n) is     *)
(* what remains after the first n of them, how many still wait, and the    *)
(* grants so far.  The lowest cursor that waits receives at least what its *)
(* next primitive needs.                                                   *)
Division(undone) ==
  LET d[n \in 0..Count] ==
        IF n = 0
        THEN [funds |-> budget, waiting |-> Cardinality(undone),
              grants |-> [w \in Workers |-> None]]
        ELSE LET prior == d[n - 1]
                 w == n - 1
                 share == Cost(Larger(need[w].work,
                                      prior.funds.work \div prior.waiting),
                               Larger(need[w].visits,
                                      prior.funds.visits \div prior.waiting))
             IN CASE w \notin undone -> prior
                  [] w \in undone /\ ~Fits(need[w], prior.funds) ->
                       [prior EXCEPT !.waiting = @ - 1]
                  [] OTHER ->
                       [funds |-> Minus(prior.funds, share),
                        waiting |-> prior.waiting - 1,
                        grants |-> [prior.grants EXCEPT ![w] = share]]
  IN d[Count].grants

Divide ==
  /\ pc[0] = "divide"
  /\ done # Workers
  /\ grant' = Division(Workers \ done)
  /\ spent' = [w \in Workers |-> None]
  /\ Goto(0, "dispatch")
  /\ UNCHANGED <<parkVars, lifeVars, abort, envVars, failures, left, done,
                 pending, need, boundary, passed, batch, budget, runs, limits,
                 result>>

BatchDone ==
  /\ pc[0] = "divide"
  /\ done = Workers
  /\ Goto(0, "prepare")
  /\ UNCHANGED <<parkVars, lifeVars, abort, envVars, cursorVars, callVars>>

Dispatch ==
  /\ pc[0] = "dispatch"
  /\ finished' = 0
  /\ generation' = (generation + 1) % Generations
  /\ Goto(0, "notify")
  /\ UNCHANGED <<asleep, seen, lifeVars, abort, envVars, cursorVars, callVars>>

Notify ==
  /\ pc[0] = "notify"
  /\ asleep' = {}
  /\ Goto(0, "cursor")
  /\ UNCHANGED <<seen, generation, finished, lifeVars, abort, envVars,
                 cursorVars, callVars>>

(* While it waits, the coordinator polls every 5 ms.                       *)
WaitPolls ==
  /\ pc[0] = "wait"
  /\ finished # created
  /\ Interrupted
  /\ abort' = TRUE
  /\ UNCHANGED <<pc, parkVars, lifeVars, envVars, cursorVars, callVars>>

(* Faulty variant: an aborted round does not wait for the others.          *)
WaitEndsOnAbort ==
  /\ pc[0] = "wait"
  /\ finished = created \/ abort
  /\ Goto(0, "settle")
  /\ UNCHANGED <<parkVars, lifeVars, abort, envVars, cursorVars, callVars>>

WaitEnds ==
  /\ pc[0] = "wait"
  /\ finished = created
  /\ Goto(0, "settle")
  /\ UNCHANGED <<parkVars, lifeVars, abort, envVars, cursorVars, callVars>>

Total(costs) ==
  LET t[n \in 0..Count] ==
        IF n = 0 THEN None ELSE Plus(t[n - 1], costs[n - 1])
  IN t[Count]

Remaining == Minus(budget, Total(spent))

(* Faulty variant: any round without work ends the raster.                 *)
StarvedAtOnce == Total(spent).work = 0 /\ done # Workers

(* A round that did no work is not repeated unless a cursor that waits can *)
(* now be funded.                                                          *)
Starved ==
  /\ Total(spent).work = 0
  /\ done # Workers
  /\ \A w \in Workers \ done : ~Fits(need[w], Remaining)

(* The work of the round is committed and the next round begins.  The      *)
(* budget polls the deadline only now and then.                            *)
NextRound ==
  /\ pc[0] = "settle"
  /\ failures = {} /\ ~abort /\ ~stopped
  /\ ~Starved
  /\ budget' = Remaining
  /\ Goto(0, "divide")
  /\ UNCHANGED <<parkVars, lifeVars, abort, envVars, cursorVars, batch, grant,
                 runs, limits, result>>

RoundFails ==
  /\ pc[0] = "settle"
  /\ \/ failures # {} /\ Fail("failure")
     \/ failures = {} /\ (abort \/ Interrupted) /\ Fail("interrupted")
     \/ failures = {} /\ ~abort /\ ~stopped /\ Starved /\ Fail("limit")
  /\ budget' = Remaining
  /\ UNCHANGED <<parkVars, lifeVars, abort, envVars, cursorVars, batch, grant,
                 runs, limits>>

-----------------------------------------------------------------------------
(* The coordinator: join, after a failed raster or by the destructor.      *)

Destroy ==
  /\ pc[0] = "idle"
  /\ Goto(0, "join")
  /\ UNCHANGED <<parkVars, lifeVars, abort, envVars, cursorVars, callVars>>

ShutDown ==
  /\ pc[0] = "join"
  /\ shutdown' = TRUE
  /\ abort' = TRUE
  /\ Goto(0, "wake")
  /\ UNCHANGED <<parkVars, created, envVars, cursorVars, callVars>>

WakeAll ==
  /\ pc[0] = "wake"
  /\ asleep' = {}
  /\ Goto(0, "joining")
  /\ UNCHANGED <<seen, generation, finished, lifeVars, abort, envVars,
                 cursorVars, callVars>>

Joined ==
  /\ pc[0] = "joining"
  /\ \A w \in 1..created : pc[w] = "exited"
  /\ Goto(0, "closed")
  /\ UNCHANGED <<parkVars, lifeVars, abort, envVars, cursorVars, callVars>>

-----------------------------------------------------------------------------
(* A cursor: run_raster_cursor, the coordinator's own included.            *)

Ended(w) == Goto(w, IF w = 0 THEN "wait" ELSE "report")

Unspent(w) == Minus(grant[w], spent[w])

Spends(w, cost) ==
  /\ need' = [need EXCEPT ![w] = cost]
  /\ spent' = [spent EXCEPT ![w] = Plus(@, cost)]

Passes(w) ==
  /\ left' = [left EXCEPT ![w] = @ \ {Current(w)}]
  /\ passed' = [passed EXCEPT ![Current(w)] = @ + 1]

Tagged(w) == LookupWork > 0 /\ Current(w)[2] \in boundary

(* A cell that is tagged already needs no test.                            *)
LooksUp(w) ==
  /\ pc[w] = "cursor"
  /\ left[w] # {} /\ ~pending[w]
  /\ Fits(Lookup, Unspent(w))
  /\ Spends(w, Lookup)
  /\ IF Tagged(w) THEN Passes(w) /\ UNCHANGED pending
                  ELSE /\ pending' = [pending EXCEPT ![w] = TRUE]
                       /\ UNCHANGED <<left, passed>>
  /\ UNCHANGED <<pc, parkVars, lifeVars, abort, envVars, failures, done,
                 boundary, callVars>>

Tests(w) ==
  /\ pc[w] = "cursor"
  /\ left[w] # {} /\ pending[w]
  /\ Fits(Test, Unspent(w))
  /\ Spends(w, Test)
  /\ boundary' = IF Current(w)[2] \in Touch[Current(w)[1]]
                 THEN boundary \cup {Current(w)[2]} ELSE boundary
  /\ Passes(w)
  /\ pending' = [pending EXCEPT ![w] = FALSE]
  /\ UNCHANGED <<pc, parkVars, lifeVars, abort, envVars, failures, done,
                 callVars>>

NextPrimitive(w) == IF pending[w] THEN Test ELSE Lookup

(* The grant does not fund the next primitive: the cursor keeps its place. *)
WaitsForFunds(w) ==
  /\ pc[w] = "cursor"
  /\ left[w] # {}
  /\ ~Fits(NextPrimitive(w), Unspent(w))
  /\ need' = [need EXCEPT ![w] = NextPrimitive(w)]
  /\ Ended(w)
  /\ UNCHANGED <<parkVars, lifeVars, abort, envVars, failures, left, done,
                 pending, spent, boundary, passed, callVars>>

Finishes(w) ==
  /\ pc[w] = "cursor"
  /\ left[w] = {}
  /\ done' = done \cup {w}
  /\ Ended(w)
  /\ UNCHANGED <<parkVars, lifeVars, abort, envVars, failures, left, pending,
                 need, spent, boundary, passed, callVars>>

(* The floating environment is unsupported or a cell has no interval.      *)
CursorFails(w) ==
  /\ pc[w] = "cursor"
  /\ failures' = failures \cup {w}
  /\ abort' = TRUE
  /\ Ended(w)
  /\ UNCHANGED <<parkVars, lifeVars, envVars, left, done, pending, need, spent,
                 boundary, passed, callVars>>

(* Every 128 iterations a cursor looks at the flag and the token; the      *)
(* coordinator's polls the control, too.                                   *)
Interrupts(w) ==
  /\ pc[w] = "cursor"
  /\ left[w] # {}
  /\ abort \/ stopped \/ (w = 0 /\ late)
  /\ abort' = (abort \/ (w = 0 /\ Interrupted))
  /\ Ended(w)
  /\ UNCHANGED <<parkVars, lifeVars, envVars, cursorVars, callVars>>

-----------------------------------------------------------------------------
(* A parked worker: Storage::entry.                                        *)

Sleeps(w) ==
  /\ pc[w] = "parked"
  /\ w \notin asleep
  /\ ~shutdown
  /\ generation = seen[w]
  /\ asleep' = asleep \cup {w}
  /\ UNCHANGED <<pc, seen, generation, finished, lifeVars, abort, envVars,
                 cursorVars, callVars>>

Takes(w) ==
  /\ pc[w] = "parked"
  /\ w \notin asleep
  /\ ~shutdown
  /\ generation # seen[w]
  /\ seen' = [seen EXCEPT ![w] = generation]
  /\ Goto(w, "cursor")
  /\ UNCHANGED <<asleep, generation, finished, lifeVars, abort, envVars,
                 cursorVars, callVars>>

Reports(w) ==
  /\ pc[w] = "report"
  /\ finished' = finished + 1
  /\ Goto(w, "parked")
  /\ UNCHANGED <<asleep, seen, generation, lifeVars, abort, envVars,
                 cursorVars, callVars>>

Exits(w) ==
  /\ pc[w] = "parked"
  /\ w \notin asleep
  /\ shutdown
  /\ Goto(w, "exited")
  /\ UNCHANGED <<parkVars, lifeVars, abort, envVars, cursorVars, callVars>>

-----------------------------------------------------------------------------
(* The rest of the program.                                                *)

Stop ==
  /\ stopped' = TRUE
  /\ UNCHANGED <<pc, parkVars, lifeVars, abort, late, cursorVars, callVars>>

Expire ==
  /\ late' = TRUE
  /\ UNCHANGED <<pc, parkVars, lifeVars, abort, stopped, cursorVars, callVars>>

-----------------------------------------------------------------------------
Init ==
  /\ pc = [w \in Workers |-> IF w = 0 THEN "create" ELSE "unborn"]
  /\ asleep = {}
  /\ seen = [w \in Peers |-> 0]
  /\ generation = 0
  /\ finished = 0
  /\ created = 0
  /\ shutdown = FALSE
  /\ abort = FALSE
  /\ stopped = FALSE /\ late = FALSE
  /\ failures = {}
  /\ batch = 0
  /\ left = [w \in Workers |-> {}]
  /\ done = {}
  /\ pending = [w \in Workers |-> FALSE]
  /\ need = [w \in Workers |-> None]
  /\ grant = [w \in Workers |-> None]
  /\ spent = [w \in Workers |-> None]
  /\ budget = None
  /\ boundary = {}
  /\ runs = 0
  /\ limits = None
  /\ result = "none"
  /\ passed = [i \in Items |-> 0]

Construction == Create \/ Created \/ StartFails

Running ==
  \/ Prepare \/ PrepareFails \/ Succeeds \/ Divide \/ BatchDone \/ Dispatch
  \/ Notify \/ WaitPolls \/ WaitEnds \/ NextRound \/ RoundFails

Joining == ShutDown \/ WakeAll \/ Joined

Cursor(w) ==
  \/ LooksUp(w) \/ Tests(w) \/ WaitsForFunds(w) \/ Finishes(w)
  \/ CursorFails(w) \/ Interrupts(w)

Entry(w) == Sleeps(w) \/ Takes(w) \/ Reports(w) \/ Exits(w)

Next ==
  \/ Construction \/ Begin \/ Running \/ Destroy \/ Joining
  \/ \E w \in Workers : Cursor(w)
  \/ \E w \in Peers : Entry(w)
  \/ Stop \/ Expire

Spec == Init /\ [][Next]_vars

(* Every thread is scheduled.                                              *)
Fairness ==
  /\ WF_vars(Running)
  /\ WF_vars(Joining)
  /\ \A w \in Workers : WF_vars(Cursor(w))
  /\ \A w \in Peers : WF_vars(Entry(w))

FairSpec == Spec /\ Fairness
-----------------------------------------------------------------------------
TypeOK ==
  /\ pc \in [Workers -> {"unborn", "create", "idle", "prepare", "divide",
                         "dispatch", "notify", "cursor", "wait", "settle",
                         "report", "parked", "join", "wake", "joining",
                         "closed", "exited"}]
  /\ asleep \subseteq Peers
  /\ seen \in [Peers -> 0..Generations - 1]
  /\ generation \in 0..Generations - 1
  /\ finished \in 0..Count - 1 /\ created \in 0..Count - 1
  /\ {shutdown, abort, stopped, late} \subseteq BOOLEAN
  /\ failures \subseteq Workers /\ done \subseteq Workers
  /\ batch \in Nat /\ runs \in 0..MaxRuns
  /\ left \in [Workers -> SUBSET Items]
  /\ pending \in [Workers -> BOOLEAN]
  /\ {need, grant, spent} \subseteq [Workers -> [work : Nat, visits : Nat]]
  /\ {budget, limits} \subseteq [work : Nat, visits : Nat]
  /\ boundary \subseteq Cells
  /\ result \in {"none", "success", "failure", "interrupted", "limit"}
  /\ passed \in [Items -> Nat]

(* However the threads interleave, what a round has spent so far never     *)
(* exceeds what the budget had left: the commit after the round cannot be  *)
(* refused, and no cursor looks at a cell past the cap on visits.          *)
NeverOverspends ==
  pc[0] \in {"notify", "cursor", "wait", "settle"} =>
    Fits(Total(spent), budget)

(* What a raster by one thread would need.                                 *)
TestsNeeded ==
  {i \in Items : LookupWork = 0 \/
     \A j \in Items : j[2] = i[2] /\ j[1] < i[1] => i[2] \notin Touch[j[1]]}

SerialNeed ==
  Cost(FaceWork * Cardinality(Faces) + LookupWork * Cardinality(Items)
         + TestWork * Cardinality(TestsNeeded),
       Cardinality(Items))

(* Dividing the work strands none of it: a raster that is not interrupted  *)
(* succeeds exactly when a raster by one thread would, at the same cost.   *)
CapsAreExact ==
  pc[0] \in {"idle", "join"} =>
    /\ result = "success" => Minus(limits, budget) = SerialNeed
    /\ result = "limit" => ~Fits(SerialNeed, limits)

(* Every raster returns: a round that cannot be funded is not repeated for *)
(* ever, no wake-up is lost, and a failed team can be joined.              *)
RasterReturns == pc[0] = "prepare" ~> pc[0] \in {"idle", "closed"}

(* The team is a fork-join of the items: a raster succeeds only when every *)
(* item was passed once, none is passed outside a raster, and none is      *)
(* after one failed.                                                       *)
CallPhase ==
  CASE pc[0] \in {"create", "idle"} -> "idle"
    [] pc[0] \in {"join", "wake", "joining", "closed"} -> "closed"
    [] OTHER -> "busy"

Abstract == INSTANCE ForkJoin WITH Lines <- Items, phase <- CallPhase,
                                   times <- passed

RasterIsForkJoin == Abstract!Spec
=============================================================================
