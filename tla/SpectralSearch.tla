------------------------------ MODULE SpectralSearch ------------------------------
(* The whole search of one run (pack_solver/src/spectral.cpp,                  *)
(* run_with_catalog): after the grid, the stagger and the layout searches, two *)
(* trials -- one from nothing, one from the layout that was kept -- add copies *)
(* one at a time, first where the correlation of the orientation with the      *)
(* layout is zero, page by page over all orientations, then at the faces of    *)
(* the copies, then where the overlap is low.  The trials have a private       *)
(* incumbent, the first thing offered to it is the layout that was kept.       *)
EXTENDS SpectralWorkspace

VARIABLES retained,   \* what was kept when the trials began: none or one
          inc,        \* the trials' incumbent: none or one
          trial       \* the trial's progress

spectralVars == <<workspaceVars, retained, inc, trial>>

(* pages: what is left of each orientation's page; cursors: its last candidate *)
(* looked at; exhausted: it has no further page; next: where the search for a  *)
(* page begins; deferred: a page was put off; faces: the face poses of an      *)
(* orientation that are still to try.                                          *)
FreshTrial(which) ==
  [which |-> which, step |-> "open", deferred |-> FALSE, next |-> 1, faces |-> <<>>,
   pages |-> [o \in Orientations |-> <<>>], cursors |-> [o \in Orientations |-> {}],
   exhausted |-> {}]

SearchInit ==
  /\ WorkspaceInit
  /\ retained = {} /\ inc = {} /\ trial = FreshTrial(1)

Count == Cardinality(Orientations)

Stepped(step) == [trial EXCEPT !.step = step]

InTrial(step) == phase = "trial" /\ trial.step = step

(* What no step of the trials touches, and what most of them leave. *)
fixed == <<scene, halted, grid, plan, turn, comp, fill>>

outcomeVars == <<phase, best, kept, reason, known, deferred, shown, inc>>

-----------------------------------------------------------------------------
(* Caps *)

(* A timed run that goes on renews a cap it has reached by its first quantum.  *)
Renewed(name) ==
  IF scene.timed /\ ~halted /\ used[name] >= caps[name]
  THEN [caps EXCEPT ![name] = used[name] + scene.caps[name]] ELSE caps

Spent(name) == used[name] >= Renewed(name)[name]

(* What was kept is the incumbent's, or what there was before the trials. *)
Latest == IF inc = {} THEN retained ELSE {b.layout : b \in inc}

Stop(why) ==
  /\ best' = inc
  /\ kept' = Latest
  /\ End("done", why, FALSE)
  /\ UNCHANGED <<shown, deferred, inc>>

-----------------------------------------------------------------------------
(* Entry *)

(* The run may be refused before anything else: its threads, its catalog of    *)
(* orientations, or the memory its inputs hold already.  It keeps what it got. *)
RunRefused ==
  /\ phase = "start" /\ ~halted
  /\ Fault
  /\ \E why \in {"resource", "error"} : End("done", why, FALSE)
  /\ UNCHANGED <<fixed, best, kept, deferred, used, caps, shown, working, ws, build, threads,
                 retained, inc, trial>>

(* A timed run in a box that has a copy ends here, with the reason its last    *)
(* layout search left.  The fixed buffers may not be admitted: a timed run     *)
(* tries fewer threads first, unless it is stopped, then publishes its best    *)
(* once more and ends.  Also what is resident already may leave no room.       *)
EnterTrials ==
  /\ phase = "entry"
  /\ retained' = IF best # {} THEN {b.layout : b \in best} ELSE kept
  /\ IF scene.timed /\ scene.box /\ BestCount > 0
     THEN /\ phase' = "done"
          /\ UNCHANGED <<kept, reason, known, caps, faults, threads, trial>>
     ELSE LET granted == [Renewed("evals") EXCEPT !.passes = Renewed("passes").passes]
          IN /\ caps' = granted
             /\ IF used.evals >= granted.evals \/ used.passes >= granted.passes
                THEN End("done", "budget", FALSE) /\ UNCHANGED <<kept, faults, threads, trial>>
                ELSE \/ /\ phase' = "trial" /\ trial' = Stepped("retained")
                        /\ UNCHANGED <<kept, reason, known, faults, threads>>
                     \/ /\ Fault /\ scene.timed /\ ~halted
                        /\ threads' \in Admissions \ {0}
                        /\ phase' = "trial" /\ trial' = Stepped("retained")
                        /\ UNCHANGED <<kept, reason, known>>
                     \/ /\ Fault
                        /\ \/ End("done", "resource", FALSE)
                           \/ best # {} /\ End("done", "error", FALSE)
                           \/ /\ halted /\ scene.timed /\ threads > 1
                              /\ End("done", "interrupted", FALSE)
                        /\ kept' \in {kept, retained'}
                        /\ UNCHANGED <<threads, trial>>
  /\ UNCHANGED <<fixed, best, deferred, used, shown, working, ws, build, inc>>

(* An offer to the trials' incumbent.  A score that a timed run may put off    *)
(* does not end it.                                                            *)
OfferTrial(layout, next) ==
  \E issue \in Issues :
    /\ Offer(inc, layout, issue)
    /\ inc' = IF Takes(inc, layout, issue # "scoring") THEN best' ELSE inc
    /\ \/ issue = "none" /\ trial' = next /\ Going /\ UNCHANGED deferred
       \/ /\ issue = "scoring" /\ scene.timed
          /\ Defer /\ trial' = next /\ UNCHANGED phase
       \/ issue = "scoring" /\ End("done", "resource", FALSE) /\ UNCHANGED <<trial, deferred>>
       \/ issue # "none" /\ End("done", "error", FALSE) /\ UNCHANGED <<trial, deferred>>

(* Faulty variant: the trials begin with an empty incumbent. *)
RetainedNotOffered ==
  /\ InTrial("retained") /\ ~halted
  /\ trial' = Stepped("empty")
  /\ UNCHANGED <<fixed, outcomeVars, faults, used, caps, working, ws, build, threads, retained>>

OfferRetained ==
  /\ InTrial("retained") /\ ~halted
  /\ IF retained = {} THEN trial' = Stepped("empty") /\ UNCHANGED <<outcomeVars, faults>>
     ELSE \E layout \in retained : OfferTrial(layout, Stepped("empty"))
  /\ UNCHANGED <<fixed, used, caps, working, ws, build, threads, retained>>

(* The empty layout is validated; it counts as a result when there is none.    *)
EmptyStart ==
  /\ InTrial("empty") /\ ~halted
  /\ \/ /\ working' = {}
        /\ IF retained = {} THEN OfferTrial({}, FreshTrial(1))
           ELSE trial' = FreshTrial(1) /\ UNCHANGED <<outcomeVars, faults>>
     \/ /\ Fault
        /\ \E why \in {"resource", "error"} : Stop(why)
        /\ UNCHANGED <<working, trial>>
  /\ UNCHANGED <<fixed, used, caps, ws, build, threads, retained>>

-----------------------------------------------------------------------------
(* A round of a trial: it ends with a copy more, and the next begins with new  *)
(* pages.                                                                      *)
OpenRound ==
  /\ InTrial("open") /\ ~halted
  /\ IF Cardinality(working) >= scene.copies
     THEN Stop("budget") /\ UNCHANGED trial
     ELSE trial' = [FreshTrial(trial.which) EXCEPT !.step = "ordinary"] /\ UNCHANGED outcomeVars
  /\ UNCHANGED <<fixed, faults, used, caps, working, ws, build, threads, retained>>

(* What the native validation of a proposal may come to.  A timed run raises   *)
(* the work caps twice before it is left with a denial of work.                *)
Verdicts(pose) == {IF CanAdd(working, pose) THEN "valid" ELSE "rejected", "work", "denied"}

(* One proposal: the working layout with one pose more, validated natively.    *)
(* The trial goes on from it even when the incumbent does not take it.  `rest` *)
(* is the trial after a rejection.  Only a timed run puts off what it could    *)
(* not afford.                                                                 *)
TryPose(pose, refinement, rest) ==
  /\ Use(1, 0, IF refinement THEN 1 ELSE 0)
  /\ caps' = IF refinement THEN [Renewed("evals") EXCEPT !.refine = Renewed("refine").refine]
             ELSE Renewed("evals")
  /\ \E judged \in Verdicts(pose) :
       \/ /\ judged = "valid"
          /\ working' = working \cup {pose}
          /\ OfferTrial(working', [trial EXCEPT !.step = "open"])
       \/ /\ judged = "rejected"
          /\ trial' = rest
          /\ UNCHANGED <<working, outcomeVars, faults>>
       \/ /\ judged = "work" /\ scene.timed
          /\ Fault /\ Defer /\ trial' = rest
          /\ UNCHANGED <<working, phase, best, kept, shown, inc>>
       \/ /\ judged \in {"work", "denied"}
          /\ Fault
          /\ Stop("resource") \/ (judged = "denied" /\ Stop("error"))
          /\ UNCHANGED <<working, trial>>

-----------------------------------------------------------------------------
(* Ordinary pages *)

Ready == {o \in Orientations : trial.pages[o] # <<>>}

(* The orientations whose page is used up and may have another one, in the     *)
(* order they are asked; a timed run asks for one page at a time, in turn.     *)
Wanted ==
  LET open == {o \in Orientations \ Ready : o \notin trial.exhausted}
      rank(o) == IF scene.timed THEN (o - trial.next) % Count ELSE o
  IN IF scene.timed /\ Ready # {} THEN {}
     ELSE {o \in open : \A q \in open : rank(o) <= rank(q)}

LoadPage ==
  /\ InTrial("ordinary") /\ ~halted /\ build.step = "idle"
  /\ ~Spent("evals")
  /\ \E o \in Wanted :
       build' = [NoBuild EXCEPT !.step = "enter", !.o = o, !.cursor = trial.cursors[o]]
  /\ caps' = Renewed("evals")
  /\ UNCHANGED <<fixed, outcomeVars, faults, used, working, ws, threads, retained, trial>>

(* Faulty variant: an orientation is done with its first page. *)
TakeOnlyPage ==
  /\ InTrial("ordinary") /\ ~halted /\ build.step = "ready"
  /\ trial' = [trial EXCEPT !.pages[build.o] = build.page,
                            !.exhausted = @ \cup {build.o},
                            !.next = (build.o % Count) + 1]
  /\ build' = NoBuild
  /\ UNCHANGED <<fixed, outcomeVars, faults, used, caps, working, ws, threads, retained>>

(* Faulty variant: an empty page leaves its orientation open. *)
TakeEmptyPage ==
  /\ InTrial("ordinary") /\ ~halted /\ build.step = "ready"
  /\ trial' = [trial EXCEPT !.pages[build.o] = build.page, !.next = (build.o % Count) + 1]
  /\ build' = NoBuild
  /\ UNCHANGED <<fixed, outcomeVars, faults, used, caps, working, ws, threads, retained>>

(* An empty page exhausts its orientation. *)
TakePage ==
  /\ InTrial("ordinary") /\ ~halted /\ build.step = "ready"
  /\ trial' = IF build.page = <<>>
              THEN [trial EXCEPT !.exhausted = @ \cup {build.o}]
              ELSE [trial EXCEPT !.pages[build.o] = build.page, !.next = (build.o % Count) + 1]
  /\ build' = NoBuild
  /\ UNCHANGED <<fixed, outcomeVars, faults, used, caps, working, ws, threads, retained>>

(* A page that was refused: a timed run puts it off and asks no more of the    *)
(* orientation in this round, any other ends.                                  *)
Refused(rest) ==
  /\ ~halted /\ build.step = "refused"
  /\ IF scene.timed /\ build.denial # "error"
     THEN trial' = rest /\ UNCHANGED outcomeVars
     ELSE /\ Stop(IF build.denial = "error" THEN "error" ELSE "resource")
          /\ UNCHANGED trial
  /\ build' = NoBuild
  /\ UNCHANGED <<fixed, faults, used, caps, working, ws, threads, retained>>

PageRefused ==
  /\ InTrial("ordinary")
  /\ Refused([trial EXCEPT !.exhausted = @ \cup {build.o}, !.deferred = TRUE])

(* The best of the pages' heads in an order. *)
FirstHead(mode) ==
  CHOOSE o \in Ready : \A q \in Ready \ {o} : Less(mode, Head(trial.pages[o]), Head(trial.pages[q]))

Choose ==
  /\ InTrial("ordinary") /\ ~halted /\ build.step = "idle"
  /\ Ready # {} /\ Wanted = {} /\ ~Spent("evals")
  /\ LET o == FirstHead("ordinary")
         c == Head(trial.pages[o])
         rest == [trial EXCEPT !.pages[o] = Tail(@), !.cursors[o] = {c}]
     IN IF c.direct THEN TryPose(At(c.o, c.t), FALSE, rest)
        ELSE /\ trial' = rest
             /\ UNCHANGED <<outcomeVars, faults, used, caps, working>>
  /\ UNCHANGED <<fixed, ws, build, threads, retained>>

(* Nothing is left of the lattice: without refinement the round is the last.   *)
LatticeDone ==
  /\ InTrial("ordinary") /\ ~halted /\ build.step = "idle"
  /\ Ready = {} /\ Wanted = {} /\ ~Spent("evals")
  /\ IF scene.caps.refine = 0
     THEN Use(0, 1, 0) /\ trial' = Stepped("finish") /\ UNCHANGED caps
     ELSE /\ ~Spent("refine")
          /\ caps' = Renewed("refine")
          /\ trial' = [trial EXCEPT !.step = "query", !.next = 1]
          /\ UNCHANGED used
  /\ UNCHANGED <<fixed, outcomeVars, faults, working, ws, build, threads, retained>>

-----------------------------------------------------------------------------
(* Faces *)

(* Against either wall and against either side of every copy, low first. *)
Faces(o) ==
  LET last == Length - Width(o)
      touching == {0, last} \cup {q[2] + Width(q[1]) : q \in working}
                            \cup {q[2] - Width(o) : q \in working}
  IN Sorted({<<o, x>> : x \in touching \cap 0..last}, LAMBDA p, q : p[2] < q[2])

(* The bounds of the next orientation and of the copies are queried. *)
QueryFaces ==
  /\ InTrial("query") /\ ~halted
  /\ LET skip == [trial EXCEPT !.next = @ + 1]
     IN IF trial.next > Count
        THEN /\ trial' = [trial EXCEPT !.step = "low", !.next = 1]
             /\ UNCHANGED <<outcomeVars, faults>>
        ELSE \/ /\ trial' = [trial EXCEPT !.step = "faces", !.faces = Faces(trial.next)]
                /\ UNCHANGED <<outcomeVars, faults>>
             \/ /\ Fault /\ scene.timed
                /\ Defer /\ trial' = skip
                /\ UNCHANGED <<phase, best, kept, shown, inc>>
             \/ /\ Fault
                /\ \E why \in {"resource", "error"} : Stop(why)
                /\ UNCHANGED trial
  /\ UNCHANGED <<fixed, used, caps, working, ws, build, threads, retained>>

TryFace ==
  /\ InTrial("faces") /\ ~halted
  /\ IF trial.faces = <<>>
     THEN /\ trial' = [trial EXCEPT !.step = "query", !.next = @ + 1]
          /\ UNCHANGED <<outcomeVars, faults, used, caps, working>>
     ELSE /\ ~Spent("evals") /\ ~Spent("refine")
          /\ TryPose(Head(trial.faces), TRUE, [trial EXCEPT !.faces = Tail(@)])
  /\ UNCHANGED <<fixed, ws, build, threads, retained>>

-----------------------------------------------------------------------------
(* Low overlap: one page of each orientation *)

LowWanted == trial.next <= Count /\ ~(scene.timed /\ Ready # {})

LoadLow ==
  /\ InTrial("low") /\ ~halted /\ build.step = "idle" /\ LowWanted
  /\ build' = [NoBuild EXCEPT !.step = "enter", !.o = trial.next, !.mode = "low"]
  /\ UNCHANGED <<fixed, outcomeVars, faults, used, caps, working, ws, threads, retained, trial>>

TakeLow ==
  /\ InTrial("low") /\ ~halted /\ build.step = "ready"
  /\ trial' = [trial EXCEPT !.pages[build.o] = build.page, !.next = @ + 1]
  /\ build' = NoBuild
  /\ UNCHANGED <<fixed, outcomeVars, faults, used, caps, working, ws, threads, retained>>

LowRefused ==
  /\ InTrial("low")
  /\ Refused([trial EXCEPT !.next = @ + 1, !.deferred = TRUE])

TryLow ==
  /\ InTrial("low") /\ ~halted /\ build.step = "idle" /\ ~LowWanted
  /\ Ready # {} /\ ~Spent("evals") /\ ~Spent("refine")
  /\ LET o == FirstHead("low")
         c == Head(trial.pages[o])
     IN TryPose(At(c.o, c.t), TRUE, [trial EXCEPT !.pages[o] = Tail(@)])
  /\ UNCHANGED <<fixed, ws, build, threads, retained>>

LowDone ==
  /\ InTrial("low") /\ ~halted /\ build.step = "idle"
  /\ Ready = {} /\ ~LowWanted
  /\ Use(0, 1, 0)
  /\ trial' = Stepped("finish")
  /\ UNCHANGED <<fixed, outcomeVars, faults, caps, working, ws, build, threads, retained>>

-----------------------------------------------------------------------------
(* Ends *)

(* A cap that is not renewed, also one a stop request forbids to renew. *)
OutOfBudget ==
  /\ phase = "trial" /\ build.step = "idle"
  /\ \/ trial.step = "ordinary" /\ Spent("evals")
     \/ /\ trial.step = "ordinary" /\ Ready = {} /\ Wanted = {}
        /\ scene.caps.refine # 0 /\ Spent("refine")
     \/ /\ trial.step = "faces" /\ trial.faces # <<>>
        /\ Spent("evals") \/ Spent("refine")
     \/ /\ trial.step = "low" /\ ~LowWanted /\ Ready # {}
        /\ Spent("evals") \/ Spent("refine")
  /\ Stop("budget")
  /\ UNCHANGED <<fixed, faults, used, caps, working, ws, build, threads, retained, trial>>

(* A trial with pages put off has failed.  After the first one the layout that *)
(* was kept is tried too; then the proposals are exhausted.                    *)
TrialDone ==
  /\ InTrial("finish")
  /\ IF trial.deferred
     THEN Stop("resource") /\ UNCHANGED <<caps, working, trial>>
     ELSE LET renewed == IF trial.which = 1 THEN Renewed("passes") ELSE caps
          IN /\ caps' = renewed
             /\ IF /\ trial.which = 1 /\ retained # {}
                   /\ used.passes < renewed.passes /\ used.evals < renewed.evals
                THEN /\ \E layout \in retained : working' = layout
                     /\ trial' = FreshTrial(2)
                     /\ UNCHANGED outcomeVars
                ELSE /\ best' = inc
                     /\ kept' = IF inc = {} THEN kept ELSE {b.layout : b \in inc}
                     /\ End("done",
                            CASE deferred -> "resource"
                              [] ~deferred /\ used.evals >= renewed.evals -> "budget"
                              [] OTHER -> "stalled",
                            FALSE)
                     /\ UNCHANGED <<deferred, shown, inc, working, trial>>
  /\ UNCHANGED <<fixed, faults, used, ws, build, threads, retained>>

Interrupted ==
  /\ halted /\ phase = "trial" /\ trial.step # "finish"
  /\ Stop("interrupted")
  /\ UNCHANGED <<fixed, faults, used, caps, working, ws, build, threads, retained, trial>>

(* Storage that cannot be had, or anything else that is thrown: the trial is   *)
(* left as it stands, with the best it has published.                          *)
TrialThrows ==
  /\ phase = "trial"
  /\ Fault
  /\ kept' = Latest
  /\ \E why \in {"resource", "error"} : End("done", why, FALSE)
  /\ UNCHANGED <<fixed, best, deferred, shown, used, caps, working, ws, build, threads,
                 retained, inc, trial>>

SpectralStep ==
  \/ RunRefused \/ EnterTrials \/ OfferRetained \/ EmptyStart \/ OpenRound
  \/ LoadPage \/ TakePage \/ PageRefused \/ Choose \/ LatticeDone
  \/ QueryFaces \/ TryFace
  \/ LoadLow \/ TakeLow \/ LowRefused \/ TryLow \/ LowDone
  \/ OutOfBudget \/ TrialDone \/ Interrupted \/ TrialThrows

(* The search is one thread; its caller may ask it to stop at any time. *)
Step ==
  \/ LayoutStep /\ UNCHANGED <<working, ws, build, threads, retained, inc, trial>>
  \/ BuildStep /\ UNCHANGED <<retained, inc, trial>>
  \/ SpectralStep

Stopping ==
  Halt /\ UNCHANGED <<grid, plan, turn, comp, fill, working, ws, build, threads, retained,
                      inc, trial>>

SearchNext == Step \/ Stopping

SearchSpec == SearchInit /\ [][SearchNext]_spectralVars

(* The thread that runs the search goes on; nobody has to stop it. *)
FairSpec == SearchSpec /\ WF_spectralVars(Step)

-----------------------------------------------------------------------------
(* A trial that ends with nothing put off has really tried everything: no      *)
(* translation of the lattice where the voxels are free takes another copy,    *)
(* and, with refinement, no face does, however the candidates were cut into    *)
(* pages and cursors and whatever the workspace went through (run_trial).      *)
TrialMaximal ==
  InTrial("finish") /\ ~trial.deferred /\ ~deferred =>
    \A o \in Orientations :
      /\ \A t \in Translations(o) : Overlap(working, o, t) = 0 => ~CanAdd(working, At(o, t))
      /\ scene.caps.refine # 0 => \A p \in ToSet(Faces(o)) : ~CanAdd(working, p)

(* Through all its incumbents, the run never falls behind what it has shown or *)
(* was given: the layout it retains, which is what is exported, has as many    *)
(* copies as the largest published one and as the initial one, also when a     *)
(* denial, the observer or a stop ends the run between two incumbents; and the *)
(* snapshot it returns, if any, is that layout's.                              *)
BestKept ==
  /\ shown > 0 => \E k \in kept : Cardinality(k) >= shown
  /\ \A l \in scene.initial : \E k \in kept : Cardinality(k) >= Cardinality(l)
  /\ phase = "done" => \A b \in best : kept = {b.layout}

(* The search returns: pages, recoveries, renewed caps and rounds all come to  *)
(* an end, also when nobody stops it.                                          *)
SearchReturns == <>(phase = "done")

=============================================================================
