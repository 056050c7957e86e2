---------------------------- MODULE SpectralWorkspace ----------------------------
(* How a page of ranked candidates is built (pack_solver/src/                  *)
(* spectral_pipeline.cpp, build_spectral_pipeline) and built again after a     *)
(* denial (spectral.cpp, run_page).  The workspace keeps what is costly from   *)
(* one page to the next: the voxels of a layout, the fields of the last two    *)
(* orientations and the binary and proximity correlations of the last one.     *)
(* What is current is decided by comparing revisions and rotations, so the     *)
(* model records for each correlation what it really was computed from.        *)
EXTENDS LayoutSearch

CONSTANTS PageSize,   \* candidates of a page (32 in the code)
          Grants      \* times the work caps are raised for one page (2)

ASSUME WorkspaceAssumption == PageSize \in Nat \ {0} /\ Grants \in Nat

VARIABLES working,   \* the layout the trial extends
          ws,        \* the workspace
          build,     \* the page under construction
          threads    \* the worker threads of the fields and correlations

workspaceVars == <<layoutVars, working, ws, build, threads>>

(* layout: the voxelized layout, none at first; binary, ranked: the layout and *)
(* orientation each correlation was computed from, none or one; fresh: whether *)
(* correlation_revision is the layout's; rotation: correlation_rotation;       *)
(* kernels: the two cached orientation fields, 0 for none.                     *)
NoWorkspace == [layout |-> {}, binary |-> {}, ranked |-> {}, fresh |-> FALSE,
                rotation |-> 0, kernels |-> <<0, 0>>]

NoBuild == [step |-> "idle", o |-> 0, mode |-> "ordinary", cursor |-> {}, page |-> <<>>,
            grants |-> 0, evicted |-> FALSE, reduced |-> FALSE, denial |-> "none"]

WorkspaceInit ==
  /\ LayoutInit
  /\ working = {} /\ ws = NoWorkspace /\ build = NoBuild
  /\ threads = scene.threads

-----------------------------------------------------------------------------
(* Ranking *)

(* Low positions first, then copies close to what is placed; a smaller score   *)
(* is better.  The proximity comes from the ranked correlation.                *)
Score(layout, o, t) ==
  LET taken == Occupied(layout)
  IN 2 * (t * Pitch + Width(o))
       - Cardinality({k \in Kernel(o) : k + t - 1 \in taken \/ k + t + 1 \in taken})

RankLess(a, b) ==
  \/ a.score < b.score
  \/ a.score = b.score /\ a.o < b.o
  \/ a.score = b.score /\ a.o = b.o /\ a.t < b.t

RefinementLess(a, b) ==
  a.overlap < b.overlap \/ (a.overlap = b.overlap /\ RankLess(a, b))

Less(mode, a, b) == IF mode = "ordinary" THEN RankLess(a, b) ELSE RefinementLess(a, b)

(* The page of an orientation after a cursor: the binary and the proximity     *)
(* correlation decide what is listed and where, the voxels and the orientation *)
(* field recheck the ordinary candidates.                                      *)
Page(o, mode, cursor, binary, ranked, kernel, layout) ==
  LET overlap == Correlation(binary.layout, binary.o)
      listed == {[o |-> o, t |-> t,
                  score |-> Score(ranked.layout, ranked.o, t),
                  overlap |-> overlap[t],
                  direct |-> mode = "ordinary" /\ Overlap(layout, kernel, t) = 0] :
                   t \in Translations(kernel)}
      after == {c \in listed : /\ mode = "ordinary" => c.overlap = 0
                               /\ \A last \in cursor : Less(mode, last, c)}
      sorted == Sorted(after, LAMBDA a, b : Less(mode, a, b))
  IN SubSeq(sorted, 1, Min({PageSize, Len(sorted)}))

-----------------------------------------------------------------------------
(* The stages *)

Building(step) == build.step = step /\ phase = "trial" /\ ~halted

(* A denial: work a grant may raise, memory that eviction or fewer threads may *)
(* free, a structural limit, or an error that no timed run defers.             *)
Deny(kind) ==
  /\ Fault
  /\ build' = [build EXCEPT !.step = "denied", !.denial = kind]

Denials == {"work", "memory", "structural", "error"}

(* What the admission of fewer threads may find: the largest smaller number of *)
(* them whose fields and transforms fit, 0 when even one does not.             *)
Admissions == 0..(threads - 1)

buildLeaves == <<scene, halted, phase, best, kept, reason, known, deferred, used, caps,
                 shown, grid, plan, turn, comp, fill, working>>

(* A sample of the host's memory that fails is an error; a window, or the      *)
(* memory that is resident already, beyond the limits is structural.           *)
BuildEnter ==
  /\ Building("enter")
  /\ \/ build' = [build EXCEPT !.step = "layout"] /\ UNCHANGED faults
     \/ \E kind \in {"structural", "error"} : Deny(kind)
  /\ UNCHANGED <<buildLeaves, ws, threads>>

(* The layout's voxels: staged on a clone and published by swaps, so a denial  *)
(* leaves the old ones.                                                        *)
BuildLayout ==
  /\ Building("layout")
  /\ \/ /\ ws' = IF ws.layout = {working} THEN ws
                 ELSE [ws EXCEPT !.layout = {working}, !.binary = {}, !.ranked = {},
                                 !.fresh = FALSE]
        /\ build' = [build EXCEPT !.step = "kernel"]
        /\ UNCHANGED faults
     \/ (\E kind \in Denials : Deny(kind)) /\ UNCHANGED ws
  /\ UNCHANGED <<buildLeaves, threads>>

(* Faulty variant: the rotation of the kept correlation is not compared. *)
CurrentAnyRotation(o) ==
  /\ ws.binary # {} /\ ws.fresh
  /\ scene.timed \/ ws.ranked # {}

(* The binary correlation is the one this page needs. *)
CurrentBinary(o) ==
  /\ ws.binary # {} /\ ws.fresh
  /\ scene.timed \/ ws.ranked # {}
  /\ ws.rotation = o

(* Correlations that are not current go first; then the orientation's field,   *)
(* from the cache or voxelized in the slot that was emptied for it.            *)
BuildKernel ==
  /\ Building("kernel")
  /\ LET current == IF CurrentBinary(build.o) THEN ws
                  ELSE [ws EXCEPT !.binary = {}, !.ranked = {}, !.fresh = FALSE]
         hit == \E i \in 1..2 : ws.kernels[i] = build.o
         other == IF ws.kernels[1] = build.o THEN ws.kernels[2] ELSE ws.kernels[1]
     IN \/ /\ ws' = [current EXCEPT !.kernels = <<build.o, other>>]
           /\ build' = [build EXCEPT !.step = "binary"]
           /\ UNCHANGED faults
        \/ /\ ~hit
           /\ \E kind \in Denials : Deny(kind)
           /\ ws' = [current EXCEPT !.kernels[2] = 0]
  /\ UNCHANGED <<buildLeaves, threads>>

Correlated == {[layout |-> UNION ws.layout, o |-> build.o]}

BuildBinary ==
  /\ Building("binary")
  /\ \/ /\ ws' = IF ws.binary # {} THEN ws
                 ELSE [ws EXCEPT !.binary = Correlated, !.fresh = TRUE, !.rotation = build.o]
        /\ build' = [build EXCEPT !.step = "ranked"]
        /\ UNCHANGED faults
     \/ /\ ws.binary = {}
        /\ \E kind \in Denials : Deny(kind)
        /\ UNCHANGED ws
  /\ UNCHANGED <<buildLeaves, threads>>

BuildRanked ==
  /\ Building("ranked")
  /\ \/ /\ ws' = IF ws.ranked # {} THEN ws ELSE [ws EXCEPT !.ranked = Correlated]
        /\ build' = [build EXCEPT !.step = "page"]
        /\ UNCHANGED faults
     \/ /\ ws.ranked = {}
        /\ \E kind \in Denials : Deny(kind)
        /\ UNCHANGED ws
  /\ UNCHANGED <<buildLeaves, threads>>

(* A kernel wider than the container has no translation: an empty page. *)
BuildPage ==
  /\ Building("page")
  /\ \/ /\ build' = [build EXCEPT !.step = "ready",
                       !.page = Page(build.o, build.mode, build.cursor,
                                     CHOOSE b \in ws.binary : TRUE,
                                     CHOOSE r \in ws.ranked : TRUE,
                                     ws.kernels[1], UNION ws.layout)]
        /\ UNCHANGED faults
     \/ \E kind \in Denials : Deny(kind)
  /\ UNCHANGED <<buildLeaves, ws, threads>>

-----------------------------------------------------------------------------
(* Recovery *)

Released == [ws EXCEPT !.ranked = {}, !.kernels[2] = 0]

Again == [build EXCEPT !.step = "enter", !.denial = "none"]

(* A timed run raises the work caps, drops what it can build again, or goes on *)
(* with fewer threads, each a bounded number of times per page, and builds the *)
(* page again from its start.  Eviction may have nothing to free; fewer        *)
(* threads may not be admitted either.                                         *)
Recover ==
  /\ Building("denied") /\ scene.timed
  /\ \/ /\ build.denial = "work" /\ build.grants < Grants
        /\ build' = [Again EXCEPT !.grants = @ + 1]
        /\ UNCHANGED <<ws, threads>>
     \/ /\ build.denial = "memory" /\ ~build.evicted
        /\ ws' = Released
        /\ build' = [Again EXCEPT !.evicted = TRUE]
        /\ UNCHANGED threads
     \/ /\ build.denial = "memory" /\ ~build.reduced /\ threads > 1
        /\ build.evicted \/ Released = ws
        /\ ws' = Released /\ threads' \in Admissions \ {0}
        /\ build' = [Again EXCEPT !.evicted = TRUE, !.reduced = TRUE]
  /\ UNCHANGED <<buildLeaves, faults>>

(* Nothing more is tried for this page. *)
GiveUp ==
  /\ Building("denied")
  /\ \/ ~scene.timed
     \/ build.denial \in {"structural", "error"}
     \/ build.denial = "work" /\ build.grants = Grants
     \/ build.denial = "memory" /\ (build.evicted \/ Released = ws)
  /\ build' = [build EXCEPT !.step = "refused"]
  /\ UNCHANGED <<buildLeaves, faults, ws, threads>>

BuildStep ==
  \/ BuildEnter \/ BuildLayout \/ BuildKernel \/ BuildBinary \/ BuildRanked \/ BuildPage
  \/ Recover \/ GiveUp

-----------------------------------------------------------------------------
(* However the workspace was left, by a layout that changed under it, an       *)
(* orientation in between, a denial half way or an eviction, a page that is    *)
(* delivered is the page of the trial's layout computed from nothing.          *)
PagesAreFresh ==
  build.step = "ready" =>
    LET now == [layout |-> working, o |-> build.o]
    IN build.page = Page(build.o, build.mode, build.cursor, now, now, build.o, working)
=============================================================================
