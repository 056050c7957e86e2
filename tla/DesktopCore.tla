----------------------------- MODULE DesktopCore ----------------------------
(***************************************************************************)
(* The coordinator of the desktop (src-tauri/src/core.rs) with the client  *)
(* of the retained session (native_session.rs), what the session holds for *)
(* it, and the project file (archive.rs).  `InterfaceState` has the window  *)
(* that shows the state; what it does not offer is not assumed here.       *)
(*                                                                         *)
(* One operation at a time is registered under the mutex of the state and  *)
(* carried out by a thread of its own, which takes that mutex only for     *)
(* single steps; New runs on the caller's thread and drops the mutex while *)
(* it releases the object.  The session may die, and an answer may be      *)
(* lost, at any time.                                                      *)
(*                                                                         *)
(* Operations are numbered.  What an operation creates bears its number:   *)
(* the object, its prepared token, its previews, a repair proposal, the    *)
(* packing of a run, and the epoch of a session it started.  Options are   *)
(* sets of at most one element.                                            *)
(***************************************************************************)
EXTENDS Naturals, FiniteSets

CONSTANTS
  MaxOps,       \* bound: commands accepted
  MaxPackings   \* bound: packings a run publishes

ASSUME CoreAssumption == MaxOps \in Nat /\ MaxPackings \in Nat

Ops == 1 .. MaxOps
Kinds == {"import", "propose", "accept", "reject", "solve", "save", "open",
          "export"}

(* An object: the solid it denotes (the import or repair that first made   *)
(* it) and the epoch in which it was prepared, 0 if it was not accepted.   *)
Objects == [id : Ops, solid : Ops, epoch : 0 .. MaxOps]

Results == [object : Ops, solid : Ops, run : Ops]
Packings == [object : Ops, run : Ops, sequence : 1 .. MaxPackings]
Projects == [solid : Ops, run : 0 .. MaxOps]

VARIABLES
  begun,          \* commands accepted so far (operations and New)
  op,             \* state.operation
  transitioning,  \* New has dropped the mutex
  object,         \* the accepted or inspected object
  proposal,       \* the object of the pending repair proposal, its operation
  result,         \* the complete result
  live,           \* the displayed packing (live_result)
  previews,       \* registered preview handles
  task,           \* the thread of the operation
  new,            \* the place of New
  native,         \* the client: its epoch, and whether it is in step
  engine,         \* the session process: its current and prior asset
  file            \* the project file

shownVars == <<object, proposal, result, live, previews>>
nativeVars == <<native, engine>>
vars == <<begun, op, transitioning, shownVars, task, new, nativeVars, file>>

-----------------------------------------------------------------------------
(* The session and its client.                                             *)

NoEngine == [alive |-> FALSE, asset |-> {}, prior |-> {}]
Held == engine.asset \cup engine.prior
InStep == \E n \in native : n.inStep
Epoch == {n.epoch : n \in native}

(* A transport failure of native_request drops the client, which closes    *)
(* the pipe, waits for the process and kills it (Drop).                    *)
DropClient == native' = {} /\ engine' = NoEngine

ProcessDies ==
  /\ engine.alive
  /\ engine' = NoEngine
  /\ UNCHANGED <<begun, op, transitioning, shownVars, task, new, native, file>>

(* Releasing the current asset restores the prior one; releasing the prior *)
(* one empties the rollback slot.                                          *)
EngineReleases(t) ==
  engine' = IF t \in engine.asset
              THEN [engine EXCEPT !.asset = engine.prior, !.prior = {}]
              ELSE [engine EXCEPT !.prior = @ \ {t}]

Prepared(objects) == {o \in objects : o.epoch # 0}

(* release_native: nothing to do for an object without a token, without a  *)
(* client or of another epoch; a dead process is forgotten.  A release     *)
(* whose answer is lost keeps the client, out of step: whether the session *)
(* carried it out is unknown.                                              *)
ReleaseNative(objects, ok) ==
  LET mine == {o \in Prepared(objects) : o.epoch \in Epoch}
  IN
  \/ /\ mine = {}
     /\ ok
     /\ UNCHANGED nativeVars
  \/ /\ mine # {}
     /\ ~engine.alive
     /\ ok
     /\ DropClient
  \/ \E o \in mine :
       /\ engine.alive
       /\ InStep
       /\ ok = (o.id \in Held)
       /\ EngineReleases(o.id)
       /\ UNCHANGED native
  \/ \E o \in mine :
       /\ engine.alive
       /\ ~ok
       /\ native' = {[n EXCEPT !.inStep = FALSE] : n \in native}
       /\ EngineReleases(o.id) \/ UNCHANGED engine

(* native_request("prepare"): a dead process is forgotten and a new one    *)
(* started; the session moves its asset to the rollback slot, which must   *)
(* be free.                                                                *)
Fresh == native = {} \/ ~engine.alive
NewAsset(o, slot) == [alive |-> TRUE, asset |-> {o}, prior |-> slot]

Prepares(o) ==
  \/ /\ Fresh
     /\ native' = {[epoch |-> o, inStep |-> TRUE]}
     /\ engine' = NewAsset(o, {})
  \/ /\ ~Fresh
     /\ InStep
     /\ engine.prior = {}
     /\ engine' = NewAsset(o, engine.asset)
     /\ UNCHANGED native

RefusesPrepare(o) ==
  \/ /\ Fresh
     /\ native' = {[epoch |-> o, inStep |-> TRUE]}
     /\ engine' = [NoEngine EXCEPT !.alive = TRUE]
  \/ ~Fresh /\ InStep /\ UNCHANGED nativeVars

-----------------------------------------------------------------------------
(* Operations.                                                             *)

Active == \E p \in op : p.phase \in {"active", "stopping"}

Tasks ==
  [op : Ops, kind : Kinds, ok : BOOLEAN,
   pc : {"helper", "prepare", "check", "release", "install", "undo", "begin",
         "running", "settle", "replace", "drop", "complete"},
   old : SUBSET Objects,        \* the object captured when it was registered
   fresh : SUBSET Objects,      \* the object it prepares
   result : SUBSET Results,     \* the result captured, or to be installed
   output : {"none", "empty", "packed"}]  \* the result file of a run

CoreInit ==
  /\ begun = 0
  /\ op = {}
  /\ transitioning = FALSE
  /\ object = {} /\ proposal = {} /\ result = {} /\ live = {}
  /\ previews = {}
  /\ task = {}
  /\ new = "none"
  /\ native = {}
  /\ engine = NoEngine
  /\ file = {}

Accepted == Prepared(object) # {}

FirstPlace(kind) ==
  CASE kind \in {"import", "propose", "accept", "open", "export"} -> "helper"
    [] kind = "solve" -> "begin"
    [] kind = "save" -> "replace"
    [] kind = "reject" -> "drop"

(* Faulty variant: a displayed packing without files can be saved.         *)
AdmitsSaveOfLive == Accepted

(* Save: the displayed packing has its files, and they are of the object.  *)
AdmitsSave ==
  /\ Accepted
  /\ live # {} => result # {}
  /\ \A r \in result, o \in object : r.solid = o.solid

(* What each operation requires of the state it captures.                  *)
Admits(kind) ==
  CASE kind \in {"import", "open"} -> TRUE
    [] kind = "propose" -> object # {}
    [] kind \in {"accept", "reject"} ->
         \E p \in proposal, o \in object : p.object = o.id
    [] kind = "solve" -> proposal = {} /\ Accepted
    [] kind = "save" -> AdmitsSave
    [] kind = "export" -> result # {}

Registers(kind) ==
  /\ begun < MaxOps
  /\ begun' = begun + 1
  /\ op' = {[id |-> begun', kind |-> kind, phase |-> "active"]}
  /\ task' = {[op |-> begun', kind |-> kind, ok |-> FALSE, pc |-> FirstPlace(kind),
               old |-> object, fresh |-> {}, output |-> "none",
               result |-> IF kind = "save" THEN result ELSE {}]}
  /\ UNCHANGED <<transitioning, shownVars, new, nativeVars, file>>

(* begin_with: everything else is refused as JOB_BUSY.                     *)
Begin(kind) ==
  /\ ~Active
  /\ ~transitioning
  /\ Admits(kind)
  /\ Registers(kind)

(* The marker is written under the mutex; the session sees it later.       *)
Stop ==
  /\ \E p \in op :
       /\ p.kind = "solve" /\ p.phase = "active"
       /\ op' = {[p EXCEPT !.phase = "stopping"]}
  /\ UNCHANGED <<begun, transitioning, shownVars, task, new, nativeVars, file>>

-----------------------------------------------------------------------------
(* The thread of the operation.                                            *)

Captured == UNION {w.old : w \in task}
Preparing == UNION {w.fresh : w \in task}
At(kinds, pc) == \E w \in task : w.kind \in kinds /\ w.pc = pc
Goes(changes) ==
  task' = {[f \in DOMAIN w |-> IF f \in DOMAIN changes THEN changes[f] ELSE w[f]] :
             w \in task}
Ends(ok) == Goes([pc |-> "complete", ok |-> ok])
Installing == {"import", "accept", "open"}
RestVars == <<begun, op, transitioning, new, file>>

(* The object an operation prepares: its own solid, the one of the saved   *)
(* project, or the repaired one.                                           *)
NewObject(w, solid, epoch) == [id |-> w.op, solid |-> solid, epoch |-> epoch]

(* The helper process of an operation fails, or the archive is refused.    *)
(* Its admission forgets a dead session (auxiliary_host_allowance).        *)
ForgetsDead == IF engine.alive THEN UNCHANGED native ELSE native' = {}

HelperFails ==
  /\ At(Kinds, "helper")
  /\ ForgetsDead
  /\ Ends(FALSE)
  /\ UNCHANGED <<RestVars, shownVars, engine>>

(* An import that is not accepted as valid is shown without being prepared.*)
InspectUnaccepted ==
  /\ At({"import"}, "helper")
  /\ ForgetsDead
  /\ \E w \in task :
       /\ Goes([pc |-> "release", fresh |-> {NewObject(w, w.op, 0)}])
       /\ previews' = previews \cup {w.op}
  /\ UNCHANGED <<RestVars, object, proposal, result, live, engine>>

HelperAccepts ==
  /\ At({"import", "accept"}, "helper")
  /\ ForgetsDead
  /\ \E w \in task : Goes([pc |-> "prepare", fresh |-> {NewObject(w, w.op, 0)}])
  /\ UNCHANGED <<RestVars, shownVars, engine>>

(* archive::open extracts a checked archive; no helper runs yet.           *)
OpenExtracts ==
  /\ At({"open"}, "helper")
  /\ \E w \in task, f \in file :
       Goes([pc |-> "prepare", fresh |-> {NewObject(w, f.solid, 0)},
             result |-> {[object |-> w.op, solid |-> f.solid, run |-> r] :
                           r \in {f.run} \ {0}}])
  /\ UNCHANGED <<RestVars, shownVars, nativeVars>>

ExportDone ==
  /\ At({"export"}, "helper")
  /\ ForgetsDead
  /\ Ends(TRUE)
  /\ UNCHANGED <<RestVars, shownVars, engine>>

(* A proposal replaces the one before it; its previews are registered.     *)
Proposes ==
  /\ At({"propose"}, "helper")
  /\ ForgetsDead
  /\ \E w \in task, o \in Captured :
       /\ proposal' = {[object |-> o.id, op |-> w.op]}
       /\ previews' = previews \cup {w.op}
  /\ Ends(TRUE)
  /\ UNCHANGED <<RestVars, object, result, live, engine>>

Rejects ==
  /\ At({"reject"}, "drop")
  /\ proposal' = {}
  /\ Ends(TRUE)
  /\ UNCHANGED <<RestVars, object, result, live, previews, nativeVars>>

(* prepare: the token and the epoch of the client that granted it.         *)
PrepareGranted ==
  /\ At(Installing, "prepare")
  /\ \E o \in Preparing :
       /\ Prepares(o.id)
       /\ \E e \in {n.epoch : n \in native'} :
            Goes([pc |-> "check", fresh |-> {[o EXCEPT !.epoch = e]}])
       /\ previews' = previews \cup {o.id}
  /\ UNCHANGED <<RestVars, object, proposal, result, live>>

PrepareRefused ==
  /\ At(Installing, "prepare")
  /\ \E o \in Preparing : RefusesPrepare(o.id)
  /\ Ends(FALSE)
  /\ UNCHANGED <<RestVars, shownVars>>

PrepareLost ==
  /\ At(Installing, "prepare")
  /\ DropClient
  /\ Ends(FALSE)
  /\ UNCHANGED <<RestVars, shownVars>>

(* Faulty variant: a failure after the prepare is not rolled back.         *)
ChecksWithoutGuard ==
  /\ At(Installing, "check")
  /\ ForgetsDead \/ UNCHANGED native
  /\ Goes([pc |-> "release"]) \/ Ends(FALSE)
  /\ UNCHANGED <<RestVars, shownVars, engine>>

(* What follows a prepare: its answer and previews, and for Open the       *)
(* settings of the stored result and the helper that restores it.          *)
Checks ==
  /\ At(Installing, "check")
  /\ ForgetsDead \/ UNCHANGED native
  /\ Goes([pc |-> "release"]) \/ Goes([pc |-> "undo"])
  /\ UNCHANGED <<RestVars, shownVars, engine>>

ReleaseOld ==
  /\ At(Installing, "release")
  /\ \E ok \in BOOLEAN :
       /\ ReleaseNative(object, ok)
       /\ Goes([pc |-> IF ok THEN "install" ELSE "undo"])
  /\ UNCHANGED <<RestVars, shownVars>>

(* PreparedRollback: the new token is released, whatever the answer, and   *)
(* its previews go.                                                        *)
Undo ==
  /\ At(Installing, "undo")
  /\ \E w \in task :
       /\ \E ok \in BOOLEAN : ReleaseNative(w.fresh, ok)
       /\ previews' = previews \ {w.op}
  /\ Ends(FALSE)
  /\ UNCHANGED <<RestVars, object, proposal, result, live>>

Install ==
  /\ At(Installing, "install")
  /\ \E w \in task : object' = w.fresh /\ result' = w.result
  /\ proposal' = {} /\ live' = {}
  /\ Ends(TRUE)
  /\ UNCHANGED <<RestVars, previews, nativeVars>>

(* Start: the token must belong to the epoch of the client, which is not   *)
(* started for a run; the session must hold the token.                     *)
RunAccepted ==
  /\ At({"solve"}, "begin")
  /\ \E w \in task, o \in Captured :
       Epoch = {o.epoch} /\ engine.alive /\ InStep /\ o.id \in Held
  /\ Goes([pc |-> "running"])
  /\ UNCHANGED <<RestVars, shownVars, nativeVars>>

RunRefused ==
  /\ At({"solve"}, "begin")
  /\ \/ \E w \in task, o \in Captured : Epoch # {o.epoch} /\ UNCHANGED nativeVars
     \/ InStep /\ UNCHANGED nativeVars
     \/ native # {} /\ DropClient
  /\ Goes([pc |-> "settle"])
  /\ UNCHANGED <<RestVars, shownVars>>

(* accept_live.                                                            *)
ShowPacking ==
  /\ At({"solve"}, "running")
  /\ engine.alive
  /\ \E w \in task, o \in Captured :
       LET mine == {l.sequence : l \in {l \in live : l.run = w.op}}
           next == 1 + CHOOSE n \in mine \cup {0} : \A m \in mine : m <= n
       IN
       /\ next <= MaxPackings
       /\ live' = {[object |-> o.id, run |-> w.op, sequence |-> next]}
  /\ result' = {}
  /\ UNCHANGED <<RestVars, object, proposal, previews, task, nativeVars>>

(* The answer of a run, with or without files.                             *)
RunAnswers ==
  /\ At({"solve"}, "running")
  /\ engine.alive
  /\ \E ok \in BOOLEAN, output \in {"none", "empty", "packed"} :
       Goes([pc |-> "settle", ok |-> ok, output |-> output])
  /\ UNCHANGED <<RestVars, shownVars, nativeVars>>

(* The process ended, the deadline passed or a record was malformed.       *)
RunLost ==
  /\ At({"solve"}, "running")
  /\ DropClient
  /\ \E output \in {"none", "empty", "packed"} :
       Goes([pc |-> "settle", output |-> output])
  /\ UNCHANGED <<RestVars, shownVars>>

(* A result that cannot be read or was not validated fails the run.  An    *)
(* empty one does not replace what is displayed; files of a packing must   *)
(* match the packing displayed by this run (`Publication` compares them in *)
(* detail); writing their companions may fail.                             *)
Settle ==
  /\ At({"solve"}, "settle")
  /\ \E w \in task, o \in Captured :
       LET matches == \/ w.output = "packed" /\ \E l \in live : l.run = w.op
                      \/ w.output = "empty" /\ live = {} /\ result = {}
       IN
       \/ /\ matches
          /\ result' = {[object |-> o.id, solid |-> o.solid, run |-> w.op]}
          /\ Ends(w.ok)
       \/ /\ w.output # "none"
          /\ Ends(FALSE)
          /\ UNCHANGED result
       \/ /\ w.output = "none" \/ (w.output = "empty" /\ ~matches)
          /\ Ends(w.ok)
          /\ UNCHANGED result
  /\ UNCHANGED <<RestVars, object, proposal, live, previews, nativeVars>>

(* Save: the captured object and result are copied, written to a temporary *)
(* archive, checked, and moved over the target in one step.                *)
SaveFails ==
  /\ At({"save"}, "replace")
  /\ Ends(FALSE)
  /\ UNCHANGED <<RestVars, shownVars, nativeVars>>

SaveReplaces ==
  /\ At({"save"}, "replace")
  /\ \E w \in task, o \in Captured, run \in 0 .. MaxOps :
       /\ {run} = IF w.result = {} THEN {0} ELSE {r.run : r \in w.result}
       /\ file' = {[solid |-> o.solid, run |-> run]}
  /\ Ends(TRUE)
  /\ UNCHANGED <<begun, op, transitioning, new, shownVars, nativeVars>>

(* The handles that the state still names (prune_previews).                *)
Named == {o.id : o \in object} \cup {p.op : p \in proposal}
         \cup {r.object : r \in result} \cup {l.object : l \in live}
Prunes == Installing \cup {"propose", "reject", "solve"}

(* spawn: whatever the work returned, or a panic, ends the operation.      *)
Complete ==
  /\ At(Kinds, "complete")
  /\ \E w \in task :
       /\ op' = {IF p.id = w.op
                   THEN [p EXCEPT !.phase = IF w.ok THEN "finished" ELSE "failed"]
                   ELSE p : p \in op}
       /\ previews' = IF w.ok /\ w.kind \in Prunes THEN previews \cap Named ELSE previews
  /\ task' = {}
  /\ UNCHANGED <<begun, transitioning, object, proposal, result, live, new,
                 nativeVars, file>>

-----------------------------------------------------------------------------
(* New.                                                                    *)

NewBegins ==
  /\ ~Active
  /\ ~transitioning
  /\ new = "none"
  /\ begun < MaxOps
  /\ begun' = begun + 1
  /\ transitioning' = TRUE
  /\ new' = "release"
  /\ UNCHANGED <<op, shownVars, task, nativeVars, file>>

NewReleases ==
  /\ new = "release"
  /\ \E ok \in BOOLEAN :
       /\ ReleaseNative(object, ok)
       /\ new' = IF ok THEN "clear" ELSE "keep"
  /\ UNCHANGED <<begun, op, transitioning, shownVars, task, file>>

(* Faulty variant: the failure is returned before the flag is reset.       *)
NewFailsStaysBusy ==
  /\ new = "keep"
  /\ new' = "none"
  /\ UNCHANGED <<begun, op, transitioning, shownVars, task, nativeVars, file>>

NewFails ==
  /\ new = "keep"
  /\ transitioning' = FALSE
  /\ new' = "none"
  /\ UNCHANGED <<begun, op, shownVars, task, nativeVars, file>>

NewClears ==
  /\ new = "clear"
  /\ transitioning' = FALSE
  /\ new' = "none"
  /\ op' = {}
  /\ object' = {} /\ proposal' = {} /\ result' = {} /\ live' = {}
  /\ previews' = {}
  /\ UNCHANGED <<begun, task, nativeVars, file>>

-----------------------------------------------------------------------------
Work ==
  \/ HelperFails \/ InspectUnaccepted \/ HelperAccepts \/ OpenExtracts
  \/ ExportDone \/ Proposes \/ Rejects
  \/ PrepareGranted \/ PrepareRefused \/ PrepareLost \/ Checks
  \/ ReleaseOld \/ Undo \/ Install
  \/ RunAccepted \/ RunRefused \/ RunLost \/ Settle
  \/ SaveFails \/ SaveReplaces \/ Complete

NewWorks == NewReleases \/ NewFails \/ NewClears

Next ==
  \/ \E kind \in Kinds : Begin(kind)
  \/ Stop
  \/ Work
  \/ ShowPacking \/ RunAnswers
  \/ NewBegins \/ NewWorks
  \/ ProcessDies

Spec == CoreInit /\ [][Next]_vars
FairSpec == Spec /\ WF_vars(Work) /\ WF_vars(NewWorks)

-----------------------------------------------------------------------------
(* Properties.                                                             *)

Options == {op, object, proposal, result, live, task, native, file}

TypeOK ==
  /\ \A option \in Options : Cardinality(option) <= 1
  /\ Cardinality(engine.asset) <= 1 /\ Cardinality(engine.prior) <= 1
  /\ begun \in 0 .. MaxOps
  /\ op \subseteq [id : Ops, kind : Kinds,
                    phase : {"active", "stopping", "finished", "failed"}]
  /\ transitioning \in BOOLEAN
  /\ object \subseteq Objects
  /\ proposal \subseteq [object : Ops, op : Ops]
  /\ result \subseteq Results
  /\ live \subseteq Packings
  /\ previews \subseteq Ops
  /\ task \subseteq Tasks
  /\ new \in {"none", "release", "clear", "keep"}
  /\ native \subseteq [epoch : Ops, inStep : BOOLEAN]
  /\ engine \in [alive : BOOLEAN, asset : SUBSET Ops, prior : SUBSET Ops]
  /\ file \subseteq Projects

AtRest == task = {} /\ new = "none"

(* While nothing is under way and no answer was lost, the session holds    *)
(* the token of the displayed object and nothing else: whatever failed     *)
(* before, no token was leaked (a full rollback slot would refuse every    *)
(* later import) and none was given up that Start would still use          *)
(* (PreparedRollback, release_native).                                     *)
TokensAccounted ==
  AtRest /\ InStep /\ engine.alive =>
    Held = {o.id : o \in {o \in Prepared(object) : o.epoch \in Epoch}}

(* The project file changes only to what is displayed at that moment.      *)
SavedIsShown ==
  [][file' # file =>
       \E f \in file', o \in object :
         /\ f.solid = o.solid
         /\ \A l \in live : f.run = l.run
         /\ f.run = 0 <=> result = {}]_vars

(* Every operation ends, and so does every New: no failure leaves the      *)
(* desktop busy for good.                                                  *)
NeverBusyForever == (Active \/ transitioning) ~> (~Active /\ ~transitioning)
=============================================================================
