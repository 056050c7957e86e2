---------------------------- MODULE ResultExport ----------------------------
(* The publication of a result (pack_io/result_export.cpp): result.json,    *)
(* the content-addressed assets, the assembled STL and its companion reach  *)
(* one directory through stages beside their targets.  Several exporters    *)
(* may work in that directory, each may stop, fail or die between any two   *)
(* steps, and an outsider may change any file nobody has pinned.            *)
EXTENDS Naturals, FiniteSets

CONSTANTS
  Exporters,    \* processes that publish into the directory
  Solutions,    \* solutions; the STL emitted for one is named by it
  Assets,       \* content-addressed names: sources, accepted solids, repairs
  Foreign,      \* the bytes an outsider writes
  None,
  MaxAttempts,  \* publications an exporter tries
  MaxTouches    \* changes the outsider makes

ASSUME ExportAssumption ==
  /\ Foreign \notin Solutions /\ None \notin Solutions \cup {Foreign}
  /\ MaxAttempts \in Nat /\ MaxTouches \in Nat

VARIABLES
  result,     \* result.json: the solution and the artifact hash it names
  stl,        \* the bytes at the STL path
  companion,  \* what the STL's companion describes
  asset,      \* the bytes under each content-addressed name
  step,       \* what each exporter does next
  sol,        \* the solution it publishes
  stages,     \* the stages it owns: their role and bytes
  pin,        \* what its pin holds
  litter,     \* stages left behind by exporters that died
  attempts, touches, touched

files == <<result, stl, companion, asset>>
mine == <<step, sol, stages, pin>>
others == <<litter, attempts, touches, touched>>
exportVars == <<files, mine, others>>

Running == {"assets", "primary", "emit", "pin", "certify", "publish",
            "companion", "commit"}

ExportInit ==
  /\ result = None /\ stl = None /\ companion = None
  /\ asset = [a \in Assets |-> None]
  /\ step = [e \in Exporters |-> "idle"]
  /\ sol \in [Exporters -> Solutions]
  /\ stages = [e \in Exporters |-> {}]
  /\ pin = [e \in Exporters |-> "none"]
  /\ litter = 0 /\ attempts = [e \in Exporters |-> 0]
  /\ touches = 0 /\ touched = {}
----------------------------------------------------------------------------
Reaches(e, s) == step' = [step EXCEPT ![e] = s]

(* OwnedStage::create and write: the stage lies beside its target under a   *)
(* name of its own and nobody can open it until it is closed.               *)
Staged(e, role) == {s \in stages[e] : s.role = role}

Stage(e, role, bytes) ==
  /\ Staged(e, role) = {}
  /\ stages' = [stages EXCEPT ![e] = @ \cup {[role |-> role, bytes |-> bytes]}]
  /\ UNCHANGED <<files, step, sol, pin, others>>

Unstage(e, role) == stages' = [stages EXCEPT ![e] = @ \ Staged(e, role)]

(* Moving without replacing: a target that is there makes the move fail     *)
(* unless it has the stage's bytes; the stage is then deleted.              *)
MayMove(target, bytes) == target \in {None, bytes}

(* A certified STL's handle denies every other write, delete and rename;    *)
(* the one that published it also denies a second pin.                      *)
StlPinned == \E e \in Exporters : pin[e] \in {"published", "reused"}
StlHeld == \E e \in Exporters : pin[e] = "published"

(* supplied() and constructed(): inputs admitted, the document rebuilt from *)
(* the solution or built afresh around one fresh validation, and every      *)
(* output inside the result directory, distinct, and no input's alias.      *)
Begin(e) ==
  /\ step[e] \in {"idle", "exported", "failed"}
  /\ attempts[e] < MaxAttempts
  /\ attempts' = [attempts EXCEPT ![e] = @ + 1]
  /\ \E s \in Solutions : sol' = [sol EXCEPT ![e] = s]
  /\ Reaches(e, "assets")
  /\ UNCHANGED <<files, stages, pin, litter, touches, touched>>

(* publish_asset: what was verified and kept in memory is staged unless the *)
(* name is taken.  A name taken by other bytes is a conflict: the exporter  *)
(* can only fail.                                                           *)
StageAsset(e) ==
  /\ step[e] = "assets" /\ Staged(e, "asset") = {}
  /\ \E a \in Assets : asset[a] = None /\ Stage(e, "asset", a)

MoveAsset(e) ==
  /\ step[e] = "assets"
  /\ \E s \in Staged(e, "asset") :
       /\ MayMove(asset[s.bytes], s.bytes)
       /\ asset' = [asset EXCEPT ![s.bytes] = s.bytes]
  /\ Unstage(e, "asset")
  /\ UNCHANGED <<result, stl, companion, step, sol, pin, others>>

AssetsThere(e) ==
  /\ step[e] = "assets" /\ Staged(e, "asset") = {}
  /\ \A a \in Assets : asset[a] = a
  /\ Reaches(e, "primary")
  /\ UNCHANGED <<files, sol, stages, pin, others>>

(* The result without artifacts replaces what is there; an export that      *)
(* wants no STL ends here.                                                  *)
StageResult(e) ==
  /\ step[e] \in {"primary", "commit"}
  /\ Stage(e, "result", sol[e])

Primary(e) ==
  /\ step[e] = "primary" /\ Staged(e, "result") # {}
  /\ result' = [of |-> sol[e], artifact |-> None]
  /\ Unstage(e, "result")
  /\ \E wanted \in BOOLEAN : Reaches(e, IF wanted THEN "emit" ELSE "exported")
  /\ UNCHANGED <<stl, companion, asset, sol, pin, others>>
----------------------------------------------------------------------------
(* The STL is written in batches, polling at every copy and face, flushed   *)
(* and closed; until it is pinned its stage is an ordinary file.            *)
EmitStl(e) ==
  /\ step[e] = "emit"
  /\ stages' = [stages EXCEPT ![e] = @ \cup {[role |-> "stl", bytes |-> sol[e]]}]
  /\ Reaches(e, "pin")
  /\ UNCHANGED <<files, sol, pin, others>>

PinStl(e) ==
  /\ step[e] = "pin" /\ Staged(e, "stl") # {}
  /\ pin' = [pin EXCEPT ![e] = "stage"]
  /\ Reaches(e, "certify")
  /\ UNCHANGED <<files, sol, stages, others>>

(* validate_closed_stl_stage: header, ranges, vertices and extent are those *)
(* the accepted geometry and the poses give.                                *)
Emitted(e) == \A s \in Staged(e, "stl") : s.bytes = sol[e]

(* Through the pin: the stage is what was emitted, the quantized copies     *)
(* validate, and the hash is taken.                                         *)
CertifyStl(e) ==
  /\ step[e] = "certify"
  /\ Emitted(e)
  /\ Reaches(e, "publish")
  /\ UNCHANGED <<files, sol, stages, pin, others>>

(* The pinned handle is renamed without replacing.  A destination that is   *)
(* there is pinned too and reused if its bytes are the certified ones; the  *)
(* unused stage is kept, and deleted when the export ends.                  *)
PublishStlReleasing(e) ==
  /\ step[e] = "publish" /\ stl = None
  /\ stl' = sol[e]
  /\ Unstage(e, "stl")
  /\ pin' = [pin EXCEPT ![e] = "none"]
  /\ Reaches(e, "companion")
  /\ UNCHANGED <<result, companion, asset, sol, others>>

PublishStlLast(e) ==
  /\ step[e] = "publish" /\ stl = None
  /\ stl' = sol[e]
  /\ Unstage(e, "stl")
  /\ pin' = [pin EXCEPT ![e] = "published"]
  /\ Reaches(e, "commit")
  /\ UNCHANGED <<result, companion, asset, sol, others>>

PublishStl(e) ==
  /\ step[e] = "publish" /\ stl = None
  /\ stl' = sol[e]
  /\ Unstage(e, "stl")
  /\ pin' = [pin EXCEPT ![e] = "published"]
  /\ Reaches(e, "companion")
  /\ UNCHANGED <<result, companion, asset, sol, others>>

ReuseStl(e) ==
  /\ step[e] = "publish" /\ ~ StlHeld
  /\ stl = sol[e]
  /\ pin' = [pin EXCEPT ![e] = "reused"]
  /\ Reaches(e, "companion")
  /\ UNCHANGED <<files, sol, stages, others>>

StageCompanion(e) ==
  /\ step[e] = "companion"
  /\ Stage(e, "companion", sol[e])

MoveCompanion(e) ==
  /\ step[e] = "companion" /\ Staged(e, "companion") # {}
  /\ MayMove(companion, sol[e])
  /\ companion' = sol[e]
  /\ Unstage(e, "companion")
  /\ Reaches(e, "commit")
  /\ UNCHANGED <<result, stl, asset, sol, pin, others>>

(* The result naming the STL and its hash replaces the one without; then    *)
(* the pins are released and an unused stage is deleted.                    *)
CommitResult(e) ==
  /\ step[e] = "commit" /\ Staged(e, "result") # {}
  /\ result' = [of |-> sol[e], artifact |-> sol[e]]
  /\ stages' = [stages EXCEPT ![e] = {}]
  /\ pin' = [pin EXCEPT ![e] = "none"]
  /\ Reaches(e, "exported")
  /\ UNCHANGED <<stl, companion, asset, sol, others>>
----------------------------------------------------------------------------
(* An error, an exception or a poll that sees the stop: the stage that is   *)
(* not published is deleted and the pins are released.                      *)
ExportFails(e) ==
  /\ step[e] \in Running
  /\ stages' = [stages EXCEPT ![e] = {}]
  /\ pin' = [pin EXCEPT ![e] = "none"]
  /\ Reaches(e, "failed")
  /\ UNCHANGED <<files, sol, others>>

(* The process dies: its handles close, its stages stay.  The next attempt  *)
(* names its stages anew, so they do not stand in its way.                  *)
Die(e) ==
  /\ step[e] \in Running
  /\ litter' = litter + Cardinality(stages[e])
  /\ stages' = [stages EXCEPT ![e] = {}]
  /\ pin' = [pin EXCEPT ![e] = "none"]
  /\ Reaches(e, "idle")
  /\ UNCHANGED <<files, sol, attempts, touches, touched>>

(* Another program writes or deletes a file no handle protects.             *)
Touch(role) ==
  /\ touches < MaxTouches
  /\ touches' = touches + 1 /\ touched' = touched \cup {role}
  /\ UNCHANGED <<step, sol, pin, litter, attempts>>

Outsider ==
  \/ /\ Touch("result")
     /\ result' \in {None, [of |-> Foreign, artifact |-> None]}
     /\ UNCHANGED <<stl, companion, asset, stages>>
  \/ /\ Touch("stl") /\ ~ StlPinned
     /\ stl' \in {None, Foreign}
     /\ UNCHANGED <<result, companion, asset, stages>>
  \/ /\ Touch("companion")
     /\ companion' \in {None, Foreign}
     /\ UNCHANGED <<result, stl, asset, stages>>
  \/ /\ Touch("asset")
     /\ \E a \in Assets, b \in {None, Foreign} : asset' = [asset EXCEPT ![a] = b]
     /\ UNCHANGED <<result, stl, companion, stages>>

(* Between its closing and its pinning the STL stage can be changed.        *)
TouchStage(e) ==
  /\ step[e] = "pin"
  /\ touches < MaxTouches /\ touches' = touches + 1
  /\ \E left \in {{}, {[role |-> "stl", bytes |-> Foreign]}} :
       stages' = [stages EXCEPT ![e] = left]
  /\ UNCHANGED <<files, step, sol, pin, litter, attempts, touched>>

ExporterNext(e) ==
  \/ Begin(e)
  \/ StageAsset(e) \/ MoveAsset(e) \/ AssetsThere(e)
  \/ StageResult(e) \/ Primary(e)
  \/ EmitStl(e) \/ PinStl(e) \/ CertifyStl(e)
  \/ PublishStl(e) \/ ReuseStl(e)
  \/ StageCompanion(e) \/ MoveCompanion(e) \/ CommitResult(e)
  \/ ExportFails(e) \/ Die(e)

ExportNext ==
  \/ \E e \in Exporters : ExporterNext(e) \/ TouchStage(e)
  \/ Outsider

ExportSpec == ExportInit /\ [][ExportNext]_exportVars
----------------------------------------------------------------------------
(* When result.json comes to name an artifact, the file at the STL path has *)
(* exactly the certified bytes that hash was taken from: nobody can have    *)
(* changed them since the certification, however the export was delayed.    *)
CommitNamesCertified ==
  [][result' # result /\ result' # None /\ result'.artifact # None =>
       stl' = result'.artifact]_exportVars

(* A result nobody tampered with can be read back: its assets are there,    *)
(* and the STL it names is there with a companion that describes it,        *)
(* through failures, deaths, retries and other exporters' results.          *)
ResultComplete ==
  result # None /\ touched = {} =>
    /\ \A a \in Assets : asset[a] = a
    /\ result.artifact # None =>
         stl = result.artifact /\ companion = result.artifact

=============================================================================
