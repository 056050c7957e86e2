-------------------------- MODULE DesktopCoreProofs --------------------------
(* Proofs about the desktop core, for any number of commands and packings: *)
(* the session holds exactly the token the core still needs, and the       *)
(* project file only changes to what is displayed.                         *)
EXTENDS DesktopCore, FiniteSetTheorems, TLAPS

-----------------------------------------------------------------------------
(* The inductive invariant.                                                *)

AtMostOne(S) == \A x, y \in S : x = y

(* TypeOK without its cardinalities, which are proved equal to these.      *)
NativeTypes ==
  /\ AtMostOne(native) /\ native \subseteq [epoch : Ops, inStep : BOOLEAN]
  /\ engine \in [alive : BOOLEAN, asset : SUBSET Ops, prior : SUBSET Ops]
  /\ AtMostOne(engine.asset) /\ AtMostOne(engine.prior)

CoreTypes ==
  /\ NativeTypes
  /\ begun \in 0 .. MaxOps
  /\ AtMostOne(op)
  /\ op \subseteq [id : Ops, kind : Kinds,
                    phase : {"active", "stopping", "finished", "failed"}]
  /\ transitioning \in BOOLEAN
  /\ AtMostOne(object) /\ object \subseteq Objects
  /\ AtMostOne(proposal) /\ proposal \subseteq [object : Ops, op : Ops]
  /\ AtMostOne(result) /\ result \subseteq Results
  /\ AtMostOne(live) /\ live \subseteq Packings
  /\ previews \subseteq Ops
  /\ AtMostOne(task) /\ task \subseteq Tasks
  /\ \A w \in task : AtMostOne(w.old) /\ AtMostOne(w.fresh) /\ AtMostOne(w.result)
  /\ new \in {"none", "release", "clear", "keep"}
  /\ AtMostOne(file) /\ file \subseteq Projects

(* One thing at a time: the registered operation is the latest command, it *)
(* is active as long as its thread runs, and New runs alone.               *)
OneAtATime ==
  /\ transitioning <=> new # "none"
  /\ new # "none" => task = {}
  /\ \A w \in task :
       /\ w.op = begun
       /\ \E p \in op : p.id = w.op /\ p.phase \in {"active", "stopping"}

(* Numbers only grow: what is displayed was made by an earlier command     *)
(* than the one under way, and a token is not older than its session.      *)
Numbered ==
  /\ \A o \in object : o.id <= begun /\ o.epoch <= o.id
  /\ \A n \in native : n.epoch <= begun
  /\ \A w \in task :
       /\ w.pc # "complete" => \A o \in object : o.id < w.op
       /\ \A f \in w.fresh : f.id = w.op /\ f.epoch <= w.op

(* Where the thread of each kind of operation may be, and what it carries. *)
Threads ==
  \A w \in task :
    /\ w.pc \in {"prepare", "check", "release", "undo", "install"} =>
         w.kind \in Installing /\ w.fresh # {}
    /\ w.pc = "prepare" => Prepared(w.fresh) = {}
    /\ w.pc = "check" => Prepared(w.fresh) # {}
    /\ w.kind \notin Installing => w.old = object
    /\ w.kind = "save" =>
         /\ w.pc \in {"replace", "complete"}
         /\ w.result = result
         /\ live # {} => result # {}
    /\ w.pc = "replace" => w.kind = "save"

(* A displayed packing and a result displayed beside it are of one run.    *)
SameRun == \A r \in result, l \in live : r.run = l.run

(* What is displayed, or is about to be, is of the object beside it.       *)
Belongs ==
  /\ \A o \in object :
       /\ \A r \in result : r.object = o.id /\ r.solid = o.solid
       /\ \A l \in live : l.object = o.id
  /\ \A w \in task :
       /\ w.kind \in Installing /\ w.pc = "helper" => w.result = {}
       /\ w.kind \in Installing =>
            \A f \in w.fresh, r \in w.result : r.object = f.id /\ r.solid = f.solid

(* The tokens of these objects that the present session granted.           *)
Tokens(S) == {o.id : o \in {o \in Prepared(S) : o.epoch \in Epoch}}

Holds(asset, prior) == engine.asset = asset /\ engine.prior = prior

(* The two slots of a session that answers, at every place of the core.    *)
SlotsOf(w) ==
  IF w.pc = "install" THEN Holds(Tokens(w.fresh), {})
  ELSE IF w.pc \in {"check", "release", "undo"} /\ Prepared(w.fresh) # {}
    THEN Tokens(w.fresh) = {w.op} /\ Holds({w.op}, Tokens(object))
  ELSE Holds(Tokens(object), {})

Slots ==
  InStep /\ engine.alive =>
    /\ new = "clear" => Holds({}, {})
    /\ task = {} /\ new # "clear" => Holds(Tokens(object), {})
    /\ \A w \in task : SlotsOf(w)

CoreInv ==
  CoreTypes /\ OneAtATime /\ Numbered /\ Threads /\ SameRun /\ Belongs /\ Slots

-----------------------------------------------------------------------------
(* Lemmas about the operators of the model.                                *)

(* What a step of the thread leaves of its operation.                      *)
Becomes(w, v) ==
  /\ task' = {v} /\ v \in Tasks
  /\ v.op = w.op /\ v.kind = w.kind /\ v.old = w.old

Pcs == {"helper", "prepare", "check", "release", "install", "undo", "begin",
        "running", "settle", "replace", "drop", "complete"}
Outputs == {"none", "empty", "packed"}

(* The fields of an operation and their types.                             *)
LEMMA TaskFields ==
  ASSUME NEW w \in Tasks
  PROVE  /\ w = [op |-> w.op, kind |-> w.kind, ok |-> w.ok, pc |-> w.pc,
                 old |-> w.old, fresh |-> w.fresh, result |-> w.result,
                 output |-> w.output]
         /\ DOMAIN w = {"op", "kind", "ok", "pc", "old", "fresh", "result", "output"}
         /\ w.op \in Ops /\ w.kind \in Kinds /\ w.ok \in BOOLEAN /\ w.pc \in Pcs
         /\ w.old \subseteq Objects /\ w.fresh \subseteq Objects
         /\ w.result \subseteq Results /\ w.output \in Outputs
  BY DEF Tasks, Pcs, Outputs

(* The operation under way is replaced by its changed copy.                *)
LEMMA GoesOne ==
  ASSUME NEW w, task = {w}, NEW changes, Goes(changes)
  PROVE  task' = {[f \in DOMAIN w |-> IF f \in DOMAIN changes THEN changes[f] ELSE w[f]]}
  BY DEF Goes

(* The thread only changes its place.                                      *)
LEMMA GoesTo ==
  ASSUME NEW w \in Tasks, task = {w}, NEW p \in Pcs,
         Goes([pc |-> p])
  PROVE  \E v \in Tasks : /\ Becomes(w, v) /\ v.pc = p /\ v.ok = w.ok
                /\ v.fresh = w.fresh /\ v.result = w.result
                /\ v.output = w.output
  <1> DEFINE c == [pc |-> p]
             v == [f \in DOMAIN w |-> IF f \in DOMAIN c THEN c[f] ELSE w[f]]
  <1>1. task' = {v}
    BY GoesOne
  <1>2. v = [op |-> w.op, kind |-> w.kind, ok |-> w.ok, pc |-> p,
             old |-> w.old, fresh |-> w.fresh, result |-> w.result,
             output |-> w.output]
    BY TaskFields
  <1> HIDE DEF v
  <1>3. v \in Tasks
    BY <1>2, TaskFields DEF Tasks, Pcs, Outputs
  <1> QED
    BY <1>1, <1>2, <1>3 DEF Becomes

(* Its work ends, with or without success.                                 *)
LEMMA GoesToEnd ==
  ASSUME NEW w \in Tasks, task = {w}, NEW ok \in BOOLEAN,
         Goes([pc |-> "complete", ok |-> ok])
  PROVE  \E v \in Tasks : /\ Becomes(w, v) /\ v.pc = "complete" /\ v.ok = ok
                /\ v.fresh = w.fresh /\ v.result = w.result
                /\ v.output = w.output
  <1> DEFINE c == [pc |-> "complete", ok |-> ok]
             v == [f \in DOMAIN w |-> IF f \in DOMAIN c THEN c[f] ELSE w[f]]
  <1>1. task' = {v}
    BY GoesOne
  <1>2. v = [op |-> w.op, kind |-> w.kind, ok |-> ok, pc |-> "complete",
             old |-> w.old, fresh |-> w.fresh, result |-> w.result,
             output |-> w.output]
    BY TaskFields
  <1> HIDE DEF v
  <1>3. v \in Tasks
    BY <1>2, TaskFields DEF Tasks, Pcs, Outputs
  <1> QED
    BY <1>1, <1>2, <1>3 DEF Becomes

(* It has an object to install.                                            *)
LEMMA GoesWith ==
  ASSUME NEW w \in Tasks, task = {w}, NEW p \in Pcs, NEW F \in SUBSET Objects,
         Goes([pc |-> p, fresh |-> F])
  PROVE  \E v \in Tasks : /\ Becomes(w, v) /\ v.pc = p /\ v.ok = w.ok
                /\ v.fresh = F /\ v.result = w.result
                /\ v.output = w.output
  <1> DEFINE c == [pc |-> p, fresh |-> F]
             v == [f \in DOMAIN w |-> IF f \in DOMAIN c THEN c[f] ELSE w[f]]
  <1>1. task' = {v}
    BY GoesOne
  <1>2. v = [op |-> w.op, kind |-> w.kind, ok |-> w.ok, pc |-> p,
             old |-> w.old, fresh |-> F, result |-> w.result,
             output |-> w.output]
    BY TaskFields
  <1> HIDE DEF v
  <1>3. v \in Tasks
    BY <1>2, TaskFields DEF Tasks, Pcs, Outputs
  <1> QED
    BY <1>1, <1>2, <1>3 DEF Becomes

(* It has an object and its result to install.                             *)
LEMMA GoesOpening ==
  ASSUME NEW w \in Tasks, task = {w}, NEW p \in Pcs, NEW F \in SUBSET Objects,
    NEW R \in SUBSET Results,
         Goes([pc |-> p, fresh |-> F, result |-> R])
  PROVE  \E v \in Tasks : /\ Becomes(w, v) /\ v.pc = p /\ v.ok = w.ok
                /\ v.fresh = F /\ v.result = R
                /\ v.output = w.output
  <1> DEFINE c == [pc |-> p, fresh |-> F, result |-> R]
             v == [f \in DOMAIN w |-> IF f \in DOMAIN c THEN c[f] ELSE w[f]]
  <1>1. task' = {v}
    BY GoesOne
  <1>2. v = [op |-> w.op, kind |-> w.kind, ok |-> w.ok, pc |-> p,
             old |-> w.old, fresh |-> F, result |-> R,
             output |-> w.output]
    BY TaskFields
  <1> HIDE DEF v
  <1>3. v \in Tasks
    BY <1>2, TaskFields DEF Tasks, Pcs, Outputs
  <1> QED
    BY <1>1, <1>2, <1>3 DEF Becomes

(* A run has its answer and its files.                                     *)
LEMMA GoesAnswered ==
  ASSUME NEW w \in Tasks, task = {w}, NEW p \in Pcs, NEW ok \in BOOLEAN,
    NEW out \in Outputs,
         Goes([pc |-> p, ok |-> ok, output |-> out])
  PROVE  \E v \in Tasks : /\ Becomes(w, v) /\ v.pc = p /\ v.ok = ok
                /\ v.fresh = w.fresh /\ v.result = w.result
                /\ v.output = out
  <1> DEFINE c == [pc |-> p, ok |-> ok, output |-> out]
             v == [f \in DOMAIN w |-> IF f \in DOMAIN c THEN c[f] ELSE w[f]]
  <1>1. task' = {v}
    BY GoesOne
  <1>2. v = [op |-> w.op, kind |-> w.kind, ok |-> ok, pc |-> p,
             old |-> w.old, fresh |-> w.fresh, result |-> w.result,
             output |-> out]
    BY TaskFields
  <1> HIDE DEF v
  <1>3. v \in Tasks
    BY <1>2, TaskFields DEF Tasks, Pcs, Outputs
  <1> QED
    BY <1>1, <1>2, <1>3 DEF Becomes

(* A run has no answer, but may have its files.                            *)
LEMMA GoesLost ==
  ASSUME NEW w \in Tasks, task = {w}, NEW p \in Pcs, NEW out \in Outputs,
         Goes([pc |-> p, output |-> out])
  PROVE  \E v \in Tasks : /\ Becomes(w, v) /\ v.pc = p /\ v.ok = w.ok
                /\ v.fresh = w.fresh /\ v.result = w.result
                /\ v.output = out
  <1> DEFINE c == [pc |-> p, output |-> out]
             v == [f \in DOMAIN w |-> IF f \in DOMAIN c THEN c[f] ELSE w[f]]
  <1>1. task' = {v}
    BY GoesOne
  <1>2. v = [op |-> w.op, kind |-> w.kind, ok |-> w.ok, pc |-> p,
             old |-> w.old, fresh |-> w.fresh, result |-> w.result,
             output |-> out]
    BY TaskFields
  <1> HIDE DEF v
  <1>3. v \in Tasks
    BY <1>2, TaskFields DEF Tasks, Pcs, Outputs
  <1> QED
    BY <1>1, <1>2, <1>3 DEF Becomes

(* There is one operation.                                                 *)
LEMMA TaskAlone ==
  ASSUME CoreTypes, NEW w \in task
  PROVE  task = {w} /\ w \in Tasks
  BY DEF CoreTypes, AtMostOne

-----------------------------------------------------------------------------
(* What each step of the thread makes of its operation.                    *)

(* HelperFails: the operation it moves, and what it becomes.               *)
LEMMA HelperFailsMoves ==
  ASSUME CoreTypes, HelperFails
  PROVE  \E w, v \in Tasks :
           /\ task = {w} /\ Becomes(w, v)
           /\ w.kind \in Kinds /\ w.pc = "helper" /\ v.pc = "complete"
           /\ v.fresh = w.fresh /\ v.result = w.result
  <1>1. PICK w \in Tasks : task = {w} /\ w.kind \in Kinds /\ w.pc = "helper"
    BY TaskAlone DEF HelperFails, At
  <1>2. Goes([pc |-> "complete", ok |-> FALSE])
    BY DEF HelperFails, Ends
  <1>3. \E v \in Tasks : /\ Becomes(w, v) /\ v.pc = "complete"
              /\ v.fresh = w.fresh /\ v.result = w.result
    BY <1>1, <1>2, GoesToEnd
  <1> QED
    BY <1>1, <1>3

(* ExportDone: the operation it moves, and what it becomes.                *)
LEMMA ExportDoneMoves ==
  ASSUME CoreTypes, ExportDone
  PROVE  \E w, v \in Tasks :
           /\ task = {w} /\ Becomes(w, v)
           /\ w.kind \in {"export"} /\ w.pc = "helper" /\ v.pc = "complete"
           /\ v.fresh = w.fresh /\ v.result = w.result
  <1>1. PICK w \in Tasks : task = {w} /\ w.kind \in {"export"} /\ w.pc = "helper"
    BY TaskAlone DEF ExportDone, At
  <1>2. Goes([pc |-> "complete", ok |-> TRUE])
    BY DEF ExportDone, Ends
  <1>3. \E v \in Tasks : /\ Becomes(w, v) /\ v.pc = "complete"
              /\ v.fresh = w.fresh /\ v.result = w.result
    BY <1>1, <1>2, GoesToEnd
  <1> QED
    BY <1>1, <1>3

(* Proposes: the operation it moves, and what it becomes.                  *)
LEMMA ProposesMoves ==
  ASSUME CoreTypes, Proposes
  PROVE  \E w, v \in Tasks :
           /\ task = {w} /\ Becomes(w, v)
           /\ w.kind \in {"propose"} /\ w.pc = "helper" /\ v.pc = "complete"
           /\ v.fresh = w.fresh /\ v.result = w.result
  <1>1. PICK w \in Tasks : task = {w} /\ w.kind \in {"propose"} /\ w.pc = "helper"
    BY TaskAlone DEF Proposes, At
  <1>2. Goes([pc |-> "complete", ok |-> TRUE])
    BY DEF Proposes, Ends
  <1>3. \E v \in Tasks : /\ Becomes(w, v) /\ v.pc = "complete"
              /\ v.fresh = w.fresh /\ v.result = w.result
    BY <1>1, <1>2, GoesToEnd
  <1> QED
    BY <1>1, <1>3

(* Rejects: the operation it moves, and what it becomes.                   *)
LEMMA RejectsMoves ==
  ASSUME CoreTypes, Rejects
  PROVE  \E w, v \in Tasks :
           /\ task = {w} /\ Becomes(w, v)
           /\ w.kind \in {"reject"} /\ w.pc = "drop" /\ v.pc = "complete"
           /\ v.fresh = w.fresh /\ v.result = w.result
  <1>1. PICK w \in Tasks : task = {w} /\ w.kind \in {"reject"} /\ w.pc = "drop"
    BY TaskAlone DEF Rejects, At
  <1>2. Goes([pc |-> "complete", ok |-> TRUE])
    BY DEF Rejects, Ends
  <1>3. \E v \in Tasks : /\ Becomes(w, v) /\ v.pc = "complete"
              /\ v.fresh = w.fresh /\ v.result = w.result
    BY <1>1, <1>2, GoesToEnd
  <1> QED
    BY <1>1, <1>3

(* PrepareRefused: the operation it moves, and what it becomes.            *)
LEMMA PrepareRefusedMoves ==
  ASSUME CoreTypes, PrepareRefused
  PROVE  \E w, v \in Tasks :
           /\ task = {w} /\ Becomes(w, v)
           /\ w.kind \in Installing /\ w.pc = "prepare" /\ v.pc = "complete"
           /\ v.fresh = w.fresh /\ v.result = w.result
  <1>1. PICK w \in Tasks : task = {w} /\ w.kind \in Installing /\ w.pc = "prepare"
    BY TaskAlone DEF PrepareRefused, At
  <1>2. Goes([pc |-> "complete", ok |-> FALSE])
    BY DEF PrepareRefused, Ends
  <1>3. \E v \in Tasks : /\ Becomes(w, v) /\ v.pc = "complete"
              /\ v.fresh = w.fresh /\ v.result = w.result
    BY <1>1, <1>2, GoesToEnd
  <1> QED
    BY <1>1, <1>3

(* PrepareLost: the operation it moves, and what it becomes.               *)
LEMMA PrepareLostMoves ==
  ASSUME CoreTypes, PrepareLost
  PROVE  \E w, v \in Tasks :
           /\ task = {w} /\ Becomes(w, v)
           /\ w.kind \in Installing /\ w.pc = "prepare" /\ v.pc = "complete"
           /\ v.fresh = w.fresh /\ v.result = w.result
  <1>1. PICK w \in Tasks : task = {w} /\ w.kind \in Installing /\ w.pc = "prepare"
    BY TaskAlone DEF PrepareLost, At
  <1>2. Goes([pc |-> "complete", ok |-> FALSE])
    BY DEF PrepareLost, Ends
  <1>3. \E v \in Tasks : /\ Becomes(w, v) /\ v.pc = "complete"
              /\ v.fresh = w.fresh /\ v.result = w.result
    BY <1>1, <1>2, GoesToEnd
  <1> QED
    BY <1>1, <1>3

(* Undo: the operation it moves, and what it becomes.                      *)
LEMMA UndoMoves ==
  ASSUME CoreTypes, Undo
  PROVE  \E w, v \in Tasks :
           /\ task = {w} /\ Becomes(w, v)
           /\ w.kind \in Installing /\ w.pc = "undo" /\ v.pc = "complete"
           /\ v.fresh = w.fresh /\ v.result = w.result
  <1>1. PICK w \in Tasks : task = {w} /\ w.kind \in Installing /\ w.pc = "undo"
    BY TaskAlone DEF Undo, At
  <1>2. Goes([pc |-> "complete", ok |-> FALSE])
    BY DEF Undo, Ends
  <1>3. \E v \in Tasks : /\ Becomes(w, v) /\ v.pc = "complete"
              /\ v.fresh = w.fresh /\ v.result = w.result
    BY <1>1, <1>2, GoesToEnd
  <1> QED
    BY <1>1, <1>3

(* Install: the operation it moves, and what it becomes.                   *)
LEMMA InstallMoves ==
  ASSUME CoreTypes, Install
  PROVE  \E w, v \in Tasks :
           /\ task = {w} /\ Becomes(w, v)
           /\ w.kind \in Installing /\ w.pc = "install" /\ v.pc = "complete"
           /\ v.fresh = w.fresh /\ v.result = w.result
  <1>1. PICK w \in Tasks : task = {w} /\ w.kind \in Installing /\ w.pc = "install"
    BY TaskAlone DEF Install, At
  <1>2. Goes([pc |-> "complete", ok |-> TRUE])
    BY DEF Install, Ends
  <1>3. \E v \in Tasks : /\ Becomes(w, v) /\ v.pc = "complete"
              /\ v.fresh = w.fresh /\ v.result = w.result
    BY <1>1, <1>2, GoesToEnd
  <1> QED
    BY <1>1, <1>3

(* SaveFails: the operation it moves, and what it becomes.                 *)
LEMMA SaveFailsMoves ==
  ASSUME CoreTypes, SaveFails
  PROVE  \E w, v \in Tasks :
           /\ task = {w} /\ Becomes(w, v)
           /\ w.kind \in {"save"} /\ w.pc = "replace" /\ v.pc = "complete"
           /\ v.fresh = w.fresh /\ v.result = w.result
  <1>1. PICK w \in Tasks : task = {w} /\ w.kind \in {"save"} /\ w.pc = "replace"
    BY TaskAlone DEF SaveFails, At
  <1>2. Goes([pc |-> "complete", ok |-> FALSE])
    BY DEF SaveFails, Ends
  <1>3. \E v \in Tasks : /\ Becomes(w, v) /\ v.pc = "complete"
              /\ v.fresh = w.fresh /\ v.result = w.result
    BY <1>1, <1>2, GoesToEnd
  <1> QED
    BY <1>1, <1>3

(* SaveReplaces: the operation it moves, and what it becomes.              *)
LEMMA SaveReplacesMoves ==
  ASSUME CoreTypes, SaveReplaces
  PROVE  \E w, v \in Tasks :
           /\ task = {w} /\ Becomes(w, v)
           /\ w.kind \in {"save"} /\ w.pc = "replace" /\ v.pc = "complete"
           /\ v.fresh = w.fresh /\ v.result = w.result
  <1>1. PICK w \in Tasks : task = {w} /\ w.kind \in {"save"} /\ w.pc = "replace"
    BY TaskAlone DEF SaveReplaces, At
  <1>2. Goes([pc |-> "complete", ok |-> TRUE])
    BY DEF SaveReplaces, Ends
  <1>3. \E v \in Tasks : /\ Becomes(w, v) /\ v.pc = "complete"
              /\ v.fresh = w.fresh /\ v.result = w.result
    BY <1>1, <1>2, GoesToEnd
  <1> QED
    BY <1>1, <1>3

(* InspectUnaccepted: the operation it moves, and what it becomes.         *)
LEMMA InspectUnacceptedMoves ==
  ASSUME CoreTypes, InspectUnaccepted
  PROVE  \E w, v \in Tasks :
           /\ task = {w} /\ Becomes(w, v)
           /\ w.kind \in {"import"} /\ w.pc = "helper" /\ v.pc = "release"
           /\ v.fresh = {NewObject(w, w.op, 0)} /\ v.result = w.result
  <1>1. PICK w \in Tasks : task = {w} /\ w.kind \in {"import"} /\ w.pc = "helper"
    BY TaskAlone DEF InspectUnaccepted, At
  <1>2. Goes([pc |-> "release", fresh |-> {NewObject(w, w.op, 0)}])
    BY <1>1 DEF InspectUnaccepted
  <1>3. {NewObject(w, w.op, 0)} \in SUBSET Objects
    BY TaskFields, CoreAssumption DEF NewObject, Objects, Ops
  <1>4. \E v \in Tasks : /\ Becomes(w, v) /\ v.pc = "release" /\ v.result = w.result
              /\ v.fresh = {NewObject(w, w.op, 0)}
    BY <1>1, <1>2, <1>3, GoesWith DEF Pcs
  <1> QED
    BY <1>1, <1>4

(* HelperAccepts: the operation it moves, and what it becomes.             *)
LEMMA HelperAcceptsMoves ==
  ASSUME CoreTypes, HelperAccepts
  PROVE  \E w, v \in Tasks :
           /\ task = {w} /\ Becomes(w, v)
           /\ w.kind \in {"import", "accept"} /\ w.pc = "helper" /\ v.pc = "prepare"
           /\ v.fresh = {NewObject(w, w.op, 0)} /\ v.result = w.result
  <1>1. PICK w \in Tasks : task = {w} /\ w.kind \in {"import", "accept"} /\ w.pc = "helper"
    BY TaskAlone DEF HelperAccepts, At
  <1>2. Goes([pc |-> "prepare", fresh |-> {NewObject(w, w.op, 0)}])
    BY <1>1 DEF HelperAccepts
  <1>3. {NewObject(w, w.op, 0)} \in SUBSET Objects
    BY TaskFields, CoreAssumption DEF NewObject, Objects, Ops
  <1>4. \E v \in Tasks : /\ Becomes(w, v) /\ v.pc = "prepare" /\ v.result = w.result
              /\ v.fresh = {NewObject(w, w.op, 0)}
    BY <1>1, <1>2, <1>3, GoesWith DEF Pcs
  <1> QED
    BY <1>1, <1>4

(* OpenExtracts: the operation it moves, and what it becomes.              *)
LEMMA OpenExtractsMoves ==
  ASSUME CoreTypes, OpenExtracts
  PROVE  \E w, v \in Tasks :
           /\ task = {w} /\ Becomes(w, v)
           /\ w.kind \in {"open"} /\ w.pc = "helper" /\ v.pc = "prepare"
           /\ \E s \in Ops :
                /\ v.fresh = {NewObject(w, s, 0)}
                /\ AtMostOne(v.result)
                /\ \A r \in v.result : r.object = w.op /\ r.solid = s
  <1>1. PICK w \in Tasks : task = {w} /\ w.kind \in {"open"} /\ w.pc = "helper"
    BY TaskAlone DEF OpenExtracts, At
  <1> DEFINE R(f) == {[object |-> w.op, solid |-> f.solid, run |-> r] :
                        r \in {f.run} \ {0}}
  <1>2. PICK f \in file :
          Goes([pc |-> "prepare", fresh |-> {NewObject(w, f.solid, 0)}, result |-> R(f)])
    BY <1>1 DEF OpenExtracts
  <1>3. f.solid \in Ops /\ f.run \in 0 .. MaxOps
    BY DEF CoreTypes, Projects
  <1>4. {NewObject(w, f.solid, 0)} \in SUBSET Objects /\ R(f) \in SUBSET Results
    BY <1>3, TaskFields, CoreAssumption DEF NewObject, Objects, Ops, Results
  <1>5. AtMostOne(R(f)) /\ \A r \in R(f) : r.object = w.op /\ r.solid = f.solid
    BY DEF AtMostOne
  <1> HIDE DEF R
  <1>6. \E v \in Tasks : /\ Becomes(w, v) /\ v.pc = "prepare" /\ v.result = R(f)
              /\ v.fresh = {NewObject(w, f.solid, 0)}
    BY <1>1, <1>2, <1>4, GoesOpening DEF Pcs
  <1> QED
    BY <1>1, <1>3, <1>5, <1>6

(* PrepareGranted: the operation it moves, and what it becomes.            *)
LEMMA PrepareGrantedMoves ==
  ASSUME CoreTypes, PrepareGranted
  PROVE  \E w, v \in Tasks :
           /\ task = {w} /\ Becomes(w, v)
           /\ w.kind \in Installing /\ w.pc = "prepare" /\ v.pc = "check"
           /\ v.result = w.result
           /\ \E o \in w.fresh, e \in Ops :
                /\ Prepares(o.id)
                /\ \E n \in native' : n.epoch = e
                /\ v.fresh = {[o EXCEPT !.epoch = e]}
           /\ UNCHANGED object
  <1>1. PICK w \in Tasks : task = {w} /\ w.kind \in Installing /\ w.pc = "prepare"
    BY TaskAlone DEF PrepareGranted, At
  <1>2. PICK o \in w.fresh : Prepares(o.id) /\ \E e \in {n.epoch : n \in native'} :
          Goes([pc |-> "check", fresh |-> {[o EXCEPT !.epoch = e]}])
    BY <1>1 DEF PrepareGranted, Preparing
  <1>3. o \in Objects
    BY <1>1, TaskFields
  <1>4. \A n \in native' : n.epoch \in Ops
    BY <1>2, <1>3 DEF Prepares, CoreTypes, NativeTypes, Objects
  <1>5. PICK e \in Ops : /\ \E n \in native' : n.epoch = e
                        /\ Goes([pc |-> "check", fresh |-> {[o EXCEPT !.epoch = e]}])
    BY <1>2, <1>4
  <1>6. {[o EXCEPT !.epoch = e]} \in SUBSET Objects
    BY <1>3 DEF Objects, Ops
  <1>7. UNCHANGED object
    BY DEF PrepareGranted
  <1>8. \E v \in Tasks : /\ Becomes(w, v) /\ v.pc = "check" /\ v.result = w.result
              /\ v.fresh = {[o EXCEPT !.epoch = e]}
    BY <1>1, <1>5, <1>6, GoesWith DEF Pcs
  <1> QED
    BY <1>1, <1>2, <1>5, <1>7, <1>8

(* Checks: the operation it moves, and what it becomes.                    *)
LEMMA ChecksMoves ==
  ASSUME CoreTypes, Checks
  PROVE  \E w, v \in Tasks :
           /\ task = {w} /\ Becomes(w, v)
           /\ w.kind \in Installing /\ w.pc = "check" /\ v.pc \in {"release", "undo"}
           /\ v.fresh = w.fresh /\ v.result = w.result
  <1>1. PICK w \in Tasks : task = {w} /\ w.kind \in Installing /\ w.pc = "check"
    BY TaskAlone DEF Checks, At
  <1>2. PICK p \in {"release", "undo"} : Goes([pc |-> p])
    BY DEF Checks
  <1>3. \E v \in Tasks : /\ Becomes(w, v) /\ v.pc = p
              /\ v.fresh = w.fresh /\ v.result = w.result
    BY <1>1, <1>2, GoesTo DEF Pcs
  <1> QED
    BY <1>1, <1>3

(* ReleaseOld: the operation it moves, and what it becomes.                *)
LEMMA ReleaseOldMoves ==
  ASSUME CoreTypes, ReleaseOld
  PROVE  \E w, v \in Tasks, ok \in BOOLEAN :
           /\ task = {w} /\ Becomes(w, v)
           /\ w.kind \in Installing /\ w.pc = "release"
           /\ v.pc = IF ok THEN "install" ELSE "undo"
           /\ ReleaseNative(object, ok)
           /\ v.fresh = w.fresh /\ v.result = w.result
  <1>1. PICK w \in Tasks : task = {w} /\ w.kind \in Installing /\ w.pc = "release"
    BY TaskAlone DEF ReleaseOld, At
  <1>2. PICK ok \in BOOLEAN : /\ ReleaseNative(object, ok)
                             /\ Goes([pc |-> IF ok THEN "install" ELSE "undo"])
    BY DEF ReleaseOld
  <1>3. PICK p \in Pcs : p = IF ok THEN "install" ELSE "undo"
    BY DEF Pcs
  <1>4. \E v \in Tasks : /\ Becomes(w, v) /\ v.pc = p
                        /\ v.fresh = w.fresh /\ v.result = w.result
    BY <1>1, <1>2, <1>3, GoesTo
  <1> QED
    BY <1>1, <1>2, <1>3, <1>4

(* RunAccepted: the operation it moves, and what it becomes.               *)
LEMMA RunAcceptedMoves ==
  ASSUME CoreTypes, RunAccepted
  PROVE  \E w, v \in Tasks :
           /\ task = {w} /\ Becomes(w, v)
           /\ w.kind \in {"solve"} /\ w.pc = "begin" /\ v.pc = "running"
           /\ v.fresh = w.fresh /\ v.result = w.result
  <1>1. PICK w \in Tasks : task = {w} /\ w.kind \in {"solve"} /\ w.pc = "begin"
    BY TaskAlone DEF RunAccepted, At
  <1>2. Goes([pc |-> "running"])
    BY DEF RunAccepted
  <1>3. \E v \in Tasks : /\ Becomes(w, v) /\ v.pc = "running"
              /\ v.fresh = w.fresh /\ v.result = w.result
    BY <1>1, <1>2, GoesTo DEF Pcs
  <1> QED
    BY <1>1, <1>3

(* RunRefused: the operation it moves, and what it becomes.                *)
LEMMA RunRefusedMoves ==
  ASSUME CoreTypes, RunRefused
  PROVE  \E w, v \in Tasks :
           /\ task = {w} /\ Becomes(w, v)
           /\ w.kind \in {"solve"} /\ w.pc = "begin" /\ v.pc = "settle"
           /\ v.fresh = w.fresh /\ v.result = w.result
  <1>1. PICK w \in Tasks : task = {w} /\ w.kind \in {"solve"} /\ w.pc = "begin"
    BY TaskAlone DEF RunRefused, At
  <1>2. Goes([pc |-> "settle"])
    BY DEF RunRefused
  <1>3. \E v \in Tasks : /\ Becomes(w, v) /\ v.pc = "settle"
              /\ v.fresh = w.fresh /\ v.result = w.result
    BY <1>1, <1>2, GoesTo DEF Pcs
  <1> QED
    BY <1>1, <1>3

(* RunAnswers: the operation it moves, and what it becomes.                *)
LEMMA RunAnswersMoves ==
  ASSUME CoreTypes, RunAnswers
  PROVE  \E w, v \in Tasks :
           /\ task = {w} /\ Becomes(w, v)
           /\ w.kind \in {"solve"} /\ w.pc = "running" /\ v.pc = "settle"
           /\ v.fresh = w.fresh /\ v.result = w.result
  <1>1. PICK w \in Tasks : task = {w} /\ w.kind \in {"solve"} /\ w.pc = "running"
    BY TaskAlone DEF RunAnswers, At
  <1>2. PICK ok \in BOOLEAN, output \in Outputs :
          Goes([pc |-> "settle", ok |-> ok, output |-> output])
    BY DEF RunAnswers, Outputs
  <1>3. \E v \in Tasks : /\ Becomes(w, v) /\ v.pc = "settle"
              /\ v.fresh = w.fresh /\ v.result = w.result
    <2>1. "settle" \in Pcs
      BY DEF Pcs
    <2> QED
      BY <1>1, <1>2, <2>1, GoesAnswered
  <1> QED
    BY <1>1, <1>3

(* RunLost: the operation it moves, and what it becomes.                   *)
LEMMA RunLostMoves ==
  ASSUME CoreTypes, RunLost
  PROVE  \E w, v \in Tasks :
           /\ task = {w} /\ Becomes(w, v)
           /\ w.kind \in {"solve"} /\ w.pc = "running" /\ v.pc = "settle"
           /\ v.fresh = w.fresh /\ v.result = w.result
  <1>1. PICK w \in Tasks : task = {w} /\ w.kind \in {"solve"} /\ w.pc = "running"
    BY TaskAlone DEF RunLost, At
  <1>2. PICK output \in Outputs :
          Goes([pc |-> "settle", output |-> output])
    BY DEF RunLost, Outputs
  <1>3. \E v \in Tasks : /\ Becomes(w, v) /\ v.pc = "settle"
              /\ v.fresh = w.fresh /\ v.result = w.result
    <2>1. "settle" \in Pcs
      BY DEF Pcs
    <2> QED
      BY <1>1, <1>2, <2>1, GoesLost
  <1> QED
    BY <1>1, <1>3

(* Settle: the operation it moves, and what it becomes.                    *)
LEMMA SettleMoves ==
  ASSUME CoreTypes, Settle
  PROVE  \E w, v \in Tasks :
           /\ task = {w} /\ Becomes(w, v)
           /\ w.kind \in {"solve"} /\ w.pc = "settle" /\ v.pc = "complete"
           /\ v.fresh = w.fresh /\ v.result = w.result
           /\ \/ result' = result
              \/ \E o \in w.old :
                   /\ result' = {[object |-> o.id, solid |-> o.solid, run |-> w.op]}
                   /\ (\E l \in live : l.run = w.op) \/ live = {}
  <1>1. PICK w \in Tasks : task = {w} /\ w.kind \in {"solve"} /\ w.pc = "settle"
    BY TaskAlone DEF Settle, At
  <1>2. PICK o \in w.old :
          LET matches == \/ w.output = "packed" /\ \E l \in live : l.run = w.op
                         \/ w.output = "empty" /\ live = {} /\ result = {}
          IN
          \/ /\ matches
             /\ result' = {[object |-> o.id, solid |-> o.solid, run |-> w.op]}
             /\ Ends(w.ok)
          \/ Ends(FALSE) /\ result' = result
          \/ Ends(w.ok) /\ result' = result
    BY <1>1 DEF Settle, Captured
  <1>3. PICK ok \in BOOLEAN : Goes([pc |-> "complete", ok |-> ok])
    BY <1>2, TaskFields DEF Ends
  <1>4. \E v \in Tasks : /\ Becomes(w, v) /\ v.pc = "complete" /\ v.fresh = w.fresh
              /\ v.result = w.result
    BY <1>1, <1>3, GoesToEnd
  <1>5. \/ result' = result
        \/ /\ result' = {[object |-> o.id, solid |-> o.solid, run |-> w.op]}
           /\ (\E l \in live : l.run = w.op) \/ live = {}
    BY <1>2
  <1> QED
    BY <1>1, <1>4, <1>5

(* A complete operation is the only one, and is gone after it.             *)
LEMMA CompleteMoves ==
  ASSUME CoreTypes, Complete
  PROVE  \E w \in Tasks : /\ task = {w} /\ w.pc = "complete" /\ task' = {}
  BY TaskAlone DEF Complete, At

(* A packing shown belongs to the running solve and to the object it       *)
(* captured.                                                               *)
LEMMA ShowPackingMoves ==
  ASSUME CoreTypes, ShowPacking
  PROVE  \E w \in Tasks, o \in Objects, n \in 1 .. MaxPackings :
           /\ task = {w} /\ w.kind = "solve" /\ w.pc = "running"
           /\ o \in w.old
           /\ live' = {[object |-> o.id, run |-> w.op, sequence |-> n]}
  <1> DEFINE mine(w) == {l.sequence : l \in {l \in live : l.run = w.op}}
             top(w) == CHOOSE n \in mine(w) \cup {0} : \A m \in mine(w) : m <= n
  <1>1. PICK w \in task, o \in Captured :
          /\ 1 + top(w) <= MaxPackings
          /\ live' = {[object |-> o.id, run |-> w.op, sequence |-> 1 + top(w)]}
    BY DEF ShowPacking
  <1>2. /\ task = {w} /\ w \in Tasks /\ w.kind = "solve" /\ w.pc = "running"
        /\ o \in w.old /\ o \in Objects
    <2>1. task = {w} /\ w \in Tasks
      BY TaskAlone
    <2> QED
      BY <2>1, TaskFields DEF ShowPacking, At, Captured
  <1>3. \E n \in mine(w) \cup {0} : \A m \in mine(w) : m <= n
    <2>1. CASE live = {}
      BY <2>1
    <2>2. CASE live # {}
      <3>1. PICK l \in live : live = {l} /\ l.sequence \in Nat
        BY <2>2 DEF CoreTypes, AtMostOne, Packings
      <3> QED
        BY <3>1
    <2> QED
      BY <2>1, <2>2
  <1>4. mine(w) \subseteq Nat
    BY DEF CoreTypes, Packings
  <1>5. top(w) \in mine(w) \cup {0}
    BY <1>3
  <1> HIDE DEF top, mine
  <1>6. PICK n : n = 1 + top(w)
    OBVIOUS
  <1>7. n \in 1 .. MaxPackings
    BY <1>1, <1>4, <1>5, <1>6, CoreAssumption
  <1> QED
    BY <1>1, <1>2, <1>6, <1>7

-----------------------------------------------------------------------------
(* Types.                                                                  *)

(* Forgetting a dead client keeps the types of client and session.         *)
LEMMA ForgetTyped ==
  ASSUME NativeTypes, ForgetsDead, UNCHANGED engine
  PROVE  NativeTypes'
  BY DEF NativeTypes, ForgetsDead, AtMostOne

(* So does dropping the client.                                            *)
LEMMA DropTyped ==
  ASSUME DropClient
  PROVE  NativeTypes'
  BY DEF NativeTypes, DropClient, NoEngine, AtMostOne

(* So does a release, however it ends.                                     *)
LEMMA ReleaseTyped ==
  ASSUME NativeTypes, NEW S, NEW ok, ReleaseNative(S, ok)
  PROVE  NativeTypes'
  <1>1. CASE UNCHANGED nativeVars
    BY <1>1 DEF NativeTypes, nativeVars
  <1>2. CASE DropClient
    BY <1>2, DropTyped
  <1>3. ASSUME NEW o \in S, EngineReleases(o.id) \/ UNCHANGED engine,
               \/ UNCHANGED native
               \/ native' = {[n EXCEPT !.inStep = FALSE] : n \in native}
        PROVE  NativeTypes'
    <2>1. AtMostOne(native') /\ native' \subseteq [epoch : Ops, inStep : BOOLEAN]
      <3>1. CASE UNCHANGED native
        BY <3>1 DEF NativeTypes
      <3>2. CASE native' = {[n EXCEPT !.inStep = FALSE] : n \in native}
        BY <3>2 DEF NativeTypes, AtMostOne
      <3> QED
        BY <1>3, <3>1, <3>2
    <2>2. /\ engine' \in [alive : BOOLEAN, asset : SUBSET Ops, prior : SUBSET Ops]
          /\ AtMostOne(engine'.asset) /\ AtMostOne(engine'.prior)
      BY <1>3 DEF NativeTypes, EngineReleases, AtMostOne
    <2> QED
      BY <2>1, <2>2 DEF NativeTypes
  <1> QED
    BY <1>1, <1>2, <1>3 DEF ReleaseNative, Prepared

(* So does a prepare, granted or refused.                                  *)
LEMMA PrepareTyped ==
  ASSUME NativeTypes, NEW o \in Ops, Prepares(o) \/ RefusesPrepare(o)
  PROVE  NativeTypes'
  <1>1. native' = native \/ native' = {[epoch |-> o, inStep |-> TRUE]}
    BY DEF Prepares, RefusesPrepare, nativeVars
  <1>2. AtMostOne(native') /\ native' \subseteq [epoch : Ops, inStep : BOOLEAN]
    <2>1. CASE native' = native
      BY <2>1 DEF NativeTypes
    <2>2. CASE native' = {[epoch |-> o, inStep |-> TRUE]}
      BY <2>2 DEF AtMostOne
    <2> QED
      BY <1>1, <2>1, <2>2
  <1>3. \/ engine' = engine
        \/ \E slot \in {{}, engine.asset} :
             engine' = [alive |-> TRUE, asset |-> {o}, prior |-> slot]
        \/ engine' = [alive |-> TRUE, asset |-> {}, prior |-> {}]
    <2>1. CASE Prepares(o)
      BY <2>1 DEF Prepares, NewAsset, nativeVars
    <2>2. CASE RefusesPrepare(o)
      BY <2>2 DEF RefusesPrepare, NoEngine, nativeVars
    <2> QED
      BY <2>1, <2>2
  <1>4. AtMostOne(engine.asset) /\ engine.asset \in SUBSET Ops
    BY DEF NativeTypes
  <1>5. /\ engine' \in [alive : BOOLEAN, asset : SUBSET Ops, prior : SUBSET Ops]
        /\ AtMostOne(engine'.asset) /\ AtMostOne(engine'.prior)
    <2>1. CASE engine' = engine
      BY <2>1 DEF NativeTypes
    <2>2. ASSUME NEW slot \in {{}, engine.asset},
                 engine' = [alive |-> TRUE, asset |-> {o}, prior |-> slot]
          PROVE  /\ engine' \in [alive : BOOLEAN, asset : SUBSET Ops, prior : SUBSET Ops]
                 /\ AtMostOne(engine'.asset) /\ AtMostOne(engine'.prior)
      BY <1>4, <2>2 DEF AtMostOne
    <2>3. CASE engine' = [alive |-> TRUE, asset |-> {}, prior |-> {}]
      BY <2>3 DEF AtMostOne
    <2> QED
      BY <1>3, <2>1, <2>2, <2>3
  <1> QED
    BY <1>2, <1>5 DEF NativeTypes

(* Client and session stay well typed.                                     *)
LEMMA NativeKept ==
  ASSUME CoreTypes, [Next]_vars
  PROVE  NativeTypes'
  <1> USE DEF CoreTypes
  <1>1. CASE \E kind \in Kinds : Begin(kind)
    BY <1>1 DEF Begin, Registers, nativeVars, NativeTypes
  <1>2. CASE Stop
    BY <1>2 DEF Stop, nativeVars, NativeTypes
  <1>3. CASE HelperFails
    BY <1>3, ForgetTyped DEF HelperFails
  <1>4. CASE InspectUnaccepted
    BY <1>4, ForgetTyped DEF InspectUnaccepted
  <1>5. CASE HelperAccepts
    BY <1>5, ForgetTyped DEF HelperAccepts
  <1>6. CASE OpenExtracts
    BY <1>6 DEF OpenExtracts, nativeVars, NativeTypes
  <1>7. CASE ExportDone
    BY <1>7, ForgetTyped DEF ExportDone
  <1>8. CASE Proposes
    BY <1>8, ForgetTyped DEF Proposes
  <1>9. CASE Rejects
    BY <1>9 DEF Rejects, nativeVars, NativeTypes
  <1>10. CASE PrepareGranted
    <2>1. PICK w \in Tasks : \E o \in w.fresh : Prepares(o.id)
      BY <1>10, PrepareGrantedMoves
    <2>1a. PICK o \in w.fresh : Prepares(o.id)
      BY <2>1
    <2>2. o.id \in Ops
      BY <2>1, TaskFields DEF Objects
    <2> QED
      BY <2>1a, <2>2, PrepareTyped
  <1>11. CASE PrepareRefused
    <2>1. PICK o \in Preparing : RefusesPrepare(o.id)
      BY <1>11 DEF PrepareRefused
    <2>2. o.id \in Ops
      BY TaskFields DEF Preparing, CoreTypes, Objects
    <2> QED
      BY <2>1, <2>2, PrepareTyped
  <1>12. CASE PrepareLost
    BY <1>12, DropTyped DEF PrepareLost
  <1>13. CASE Checks
    BY <1>13, ForgetTyped DEF Checks, NativeTypes
  <1>14. CASE ReleaseOld
    BY <1>14, ReleaseTyped DEF ReleaseOld
  <1>15. CASE Undo
    BY <1>15, ReleaseTyped DEF Undo
  <1>16. CASE Install
    BY <1>16 DEF Install, nativeVars, NativeTypes
  <1>17. CASE RunAccepted
    BY <1>17 DEF RunAccepted, nativeVars, NativeTypes
  <1>18. CASE RunRefused
    BY <1>18, DropTyped DEF RunRefused, NativeTypes, nativeVars
  <1>19. CASE RunLost
    BY <1>19, DropTyped DEF RunLost
  <1>20. CASE Settle
    BY <1>20 DEF Settle, nativeVars, NativeTypes
  <1>21. CASE SaveFails
    BY <1>21 DEF SaveFails, nativeVars, NativeTypes
  <1>22. CASE SaveReplaces
    BY <1>22 DEF SaveReplaces, nativeVars, NativeTypes
  <1>23. CASE Complete
    BY <1>23 DEF Complete, nativeVars, NativeTypes
  <1>24. CASE ShowPacking
    BY <1>24 DEF ShowPacking, nativeVars, NativeTypes
  <1>25. CASE RunAnswers
    BY <1>25 DEF RunAnswers, nativeVars, NativeTypes
  <1>26. CASE NewBegins
    BY <1>26 DEF NewBegins, nativeVars, NativeTypes
  <1>27. CASE NewReleases
    BY <1>27, ReleaseTyped DEF NewReleases
  <1>28. CASE NewFails
    BY <1>28 DEF NewFails, nativeVars, NativeTypes
  <1>29. CASE NewClears
    BY <1>29 DEF NewClears, nativeVars, NativeTypes
  <1>30. CASE ProcessDies
    BY <1>30 DEF ProcessDies, NativeTypes, NoEngine, AtMostOne
  <1>31. CASE UNCHANGED vars
    BY <1>31 DEF vars, nativeVars, NativeTypes
  <1> QED
    BY <1>1, <1>2, <1>3, <1>4, <1>5, <1>6, <1>7, <1>8, <1>9,
       <1>10, <1>11, <1>12, <1>13, <1>14, <1>15, <1>16, <1>17, <1>18,
       <1>19, <1>20, <1>21, <1>22, <1>23, <1>24, <1>25, <1>26, <1>27,
       <1>28, <1>29, <1>30, <1>31 DEF Next, Work, NewWorks

(* What registering an operation makes of it.                              *)
LEMMA BeginMoves ==
  ASSUME CoreTypes, NEW kind \in Kinds, Begin(kind)
  PROVE  \E v \in Tasks :
           /\ task' = {v} /\ begun' = begun + 1 /\ begun' \in Ops
           /\ op' = {[id |-> begun', kind |-> kind, phase |-> "active"]}
           /\ v.op = begun' /\ v.kind = kind /\ v.pc = FirstPlace(kind)
           /\ v.old = object /\ v.fresh = {}
           /\ v.result = IF kind = "save" THEN result ELSE {}
           /\ AtMostOne(v.old) /\ AtMostOne(v.fresh) /\ AtMostOne(v.result)
  <1>1. begun' = begun + 1 /\ begun' \in Ops
    BY CoreAssumption DEF Begin, Registers, CoreTypes, Ops
  <1>2. PICK r : r = IF kind = "save" THEN result ELSE {}
    OBVIOUS
  <1>3. r \in SUBSET Results /\ AtMostOne(r)
    BY <1>2 DEF CoreTypes, AtMostOne
  <1>4. PICK p \in Pcs : p = FirstPlace(kind)
    BY DEF FirstPlace, Kinds, Pcs
  <1>5. PICK v : v = [op |-> begun', kind |-> kind, ok |-> FALSE, pc |-> p, old |-> object,
                      fresh |-> {}, output |-> "none", result |-> r]
    OBVIOUS
  <1>6. /\ task' = {v}
        /\ op' = {[id |-> begun', kind |-> kind, phase |-> "active"]}
    BY <1>2, <1>4, <1>5 DEF Begin, Registers
  <1>7. /\ v.op = begun' /\ v.kind = kind /\ v.pc = p
        /\ v.old = object /\ v.fresh = {} /\ v.result = r
    BY <1>5
  <1>8. AtMostOne(object) /\ object \subseteq Objects /\ AtMostOne({})
    BY DEF CoreTypes, AtMostOne
  <1>9. v \in Tasks
    BY <1>1, <1>3, <1>5, <1>8 DEF Tasks, Pcs
  <1> QED
    BY <1>1, <1>2, <1>3, <1>4, <1>6, <1>7, <1>8, <1>9

(* Everything else stays well typed.                                       *)
LEMMA TypesKept ==
  ASSUME CoreTypes, [Next]_vars
  PROVE  CoreTypes'
  <1> USE NativeKept
  <1>1. CASE \E kind \in Kinds : Begin(kind)
    <2>1. PICK kind \in Kinds, v \in Tasks :
            /\ Begin(kind) /\ task' = {v} /\ begun' \in Ops
            /\ op' = {[id |-> begun', kind |-> kind, phase |-> "active"]}
            /\ AtMostOne(v.old) /\ AtMostOne(v.fresh) /\ AtMostOne(v.result)
      BY <1>1, BeginMoves
    <2>2. AtMostOne(op') /\ op' \subseteq [id : Ops, kind : Kinds,
                    phase : {"active", "stopping", "finished", "failed"}]
      BY <2>1 DEF AtMostOne
    <2>3. AtMostOne(task') /\ task' \subseteq Tasks
      BY <2>1 DEF AtMostOne
    <2>4. \A w \in task' : AtMostOne(w.old) /\ AtMostOne(w.fresh) /\ AtMostOne(w.result)
      BY <2>1
    <2>5. begun' \in 0 .. MaxOps
      BY <2>1 DEF Ops
    <2> QED
      BY <2>1, <2>2, <2>3, <2>4, <2>5 DEF Begin, Registers, CoreTypes, shownVars
  <1>2. CASE Stop
    BY <1>2 DEF Stop, CoreTypes, AtMostOne, shownVars
  <1>3. CASE HelperFails
    <2>1. PICK w, v \in Tasks : task = {w} /\ task' = {v} /\ v.old = w.old
                               /\ AtMostOne(v.fresh) /\ AtMostOne(v.result)
      BY <1>3, HelperFailsMoves DEF Becomes, CoreTypes
    <2> QED
      BY <1>3, <2>1 DEF HelperFails, CoreTypes, AtMostOne, RestVars, shownVars
  <1>4. CASE InspectUnaccepted
    <2>1. PICK w, v \in Tasks : task = {w} /\ task' = {v} /\ v.old = w.old
                               /\ AtMostOne(v.fresh) /\ AtMostOne(v.result)
      BY <1>4, InspectUnacceptedMoves DEF Becomes, CoreTypes, AtMostOne
    <2> QED
      BY <1>4, <2>1, TaskFields DEF InspectUnaccepted, CoreTypes, AtMostOne, RestVars,
        shownVars
  <1>5. CASE HelperAccepts
    <2>1. PICK w, v \in Tasks : task = {w} /\ task' = {v} /\ v.old = w.old
                               /\ AtMostOne(v.fresh) /\ AtMostOne(v.result)
      BY <1>5, HelperAcceptsMoves DEF Becomes, CoreTypes, AtMostOne
    <2> QED
      BY <1>5, <2>1, TaskFields DEF HelperAccepts, CoreTypes, AtMostOne, RestVars, shownVars
  <1>6. CASE OpenExtracts
    <2>1. PICK w, v \in Tasks : task = {w} /\ task' = {v} /\ v.old = w.old
                               /\ AtMostOne(v.fresh) /\ AtMostOne(v.result)
      BY <1>6, OpenExtractsMoves DEF Becomes, CoreTypes, AtMostOne
    <2> QED
      BY <1>6, <2>1, TaskFields DEF OpenExtracts, CoreTypes, AtMostOne, RestVars, shownVars
  <1>7. CASE ExportDone
    <2>1. PICK w, v \in Tasks : task = {w} /\ task' = {v} /\ v.old = w.old
                               /\ AtMostOne(v.fresh) /\ AtMostOne(v.result)
      BY <1>7, ExportDoneMoves DEF Becomes, CoreTypes
    <2> QED
      BY <1>7, <2>1 DEF ExportDone, CoreTypes, AtMostOne, RestVars, shownVars
  <1>8. CASE Proposes
    <2>1. PICK w, v \in Tasks : /\ task = {w} /\ task' = {v} /\ v.old = w.old
                               /\ AtMostOne(v.fresh) /\ AtMostOne(v.result)
      BY <1>8, ProposesMoves DEF Becomes, CoreTypes
    <2>2. /\ proposal' \subseteq [object : Ops, op : Ops] /\ AtMostOne(proposal')
          /\ previews' \subseteq Ops
      BY <1>8, <2>1, TaskFields DEF Proposes, Captured, CoreTypes, Objects, AtMostOne
    <2>3. /\ AtMostOne(task') /\ task' \subseteq Tasks
          /\ \A x \in task' : AtMostOne(x.old) /\ AtMostOne(x.fresh) /\ AtMostOne(x.result)
      BY <2>1 DEF CoreTypes, AtMostOne
    <2> QED
      BY <1>8, <2>2, <2>3 DEF Proposes, CoreTypes, RestVars, shownVars
  <1>9. CASE Rejects
    <2>1. PICK w, v \in Tasks : task = {w} /\ task' = {v} /\ v.old = w.old
                               /\ AtMostOne(v.fresh) /\ AtMostOne(v.result)
      BY <1>9, RejectsMoves DEF Becomes, CoreTypes
    <2> QED
      BY <1>9, <2>1 DEF Rejects, CoreTypes, AtMostOne, RestVars, shownVars
  <1>10. CASE PrepareGranted
    <2>1. PICK w, v \in Tasks : task = {w} /\ task' = {v} /\ v.old = w.old
                               /\ AtMostOne(v.fresh) /\ AtMostOne(v.result)
      BY <1>10, PrepareGrantedMoves DEF Becomes, CoreTypes, AtMostOne
    <2>2. previews' \subseteq Ops
      BY <1>10, <2>1, TaskFields DEF PrepareGranted, Preparing, CoreTypes, Objects
    <2>3. /\ AtMostOne(task') /\ task' \subseteq Tasks
          /\ \A x \in task' : AtMostOne(x.old) /\ AtMostOne(x.fresh) /\ AtMostOne(x.result)
      BY <2>1 DEF CoreTypes, AtMostOne
    <2> QED
      BY <1>10, <2>2, <2>3 DEF PrepareGranted, CoreTypes, RestVars, shownVars
  <1>11. CASE PrepareRefused
    <2>1. PICK w, v \in Tasks : task = {w} /\ task' = {v} /\ v.old = w.old
                               /\ AtMostOne(v.fresh) /\ AtMostOne(v.result)
      BY <1>11, PrepareRefusedMoves DEF Becomes, CoreTypes
    <2> QED
      BY <1>11, <2>1 DEF PrepareRefused, CoreTypes, AtMostOne, RestVars, shownVars
  <1>12. CASE PrepareLost
    <2>1. PICK w, v \in Tasks : task = {w} /\ task' = {v} /\ v.old = w.old
                               /\ AtMostOne(v.fresh) /\ AtMostOne(v.result)
      BY <1>12, PrepareLostMoves DEF Becomes, CoreTypes
    <2> QED
      BY <1>12, <2>1 DEF PrepareLost, CoreTypes, AtMostOne, RestVars, shownVars
  <1>13. CASE Checks
    <2>1. PICK w, v \in Tasks : task = {w} /\ task' = {v} /\ v.old = w.old
                               /\ AtMostOne(v.fresh) /\ AtMostOne(v.result)
      BY <1>13, ChecksMoves DEF Becomes, CoreTypes
    <2> QED
      BY <1>13, <2>1 DEF Checks, CoreTypes, AtMostOne, RestVars, shownVars
  <1>14. CASE ReleaseOld
    <2>1. PICK w, v \in Tasks : task = {w} /\ task' = {v} /\ v.old = w.old
                               /\ AtMostOne(v.fresh) /\ AtMostOne(v.result)
      BY <1>14, ReleaseOldMoves DEF Becomes, CoreTypes
    <2> QED
      BY <1>14, <2>1 DEF ReleaseOld, CoreTypes, AtMostOne, RestVars, shownVars
  <1>15. CASE Undo
    <2>1. PICK w, v \in Tasks : task = {w} /\ task' = {v} /\ v.old = w.old
                               /\ AtMostOne(v.fresh) /\ AtMostOne(v.result)
      BY <1>15, UndoMoves DEF Becomes, CoreTypes
    <2> QED
      BY <1>15, <2>1 DEF Undo, CoreTypes, AtMostOne, RestVars, shownVars
  <1>16. CASE Install
    <2>1. PICK w, v \in Tasks : /\ task = {w} /\ task' = {v} /\ v.old = w.old
                               /\ AtMostOne(v.fresh) /\ AtMostOne(v.result)
      BY <1>16, InstallMoves DEF Becomes, CoreTypes
    <2>2. /\ object' \subseteq Objects /\ AtMostOne(object')
          /\ result' \subseteq Results /\ AtMostOne(result')
          /\ proposal' = {} /\ live' = {}
      BY <1>16, <2>1, TaskFields DEF Install, CoreTypes
    <2>2a. AtMostOne({})
      BY DEF AtMostOne
    <2>3. /\ AtMostOne(task') /\ task' \subseteq Tasks
          /\ \A x \in task' : AtMostOne(x.old) /\ AtMostOne(x.fresh) /\ AtMostOne(x.result)
      BY <2>1 DEF CoreTypes, AtMostOne
    <2> QED
      BY <1>16, <2>2, <2>2a, <2>3 DEF Install, CoreTypes, RestVars, shownVars
  <1>17. CASE RunAccepted
    <2>1. PICK w, v \in Tasks : task = {w} /\ task' = {v} /\ v.old = w.old
                               /\ AtMostOne(v.fresh) /\ AtMostOne(v.result)
      BY <1>17, RunAcceptedMoves DEF Becomes, CoreTypes
    <2> QED
      BY <1>17, <2>1 DEF RunAccepted, CoreTypes, AtMostOne, RestVars, shownVars
  <1>18. CASE RunRefused
    <2>1. PICK w, v \in Tasks : task = {w} /\ task' = {v} /\ v.old = w.old
                               /\ AtMostOne(v.fresh) /\ AtMostOne(v.result)
      BY <1>18, RunRefusedMoves DEF Becomes, CoreTypes
    <2> QED
      BY <1>18, <2>1 DEF RunRefused, CoreTypes, AtMostOne, RestVars, shownVars
  <1>19. CASE RunLost
    <2>1. PICK w, v \in Tasks : task = {w} /\ task' = {v} /\ v.old = w.old
                               /\ AtMostOne(v.fresh) /\ AtMostOne(v.result)
      BY <1>19, RunLostMoves DEF Becomes, CoreTypes
    <2> QED
      BY <1>19, <2>1 DEF RunLost, CoreTypes, AtMostOne, RestVars, shownVars
  <1>20. CASE Settle
    <2>1. PICK w, v \in Tasks : /\ task = {w} /\ task' = {v} /\ v.old = w.old
                               /\ AtMostOne(v.fresh) /\ AtMostOne(v.result)
      BY <1>20, SettleMoves DEF Becomes, CoreTypes
    <2>2. result' \subseteq Results /\ AtMostOne(result')
      <3>1. PICK x \in Tasks :
              \/ result' = result
              \/ \E o \in x.old : result' = {[object |-> o.id, solid |-> o.solid,
                run |-> x.op]}
        BY <1>20, SettleMoves
      <3>2. CASE result' = result
        BY <3>2 DEF CoreTypes
      <3>3. ASSUME NEW o \in x.old, result' = {[object |-> o.id, solid |-> o.solid,
        run |-> x.op]}
            PROVE  result' \subseteq Results /\ AtMostOne(result')
        BY <3>3, TaskFields DEF Objects, Results, AtMostOne
      <3> QED
        BY <3>1, <3>2, <3>3
    <2>3. /\ AtMostOne(task') /\ task' \subseteq Tasks
          /\ \A x \in task' : AtMostOne(x.old) /\ AtMostOne(x.fresh) /\ AtMostOne(x.result)
      BY <2>1 DEF CoreTypes, AtMostOne
    <2> QED
      BY <1>20, <2>2, <2>3 DEF Settle, CoreTypes, RestVars, shownVars
  <1>21. CASE SaveFails
    <2>1. PICK w, v \in Tasks : task = {w} /\ task' = {v} /\ v.old = w.old
                               /\ AtMostOne(v.fresh) /\ AtMostOne(v.result)
      BY <1>21, SaveFailsMoves DEF Becomes, CoreTypes
    <2> QED
      BY <1>21, <2>1 DEF SaveFails, CoreTypes, AtMostOne, RestVars, shownVars
  <1>22. CASE SaveReplaces
    <2>1. PICK w, v \in Tasks : /\ task = {w} /\ task' = {v} /\ v.old = w.old
                               /\ AtMostOne(v.fresh) /\ AtMostOne(v.result)
      BY <1>22, SaveReplacesMoves DEF Becomes, CoreTypes
    <2>2. file' \subseteq Projects /\ AtMostOne(file')
      <3>1. PICK o \in w.old, run \in 0 .. MaxOps : file' = {[solid |-> o.solid,
        run |-> run]}
        BY <1>22, <2>1 DEF SaveReplaces, Captured
      <3>2. o.solid \in Ops
        BY TaskFields DEF Objects
      <3> QED
        BY <3>1, <3>2 DEF Projects, AtMostOne
    <2>3. /\ AtMostOne(task') /\ task' \subseteq Tasks
          /\ \A x \in task' : AtMostOne(x.old) /\ AtMostOne(x.fresh) /\ AtMostOne(x.result)
      BY <2>1 DEF CoreTypes, AtMostOne
    <2> QED
      BY <1>22, <2>2, <2>3 DEF SaveReplaces, CoreTypes, RestVars, shownVars
  <1>23. CASE Complete
    BY <1>23 DEF Complete, CoreTypes, AtMostOne, shownVars
  <1>24. CASE ShowPacking
    <2>1. live' \subseteq Packings /\ AtMostOne(live')
      <3>1. PICK w \in Tasks, o \in Objects, n \in 1 .. MaxPackings :
              live' = {[object |-> o.id, run |-> w.op, sequence |-> n]}
        BY <1>24, ShowPackingMoves
      <3> QED
        BY <3>1, TaskFields DEF Objects, Packings, AtMostOne
    <2>2. AtMostOne({})
      BY DEF AtMostOne
    <2> QED
      BY <1>24, <2>1, <2>2 DEF ShowPacking, CoreTypes, RestVars
  <1>25. CASE RunAnswers
    <2>1. PICK w, v \in Tasks : task = {w} /\ task' = {v} /\ v.old = w.old
                               /\ AtMostOne(v.fresh) /\ AtMostOne(v.result)
      BY <1>25, RunAnswersMoves DEF Becomes, CoreTypes
    <2> QED
      BY <1>25, <2>1 DEF RunAnswers, CoreTypes, AtMostOne, RestVars, shownVars
  <1>26. CASE NewBegins
    BY <1>26, CoreAssumption DEF NewBegins, CoreTypes, shownVars
  <1>27. CASE NewReleases
    BY <1>27 DEF NewReleases, CoreTypes, AtMostOne, shownVars
  <1>28. CASE NewFails
    BY <1>28 DEF NewFails, CoreTypes, AtMostOne, shownVars
  <1>29. CASE NewClears
    BY <1>29 DEF NewClears, CoreTypes, AtMostOne, shownVars
  <1>30. CASE ProcessDies
    BY <1>30 DEF ProcessDies, CoreTypes, AtMostOne, shownVars
  <1>31. CASE UNCHANGED vars
    BY <1>31 DEF vars, CoreTypes, AtMostOne, shownVars
  <1> QED
    BY <1>1, <1>2, <1>3, <1>4, <1>5, <1>6, <1>7, <1>8, <1>9,
       <1>10, <1>11, <1>12, <1>13, <1>14, <1>15, <1>16, <1>17, <1>18,
       <1>19, <1>20, <1>21, <1>22, <1>23, <1>24, <1>25, <1>26, <1>27,
       <1>28, <1>29, <1>30, <1>31 DEF Next, Work, NewWorks

(* One operation at a time, active as long as its thread runs; New alone.  *)
LEMMA OneAtATimeKept ==
  ASSUME CoreTypes, OneAtATime, [Next]_vars
  PROVE  OneAtATime'
  <1>1. CASE \E kind \in Kinds : Begin(kind)
    <2>0. PICK kind \in Kinds : Begin(kind)
      BY <1>1
    <2>1. PICK v \in Tasks :
            /\ task' = {v} /\ begun' = begun + 1 /\ begun' \in Ops
            /\ op' = {[id |-> begun', kind |-> kind, phase |-> "active"]}
            /\ v.op = begun' /\ v.kind = kind /\ v.pc = FirstPlace(kind)
            /\ v.old = object /\ v.fresh = {}
            /\ v.result = IF kind = "save" THEN result ELSE {}
      BY <2>0, BeginMoves
    <2> QED
      BY <2>0, <2>1 DEF Begin, Registers, OneAtATime
  <1>2. CASE Stop
    <2>1. PICK p \in op : op' = {[p EXCEPT !.phase = "stopping"]}
      BY <1>2 DEF Stop
    <2>2. op = {p} /\ [p EXCEPT !.phase = "stopping"].id = p.id
          /\ [p EXCEPT !.phase = "stopping"].phase = "stopping"
      BY DEF CoreTypes, AtMostOne
    <2> QED
      BY <1>2, <2>1, <2>2 DEF Stop, OneAtATime
  <1>3. CASE HelperFails
    <2>1. PICK w, v \in Tasks :
                /\ task = {w} /\ Becomes(w, v)
                /\ w.kind \in Kinds /\ w.pc = "helper" /\ v.pc = "complete"
                /\ v.fresh = w.fresh /\ v.result = w.result
      BY <1>3, HelperFailsMoves
    <2> QED
      BY <1>3, <2>1 DEF HelperFails, Becomes, RestVars, shownVars, OneAtATime
  <1>4. CASE InspectUnaccepted
    <2>1. PICK w, v \in Tasks :
                /\ task = {w} /\ Becomes(w, v)
                /\ w.kind \in {"import"} /\ w.pc = "helper" /\ v.pc = "release"
                /\ v.fresh = {NewObject(w, w.op, 0)} /\ v.result = w.result
      BY <1>4, InspectUnacceptedMoves
    <2> QED
      BY <1>4, <2>1 DEF InspectUnaccepted, Becomes, RestVars, shownVars, OneAtATime
  <1>5. CASE HelperAccepts
    <2>1. PICK w, v \in Tasks :
                /\ task = {w} /\ Becomes(w, v)
                /\ w.kind \in {"import", "accept"} /\ w.pc = "helper" /\ v.pc = "prepare"
                /\ v.fresh = {NewObject(w, w.op, 0)} /\ v.result = w.result
      BY <1>5, HelperAcceptsMoves
    <2> QED
      BY <1>5, <2>1 DEF HelperAccepts, Becomes, RestVars, shownVars, OneAtATime
  <1>6. CASE OpenExtracts
    <2>1. PICK w, v \in Tasks :
                /\ task = {w} /\ Becomes(w, v)
                /\ w.kind \in {"open"} /\ w.pc = "helper" /\ v.pc = "prepare"
                /\ \E s \in Ops :
                     /\ v.fresh = {NewObject(w, s, 0)}
                     /\ AtMostOne(v.result)
                     /\ \A r \in v.result : r.object = w.op /\ r.solid = s
      BY <1>6, OpenExtractsMoves
    <2> QED
      BY <1>6, <2>1 DEF OpenExtracts, Becomes, RestVars, shownVars, OneAtATime
  <1>7. CASE ExportDone
    <2>1. PICK w, v \in Tasks :
                /\ task = {w} /\ Becomes(w, v)
                /\ w.kind \in {"export"} /\ w.pc = "helper" /\ v.pc = "complete"
                /\ v.fresh = w.fresh /\ v.result = w.result
      BY <1>7, ExportDoneMoves
    <2> QED
      BY <1>7, <2>1 DEF ExportDone, Becomes, RestVars, shownVars, OneAtATime
  <1>8. CASE Proposes
    <2>1. PICK w, v \in Tasks :
                /\ task = {w} /\ Becomes(w, v)
                /\ w.kind \in {"propose"} /\ w.pc = "helper" /\ v.pc = "complete"
                /\ v.fresh = w.fresh /\ v.result = w.result
      BY <1>8, ProposesMoves
    <2> QED
      BY <1>8, <2>1 DEF Proposes, Becomes, RestVars, shownVars, OneAtATime
  <1>9. CASE Rejects
    <2>1. PICK w, v \in Tasks :
                /\ task = {w} /\ Becomes(w, v)
                /\ w.kind \in {"reject"} /\ w.pc = "drop" /\ v.pc = "complete"
                /\ v.fresh = w.fresh /\ v.result = w.result
      BY <1>9, RejectsMoves
    <2> QED
      BY <1>9, <2>1 DEF Rejects, Becomes, RestVars, shownVars, OneAtATime
  <1>10. CASE PrepareGranted
    <2>1. PICK w, v \in Tasks :
                /\ task = {w} /\ Becomes(w, v)
                /\ w.kind \in Installing /\ w.pc = "prepare" /\ v.pc = "check"
                /\ v.result = w.result
                /\ \E o \in w.fresh, e \in Ops :
                     /\ Prepares(o.id)
                     /\ \E n \in native' : n.epoch = e
                     /\ v.fresh = {[o EXCEPT !.epoch = e]}
                /\ UNCHANGED object
      BY <1>10, PrepareGrantedMoves
    <2> QED
      BY <1>10, <2>1 DEF PrepareGranted, Becomes, RestVars, shownVars, OneAtATime
  <1>11. CASE PrepareRefused
    <2>1. PICK w, v \in Tasks :
                /\ task = {w} /\ Becomes(w, v)
                /\ w.kind \in Installing /\ w.pc = "prepare" /\ v.pc = "complete"
                /\ v.fresh = w.fresh /\ v.result = w.result
      BY <1>11, PrepareRefusedMoves
    <2> QED
      BY <1>11, <2>1 DEF PrepareRefused, Becomes, RestVars, shownVars, OneAtATime
  <1>12. CASE PrepareLost
    <2>1. PICK w, v \in Tasks :
                /\ task = {w} /\ Becomes(w, v)
                /\ w.kind \in Installing /\ w.pc = "prepare" /\ v.pc = "complete"
                /\ v.fresh = w.fresh /\ v.result = w.result
      BY <1>12, PrepareLostMoves
    <2> QED
      BY <1>12, <2>1 DEF PrepareLost, Becomes, RestVars, shownVars, OneAtATime
  <1>13. CASE Checks
    <2>1. PICK w, v \in Tasks :
                /\ task = {w} /\ Becomes(w, v)
                /\ w.kind \in Installing /\ w.pc = "check" /\ v.pc \in {"release", "undo"}
                /\ v.fresh = w.fresh /\ v.result = w.result
      BY <1>13, ChecksMoves
    <2> QED
      BY <1>13, <2>1 DEF Checks, Becomes, RestVars, shownVars, OneAtATime
  <1>14. CASE ReleaseOld
    <2>1. PICK w, v \in Tasks, ok \in BOOLEAN :
                /\ task = {w} /\ Becomes(w, v)
                /\ w.kind \in Installing /\ w.pc = "release"
                /\ v.pc = IF ok THEN "install" ELSE "undo"
                /\ ReleaseNative(object, ok)
                /\ v.fresh = w.fresh /\ v.result = w.result
      BY <1>14, ReleaseOldMoves
    <2> QED
      BY <1>14, <2>1 DEF ReleaseOld, Becomes, RestVars, shownVars, OneAtATime
  <1>15. CASE Undo
    <2>1. PICK w, v \in Tasks :
                /\ task = {w} /\ Becomes(w, v)
                /\ w.kind \in Installing /\ w.pc = "undo" /\ v.pc = "complete"
                /\ v.fresh = w.fresh /\ v.result = w.result
      BY <1>15, UndoMoves
    <2> QED
      BY <1>15, <2>1 DEF Undo, Becomes, RestVars, shownVars, OneAtATime
  <1>16. CASE Install
    <2>1. PICK w, v \in Tasks :
                /\ task = {w} /\ Becomes(w, v)
                /\ w.kind \in Installing /\ w.pc = "install" /\ v.pc = "complete"
                /\ v.fresh = w.fresh /\ v.result = w.result
      BY <1>16, InstallMoves
    <2> QED
      BY <1>16, <2>1 DEF Install, Becomes, RestVars, shownVars, OneAtATime
  <1>17. CASE RunAccepted
    <2>1. PICK w, v \in Tasks :
                /\ task = {w} /\ Becomes(w, v)
                /\ w.kind \in {"solve"} /\ w.pc = "begin" /\ v.pc = "running"
                /\ v.fresh = w.fresh /\ v.result = w.result
      BY <1>17, RunAcceptedMoves
    <2> QED
      BY <1>17, <2>1 DEF RunAccepted, Becomes, RestVars, shownVars, OneAtATime
  <1>18. CASE RunRefused
    <2>1. PICK w, v \in Tasks :
                /\ task = {w} /\ Becomes(w, v)
                /\ w.kind \in {"solve"} /\ w.pc = "begin" /\ v.pc = "settle"
                /\ v.fresh = w.fresh /\ v.result = w.result
      BY <1>18, RunRefusedMoves
    <2> QED
      BY <1>18, <2>1 DEF RunRefused, Becomes, RestVars, shownVars, OneAtATime
  <1>19. CASE RunLost
    <2>1. PICK w, v \in Tasks :
                /\ task = {w} /\ Becomes(w, v)
                /\ w.kind \in {"solve"} /\ w.pc = "running" /\ v.pc = "settle"
                /\ v.fresh = w.fresh /\ v.result = w.result
      BY <1>19, RunLostMoves
    <2> QED
      BY <1>19, <2>1 DEF RunLost, Becomes, RestVars, shownVars, OneAtATime
  <1>20. CASE Settle
    <2>1. PICK w, v \in Tasks :
                /\ task = {w} /\ Becomes(w, v)
                /\ w.kind \in {"solve"} /\ w.pc = "settle" /\ v.pc = "complete"
                /\ v.fresh = w.fresh /\ v.result = w.result
                /\ \/ result' = result
                   \/ \E o \in w.old :
                        /\ result' = {[object |-> o.id, solid |-> o.solid, run |-> w.op]}
                        /\ (\E l \in live : l.run = w.op) \/ live = {}
      BY <1>20, SettleMoves
    <2> QED
      BY <1>20, <2>1 DEF Settle, Becomes, RestVars, shownVars, OneAtATime
  <1>21. CASE SaveFails
    <2>1. PICK w, v \in Tasks :
                /\ task = {w} /\ Becomes(w, v)
                /\ w.kind \in {"save"} /\ w.pc = "replace" /\ v.pc = "complete"
                /\ v.fresh = w.fresh /\ v.result = w.result
      BY <1>21, SaveFailsMoves
    <2> QED
      BY <1>21, <2>1 DEF SaveFails, Becomes, RestVars, shownVars, OneAtATime
  <1>22. CASE SaveReplaces
    <2>1. PICK w, v \in Tasks :
                /\ task = {w} /\ Becomes(w, v)
                /\ w.kind \in {"save"} /\ w.pc = "replace" /\ v.pc = "complete"
                /\ v.fresh = w.fresh /\ v.result = w.result
      BY <1>22, SaveReplacesMoves
    <2> QED
      BY <1>22, <2>1 DEF SaveReplaces, Becomes, RestVars, shownVars, OneAtATime
  <1>23. CASE Complete
    BY <1>23, CompleteMoves DEF Complete, OneAtATime
  <1>24. CASE ShowPacking
    BY <1>24 DEF ShowPacking, OneAtATime, RestVars
  <1>25. CASE RunAnswers
    <2>1. PICK w, v \in Tasks :
                /\ task = {w} /\ Becomes(w, v)
                /\ w.kind \in {"solve"} /\ w.pc = "running" /\ v.pc = "settle"
                /\ v.fresh = w.fresh /\ v.result = w.result
      BY <1>25, RunAnswersMoves
    <2> QED
      BY <1>25, <2>1 DEF RunAnswers, Becomes, RestVars, shownVars, OneAtATime
  <1>26. CASE NewBegins
    <2>1. task = {}
      BY <1>26 DEF NewBegins, OneAtATime, Active
    <2> QED
      BY <1>26, <2>1 DEF NewBegins, OneAtATime
  <1>27. CASE NewReleases
    BY <1>27 DEF NewReleases, OneAtATime, shownVars
  <1>28. CASE NewFails
    BY <1>28 DEF NewFails, OneAtATime, shownVars
  <1>29. CASE NewClears
    BY <1>29 DEF NewClears, OneAtATime, shownVars
  <1>30. CASE ProcessDies
    BY <1>30 DEF ProcessDies, OneAtATime
  <1>31. CASE UNCHANGED vars
    BY <1>31 DEF vars, OneAtATime, shownVars
  <1> QED
    BY <1>1, <1>2, <1>3, <1>4, <1>5, <1>6, <1>7, <1>8, <1>9,
       <1>10, <1>11, <1>12, <1>13, <1>14, <1>15, <1>16, <1>17, <1>18,
       <1>19, <1>20, <1>21, <1>22, <1>23, <1>24, <1>25, <1>26, <1>27,
       <1>28, <1>29, <1>30, <1>31 DEF Next, Work, NewWorks

(* What the steps of the client and the session do to its epoch.           *)
LEMMA ReleaseEpoch ==
  ASSUME NativeTypes, NEW S, NEW ok, ReleaseNative(S, ok), NEW n \in native'
  PROVE  \E m \in native : n.epoch = m.epoch
  <1>1. \/ native' = native \/ native' = {}
        \/ native' = {[m EXCEPT !.inStep = FALSE] : m \in native}
    BY DEF ReleaseNative, DropClient, nativeVars
  <1>2. \A m \in native : [m EXCEPT !.inStep = FALSE].epoch = m.epoch
    BY DEF NativeTypes
  <1>3. CASE native' = {[m EXCEPT !.inStep = FALSE] : m \in native}
    <2>1. PICK m \in native : n = [m EXCEPT !.inStep = FALSE]
      BY <1>3
    <2> QED
      BY <2>1, <1>2
  <1> QED
    BY <1>1, <1>3

(* No client bears the number of an operation that has not begun.          *)
LEMMA EpochKept ==
  ASSUME CoreTypes, OneAtATime, Numbered, [Next]_vars, NEW n \in native'
  PROVE  n.epoch <= begun'
  <1>a. begun \in Nat /\ \A m \in native : m.epoch <= begun /\ m.epoch \in Nat
    BY DEF Numbered, CoreTypes, NativeTypes, Ops
  <1>1. CASE \E kind \in Kinds : Begin(kind)
    BY <1>1, <1>a DEF Begin, Registers, nativeVars
  <1>2. CASE Stop
    BY <1>2, <1>a DEF Stop, RestVars, nativeVars
  <1>3. CASE HelperFails
    BY <1>3, <1>a DEF HelperFails, ForgetsDead, RestVars
  <1>4. CASE InspectUnaccepted
    BY <1>4, <1>a DEF InspectUnaccepted, ForgetsDead, RestVars
  <1>5. CASE HelperAccepts
    BY <1>5, <1>a DEF HelperAccepts, ForgetsDead, RestVars
  <1>6. CASE OpenExtracts
    BY <1>6, <1>a DEF OpenExtracts, RestVars, nativeVars
  <1>7. CASE ExportDone
    BY <1>7, <1>a DEF ExportDone, ForgetsDead, RestVars
  <1>8. CASE Proposes
    BY <1>8, <1>a DEF Proposes, ForgetsDead, RestVars
  <1>9. CASE Rejects
    BY <1>9, <1>a DEF Rejects, RestVars, nativeVars
  <1>10. CASE PrepareGranted
    <2>1. PICK w \in Tasks : task = {w} /\ \E o \in w.fresh : Prepares(o.id)
      BY <1>10, PrepareGrantedMoves
    <2>2. PICK o \in w.fresh : Prepares(o.id) /\ o.id = begun
      BY <2>1 DEF Numbered, OneAtATime
    <2>3. native' = native \/ native' = {[epoch |-> o.id, inStep |-> TRUE]}
      BY <2>2 DEF Prepares
    <2> QED
      BY <1>10, <1>a, <2>2, <2>3 DEF PrepareGranted, RestVars
  <1>11. CASE PrepareRefused
    <2>0. PICK w \in task : \E o \in w.fresh : RefusesPrepare(o.id)
      BY <1>11 DEF PrepareRefused, Preparing
    <2>1. PICK o \in w.fresh : RefusesPrepare(o.id)
      BY <2>0
    <2>2. o.id = begun
      BY <2>1 DEF Numbered, OneAtATime
    <2>3. native' = native \/ native' = {[epoch |-> o.id, inStep |-> TRUE]}
      BY <2>1 DEF RefusesPrepare, nativeVars
    <2> QED
      BY <1>11, <1>a, <2>2, <2>3 DEF PrepareRefused, RestVars
  <1>12. CASE PrepareLost
    BY <1>12, <1>a DEF PrepareLost, DropClient, RestVars, nativeVars
  <1>13. CASE Checks
    BY <1>13, <1>a DEF Checks, ForgetsDead, RestVars
  <1>14. CASE ReleaseOld
    BY <1>14, <1>a, ReleaseEpoch DEF ReleaseOld, RestVars, CoreTypes
  <1>15. CASE Undo
    BY <1>15, <1>a, ReleaseEpoch DEF Undo, RestVars, CoreTypes
  <1>16. CASE Install
    BY <1>16, <1>a DEF Install, RestVars, nativeVars
  <1>17. CASE RunAccepted
    BY <1>17, <1>a DEF RunAccepted, RestVars, nativeVars
  <1>18. CASE RunRefused
    BY <1>18, <1>a DEF RunRefused, DropClient, RestVars, nativeVars
  <1>19. CASE RunLost
    BY <1>19, <1>a DEF RunLost, DropClient, RestVars, nativeVars
  <1>20. CASE Settle
    BY <1>20, <1>a DEF Settle, RestVars, nativeVars
  <1>21. CASE SaveFails
    BY <1>21, <1>a DEF SaveFails, RestVars, nativeVars
  <1>22. CASE SaveReplaces
    BY <1>22, <1>a DEF SaveReplaces, RestVars, nativeVars
  <1>23. CASE Complete
    BY <1>23, <1>a DEF Complete, RestVars, nativeVars
  <1>24. CASE ShowPacking
    BY <1>24, <1>a DEF ShowPacking, RestVars, nativeVars
  <1>25. CASE RunAnswers
    BY <1>25, <1>a DEF RunAnswers, RestVars, nativeVars
  <1>26. CASE NewBegins
    BY <1>26, <1>a DEF NewBegins, nativeVars
  <1>27. CASE NewReleases
    BY <1>27, <1>a, ReleaseEpoch DEF NewReleases, CoreTypes
  <1>28. CASE NewFails
    BY <1>28, <1>a DEF NewFails, RestVars, nativeVars
  <1>29. CASE NewClears
    BY <1>29, <1>a DEF NewClears, RestVars, nativeVars
  <1>30. CASE ProcessDies
    BY <1>30, <1>a DEF ProcessDies, RestVars, nativeVars
  <1>31. CASE UNCHANGED vars
    BY <1>31, <1>a DEF vars, RestVars, nativeVars
  <1> QED
    BY <1>1, <1>2, <1>3, <1>4, <1>5, <1>6, <1>7, <1>8, <1>9,
       <1>10, <1>11, <1>12, <1>13, <1>14, <1>15, <1>16, <1>17, <1>18,
       <1>19, <1>20, <1>21, <1>22, <1>23, <1>24, <1>25, <1>26, <1>27,
       <1>28, <1>29, <1>30, <1>31 DEF Next, Work, NewWorks

(* Numbers only grow.                                                      *)
LEMMA NumberedKept ==
  ASSUME CoreTypes, OneAtATime, Numbered, [Next]_vars
  PROVE  Numbered'
  <1>e. \A n \in native' : n.epoch <= begun'
    BY EpochKept
  <1>a. begun \in Nat /\ \A o \in object : o.id \in Nat /\ o.epoch \in Nat
    BY DEF CoreTypes, Objects, Ops
  <1>1. CASE \E kind \in Kinds : Begin(kind)
    <2>0. PICK kind \in Kinds : Begin(kind)
      BY <1>1
    <2>1. PICK v \in Tasks :
            /\ task' = {v} /\ begun' = begun + 1 /\ begun' \in Ops
            /\ op' = {[id |-> begun', kind |-> kind, phase |-> "active"]}
            /\ v.op = begun' /\ v.kind = kind /\ v.pc = FirstPlace(kind)
            /\ v.old = object /\ v.fresh = {}
            /\ v.result = IF kind = "save" THEN result ELSE {}
      BY <2>0, BeginMoves
    <2> QED
      BY <2>0, <2>1, <1>e, <1>a DEF Begin, Registers, Numbered, shownVars
  <1>2. CASE Stop
    BY <1>2, <1>e DEF Stop, Numbered, shownVars
  <1>3. CASE HelperFails
    <2>1. PICK w, v \in Tasks :
                /\ task = {w} /\ Becomes(w, v)
                /\ w.kind \in Kinds /\ w.pc = "helper" /\ v.pc = "complete"
                /\ v.fresh = w.fresh /\ v.result = w.result
      BY <1>3, HelperFailsMoves
    <2> QED
      BY <1>3, <2>1, <1>e DEF HelperFails, Becomes, RestVars, shownVars, Numbered
  <1>4. CASE InspectUnaccepted
    <2>1. PICK w, v \in Tasks :
                /\ task = {w} /\ Becomes(w, v)
                /\ w.kind \in {"import"} /\ w.pc = "helper" /\ v.pc = "release"
                /\ v.fresh = {NewObject(w, w.op, 0)} /\ v.result = w.result
      BY <1>4, InspectUnacceptedMoves
    <2>2. \A f \in v.fresh : f.id = w.op /\ f.epoch = 0 /\ w.op \in Nat
      BY <2>1, TaskFields DEF NewObject, Ops
    <2>3. /\ UNCHANGED <<object, begun>> /\ v.op = w.op
          /\ \A o \in object : o.id <= begun /\ o.epoch <= o.id /\ o.id < w.op
      BY <1>4, <2>1 DEF InspectUnaccepted, Numbered, Becomes, RestVars, shownVars
    <2> QED
      BY <2>1, <2>2, <2>3, <1>e DEF Numbered, Becomes
  <1>5. CASE HelperAccepts
    <2>1. PICK w, v \in Tasks :
                /\ task = {w} /\ Becomes(w, v)
                /\ w.kind \in {"import", "accept"} /\ w.pc = "helper" /\ v.pc = "prepare"
                /\ v.fresh = {NewObject(w, w.op, 0)} /\ v.result = w.result
      BY <1>5, HelperAcceptsMoves
    <2>2. \A f \in v.fresh : f.id = w.op /\ f.epoch = 0 /\ w.op \in Nat
      BY <2>1, TaskFields DEF NewObject, Ops
    <2>3. /\ UNCHANGED <<object, begun>> /\ v.op = w.op
          /\ \A o \in object : o.id <= begun /\ o.epoch <= o.id /\ o.id < w.op
      BY <1>5, <2>1 DEF HelperAccepts, Numbered, Becomes, RestVars, shownVars
    <2> QED
      BY <2>1, <2>2, <2>3, <1>e DEF Numbered, Becomes
  <1>6. CASE OpenExtracts
    <2>1. PICK w, v \in Tasks :
                /\ task = {w} /\ Becomes(w, v)
                /\ w.kind \in {"open"} /\ w.pc = "helper" /\ v.pc = "prepare"
                /\ \E s \in Ops :
                     /\ v.fresh = {NewObject(w, s, 0)}
                     /\ AtMostOne(v.result)
                     /\ \A r \in v.result : r.object = w.op /\ r.solid = s
      BY <1>6, OpenExtractsMoves
    <2>2. PICK s \in Ops : v.fresh = {NewObject(w, s, 0)}
      BY <2>1
    <2> QED
      BY <1>6, <2>1, <2>2, <1>e, TaskFields DEF OpenExtracts, Numbered, NewObject,
        Becomes, RestVars, shownVars, Ops
  <1>7. CASE ExportDone
    <2>1. PICK w, v \in Tasks :
                /\ task = {w} /\ Becomes(w, v)
                /\ w.kind \in {"export"} /\ w.pc = "helper" /\ v.pc = "complete"
                /\ v.fresh = w.fresh /\ v.result = w.result
      BY <1>7, ExportDoneMoves
    <2> QED
      BY <1>7, <2>1, <1>e DEF ExportDone, Becomes, RestVars, shownVars, Numbered
  <1>8. CASE Proposes
    <2>1. PICK w, v \in Tasks :
                /\ task = {w} /\ Becomes(w, v)
                /\ w.kind \in {"propose"} /\ w.pc = "helper" /\ v.pc = "complete"
                /\ v.fresh = w.fresh /\ v.result = w.result
      BY <1>8, ProposesMoves
    <2> QED
      BY <1>8, <2>1, <1>e DEF Proposes, Becomes, RestVars, shownVars, Numbered
  <1>9. CASE Rejects
    <2>1. PICK w, v \in Tasks :
                /\ task = {w} /\ Becomes(w, v)
                /\ w.kind \in {"reject"} /\ w.pc = "drop" /\ v.pc = "complete"
                /\ v.fresh = w.fresh /\ v.result = w.result
      BY <1>9, RejectsMoves
    <2> QED
      BY <1>9, <2>1, <1>e DEF Rejects, Becomes, RestVars, shownVars, Numbered
  <1>10. CASE PrepareGranted
    <2>1. PICK w, v \in Tasks :
                /\ task = {w} /\ Becomes(w, v)
                /\ w.kind \in Installing /\ w.pc = "prepare" /\ v.pc = "check"
                /\ v.result = w.result
                /\ \E o \in w.fresh, e \in Ops :
                     /\ Prepares(o.id)
                     /\ \E n \in native' : n.epoch = e
                     /\ v.fresh = {[o EXCEPT !.epoch = e]}
                /\ UNCHANGED object
      BY <1>10, PrepareGrantedMoves
    <2>2. PICK o \in w.fresh, e \in Ops :
            v.fresh = {[o EXCEPT !.epoch = e]} /\ \E n \in native' : n.epoch = e
      BY <2>1
    <2>3. e <= begun /\ begun = w.op
      BY <1>10, <2>1, <2>2, <1>e DEF PrepareGranted, RestVars, OneAtATime
    <2>4. o \in Objects /\ o.id = w.op
      BY <2>1, TaskFields DEF Numbered
    <2>5. \A f \in v.fresh : f.id = w.op /\ f.epoch = e
      BY <2>2, <2>4 DEF Objects
    <2> QED
      BY <1>10, <2>1, <2>3, <2>5, <1>e DEF PrepareGranted, Numbered, Becomes, RestVars
  <1>11. CASE PrepareRefused
    <2>1. PICK w, v \in Tasks :
                /\ task = {w} /\ Becomes(w, v)
                /\ w.kind \in Installing /\ w.pc = "prepare" /\ v.pc = "complete"
                /\ v.fresh = w.fresh /\ v.result = w.result
      BY <1>11, PrepareRefusedMoves
    <2> QED
      BY <1>11, <2>1, <1>e DEF PrepareRefused, Becomes, RestVars, shownVars, Numbered
  <1>12. CASE PrepareLost
    <2>1. PICK w, v \in Tasks :
                /\ task = {w} /\ Becomes(w, v)
                /\ w.kind \in Installing /\ w.pc = "prepare" /\ v.pc = "complete"
                /\ v.fresh = w.fresh /\ v.result = w.result
      BY <1>12, PrepareLostMoves
    <2> QED
      BY <1>12, <2>1, <1>e DEF PrepareLost, Becomes, RestVars, shownVars, Numbered
  <1>13. CASE Checks
    <2>1. PICK w, v \in Tasks :
                /\ task = {w} /\ Becomes(w, v)
                /\ w.kind \in Installing /\ w.pc = "check" /\ v.pc \in {"release", "undo"}
                /\ v.fresh = w.fresh /\ v.result = w.result
      BY <1>13, ChecksMoves
    <2> QED
      BY <1>13, <2>1, <1>e DEF Checks, Becomes, RestVars, shownVars, Numbered
  <1>14. CASE ReleaseOld
    <2>1. PICK w, v \in Tasks, ok \in BOOLEAN :
                /\ task = {w} /\ Becomes(w, v)
                /\ w.kind \in Installing /\ w.pc = "release"
                /\ v.pc = IF ok THEN "install" ELSE "undo"
                /\ ReleaseNative(object, ok)
                /\ v.fresh = w.fresh /\ v.result = w.result
      BY <1>14, ReleaseOldMoves
    <2> QED
      BY <1>14, <2>1, <1>e DEF ReleaseOld, Becomes, RestVars, shownVars, Numbered
  <1>15. CASE Undo
    <2>1. PICK w, v \in Tasks :
                /\ task = {w} /\ Becomes(w, v)
                /\ w.kind \in Installing /\ w.pc = "undo" /\ v.pc = "complete"
                /\ v.fresh = w.fresh /\ v.result = w.result
      BY <1>15, UndoMoves
    <2> QED
      BY <1>15, <2>1, <1>e DEF Undo, Becomes, RestVars, shownVars, Numbered
  <1>16. CASE Install
    <2>1. PICK w, v \in Tasks :
                /\ task = {w} /\ Becomes(w, v)
                /\ w.kind \in Installing /\ w.pc = "install" /\ v.pc = "complete"
                /\ v.fresh = w.fresh /\ v.result = w.result
      BY <1>16, InstallMoves
    <2>2. object' = w.fresh /\ begun' = begun /\ w.op = begun
      BY <1>16, <2>1 DEF Install, RestVars, OneAtATime
    <2>3. \A f \in w.fresh : f.id = w.op /\ f.epoch <= w.op
      BY <2>1 DEF Numbered
    <2>4. \A o \in object' : o.id <= begun' /\ o.epoch <= o.id
      BY <2>2, <2>3 DEF CoreTypes
    <2>5. \A x \in task' : /\ x.pc = "complete" /\ x.op = w.op /\ x.fresh = w.fresh
      BY <2>1 DEF Becomes
    <2> QED
      BY <2>3, <2>4, <2>5, <1>e DEF Numbered
  <1>17. CASE RunAccepted
    <2>1. PICK w, v \in Tasks :
                /\ task = {w} /\ Becomes(w, v)
                /\ w.kind \in {"solve"} /\ w.pc = "begin" /\ v.pc = "running"
                /\ v.fresh = w.fresh /\ v.result = w.result
      BY <1>17, RunAcceptedMoves
    <2> QED
      BY <1>17, <2>1, <1>e DEF RunAccepted, Becomes, RestVars, shownVars, Numbered
  <1>18. CASE RunRefused
    <2>1. PICK w, v \in Tasks :
                /\ task = {w} /\ Becomes(w, v)
                /\ w.kind \in {"solve"} /\ w.pc = "begin" /\ v.pc = "settle"
                /\ v.fresh = w.fresh /\ v.result = w.result
      BY <1>18, RunRefusedMoves
    <2> QED
      BY <1>18, <2>1, <1>e DEF RunRefused, Becomes, RestVars, shownVars, Numbered
  <1>19. CASE RunLost
    <2>1. PICK w, v \in Tasks :
                /\ task = {w} /\ Becomes(w, v)
                /\ w.kind \in {"solve"} /\ w.pc = "running" /\ v.pc = "settle"
                /\ v.fresh = w.fresh /\ v.result = w.result
      BY <1>19, RunLostMoves
    <2> QED
      BY <1>19, <2>1, <1>e DEF RunLost, Becomes, RestVars, shownVars, Numbered
  <1>20. CASE Settle
    <2>1. PICK w, v \in Tasks :
                /\ task = {w} /\ Becomes(w, v)
                /\ w.kind \in {"solve"} /\ w.pc = "settle" /\ v.pc = "complete"
                /\ v.fresh = w.fresh /\ v.result = w.result
                /\ \/ result' = result
                   \/ \E o \in w.old :
                        /\ result' = {[object |-> o.id, solid |-> o.solid, run |-> w.op]}
                        /\ (\E l \in live : l.run = w.op) \/ live = {}
      BY <1>20, SettleMoves
    <2> QED
      BY <1>20, <2>1, <1>e DEF Settle, Becomes, RestVars, shownVars, Numbered
  <1>21. CASE SaveFails
    <2>1. PICK w, v \in Tasks :
                /\ task = {w} /\ Becomes(w, v)
                /\ w.kind \in {"save"} /\ w.pc = "replace" /\ v.pc = "complete"
                /\ v.fresh = w.fresh /\ v.result = w.result
      BY <1>21, SaveFailsMoves
    <2> QED
      BY <1>21, <2>1, <1>e DEF SaveFails, Becomes, RestVars, shownVars, Numbered
  <1>22. CASE SaveReplaces
    <2>1. PICK w, v \in Tasks :
                /\ task = {w} /\ Becomes(w, v)
                /\ w.kind \in {"save"} /\ w.pc = "replace" /\ v.pc = "complete"
                /\ v.fresh = w.fresh /\ v.result = w.result
      BY <1>22, SaveReplacesMoves
    <2> QED
      BY <1>22, <2>1, <1>e DEF SaveReplaces, Becomes, RestVars, shownVars, Numbered
  <1>23. CASE Complete
    BY <1>23, CompleteMoves, <1>e DEF Complete, Numbered
  <1>24. CASE ShowPacking
    BY <1>24, <1>e DEF ShowPacking, Numbered, RestVars
  <1>25. CASE RunAnswers
    <2>1. PICK w, v \in Tasks :
                /\ task = {w} /\ Becomes(w, v)
                /\ w.kind \in {"solve"} /\ w.pc = "running" /\ v.pc = "settle"
                /\ v.fresh = w.fresh /\ v.result = w.result
      BY <1>25, RunAnswersMoves
    <2> QED
      BY <1>25, <2>1, <1>e DEF RunAnswers, Becomes, RestVars, shownVars, Numbered
  <1>26. CASE NewBegins
    BY <1>26, <1>e, <1>a DEF NewBegins, Numbered, OneAtATime, Active, shownVars
  <1>27. CASE NewReleases
    BY <1>27, <1>e DEF NewReleases, Numbered, shownVars
  <1>28. CASE NewFails
    BY <1>28, <1>e DEF NewFails, Numbered, shownVars
  <1>29. CASE NewClears
    BY <1>29, <1>e DEF NewClears, Numbered, shownVars
  <1>30. CASE ProcessDies
    BY <1>30, <1>e DEF ProcessDies, Numbered, shownVars
  <1>31. CASE UNCHANGED vars
    BY <1>31, <1>e DEF vars, Numbered, shownVars
  <1> QED
    BY <1>1, <1>2, <1>3, <1>4, <1>5, <1>6, <1>7, <1>8, <1>9,
       <1>10, <1>11, <1>12, <1>13, <1>14, <1>15, <1>16, <1>17, <1>18,
       <1>19, <1>20, <1>21, <1>22, <1>23, <1>24, <1>25, <1>26, <1>27,
       <1>28, <1>29, <1>30, <1>31 DEF Next, Work, NewWorks

(* What each thread carries belongs to its place.                          *)
LEMMA ThreadsKept ==
  ASSUME CoreTypes, OneAtATime, Threads, [Next]_vars
  PROVE  Threads'
  <1>1. CASE \E kind \in Kinds : Begin(kind)
    <2>0. PICK kind \in Kinds : Begin(kind)
      BY <1>1
    <2>1. PICK v \in Tasks :
            /\ task' = {v} /\ begun' = begun + 1 /\ begun' \in Ops
            /\ op' = {[id |-> begun', kind |-> kind, phase |-> "active"]}
            /\ v.op = begun' /\ v.kind = kind /\ v.pc = FirstPlace(kind)
            /\ v.old = object /\ v.fresh = {}
            /\ v.result = IF kind = "save" THEN result ELSE {}
      BY <2>0, BeginMoves
    <2>2. live # {} => result # {} \/ kind # "save"
      BY <2>0 DEF Begin, Admits, AdmitsSave
    <2>3. /\ v.pc \in {"helper", "begin", "replace", "drop"}
          /\ v.pc = "replace" <=> kind = "save"
      BY <2>1 DEF FirstPlace, Kinds
    <2> QED
      BY <2>0, <2>1, <2>2, <2>3 DEF Begin, Registers, Threads, shownVars
  <1>2. CASE Stop
    BY <1>2 DEF Stop, Threads, shownVars
  <1>3. CASE HelperFails
    <2>1. PICK w, v \in Tasks :
                /\ task = {w} /\ Becomes(w, v)
                /\ w.kind \in Kinds /\ w.pc = "helper" /\ v.pc = "complete"
                /\ v.fresh = w.fresh /\ v.result = w.result
      BY <1>3, HelperFailsMoves
    <2> QED
      BY <1>3, <2>1 DEF HelperFails, Becomes, RestVars, shownVars, Threads, Installing
  <1>4. CASE InspectUnaccepted
    <2>1. PICK w, v \in Tasks :
                /\ task = {w} /\ Becomes(w, v)
                /\ w.kind \in {"import"} /\ w.pc = "helper" /\ v.pc = "release"
                /\ v.fresh = {NewObject(w, w.op, 0)} /\ v.result = w.result
      BY <1>4, InspectUnacceptedMoves
    <2>2. Prepared(v.fresh) = {} /\ v.fresh # {}
      BY <2>1 DEF NewObject, Prepared
    <2> QED
      BY <1>4, <2>1, <2>2 DEF InspectUnaccepted, Threads, Becomes, Installing
  <1>5. CASE HelperAccepts
    <2>1. PICK w, v \in Tasks :
                /\ task = {w} /\ Becomes(w, v)
                /\ w.kind \in {"import", "accept"} /\ w.pc = "helper" /\ v.pc = "prepare"
                /\ v.fresh = {NewObject(w, w.op, 0)} /\ v.result = w.result
      BY <1>5, HelperAcceptsMoves
    <2>2. Prepared(v.fresh) = {} /\ v.fresh # {}
      BY <2>1 DEF NewObject, Prepared
    <2> QED
      BY <1>5, <2>1, <2>2 DEF HelperAccepts, Threads, Becomes, Installing
  <1>6. CASE OpenExtracts
    <2>1. PICK w, v \in Tasks :
                /\ task = {w} /\ Becomes(w, v)
                /\ w.kind \in {"open"} /\ w.pc = "helper" /\ v.pc = "prepare"
                /\ \E s \in Ops :
                     /\ v.fresh = {NewObject(w, s, 0)}
                     /\ AtMostOne(v.result)
                     /\ \A r \in v.result : r.object = w.op /\ r.solid = s
      BY <1>6, OpenExtractsMoves
    <2>2. Prepared(v.fresh) = {} /\ v.fresh # {}
      BY <2>1 DEF NewObject, Prepared
    <2> QED
      BY <1>6, <2>1, <2>2 DEF OpenExtracts, Threads, Becomes, Installing
  <1>7. CASE ExportDone
    <2>1. PICK w, v \in Tasks :
                /\ task = {w} /\ Becomes(w, v)
                /\ w.kind \in {"export"} /\ w.pc = "helper" /\ v.pc = "complete"
                /\ v.fresh = w.fresh /\ v.result = w.result
      BY <1>7, ExportDoneMoves
    <2> QED
      BY <1>7, <2>1 DEF ExportDone, Becomes, RestVars, shownVars, Threads, Installing
  <1>8. CASE Proposes
    <2>1. PICK w, v \in Tasks :
                /\ task = {w} /\ Becomes(w, v)
                /\ w.kind \in {"propose"} /\ w.pc = "helper" /\ v.pc = "complete"
                /\ v.fresh = w.fresh /\ v.result = w.result
      BY <1>8, ProposesMoves
    <2> QED
      BY <1>8, <2>1 DEF Proposes, Becomes, RestVars, shownVars, Threads, Installing
  <1>9. CASE Rejects
    <2>1. PICK w, v \in Tasks :
                /\ task = {w} /\ Becomes(w, v)
                /\ w.kind \in {"reject"} /\ w.pc = "drop" /\ v.pc = "complete"
                /\ v.fresh = w.fresh /\ v.result = w.result
      BY <1>9, RejectsMoves
    <2> QED
      BY <1>9, <2>1 DEF Rejects, Becomes, RestVars, shownVars, Threads, Installing
  <1>10. CASE PrepareGranted
    <2>1. PICK w, v \in Tasks :
                /\ task = {w} /\ Becomes(w, v)
                /\ w.kind \in Installing /\ w.pc = "prepare" /\ v.pc = "check"
                /\ v.result = w.result
                /\ \E o \in w.fresh, e \in Ops :
                     /\ Prepares(o.id)
                     /\ \E n \in native' : n.epoch = e
                     /\ v.fresh = {[o EXCEPT !.epoch = e]}
                /\ UNCHANGED object
      BY <1>10, PrepareGrantedMoves
    <2>2. PICK o \in w.fresh, e \in Ops : v.fresh = {[o EXCEPT !.epoch = e]}
      BY <2>1
    <2>3. PICK f : f = [o EXCEPT !.epoch = e]
      OBVIOUS
    <2>3a. o \in Objects
      BY <2>1, TaskFields
    <2>3b. f.epoch = e /\ e # 0
      BY <2>3, <2>3a DEF Objects, Ops
    <2>4. Prepared(v.fresh) # {} /\ v.fresh # {}
      BY <2>2, <2>3, <2>3b DEF Prepared
    <2> QED
      BY <2>1, <2>4 DEF Threads, Becomes, Installing
  <1>11. CASE PrepareRefused
    <2>1. PICK w, v \in Tasks :
                /\ task = {w} /\ Becomes(w, v)
                /\ w.kind \in Installing /\ w.pc = "prepare" /\ v.pc = "complete"
                /\ v.fresh = w.fresh /\ v.result = w.result
      BY <1>11, PrepareRefusedMoves
    <2> QED
      BY <1>11, <2>1 DEF PrepareRefused, Becomes, RestVars, shownVars, Threads, Installing
  <1>12. CASE PrepareLost
    <2>1. PICK w, v \in Tasks :
                /\ task = {w} /\ Becomes(w, v)
                /\ w.kind \in Installing /\ w.pc = "prepare" /\ v.pc = "complete"
                /\ v.fresh = w.fresh /\ v.result = w.result
      BY <1>12, PrepareLostMoves
    <2> QED
      BY <1>12, <2>1 DEF PrepareLost, Becomes, RestVars, shownVars, Threads, Installing
  <1>13. CASE Checks
    <2>1. PICK w, v \in Tasks :
                /\ task = {w} /\ Becomes(w, v)
                /\ w.kind \in Installing /\ w.pc = "check" /\ v.pc \in {"release", "undo"}
                /\ v.fresh = w.fresh /\ v.result = w.result
      BY <1>13, ChecksMoves
    <2> QED
      BY <1>13, <2>1 DEF Checks, Becomes, RestVars, shownVars, Threads, Installing
  <1>14. CASE ReleaseOld
    <2>1. PICK w, v \in Tasks, ok \in BOOLEAN :
                /\ task = {w} /\ Becomes(w, v)
                /\ w.kind \in Installing /\ w.pc = "release"
                /\ v.pc = IF ok THEN "install" ELSE "undo"
                /\ ReleaseNative(object, ok)
                /\ v.fresh = w.fresh /\ v.result = w.result
      BY <1>14, ReleaseOldMoves
    <2> QED
      BY <1>14, <2>1 DEF ReleaseOld, Becomes, RestVars, shownVars, Threads, Installing
  <1>15. CASE Undo
    <2>1. PICK w, v \in Tasks :
                /\ task = {w} /\ Becomes(w, v)
                /\ w.kind \in Installing /\ w.pc = "undo" /\ v.pc = "complete"
                /\ v.fresh = w.fresh /\ v.result = w.result
      BY <1>15, UndoMoves
    <2> QED
      BY <1>15, <2>1 DEF Undo, Becomes, RestVars, shownVars, Threads, Installing
  <1>16. CASE Install
    <2>1. PICK w, v \in Tasks :
                /\ task = {w} /\ Becomes(w, v)
                /\ w.kind \in Installing /\ w.pc = "install" /\ v.pc = "complete"
                /\ v.fresh = w.fresh /\ v.result = w.result
      BY <1>16, InstallMoves
    <2> QED
      BY <1>16, <2>1 DEF Install, Becomes, RestVars, shownVars, Threads, Installing
  <1>17. CASE RunAccepted
    <2>1. PICK w, v \in Tasks :
                /\ task = {w} /\ Becomes(w, v)
                /\ w.kind \in {"solve"} /\ w.pc = "begin" /\ v.pc = "running"
                /\ v.fresh = w.fresh /\ v.result = w.result
      BY <1>17, RunAcceptedMoves
    <2> QED
      BY <1>17, <2>1 DEF RunAccepted, Becomes, RestVars, shownVars, Threads, Installing
  <1>18. CASE RunRefused
    <2>1. PICK w, v \in Tasks :
                /\ task = {w} /\ Becomes(w, v)
                /\ w.kind \in {"solve"} /\ w.pc = "begin" /\ v.pc = "settle"
                /\ v.fresh = w.fresh /\ v.result = w.result
      BY <1>18, RunRefusedMoves
    <2> QED
      BY <1>18, <2>1 DEF RunRefused, Becomes, RestVars, shownVars, Threads, Installing
  <1>19. CASE RunLost
    <2>1. PICK w, v \in Tasks :
                /\ task = {w} /\ Becomes(w, v)
                /\ w.kind \in {"solve"} /\ w.pc = "running" /\ v.pc = "settle"
                /\ v.fresh = w.fresh /\ v.result = w.result
      BY <1>19, RunLostMoves
    <2> QED
      BY <1>19, <2>1 DEF RunLost, Becomes, RestVars, shownVars, Threads, Installing
  <1>20. CASE Settle
    <2>1. PICK w, v \in Tasks :
                /\ task = {w} /\ Becomes(w, v)
                /\ w.kind \in {"solve"} /\ w.pc = "settle" /\ v.pc = "complete"
                /\ v.fresh = w.fresh /\ v.result = w.result
                /\ \/ result' = result
                   \/ \E o \in w.old :
                        /\ result' = {[object |-> o.id, solid |-> o.solid, run |-> w.op]}
                        /\ (\E l \in live : l.run = w.op) \/ live = {}
      BY <1>20, SettleMoves
    <2> QED
      BY <1>20, <2>1 DEF Settle, Becomes, RestVars, shownVars, Threads, Installing
  <1>21. CASE SaveFails
    <2>1. PICK w, v \in Tasks :
                /\ task = {w} /\ Becomes(w, v)
                /\ w.kind \in {"save"} /\ w.pc = "replace" /\ v.pc = "complete"
                /\ v.fresh = w.fresh /\ v.result = w.result
      BY <1>21, SaveFailsMoves
    <2> QED
      BY <1>21, <2>1 DEF SaveFails, Becomes, RestVars, shownVars, Threads, Installing
  <1>22. CASE SaveReplaces
    <2>1. PICK w, v \in Tasks :
                /\ task = {w} /\ Becomes(w, v)
                /\ w.kind \in {"save"} /\ w.pc = "replace" /\ v.pc = "complete"
                /\ v.fresh = w.fresh /\ v.result = w.result
      BY <1>22, SaveReplacesMoves
    <2> QED
      BY <1>22, <2>1 DEF SaveReplaces, Becomes, RestVars, shownVars, Threads, Installing
  <1>23. CASE Complete
    BY <1>23 DEF Complete, Threads
  <1>24. CASE ShowPacking
    BY <1>24, ShowPackingMoves DEF ShowPacking, Threads, RestVars
  <1>25. CASE RunAnswers
    <2>1. PICK w, v \in Tasks :
                /\ task = {w} /\ Becomes(w, v)
                /\ w.kind \in {"solve"} /\ w.pc = "running" /\ v.pc = "settle"
                /\ v.fresh = w.fresh /\ v.result = w.result
      BY <1>25, RunAnswersMoves
    <2> QED
      BY <1>25, <2>1 DEF RunAnswers, Becomes, RestVars, shownVars, Threads, Installing
  <1>26. CASE NewBegins
    BY <1>26 DEF NewBegins, Threads, shownVars
  <1>27. CASE NewReleases
    BY <1>27 DEF NewReleases, Threads, shownVars
  <1>28. CASE NewFails
    BY <1>28 DEF NewFails, Threads, shownVars
  <1>29. CASE NewClears
    BY <1>29 DEF NewClears, Threads, OneAtATime
  <1>30. CASE ProcessDies
    BY <1>30 DEF ProcessDies, Threads, shownVars
  <1>31. CASE UNCHANGED vars
    BY <1>31 DEF vars, Threads, shownVars
  <1> QED
    BY <1>1, <1>2, <1>3, <1>4, <1>5, <1>6, <1>7, <1>8, <1>9,
       <1>10, <1>11, <1>12, <1>13, <1>14, <1>15, <1>16, <1>17, <1>18,
       <1>19, <1>20, <1>21, <1>22, <1>23, <1>24, <1>25, <1>26, <1>27,
       <1>28, <1>29, <1>30, <1>31 DEF Next, Work, NewWorks

(* A run that shows a packing takes away the result of an earlier one.     *)
LEMMA SameRunKept ==
  ASSUME CoreTypes, SameRun, [Next]_vars
  PROVE  SameRun'
  <1>1. CASE \E kind \in Kinds : Begin(kind)
    BY <1>1 DEF Begin, Registers, SameRun, shownVars
  <1>2. CASE Stop
    BY <1>2 DEF Stop, SameRun, shownVars
  <1>3. CASE HelperFails
    BY <1>3 DEF HelperFails, SameRun, shownVars
  <1>4. CASE InspectUnaccepted
    BY <1>4 DEF InspectUnaccepted, SameRun, shownVars
  <1>5. CASE HelperAccepts
    BY <1>5 DEF HelperAccepts, SameRun, shownVars
  <1>6. CASE OpenExtracts
    BY <1>6 DEF OpenExtracts, SameRun, shownVars
  <1>7. CASE ExportDone
    BY <1>7 DEF ExportDone, SameRun, shownVars
  <1>8. CASE Proposes
    BY <1>8 DEF Proposes, SameRun, shownVars
  <1>9. CASE Rejects
    BY <1>9 DEF Rejects, SameRun, shownVars
  <1>10. CASE PrepareGranted
    BY <1>10 DEF PrepareGranted, SameRun, shownVars
  <1>11. CASE PrepareRefused
    BY <1>11 DEF PrepareRefused, SameRun, shownVars
  <1>12. CASE PrepareLost
    BY <1>12 DEF PrepareLost, SameRun, shownVars
  <1>13. CASE Checks
    BY <1>13 DEF Checks, SameRun, shownVars
  <1>14. CASE ReleaseOld
    BY <1>14 DEF ReleaseOld, SameRun, shownVars
  <1>15. CASE Undo
    BY <1>15 DEF Undo, SameRun, shownVars
  <1>16. CASE Install
    BY <1>16 DEF Install, SameRun
  <1>17. CASE RunAccepted
    BY <1>17 DEF RunAccepted, SameRun, shownVars
  <1>18. CASE RunRefused
    BY <1>18 DEF RunRefused, SameRun, shownVars
  <1>19. CASE RunLost
    BY <1>19 DEF RunLost, SameRun, shownVars
  <1>20. CASE Settle
    <2>1. PICK w, v \in Tasks :
                /\ task = {w} /\ Becomes(w, v)
                /\ w.kind \in {"solve"} /\ w.pc = "settle" /\ v.pc = "complete"
                /\ v.fresh = w.fresh /\ v.result = w.result
                /\ \/ result' = result
                   \/ \E o \in w.old :
                        /\ result' = {[object |-> o.id, solid |-> o.solid, run |-> w.op]}
                        /\ (\E l \in live : l.run = w.op) \/ live = {}
      BY <1>20, SettleMoves
    <2>2. live' = live
      BY <1>20 DEF Settle
    <2>3. \A k, l \in live : k = l
      BY DEF CoreTypes, AtMostOne
    <2> QED
      BY <2>1, <2>2, <2>3 DEF SameRun
  <1>21. CASE SaveFails
    BY <1>21 DEF SaveFails, SameRun, shownVars
  <1>22. CASE SaveReplaces
    BY <1>22 DEF SaveReplaces, SameRun, shownVars
  <1>23. CASE Complete
    BY <1>23 DEF Complete, SameRun, shownVars
  <1>24. CASE ShowPacking
    BY <1>24 DEF ShowPacking, SameRun
  <1>25. CASE RunAnswers
    BY <1>25 DEF RunAnswers, SameRun, shownVars
  <1>26. CASE NewBegins
    BY <1>26 DEF NewBegins, SameRun, shownVars
  <1>27. CASE NewReleases
    BY <1>27 DEF NewReleases, SameRun, shownVars
  <1>28. CASE NewFails
    BY <1>28 DEF NewFails, SameRun, shownVars
  <1>29. CASE NewClears
    BY <1>29 DEF NewClears, SameRun
  <1>30. CASE ProcessDies
    BY <1>30 DEF ProcessDies, SameRun, shownVars
  <1>31. CASE UNCHANGED vars
    BY <1>31 DEF vars, SameRun, shownVars
  <1> QED
    BY <1>1, <1>2, <1>3, <1>4, <1>5, <1>6, <1>7, <1>8, <1>9,
       <1>10, <1>11, <1>12, <1>13, <1>14, <1>15, <1>16, <1>17, <1>18,
       <1>19, <1>20, <1>21, <1>22, <1>23, <1>24, <1>25, <1>26, <1>27,
       <1>28, <1>29, <1>30, <1>31 DEF Next, Work, NewWorks

(* What is displayed beside an object is of that object.                   *)
LEMMA BelongsKept ==
  ASSUME CoreTypes, OneAtATime, Numbered, Threads, Belongs, [Next]_vars
  PROVE  Belongs'
  <1>a. AtMostOne(object)
    BY DEF CoreTypes
  <1>1. CASE \E kind \in Kinds : Begin(kind)
    <2>0. PICK kind \in Kinds : Begin(kind)
      BY <1>1
    <2>1. PICK v \in Tasks :
            /\ task' = {v} /\ begun' = begun + 1 /\ begun' \in Ops
            /\ op' = {[id |-> begun', kind |-> kind, phase |-> "active"]}
            /\ v.op = begun' /\ v.kind = kind /\ v.pc = FirstPlace(kind)
            /\ v.old = object /\ v.fresh = {}
            /\ v.result = IF kind = "save" THEN result ELSE {}
      BY <2>0, BeginMoves
    <2>2. v.kind \in Installing => v.result = {}
      BY <2>1 DEF Installing
    <2> QED
      BY <2>0, <2>1, <2>2 DEF Begin, Registers, Belongs, shownVars
  <1>2. CASE Stop
    BY <1>2 DEF Stop, Belongs, shownVars
  <1>3. CASE HelperFails
    <2>1. PICK w, v \in Tasks :
                /\ task = {w} /\ Becomes(w, v)
                /\ w.kind \in Kinds /\ w.pc = "helper" /\ v.pc = "complete"
                /\ v.fresh = w.fresh /\ v.result = w.result
      BY <1>3, HelperFailsMoves
    <2> QED
      BY <1>3, <2>1 DEF HelperFails, Becomes, RestVars, shownVars, Belongs
  <1>4. CASE InspectUnaccepted
    <2>1. PICK w, v \in Tasks :
                /\ task = {w} /\ Becomes(w, v)
                /\ w.kind \in {"import"} /\ w.pc = "helper" /\ v.pc = "release"
                /\ v.fresh = {NewObject(w, w.op, 0)} /\ v.result = w.result
      BY <1>4, InspectUnacceptedMoves
    <2>2. v.result = {}
      BY <2>1 DEF Belongs, Installing
    <2> QED
      BY <1>4, <2>1, <2>2 DEF InspectUnaccepted, Belongs, Becomes, RestVars, shownVars
  <1>5. CASE HelperAccepts
    <2>1. PICK w, v \in Tasks :
                /\ task = {w} /\ Becomes(w, v)
                /\ w.kind \in {"import", "accept"} /\ w.pc = "helper" /\ v.pc = "prepare"
                /\ v.fresh = {NewObject(w, w.op, 0)} /\ v.result = w.result
      BY <1>5, HelperAcceptsMoves
    <2>2. v.result = {}
      BY <2>1 DEF Belongs, Installing
    <2> QED
      BY <1>5, <2>1, <2>2 DEF HelperAccepts, Belongs, Becomes, RestVars, shownVars
  <1>6. CASE OpenExtracts
    <2>1. PICK w, v \in Tasks :
                /\ task = {w} /\ Becomes(w, v)
                /\ w.kind \in {"open"} /\ w.pc = "helper" /\ v.pc = "prepare"
                /\ \E s \in Ops :
                     /\ v.fresh = {NewObject(w, s, 0)}
                     /\ AtMostOne(v.result)
                     /\ \A r \in v.result : r.object = w.op /\ r.solid = s
      BY <1>6, OpenExtractsMoves
    <2>2. \A f \in v.fresh, r \in v.result : r.object = f.id /\ r.solid = f.solid
      BY <2>1 DEF NewObject
    <2> QED
      BY <1>6, <2>1, <2>2 DEF OpenExtracts, Belongs, Becomes, RestVars, shownVars
  <1>7. CASE ExportDone
    <2>1. PICK w, v \in Tasks :
                /\ task = {w} /\ Becomes(w, v)
                /\ w.kind \in {"export"} /\ w.pc = "helper" /\ v.pc = "complete"
                /\ v.fresh = w.fresh /\ v.result = w.result
      BY <1>7, ExportDoneMoves
    <2> QED
      BY <1>7, <2>1 DEF ExportDone, Becomes, RestVars, shownVars, Belongs
  <1>8. CASE Proposes
    <2>1. PICK w, v \in Tasks :
                /\ task = {w} /\ Becomes(w, v)
                /\ w.kind \in {"propose"} /\ w.pc = "helper" /\ v.pc = "complete"
                /\ v.fresh = w.fresh /\ v.result = w.result
      BY <1>8, ProposesMoves
    <2> QED
      BY <1>8, <2>1 DEF Proposes, Becomes, RestVars, shownVars, Belongs
  <1>9. CASE Rejects
    <2>1. PICK w, v \in Tasks :
                /\ task = {w} /\ Becomes(w, v)
                /\ w.kind \in {"reject"} /\ w.pc = "drop" /\ v.pc = "complete"
                /\ v.fresh = w.fresh /\ v.result = w.result
      BY <1>9, RejectsMoves
    <2> QED
      BY <1>9, <2>1 DEF Rejects, Becomes, RestVars, shownVars, Belongs
  <1>10. CASE PrepareGranted
    <2>1. PICK w, v \in Tasks :
                /\ task = {w} /\ Becomes(w, v)
                /\ w.kind \in Installing /\ w.pc = "prepare" /\ v.pc = "check"
                /\ v.result = w.result
                /\ \E o \in w.fresh, e \in Ops :
                     /\ Prepares(o.id)
                     /\ \E n \in native' : n.epoch = e
                     /\ v.fresh = {[o EXCEPT !.epoch = e]}
                /\ UNCHANGED object
      BY <1>10, PrepareGrantedMoves
    <2>2. PICK o \in w.fresh, e \in Ops : v.fresh = {[o EXCEPT !.epoch = e]}
      BY <2>1
    <2>3. \A f \in v.fresh : f.id = o.id /\ f.solid = o.solid
      BY <2>1, <2>2, TaskFields DEF Objects
    <2>4. \A f \in v.fresh, r \in v.result : r.object = f.id /\ r.solid = f.solid
      <3>1. \A r \in w.result : r.object = o.id /\ r.solid = o.solid
        BY <2>1, <2>2 DEF Belongs
      <3> QED
        BY <2>1, <2>3, <3>1
    <2>5. UNCHANGED <<object, result, live>>
      BY <1>10 DEF PrepareGranted
    <2> QED
      BY <2>1, <2>4, <2>5, ZenonT(60) DEF Belongs, Becomes
  <1>11. CASE PrepareRefused
    <2>1. PICK w, v \in Tasks :
                /\ task = {w} /\ Becomes(w, v)
                /\ w.kind \in Installing /\ w.pc = "prepare" /\ v.pc = "complete"
                /\ v.fresh = w.fresh /\ v.result = w.result
      BY <1>11, PrepareRefusedMoves
    <2> QED
      BY <1>11, <2>1 DEF PrepareRefused, Becomes, RestVars, shownVars, Belongs
  <1>12. CASE PrepareLost
    <2>1. PICK w, v \in Tasks :
                /\ task = {w} /\ Becomes(w, v)
                /\ w.kind \in Installing /\ w.pc = "prepare" /\ v.pc = "complete"
                /\ v.fresh = w.fresh /\ v.result = w.result
      BY <1>12, PrepareLostMoves
    <2> QED
      BY <1>12, <2>1 DEF PrepareLost, Becomes, RestVars, shownVars, Belongs
  <1>13. CASE Checks
    <2>1. PICK w, v \in Tasks :
                /\ task = {w} /\ Becomes(w, v)
                /\ w.kind \in Installing /\ w.pc = "check" /\ v.pc \in {"release", "undo"}
                /\ v.fresh = w.fresh /\ v.result = w.result
      BY <1>13, ChecksMoves
    <2> QED
      BY <1>13, <2>1 DEF Checks, Becomes, RestVars, shownVars, Belongs
  <1>14. CASE ReleaseOld
    <2>1. PICK w, v \in Tasks, ok \in BOOLEAN :
                /\ task = {w} /\ Becomes(w, v)
                /\ w.kind \in Installing /\ w.pc = "release"
                /\ v.pc = IF ok THEN "install" ELSE "undo"
                /\ ReleaseNative(object, ok)
                /\ v.fresh = w.fresh /\ v.result = w.result
      BY <1>14, ReleaseOldMoves
    <2> QED
      BY <1>14, <2>1 DEF ReleaseOld, Becomes, RestVars, shownVars, Belongs
  <1>15. CASE Undo
    <2>1. PICK w, v \in Tasks :
                /\ task = {w} /\ Becomes(w, v)
                /\ w.kind \in Installing /\ w.pc = "undo" /\ v.pc = "complete"
                /\ v.fresh = w.fresh /\ v.result = w.result
      BY <1>15, UndoMoves
    <2> QED
      BY <1>15, <2>1 DEF Undo, Becomes, RestVars, shownVars, Belongs
  <1>16. CASE Install
    <2>1. PICK w, v \in Tasks :
                /\ task = {w} /\ Becomes(w, v)
                /\ w.kind \in Installing /\ w.pc = "install" /\ v.pc = "complete"
                /\ v.fresh = w.fresh /\ v.result = w.result
      BY <1>16, InstallMoves
    <2>2. object' = w.fresh /\ result' = w.result /\ live' = {}
      BY <1>16, <2>1 DEF Install
    <2>3. \A f \in w.fresh, r \in w.result : r.object = f.id /\ r.solid = f.solid
      BY <2>1 DEF Belongs
    <2> QED
      BY <2>1, <2>2, <2>3 DEF Belongs, Becomes
  <1>17. CASE RunAccepted
    <2>1. PICK w, v \in Tasks :
                /\ task = {w} /\ Becomes(w, v)
                /\ w.kind \in {"solve"} /\ w.pc = "begin" /\ v.pc = "running"
                /\ v.fresh = w.fresh /\ v.result = w.result
      BY <1>17, RunAcceptedMoves
    <2> QED
      BY <1>17, <2>1 DEF RunAccepted, Becomes, RestVars, shownVars, Belongs
  <1>18. CASE RunRefused
    <2>1. PICK w, v \in Tasks :
                /\ task = {w} /\ Becomes(w, v)
                /\ w.kind \in {"solve"} /\ w.pc = "begin" /\ v.pc = "settle"
                /\ v.fresh = w.fresh /\ v.result = w.result
      BY <1>18, RunRefusedMoves
    <2> QED
      BY <1>18, <2>1 DEF RunRefused, Becomes, RestVars, shownVars, Belongs
  <1>19. CASE RunLost
    <2>1. PICK w, v \in Tasks :
                /\ task = {w} /\ Becomes(w, v)
                /\ w.kind \in {"solve"} /\ w.pc = "running" /\ v.pc = "settle"
                /\ v.fresh = w.fresh /\ v.result = w.result
      BY <1>19, RunLostMoves
    <2> QED
      BY <1>19, <2>1 DEF RunLost, Becomes, RestVars, shownVars, Belongs
  <1>20. CASE Settle
    <2>1. PICK w, v \in Tasks :
                /\ task = {w} /\ Becomes(w, v)
                /\ w.kind \in {"solve"} /\ w.pc = "settle" /\ v.pc = "complete"
                /\ v.fresh = w.fresh /\ v.result = w.result
                /\ \/ result' = result
                   \/ \E o \in w.old :
                        /\ result' = {[object |-> o.id, solid |-> o.solid, run |-> w.op]}
                        /\ (\E l \in live : l.run = w.op) \/ live = {}
      BY <1>20, SettleMoves
    <2>2. w.old = object /\ object' = object /\ live' = live
      BY <1>20, <2>1 DEF Settle, Threads, Installing
    <2>3. \A o \in object, r \in result' : r.object = o.id /\ r.solid = o.solid
      <3>1. CASE result' = result
        BY <3>1 DEF Belongs
      <3>2. ASSUME NEW o \in w.old,
                   result' = {[object |-> o.id, solid |-> o.solid, run |-> w.op]}
            PROVE  \A q \in object, r \in result' : r.object = q.id /\ r.solid = q.solid
        BY <3>2, <2>2, <1>a DEF AtMostOne
      <3> QED
        BY <2>1, <3>1, <3>2
    <2> QED
      BY <2>1, <2>2, <2>3 DEF Belongs, Becomes, Installing
  <1>21. CASE SaveFails
    <2>1. PICK w, v \in Tasks :
                /\ task = {w} /\ Becomes(w, v)
                /\ w.kind \in {"save"} /\ w.pc = "replace" /\ v.pc = "complete"
                /\ v.fresh = w.fresh /\ v.result = w.result
      BY <1>21, SaveFailsMoves
    <2> QED
      BY <1>21, <2>1 DEF SaveFails, Becomes, RestVars, shownVars, Belongs
  <1>22. CASE SaveReplaces
    <2>1. PICK w, v \in Tasks :
                /\ task = {w} /\ Becomes(w, v)
                /\ w.kind \in {"save"} /\ w.pc = "replace" /\ v.pc = "complete"
                /\ v.fresh = w.fresh /\ v.result = w.result
      BY <1>22, SaveReplacesMoves
    <2> QED
      BY <1>22, <2>1 DEF SaveReplaces, Becomes, RestVars, shownVars, Belongs
  <1>23. CASE Complete
    BY <1>23 DEF Complete, Belongs
  <1>24. CASE ShowPacking
    <2>1. PICK w \in Tasks, o \in Objects, n \in 1 .. MaxPackings :
                /\ task = {w} /\ w.kind = "solve" /\ w.pc = "running"
                /\ o \in w.old
                /\ live' = {[object |-> o.id, run |-> w.op, sequence |-> n]}
      BY <1>24, ShowPackingMoves
    <2>2. w.old = object /\ object' = object /\ result' = {} /\ task' = task
      BY <1>24, <2>1 DEF ShowPacking, Threads, Installing
    <2>3. \A q \in object, l \in live' : l.object = q.id
      BY <2>1, <2>2, <1>a DEF AtMostOne
    <2> QED
      BY <2>2, <2>3 DEF Belongs
  <1>25. CASE RunAnswers
    <2>1. PICK w, v \in Tasks :
                /\ task = {w} /\ Becomes(w, v)
                /\ w.kind \in {"solve"} /\ w.pc = "running" /\ v.pc = "settle"
                /\ v.fresh = w.fresh /\ v.result = w.result
      BY <1>25, RunAnswersMoves
    <2> QED
      BY <1>25, <2>1 DEF RunAnswers, Becomes, RestVars, shownVars, Belongs
  <1>26. CASE NewBegins
    BY <1>26 DEF NewBegins, Belongs, shownVars
  <1>27. CASE NewReleases
    BY <1>27 DEF NewReleases, Belongs, shownVars
  <1>28. CASE NewFails
    BY <1>28 DEF NewFails, Belongs, shownVars
  <1>29. CASE NewClears
    BY <1>29 DEF NewClears, Belongs, OneAtATime
  <1>30. CASE ProcessDies
    BY <1>30 DEF ProcessDies, Belongs, shownVars
  <1>31. CASE UNCHANGED vars
    BY <1>31 DEF vars, Belongs, shownVars
  <1> QED
    BY <1>1, <1>2, <1>3, <1>4, <1>5, <1>6, <1>7, <1>8, <1>9,
       <1>10, <1>11, <1>12, <1>13, <1>14, <1>15, <1>16, <1>17, <1>18,
       <1>19, <1>20, <1>21, <1>22, <1>23, <1>24, <1>25, <1>26, <1>27,
       <1>28, <1>29, <1>30, <1>31 DEF Next, Work, NewWorks

-----------------------------------------------------------------------------
(* The slots of the session.                                               *)

Answering == InStep /\ engine.alive

(* Places at which the session holds the token of the displayed object     *)
(* and nothing else.                                                       *)
Settled(w) ==
  /\ w.pc # "install"
  /\ w.pc \in {"check", "release", "undo"} => Prepared(w.fresh) = {}

(* At a settled place the slots are those of the displayed object.         *)
LEMMA SlotsSettled ==
  ASSUME NEW w, Settled(w)
  PROVE  SlotsOf(w) <=> Holds(Tokens(object), {})
  BY DEF SlotsOf, Settled

(* The same of the next state.                                             *)
LEMMA SlotsSettledNext ==
  ASSUME NEW w, Settled(w)
  PROVE  SlotsOf(w)' <=> Holds(Tokens(object), {})'
  BY DEF SlotsOf, Settled

(* What counts as a token depends on the client alone.                     *)
LEMMA TokensSame ==
  ASSUME UNCHANGED native
  PROVE  /\ \A S : Tokens(S)' = Tokens(S)
         /\ object' = object => Tokens(object)' = Tokens(object)
  BY DEF Tokens, Epoch

(* A step between such places that leaves an answering session alone.      *)
LEMMA QuietStep ==
  ASSUME Slots, OneAtATime, NEW w, NEW v, task = {w}, task' = {v}, Settled(w),
         Settled(v), Answering' => UNCHANGED <<native, engine>>,
         UNCHANGED <<object, new>>
  PROVE  Slots'
  <1> SUFFICES ASSUME Answering'
               PROVE  new' # "clear" /\ Holds(Tokens(object), {})'
    BY SlotsSettledNext DEF Slots, Answering
  <1>1. UNCHANGED <<native, engine, object>>
    OBVIOUS
  <1>2. Answering /\ new # "clear"
    BY <1>1 DEF Answering, InStep, OneAtATime
  <1>3. Holds(Tokens(object), {})
    BY <1>2, SlotsSettled DEF Slots, Answering
  <1> QED
    BY <1>1, <1>2, <1>3, TokensSame DEF Holds

(* What a release does to a session that answers afterwards.               *)
LEMMA ReleaseSlot ==
  ASSUME CoreTypes, NEW S \in SUBSET Objects, AtMostOne(S), NEW ok \in BOOLEAN,
         ReleaseNative(S, ok), Answering'
  PROVE  /\ Answering /\ UNCHANGED native
         /\ \/ Tokens(S) = {} /\ ok /\ UNCHANGED engine
            \/ \E o \in S : /\ Tokens(S) = {o.id} /\ ok = (o.id \in Held)
                            /\ EngineReleases(o.id)
  <1> DEFINE mine == {o \in Prepared(S) : o.epoch \in Epoch}
  <1>1. ~ DropClient
    BY DEF DropClient, Answering, InStep
  <1>2. native' # {[n EXCEPT !.inStep = FALSE] : n \in native}
    <2> SUFFICES ASSUME native' = {[n EXCEPT !.inStep = FALSE] : n \in native}
                 PROVE  FALSE
      OBVIOUS
    <2>1. PICK n \in native : [n EXCEPT !.inStep = FALSE].inStep
      BY DEF Answering, InStep
    <2> QED
      BY <2>1 DEF CoreTypes, NativeTypes
  <1>3. \/ mine = {} /\ ok /\ UNCHANGED nativeVars
        \/ \E o \in mine : /\ engine.alive /\ InStep /\ ok = (o.id \in Held)
                           /\ EngineReleases(o.id) /\ UNCHANGED native
    BY <1>1, <1>2 DEF ReleaseNative
  <1>4. CASE mine = {} /\ ok /\ UNCHANGED nativeVars
    BY <1>4 DEF Tokens, nativeVars, Answering, InStep
  <1>5. CASE \E o \in mine : /\ engine.alive /\ InStep /\ ok = (o.id \in Held)
                           /\ EngineReleases(o.id) /\ UNCHANGED native
    <2>1. PICK o \in mine : /\ engine.alive /\ InStep /\ ok = (o.id \in Held)
                           /\ EngineReleases(o.id) /\ UNCHANGED native
      BY <1>5
    <2>2. mine = {o}
      BY DEF Prepared, AtMostOne
    <2>3. Tokens(S) = {o.id}
      BY <2>2 DEF Tokens
    <2> QED
      BY <2>1, <2>3 DEF Prepared, Answering
  <1> QED
    BY <1>3, <1>4, <1>5

(* The tokens of a session that has just started are all of one operation. *)
LEMMA FreshTokens ==
  ASSUME CoreTypes, Numbered, OneAtATime, NEW w \in task, w.pc = "prepare",
         native' = {[epoch |-> w.op, inStep |-> TRUE]}, UNCHANGED object
  PROVE  Tokens(object)' = {}
  <1>1. \A o \in object : o.epoch \in Nat /\ o.id \in Nat /\ o.epoch <= o.id /\ o.id < w.op
    BY DEF CoreTypes, Objects, Ops, Numbered
  <1>2. w.op \in Nat
    BY DEF CoreTypes, Tasks, Ops
  <1>3. \A o \in object : o.epoch # w.op
    BY <1>1, <1>2
  <1>4. Epoch' = {w.op}
    BY DEF Epoch
  <1> QED
    BY <1>3, <1>4 DEF Tokens, Prepared

(* Whatever happens, a session that answers holds the tokens the core      *)
(* still needs, in the slots its next release expects.                     *)
LEMMA SlotsKept ==
  ASSUME CoreTypes, OneAtATime, Numbered, Threads, Slots, [Next]_vars
  PROVE  Slots'
  <1>1. CASE \E kind \in Kinds : Begin(kind)
    <2>0. PICK kind \in Kinds : Begin(kind)
      BY <1>1
    <2>1. PICK v \in Tasks :
            /\ task' = {v} /\ begun' = begun + 1 /\ begun' \in Ops
            /\ op' = {[id |-> begun', kind |-> kind, phase |-> "active"]}
            /\ v.op = begun' /\ v.kind = kind /\ v.pc = FirstPlace(kind)
            /\ v.old = object /\ v.fresh = {}
            /\ v.result = IF kind = "save" THEN result ELSE {}
      BY <2>0, BeginMoves
    <2>2. task = {} /\ new = "none" /\ UNCHANGED <<object, new, nativeVars>>
      BY <2>0 DEF Begin, Registers, OneAtATime, Active, shownVars
    <2>3. Settled(v)
      BY <2>1 DEF Settled, FirstPlace, Kinds
    <2>4. Answering' => Holds(Tokens(object), {})'
      BY <2>2, TokensSame DEF Slots, Holds, Answering, InStep, nativeVars
    <2> QED
      BY <2>1, <2>2, <2>3, <2>4, SlotsSettledNext DEF Slots, Answering
  <1>2. CASE Stop
    BY <1>2, TokensSame DEF Stop, Slots, SlotsOf, Holds, InStep, shownVars, nativeVars
  <1>3. CASE HelperFails
    <2>1. PICK w, v \in Tasks :
                /\ task = {w} /\ Becomes(w, v)
                /\ w.kind \in Kinds /\ w.pc = "helper" /\ v.pc = "complete"
                /\ v.fresh = w.fresh /\ v.result = w.result
      BY <1>3, HelperFailsMoves
    <2>2. Answering' => UNCHANGED <<native, engine>>
      BY <1>3 DEF HelperFails, ForgetsDead, Answering, RestVars, shownVars, nativeVars
    <2>3. UNCHANGED <<object, new>> /\ task' = {v}
      BY <1>3, <2>1 DEF HelperFails, RestVars, shownVars, Becomes
    <2>4. Settled(w) /\ Settled(v)
      BY <2>1 DEF Settled
    <2> QED
      BY <2>1, <2>2, <2>3, <2>4, QuietStep
  <1>4. CASE InspectUnaccepted
    <2>1. PICK w, v \in Tasks :
                /\ task = {w} /\ Becomes(w, v)
                /\ w.kind \in {"import"} /\ w.pc = "helper" /\ v.pc = "release"
                /\ v.fresh = {NewObject(w, w.op, 0)} /\ v.result = w.result
      BY <1>4, InspectUnacceptedMoves
    <2>1a. Prepared(v.fresh) = {}
      BY <2>1 DEF NewObject, Prepared
    <2>2. Answering' => UNCHANGED <<native, engine>>
      BY <1>4 DEF InspectUnaccepted, ForgetsDead, Answering, RestVars, shownVars, nativeVars
    <2>3. UNCHANGED <<object, new>> /\ task' = {v}
      BY <1>4, <2>1 DEF InspectUnaccepted, RestVars, shownVars, Becomes
    <2>4. Settled(w) /\ Settled(v)
      BY <2>1, <2>1a DEF Settled
    <2> QED
      BY <2>1, <2>2, <2>3, <2>4, QuietStep
  <1>5. CASE HelperAccepts
    <2>1. PICK w, v \in Tasks :
                /\ task = {w} /\ Becomes(w, v)
                /\ w.kind \in {"import", "accept"} /\ w.pc = "helper" /\ v.pc = "prepare"
                /\ v.fresh = {NewObject(w, w.op, 0)} /\ v.result = w.result
      BY <1>5, HelperAcceptsMoves
    <2>2. Answering' => UNCHANGED <<native, engine>>
      BY <1>5 DEF HelperAccepts, ForgetsDead, Answering, RestVars, shownVars, nativeVars
    <2>3. UNCHANGED <<object, new>> /\ task' = {v}
      BY <1>5, <2>1 DEF HelperAccepts, RestVars, shownVars, Becomes
    <2>4. Settled(w) /\ Settled(v)
      BY <2>1 DEF Settled
    <2> QED
      BY <2>1, <2>2, <2>3, <2>4, QuietStep
  <1>6. CASE OpenExtracts
    <2>1. PICK w, v \in Tasks :
                /\ task = {w} /\ Becomes(w, v)
                /\ w.kind \in {"open"} /\ w.pc = "helper" /\ v.pc = "prepare"
                /\ \E s \in Ops :
                     /\ v.fresh = {NewObject(w, s, 0)}
                     /\ AtMostOne(v.result)
                     /\ \A r \in v.result : r.object = w.op /\ r.solid = s
      BY <1>6, OpenExtractsMoves
    <2>2. Answering' => UNCHANGED <<native, engine>>
      BY <1>6 DEF OpenExtracts, ForgetsDead, Answering, RestVars, shownVars, nativeVars
    <2>3. UNCHANGED <<object, new>> /\ task' = {v}
      BY <1>6, <2>1 DEF OpenExtracts, RestVars, shownVars, Becomes
    <2>4. Settled(w) /\ Settled(v)
      BY <2>1 DEF Settled
    <2> QED
      BY <2>1, <2>2, <2>3, <2>4, QuietStep
  <1>7. CASE ExportDone
    <2>1. PICK w, v \in Tasks :
                /\ task = {w} /\ Becomes(w, v)
                /\ w.kind \in {"export"} /\ w.pc = "helper" /\ v.pc = "complete"
                /\ v.fresh = w.fresh /\ v.result = w.result
      BY <1>7, ExportDoneMoves
    <2>2. Answering' => UNCHANGED <<native, engine>>
      BY <1>7 DEF ExportDone, ForgetsDead, Answering, RestVars, shownVars, nativeVars
    <2>3. UNCHANGED <<object, new>> /\ task' = {v}
      BY <1>7, <2>1 DEF ExportDone, RestVars, shownVars, Becomes
    <2>4. Settled(w) /\ Settled(v)
      BY <2>1 DEF Settled
    <2> QED
      BY <2>1, <2>2, <2>3, <2>4, QuietStep
  <1>8. CASE Proposes
    <2>1. PICK w, v \in Tasks :
                /\ task = {w} /\ Becomes(w, v)
                /\ w.kind \in {"propose"} /\ w.pc = "helper" /\ v.pc = "complete"
                /\ v.fresh = w.fresh /\ v.result = w.result
      BY <1>8, ProposesMoves
    <2>2. Answering' => UNCHANGED <<native, engine>>
      BY <1>8 DEF Proposes, ForgetsDead, Answering, RestVars, shownVars, nativeVars
    <2>3. UNCHANGED <<object, new>> /\ task' = {v}
      BY <1>8, <2>1 DEF Proposes, RestVars, shownVars, Becomes
    <2>4. Settled(w) /\ Settled(v)
      BY <2>1 DEF Settled
    <2> QED
      BY <2>1, <2>2, <2>3, <2>4, QuietStep
  <1>9. CASE Rejects
    <2>1. PICK w, v \in Tasks :
                /\ task = {w} /\ Becomes(w, v)
                /\ w.kind \in {"reject"} /\ w.pc = "drop" /\ v.pc = "complete"
                /\ v.fresh = w.fresh /\ v.result = w.result
      BY <1>9, RejectsMoves
    <2>2. Answering' => UNCHANGED <<native, engine>>
      BY <1>9 DEF Rejects, ForgetsDead, Answering, RestVars, shownVars, nativeVars
    <2>3. UNCHANGED <<object, new>> /\ task' = {v}
      BY <1>9, <2>1 DEF Rejects, RestVars, shownVars, Becomes
    <2>4. Settled(w) /\ Settled(v)
      BY <2>1 DEF Settled
    <2> QED
      BY <2>1, <2>2, <2>3, <2>4, QuietStep
  <1>10. CASE PrepareGranted
    <2>1. PICK w, v \in Tasks :
                /\ task = {w} /\ Becomes(w, v)
                /\ w.kind \in Installing /\ w.pc = "prepare" /\ v.pc = "check"
                /\ v.result = w.result
                /\ \E o \in w.fresh, e \in Ops :
                     /\ Prepares(o.id)
                     /\ \E n \in native' : n.epoch = e
                     /\ v.fresh = {[o EXCEPT !.epoch = e]}
                /\ UNCHANGED object
      BY <1>10, PrepareGrantedMoves
    <2>2. PICK o \in w.fresh : Prepares(o.id) /\ \E e \in Ops :
            /\ \E n \in native' : n.epoch = e
            /\ v.fresh = {[o EXCEPT !.epoch = e]}
      BY <2>1
    <2>3. PICK e \in Ops : /\ \E n \in native' : n.epoch = e
                           /\ v.fresh = {[o EXCEPT !.epoch = e]}
      BY <2>2
    <2>4. o \in Objects /\ o.id = w.op /\ w.op \in Ops /\ new # "clear"
      BY <2>1, TaskFields DEF Numbered, OneAtATime
    <2>5. PICK f : f = [o EXCEPT !.epoch = e]
      OBVIOUS
    <2>6. f.id = w.op /\ f.epoch = e /\ e # 0 /\ v.fresh = {f}
      BY <2>3, <2>4, <2>5 DEF Objects, Ops
    <2>7. Tokens(v.fresh)' = {w.op} /\ Prepared(v.fresh) # {}
      BY <2>3, <2>6 DEF Tokens, Prepared, Epoch
    <2>8. Answering' => Holds({w.op}, Tokens(object))'
      <3>1. CASE Fresh
        <4>1. /\ native' = {[epoch |-> w.op, inStep |-> TRUE]}
              /\ engine' = NewAsset(w.op, {})
          BY <3>1, <2>2, <2>4 DEF Prepares
        <4>2. Tokens(object)' = {}
          BY <2>1, <4>1, FreshTokens
        <4> QED
          BY <4>1, <4>2 DEF Holds, NewAsset
      <3>2. CASE ~ Fresh
        <4>1. InStep /\ UNCHANGED native /\ engine' = NewAsset(w.op, engine.asset)
          BY <3>2, <2>2, <2>4 DEF Prepares
        <4>2. Answering /\ Settled(w)
          BY <2>1, <3>2, <4>1 DEF Answering, Fresh, Settled
        <4>3. Holds(Tokens(object), {})
          BY <2>1, <4>2, SlotsSettled DEF Slots, Answering
        <4> QED
          BY <2>1, <4>1, <4>3, TokensSame DEF Holds, NewAsset
      <3> QED
        BY <3>1, <3>2
    <2>9. task' = {v} /\ new' = new /\ v.op = w.op
      BY <1>10, <2>1 DEF PrepareGranted, RestVars, Becomes
    <2> QED
      BY <2>1, <2>4, <2>7, <2>8, <2>9 DEF Slots, SlotsOf, Answering
  <1>11. CASE PrepareRefused
    <2>1. PICK w, v \in Tasks :
                /\ task = {w} /\ Becomes(w, v)
                /\ w.kind \in Installing /\ w.pc = "prepare" /\ v.pc = "complete"
                /\ v.fresh = w.fresh /\ v.result = w.result
      BY <1>11, PrepareRefusedMoves
    <2>2. PICK o \in w.fresh : RefusesPrepare(o.id)
      BY <1>11, <2>1 DEF PrepareRefused, Preparing
    <2>3. o.id = w.op /\ new # "clear"
      BY <2>1 DEF Numbered, OneAtATime
    <2>4. UNCHANGED <<object, new>> /\ task' = {v} /\ Settled(w) /\ Settled(v)
      BY <1>11, <2>1, <2>3 DEF PrepareRefused, RestVars, shownVars, Becomes, Settled
    <2>5. CASE UNCHANGED nativeVars
      BY <2>1, <2>4, <2>5, QuietStep DEF nativeVars
    <2>6. CASE /\ native' = {[epoch |-> w.op, inStep |-> TRUE]}
               /\ engine' = [NoEngine EXCEPT !.alive = TRUE]
      <3>1. Tokens(object)' = {}
        BY <2>1, <2>4, <2>6, FreshTokens
      <3>2. Holds({}, {})'
        BY <2>6 DEF Holds, NoEngine
      <3> QED
        BY <2>3, <2>4, <3>1, <3>2, SlotsSettledNext DEF Slots
    <2> QED
      BY <2>2, <2>3, <2>5, <2>6 DEF RefusesPrepare
  <1>12. CASE PrepareLost
    BY <1>12 DEF PrepareLost, DropClient, Slots, InStep
  <1>13. CASE Checks
    <2>1. PICK w, v \in Tasks :
                /\ task = {w} /\ Becomes(w, v)
                /\ w.kind \in Installing /\ w.pc = "check" /\ v.pc \in {"release", "undo"}
                /\ v.fresh = w.fresh /\ v.result = w.result
      BY <1>13, ChecksMoves
    <2>2. Prepared(w.fresh) # {}
      BY <2>1 DEF Threads
    <2>3. Answering' => UNCHANGED <<native, engine>>
      BY <1>13 DEF Checks, ForgetsDead, Answering
    <2>4. UNCHANGED <<object, new>> /\ task' = {v} /\ v.op = w.op /\ new # "clear"
      BY <1>13, <2>1 DEF Checks, RestVars, shownVars, Becomes, OneAtATime
    <2> SUFFICES ASSUME Answering' PROVE SlotsOf(v)'
      BY <2>4 DEF Slots, Answering
    <2>5. UNCHANGED native /\ UNCHANGED engine /\ Answering
      BY <2>3 DEF Answering, InStep
    <2>6. Tokens(w.fresh) = {w.op} /\ Holds({w.op}, Tokens(object))
      BY <2>1, <2>2, <2>5 DEF Slots, SlotsOf, Answering
    <2> QED
      BY <2>1, <2>2, <2>4, <2>5, <2>6, TokensSame DEF SlotsOf, Holds
  <1>14. CASE ReleaseOld
    <2>1. PICK w, v \in Tasks, ok \in BOOLEAN :
                /\ task = {w} /\ Becomes(w, v)
                /\ w.kind \in Installing /\ w.pc = "release"
                /\ v.pc = IF ok THEN "install" ELSE "undo"
                /\ ReleaseNative(object, ok)
                /\ v.fresh = w.fresh /\ v.result = w.result
      BY <1>14, ReleaseOldMoves
    <2>2. UNCHANGED <<object, new>> /\ task' = {v} /\ v.op = w.op /\ new # "clear"
      BY <1>14, <2>1 DEF ReleaseOld, RestVars, shownVars, Becomes, OneAtATime
    <2> SUFFICES ASSUME Answering' PROVE SlotsOf(v)'
      BY <2>2 DEF Slots, Answering
    <2>3. /\ Answering /\ UNCHANGED native
          /\ \/ Tokens(object) = {} /\ ok /\ UNCHANGED engine
             \/ \E o \in object : /\ Tokens(object) = {o.id} /\ ok = (o.id \in Held)
                                  /\ EngineReleases(o.id)
      BY <2>1, ReleaseSlot DEF CoreTypes
    <2>4. SlotsOf(w)
      BY <2>1, <2>3 DEF Slots, Answering
    <2>5. \A o \in object : o.id # w.op
      BY <2>1, TaskFields DEF Numbered, CoreTypes, Objects, Ops
    <2>6. ok /\ Holds(Tokens(w.fresh), {})'
      <3>1. CASE Prepared(w.fresh) # {}
        <4>1. Tokens(w.fresh) = {w.op} /\ Holds({w.op}, Tokens(object))
          BY <2>1, <2>4, <3>1 DEF SlotsOf
        <4>2. CASE Tokens(object) = {} /\ ok /\ UNCHANGED engine
          BY <2>3, <4>1, <4>2, TokensSame DEF Holds
        <4>3. ASSUME NEW o \in object, Tokens(object) = {o.id}, ok = (o.id \in Held),
                     EngineReleases(o.id)
              PROVE  ok /\ Holds({w.op}, {})'
          <5>1. engine.asset = {w.op} /\ engine.prior = {o.id} /\ o.id # w.op
            BY <4>1, <4>3, <2>5 DEF Holds
          <5>2. ok
            BY <4>3, <5>1 DEF Held
          <5>3. engine' = [engine EXCEPT !.prior = engine.prior \ {o.id}]
            BY <4>3, <5>1 DEF EngineReleases
          <5> QED
            BY <5>1, <5>2, <5>3 DEF Holds, CoreTypes, NativeTypes
        <4> QED
          BY <2>3, <4>1, <4>2, <4>3, TokensSame
      <3>2. CASE Prepared(w.fresh) = {}
        <4>1. Holds(Tokens(object), {}) /\ Tokens(w.fresh) = {}
          BY <2>1, <2>4, <3>2 DEF SlotsOf, Tokens
        <4>2. CASE Tokens(object) = {} /\ ok /\ UNCHANGED engine
          BY <2>3, <4>1, <4>2, TokensSame DEF Holds
        <4>3. ASSUME NEW o \in object, Tokens(object) = {o.id}, ok = (o.id \in Held),
                     EngineReleases(o.id)
              PROVE  ok /\ Holds({}, {})'
          BY <4>1, <4>3 DEF Holds, Held, EngineReleases, CoreTypes, NativeTypes
        <4> QED
          BY <2>3, <4>1, <4>2, <4>3, TokensSame
      <3> QED
        BY <3>1, <3>2
    <2> QED
      BY <2>1, <2>6 DEF SlotsOf, Holds
  <1>15. CASE Undo
    <2>1. PICK w, v \in Tasks :
                /\ task = {w} /\ Becomes(w, v)
                /\ w.kind \in Installing /\ w.pc = "undo" /\ v.pc = "complete"
                /\ v.fresh = w.fresh /\ v.result = w.result
      BY <1>15, UndoMoves
    <2>2. PICK ok \in BOOLEAN : ReleaseNative(w.fresh, ok)
      BY <1>15, <2>1 DEF Undo
    <2>3. UNCHANGED <<object, new>> /\ task' = {v} /\ new # "clear"
      BY <1>15, <2>1 DEF Undo, RestVars, Becomes, OneAtATime
    <2> SUFFICES ASSUME Answering' PROVE Holds(Tokens(object), {})'
      <3>1. Settled(v)
        BY <2>1 DEF Settled
      <3> QED
        BY <2>3, <3>1, SlotsSettledNext DEF Slots, Answering
    <2>4. w.fresh \in SUBSET Objects /\ AtMostOne(w.fresh) /\ \A f \in w.fresh : f.id = w.op
      BY <2>1, TaskFields DEF CoreTypes, Numbered
    <2>5. /\ Answering /\ UNCHANGED native
          /\ \/ Tokens(w.fresh) = {} /\ ok /\ UNCHANGED engine
             \/ \E o \in w.fresh : /\ Tokens(w.fresh) = {o.id} /\ ok = (o.id \in Held)
                                   /\ EngineReleases(o.id)
      BY <2>2, <2>4, ReleaseSlot
    <2>6. SlotsOf(w)
      BY <2>1, <2>5 DEF Slots, Answering
    <2>7. CASE Prepared(w.fresh) # {}
      <3>1. Tokens(w.fresh) = {w.op} /\ Holds({w.op}, Tokens(object))
        BY <2>1, <2>6, <2>7 DEF SlotsOf
      <3>2. EngineReleases(w.op)
        BY <2>4, <2>5, <3>1
      <3>3. engine' = [engine EXCEPT !.asset = engine.prior, !.prior = {}]
        BY <3>1, <3>2 DEF EngineReleases, Holds
      <3> QED
        BY <2>3, <2>5, <3>1, <3>3, TokensSame DEF Holds, CoreTypes, NativeTypes
    <2>8. CASE Prepared(w.fresh) = {}
      <3>1. Tokens(w.fresh) = {} /\ Holds(Tokens(object), {})
        BY <2>1, <2>6, <2>8 DEF SlotsOf, Tokens
      <3> QED
        BY <2>3, <2>5, <3>1, TokensSame DEF Holds
    <2> QED
      BY <2>7, <2>8
  <1>16. CASE Install
    <2>1. PICK w, v \in Tasks :
                /\ task = {w} /\ Becomes(w, v)
                /\ w.kind \in Installing /\ w.pc = "install" /\ v.pc = "complete"
                /\ v.fresh = w.fresh /\ v.result = w.result
      BY <1>16, InstallMoves
    <2>2. /\ object' = w.fresh /\ new' = new /\ task' = {v} /\ new # "clear"
          /\ UNCHANGED <<native, engine>>
      BY <1>16, <2>1 DEF Install, RestVars, nativeVars, Becomes, OneAtATime
    <2>3. Settled(v)
      BY <2>1 DEF Settled
    <2> SUFFICES ASSUME Answering' PROVE Holds(Tokens(object), {})'
      BY <2>2, <2>3, SlotsSettledNext DEF Slots, Answering
    <2>4. Holds(Tokens(w.fresh), {})
      BY <2>1, <2>2 DEF Slots, SlotsOf, Answering, InStep
    <2>5. Tokens(object)' = Tokens(w.fresh)
      BY <2>2 DEF Tokens, Epoch, Prepared
    <2> QED
      BY <2>2, <2>4, <2>5 DEF Holds
  <1>17. CASE RunAccepted
    <2>1. PICK w, v \in Tasks :
                /\ task = {w} /\ Becomes(w, v)
                /\ w.kind \in {"solve"} /\ w.pc = "begin" /\ v.pc = "running"
                /\ v.fresh = w.fresh /\ v.result = w.result
      BY <1>17, RunAcceptedMoves
    <2>2. Answering' => UNCHANGED <<native, engine>>
      BY <1>17 DEF RunAccepted, ForgetsDead, Answering, RestVars, shownVars, nativeVars
    <2>3. UNCHANGED <<object, new>> /\ task' = {v}
      BY <1>17, <2>1 DEF RunAccepted, RestVars, shownVars, Becomes
    <2>4. Settled(w) /\ Settled(v)
      BY <2>1 DEF Settled
    <2> QED
      BY <2>1, <2>2, <2>3, <2>4, QuietStep
  <1>18. CASE RunRefused
    <2>1. PICK w, v \in Tasks :
                /\ task = {w} /\ Becomes(w, v)
                /\ w.kind \in {"solve"} /\ w.pc = "begin" /\ v.pc = "settle"
                /\ v.fresh = w.fresh /\ v.result = w.result
      BY <1>18, RunRefusedMoves
    <2>2. CASE DropClient
      BY <2>2 DEF DropClient, Slots, InStep
    <2>3. CASE UNCHANGED nativeVars
      <3>1. UNCHANGED <<object, new>> /\ task' = {v}
        BY <1>18, <2>1 DEF RunRefused, RestVars, shownVars, Becomes
      <3>2. Settled(w) /\ Settled(v)
        BY <2>1 DEF Settled
      <3> QED
        BY <2>1, <2>3, <3>1, <3>2, QuietStep DEF nativeVars
    <2> QED
      BY <1>18, <2>2, <2>3 DEF RunRefused
  <1>19. CASE RunLost
    BY <1>19 DEF RunLost, DropClient, Slots, InStep
  <1>20. CASE Settle
    <2>1. PICK w, v \in Tasks :
                /\ task = {w} /\ Becomes(w, v)
                /\ w.kind \in {"solve"} /\ w.pc = "settle" /\ v.pc = "complete"
                /\ v.fresh = w.fresh /\ v.result = w.result
                /\ \/ result' = result
                   \/ \E o \in w.old :
                        /\ result' = {[object |-> o.id, solid |-> o.solid, run |-> w.op]}
                        /\ (\E l \in live : l.run = w.op) \/ live = {}
      BY <1>20, SettleMoves
    <2>2. Answering' => UNCHANGED <<native, engine>>
      BY <1>20 DEF Settle, ForgetsDead, Answering, RestVars, shownVars, nativeVars
    <2>3. UNCHANGED <<object, new>> /\ task' = {v}
      BY <1>20, <2>1 DEF Settle, RestVars, shownVars, Becomes
    <2>4. Settled(w) /\ Settled(v)
      BY <2>1 DEF Settled
    <2> QED
      BY <2>1, <2>2, <2>3, <2>4, QuietStep
  <1>21. CASE SaveFails
    <2>1. PICK w, v \in Tasks :
                /\ task = {w} /\ Becomes(w, v)
                /\ w.kind \in {"save"} /\ w.pc = "replace" /\ v.pc = "complete"
                /\ v.fresh = w.fresh /\ v.result = w.result
      BY <1>21, SaveFailsMoves
    <2>2. Answering' => UNCHANGED <<native, engine>>
      BY <1>21 DEF SaveFails, ForgetsDead, Answering, RestVars, shownVars, nativeVars
    <2>3. UNCHANGED <<object, new>> /\ task' = {v}
      BY <1>21, <2>1 DEF SaveFails, RestVars, shownVars, Becomes
    <2>4. Settled(w) /\ Settled(v)
      BY <2>1 DEF Settled
    <2> QED
      BY <2>1, <2>2, <2>3, <2>4, QuietStep
  <1>22. CASE SaveReplaces
    <2>1. PICK w, v \in Tasks :
                /\ task = {w} /\ Becomes(w, v)
                /\ w.kind \in {"save"} /\ w.pc = "replace" /\ v.pc = "complete"
                /\ v.fresh = w.fresh /\ v.result = w.result
      BY <1>22, SaveReplacesMoves
    <2>2. Answering' => UNCHANGED <<native, engine>>
      BY <1>22 DEF SaveReplaces, ForgetsDead, Answering, RestVars, shownVars, nativeVars
    <2>3. UNCHANGED <<object, new>> /\ task' = {v}
      BY <1>22, <2>1 DEF SaveReplaces, RestVars, shownVars, Becomes
    <2>4. Settled(w) /\ Settled(v)
      BY <2>1 DEF Settled
    <2> QED
      BY <2>1, <2>2, <2>3, <2>4, QuietStep
  <1>23. CASE Complete
    <2>1. PICK w \in Tasks : task = {w} /\ w.pc = "complete" /\ task' = {}
      BY <1>23, CompleteMoves
    <2>2. Settled(w) /\ new = "none"
      BY <2>1 DEF Settled, OneAtATime
    <2>3. UNCHANGED <<object, new, native, engine>>
      BY <1>23 DEF Complete, nativeVars
    <2> QED
      BY <2>1, <2>2, <2>3, TokensSame, SlotsSettled DEF Slots, Holds, InStep
  <1>24. CASE ShowPacking
    BY <1>24, TokensSame DEF ShowPacking, Slots, SlotsOf, Holds, InStep, RestVars,
      nativeVars
  <1>25. CASE RunAnswers
    <2>1. PICK w, v \in Tasks :
                /\ task = {w} /\ Becomes(w, v)
                /\ w.kind \in {"solve"} /\ w.pc = "running" /\ v.pc = "settle"
                /\ v.fresh = w.fresh /\ v.result = w.result
      BY <1>25, RunAnswersMoves
    <2>2. Answering' => UNCHANGED <<native, engine>>
      BY <1>25 DEF RunAnswers, ForgetsDead, Answering, RestVars, shownVars, nativeVars
    <2>3. UNCHANGED <<object, new>> /\ task' = {v}
      BY <1>25, <2>1 DEF RunAnswers, RestVars, shownVars, Becomes
    <2>4. Settled(w) /\ Settled(v)
      BY <2>1 DEF Settled
    <2> QED
      BY <2>1, <2>2, <2>3, <2>4, QuietStep
  <1>26. CASE NewBegins
    <2>1. task = {} /\ new = "none" /\ new' = "release"
      BY <1>26 DEF NewBegins, OneAtATime, Active
    <2>2. UNCHANGED <<object, task, native, engine>>
      BY <1>26 DEF NewBegins, shownVars, nativeVars
    <2> QED
      BY <2>1, <2>2, TokensSame DEF Slots, Holds, InStep
  <1>27. CASE NewReleases
    <2> SUFFICES ASSUME Answering' PROVE Slots'
      BY DEF Slots, Answering
    <2>1. PICK ok \in BOOLEAN : /\ ReleaseNative(object, ok)
                                /\ new' = IF ok THEN "clear" ELSE "keep"
      BY <1>27 DEF NewReleases
    <2>2. /\ Answering /\ UNCHANGED native
          /\ \/ Tokens(object) = {} /\ ok /\ UNCHANGED engine
             \/ \E o \in object : /\ Tokens(object) = {o.id} /\ ok = (o.id \in Held)
                                  /\ EngineReleases(o.id)
      BY <2>1, ReleaseSlot DEF CoreTypes
    <2>3. task = {} /\ task' = {} /\ new # "clear"
      BY <1>27 DEF NewReleases, OneAtATime
    <2>4. Holds(Tokens(object), {})
      BY <2>2, <2>3 DEF Slots, Answering
    <2>5. ok /\ Holds({}, {})'
      <3>1. CASE Tokens(object) = {} /\ ok /\ UNCHANGED engine
        BY <3>1, <2>4 DEF Holds
      <3>2. ASSUME NEW o \in object, Tokens(object) = {o.id}, ok = (o.id \in Held),
                   EngineReleases(o.id)
            PROVE  ok /\ Holds({}, {})'
        BY <3>2, <2>4 DEF Holds, Held, EngineReleases, CoreTypes, NativeTypes
      <3> QED
        BY <2>2, <3>1, <3>2
    <2> QED
      BY <2>1, <2>3, <2>5 DEF Slots
  <1>28. CASE NewFails
    <2>1. task = {} /\ new = "keep" /\ new' = "none"
      BY <1>28 DEF NewFails, OneAtATime
    <2>2. UNCHANGED <<object, task, native, engine>>
      BY <1>28 DEF NewFails, shownVars, nativeVars
    <2> QED
      BY <2>1, <2>2, TokensSame DEF Slots, Holds, InStep
  <1>29. CASE NewClears
    <2>1. task = {} /\ new = "clear" /\ new' = "none" /\ object' = {}
      BY <1>29 DEF NewClears, OneAtATime
    <2>2. UNCHANGED <<task, native, engine>>
      BY <1>29 DEF NewClears, nativeVars
    <2>3. Tokens(object)' = {}
      BY <2>1 DEF Tokens, Prepared
    <2> QED
      BY <2>1, <2>2, <2>3 DEF Slots, Holds, InStep
  <1>30. CASE ProcessDies
    BY <1>30 DEF ProcessDies, NoEngine, Slots
  <1>31. CASE UNCHANGED vars
    BY <1>31, TokensSame DEF vars, Slots, SlotsOf, Holds, InStep, shownVars, nativeVars
  <1> QED
    BY <1>1, <1>2, <1>3, <1>4, <1>5, <1>6, <1>7, <1>8, <1>9,
       <1>10, <1>11, <1>12, <1>13, <1>14, <1>15, <1>16, <1>17, <1>18,
       <1>19, <1>20, <1>21, <1>22, <1>23, <1>24, <1>25, <1>26, <1>27,
       <1>28, <1>29, <1>30, <1>31 DEF Next, Work, NewWorks

-----------------------------------------------------------------------------
(* The theorems.                                                           *)

(* The invariant holds in every reachable state.                           *)
THEOREM CoreInvariant == Spec => []CoreInv
  <1>1. CoreInit => CoreInv
    <2> SUFFICES ASSUME CoreInit PROVE CoreInv
      OBVIOUS
    <2>1. NativeTypes
      BY DEF CoreInit, NativeTypes, NoEngine, AtMostOne
    <2>2. CoreTypes
      <3>1. AtMostOne({})
        BY DEF AtMostOne
      <3>2. 0 \in 0 .. MaxOps
        BY CoreAssumption
      <3> QED
        BY <2>1, <3>1, <3>2 DEF CoreInit, CoreTypes
    <2>3. OneAtATime /\ Numbered /\ Threads /\ SameRun /\ Belongs
      BY DEF CoreInit, OneAtATime, Numbered, Threads, SameRun, Belongs
    <2>4. Slots
      BY DEF CoreInit, Slots, InStep
    <2> QED
      BY <2>2, <2>3, <2>4 DEF CoreInv
  <1>2. CoreInv /\ [Next]_vars => CoreInv'
    BY TypesKept, OneAtATimeKept, NumberedKept, ThreadsKept, SameRunKept, BelongsKept,
       SlotsKept DEF CoreInv
  <1> QED
    BY <1>1, <1>2, PTL DEF Spec

(* A set of at most one element has that cardinality.                      *)
LEMMA OneAtMost ==
  ASSUME NEW S, AtMostOne(S)
  PROVE  Cardinality(S) <= 1
  <1>1. CASE S = {}
    BY <1>1, FS_EmptySet
  <1>2. CASE S # {}
    <2>1. PICK x \in S : S = {x}
      BY <1>2 DEF AtMostOne
    <2> QED
      <3>1. Cardinality({x}) = 1
        BY FS_Singleton
      <3> QED
        BY <2>1, <3>1
  <1> QED
    BY <1>1, <1>2

(* Every reachable state is well typed, for any number of commands and     *)
(* packings: no option ever holds two things (core.rs State).              *)
THEOREM CoreTypesHold == Spec => []TypeOK
  <1>1. CoreInv => TypeOK
    <2> SUFFICES ASSUME CoreInv PROVE TypeOK
      OBVIOUS
    <2>1. CoreTypes
      BY DEF CoreInv
    <2>2. \A option \in Options : Cardinality(option) <= 1
      BY <2>1, OneAtMost DEF Options, CoreTypes, NativeTypes
    <2>3. Cardinality(engine.asset) <= 1 /\ Cardinality(engine.prior) <= 1
      BY <2>1, OneAtMost DEF CoreTypes, NativeTypes
    <2> QED
      BY <2>1, <2>2, <2>3 DEF TypeOK, CoreTypes, NativeTypes
  <1> QED
    BY <1>1, CoreInvariant, PTL

(* Whatever failed, died or was lost before, a session that answers holds  *)
(* the token of the displayed object and nothing else when nothing is      *)
(* under way (PreparedRollback, release_native).                           *)
THEOREM NoTokenLeaks == Spec => []TokensAccounted
  <1>1. CoreInv => TokensAccounted
    BY DEF CoreInv, TokensAccounted, AtRest, Slots, Holds, Held, Tokens
  <1> QED
    BY <1>1, CoreInvariant, PTL

(* A result or a packing that is displayed is of the object displayed      *)
(* beside it, and both are of one run.                                     *)
DisplayAgrees ==
  /\ SameRun
  /\ \A o \in object : /\ \A r \in result : r.object = o.id /\ r.solid = o.solid
                       /\ \A l \in live : l.object = o.id

(* What the desktop displays together belongs together, in every reachable *)
(* state: no answer of an earlier object or run is shown beside a later    *)
(* one (accept_live, start, import_object).                                *)
THEOREM DisplayIsConsistent == Spec => []DisplayAgrees
  <1>1. CoreInv => DisplayAgrees
    BY DEF CoreInv, DisplayAgrees, Belongs
  <1> QED
    BY <1>1, CoreInvariant, PTL

(* A step that changes the project file writes what is displayed.          *)
LEMMA SavingStep ==
  ASSUME CoreInv, [Next]_vars, file' # file
  PROVE  \E f \in file', o \in object :
           /\ f.solid = o.solid
           /\ \A l \in live : f.run = l.run
           /\ f.run = 0 <=> result = {}
  <1>1. SaveReplaces
    BY DEF Next, Work, NewWorks, vars, Begin, Registers, Stop, HelperFails,
      InspectUnaccepted,
      HelperAccepts, OpenExtracts, ExportDone, Proposes, Rejects, PrepareGranted,
      PrepareRefused, PrepareLost, Checks, ReleaseOld, Undo, Install, RunAccepted,
      RunRefused,
      RunLost, Settle, SaveFails, Complete, ShowPacking, RunAnswers, NewBegins, NewReleases,
      NewFails, NewClears, ProcessDies, RestVars
  <1>2. CoreTypes /\ Threads /\ SameRun
    BY DEF CoreInv
  <1>3. PICK w \in Tasks : task = {w} /\ w.kind = "save" /\ w.pc = "replace"
    BY <1>1, <1>2, SaveReplacesMoves
  <1>4. w.old = object /\ w.result = result /\ (live # {} => result # {})
    BY <1>2, <1>3 DEF Threads, Installing
  <1>5. PICK o \in object, run \in 0 .. MaxOps :
          /\ {run} = IF result = {} THEN {0} ELSE {r.run : r \in result}
          /\ file' = {[solid |-> o.solid, run |-> run]}
    BY <1>1, <1>3, <1>4 DEF SaveReplaces, Captured
  <1>6. PICK f : f = [solid |-> o.solid, run |-> run]
    OBVIOUS
  <1>7. f.solid = o.solid /\ f.run = run /\ f \in file'
    BY <1>5, <1>6
  <1>8. run = 0 <=> result = {}
    BY <1>2, <1>5 DEF CoreTypes, Results, Ops
  <1>9. \A l \in live : run = l.run
    BY <1>2, <1>4, <1>5 DEF SameRun
  <1> QED
    BY <1>7, <1>8, <1>9

(* The project file only ever changes to what is displayed at that moment  *)
(* (save_to, save_internal).                                               *)
THEOREM SavesWhatIsShown == Spec => SavedIsShown
  <1>1. CoreInv /\ [Next]_vars =>
          [file' # file =>
             \E f \in file', o \in object :
               /\ f.solid = o.solid
               /\ \A l \in live : f.run = l.run
               /\ f.run = 0 <=> result = {}]_vars
    BY SavingStep
  <1> QED
    BY <1>1, CoreInvariant, PTL DEF Spec, SavedIsShown
=============================================================================
