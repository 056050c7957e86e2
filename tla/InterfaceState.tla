--------------------------- MODULE InterfaceState --------------------------
(***************************************************************************)
(* What the window shows (state.ts, App.tsx, Viewer.tsx) of the state of a *)
(* core that goes on without it (core.rs).                                 *)
(*                                                                         *)
(* The window reads the state every 250 ms, one read at a time, and again  *)
(* after each command; it issues one command at a time, and none while the *)
(* state it shows has an active operation.  The answers of the two reads,  *)
(* of New and of the preview loads arrive in any order.                    *)
(*                                                                         *)
(* The core is reduced to what the window can tell apart: `DesktopCore`    *)
(* says how it gets there.  Operations are numbered, an object bears the   *)
(* number of the operation that installed it, and 0 stands for none.       *)
(* Options are sets of at most one element.                                *)
(***************************************************************************)
EXTENDS Naturals

CONSTANTS
  MaxOps,       \* bound: commands issued
  MaxPackings   \* bound: packings a run publishes

Ops == 1 .. MaxOps
Kinds == {"import", "solve", "new", "stop"}

VARIABLES
  begun,      \* operations begun so far
  revision,   \* core: the revision of the state
  op,         \* core: its operation
  object,     \* core: the object, whose preview is registered
  packing,    \* core: the packing shown
  issued,     \* commands issued so far
  command,    \* window: the command in flight
  poll,       \* window: the periodic read in flight
  shown,      \* window: the state it shows (current)
  loads,      \* viewer: the preview loads in flight
  geometry,   \* viewer: the object whose mesh is drawn
  failed      \* viewer: an error is shown

coreVars == <<begun, revision, op, object, packing>>
viewerVars == <<shown, loads, geometry, failed>>
windowVars == <<coreVars, issued, command, poll, viewerVars>>

WindowInit ==
  /\ begun = 0 /\ revision = 0 /\ op = {} /\ object = 0 /\ packing = {}
  /\ issued = 0 /\ command = {} /\ poll = {}
  /\ shown = {} /\ loads = {} /\ geometry = 0 /\ failed = FALSE

-----------------------------------------------------------------------------
(* The core.                                                               *)

Snapshot == [revision |-> revision, op |-> op, object |-> object, live |-> packing]

Busy(state) == \E p \in state.op : p.active

Publish ==
  /\ \E p \in op, seq \in 1 .. MaxPackings :
       /\ p.active /\ p.kind = "solve"
       /\ seq = 1 + IF \E l \in packing : l.op = p.id
                      THEN CHOOSE n \in 1 .. MaxPackings : \E l \in packing : l.seq = n
                      ELSE 0
       /\ packing' = {[op |-> p.id, seq |-> seq]}
  /\ revision' = revision + 1
  /\ UNCHANGED <<begun, op, object, issued, command, poll, viewerVars>>

(* A new object, of which there is no packing.                             *)
Install ==
  /\ \E p \in op :
       /\ p.active /\ p.kind = "import" /\ object # p.id
       /\ object' = p.id
  /\ packing' = {}
  /\ revision' = revision + 1
  /\ UNCHANGED <<begun, op, issued, command, poll, viewerVars>>

(* With or without success.                                                *)
Finish ==
  /\ Busy(Snapshot)
  /\ op' = {[p EXCEPT !.active = FALSE] : p \in op}
  /\ revision' = revision + 1
  /\ UNCHANGED <<begun, object, packing, issued, command, poll, viewerVars>>

-----------------------------------------------------------------------------
(* The viewer.                                                             *)

Descriptor(states) == IF states = {} THEN 0 ELSE CHOOSE o \in Ops \cup {0} : \E s \in states : s.object = o

(* What follows a change of the state shown: another descriptor cancels    *)
(* the load of the one before it, clears its mesh and is loaded.           *)
Show(states) ==
  /\ shown' = states
  /\ IF Descriptor(states) = Descriptor(shown)
       THEN UNCHANGED <<loads, geometry, failed>>
       ELSE /\ geometry' = 0
            /\ failed' = FALSE
            /\ loads' = loads \cup {[object |-> o, answer |-> "none"] : o \in {Descriptor(states)} \ {0}}

(* read_preview: the handles of the object before are pruned while the     *)
(* import that installed another is active, or by New.                     *)
LoadReads ==
  /\ \E l \in loads, answer \in {"mesh", "unknown"} :
       /\ l.answer = "none"
       /\ IF l.object = object THEN answer = "mesh"
          ELSE answer = "mesh" => \E p \in op : p.active /\ p.id = object
       /\ loads' = (loads \ {l}) \cup {[l EXCEPT !.answer = answer]}
  /\ UNCHANGED <<coreVars, issued, command, poll, shown, geometry, failed>>

LoadArrives ==
  /\ \E l \in loads :
       LET cancelled == l.object # Descriptor(shown)
       IN
       /\ l.answer # "none"
       /\ loads' = loads \ {l}
       /\ geometry' = IF ~cancelled /\ l.answer = "mesh" THEN l.object ELSE geometry
       /\ failed' = (failed \/ (~cancelled /\ l.answer = "unknown"))
  /\ UNCHANGED <<coreVars, issued, command, poll, shown>>

-----------------------------------------------------------------------------
(* The states that arrive.                                                 *)

(* Faulty variant: an answer that was overtaken is shown.                  *)
AcceptStateAnyRevision(incoming) == {incoming}

(* acceptState: older states are ignored; a packing that is not newer than *)
(* the one shown of its run, or that belongs to an operation that is       *)
(* neither shown nor current, does not replace the one shown.              *)
AcceptState(incoming) ==
  LET old == UNION {s.live : s \in shown}
      stale == \E l \in old, n \in incoming.live : l.op = n.op /\ n.seq <= l.seq
      strange == \E n \in incoming.live :
                   (\A p \in incoming.op : n.op # p.id) /\ (\A l \in old : l.op # n.op)
  IN
  IF \E s \in shown : incoming.revision <= s.revision THEN shown
  ELSE {[incoming EXCEPT !.live = IF stale \/ strange THEN old ELSE @]}

(* The periodic read: a request, the state it reads, its answer.  New      *)
(* starts a generation, and an answer to a request of an earlier one is    *)
(* discarded.                                                              *)
PollSends ==
  /\ poll = {}
  /\ poll' = {[current |-> TRUE, state |-> {}]}
  /\ UNCHANGED <<coreVars, issued, command, viewerVars>>

PollReads ==
  /\ \E r \in poll : r.state = {} /\ poll' = {[r EXCEPT !.state = {Snapshot}]}
  /\ UNCHANGED <<coreVars, issued, command, viewerVars>>

(* Faulty variant: a discarded answer still counts as in flight.           *)
PollArrivesStuck ==
  /\ \E r \in poll, s \in UNION {r.state : r \in poll} :
       /\ Show(IF r.current THEN AcceptState(s) ELSE shown)
       /\ poll' = IF r.current THEN {} ELSE poll
  /\ UNCHANGED <<coreVars, issued, command>>

PollArrives ==
  /\ \E r \in poll, s \in UNION {r.state : r \in poll} :
       Show(IF r.current THEN AcceptState(s) ELSE shown)
  /\ poll' = {}
  /\ UNCHANGED <<coreVars, issued, command>>

-----------------------------------------------------------------------------
(* Commands (run): the call, its answer, and a read of the state.          *)

Solving(state) == \E p \in state.op : p.active /\ p.kind = "solve"

(* disabled: no command is in flight and the state shown is not busy;      *)
(* Stop needs it busy with a run.                                          *)
Offered(kind) ==
  /\ command = {}
  /\ IF kind = "stop" THEN \E s \in shown : Solving(s) ELSE \A s \in shown : ~Busy(s)
  /\ kind = "solve" => \E s \in shown : s.object # 0

Click(kind) ==
  /\ issued < MaxOps
  /\ Offered(kind)
  /\ issued' = issued + 1
  /\ command' = {[kind |-> kind, pc |-> "call", state |-> {}]}
  /\ poll' = IF kind = "new" THEN {[r EXCEPT !.current = FALSE] : r \in poll} ELSE poll
  /\ UNCHANGED <<coreVars, viewerVars>>

Calling(kinds) == \E c \in command : c.pc = "call" /\ c.kind \in kinds
Continues(pc, states) == command' = {[c EXCEPT !.pc = pc, !.state = states] : c \in command}

(* JOB_BUSY, a failure of New, or nothing to stop any more: the error is   *)
(* shown and nothing is read.                                              *)
CommandRefused ==
  /\ \/ Calling({"new"})
     \/ Calling({"import", "solve"}) /\ Busy(Snapshot)
     \/ Calling({"stop"}) /\ ~Solving(Snapshot)
  /\ command' = {}
  /\ UNCHANGED <<coreVars, issued, poll, viewerVars>>

Begins ==
  /\ Calling({"import", "solve"}) /\ ~Busy(Snapshot)
  /\ begun' = begun + 1
  /\ op' = {[id |-> begun', kind |-> c.kind, active |-> TRUE] : c \in command}
  /\ revision' = revision + 1
  /\ Continues("read", {})
  /\ UNCHANGED <<object, packing, issued, poll, viewerVars>>

Stops ==
  /\ Calling({"stop"}) /\ Solving(Snapshot)
  /\ revision' = revision + 1
  /\ Continues("read", {})
  /\ UNCHANGED <<begun, op, object, packing, issued, poll, viewerVars>>

(* The file dialog is closed without a choice.                             *)
Declined ==
  /\ Calling({"import"})
  /\ Continues("read", {})
  /\ UNCHANGED <<coreVars, issued, poll, viewerVars>>

NewClears ==
  /\ Calling({"new"}) /\ ~Busy(Snapshot)
  /\ op' = {} /\ object' = 0 /\ packing' = {}
  /\ revision' = revision + 1
  /\ Continues("fresh", {[revision |-> revision', op |-> {}, object |-> 0, live |-> {}]})
  /\ UNCHANGED <<begun, issued, poll, viewerVars>>

(* current = null: the state New returned replaces whatever is shown.      *)
NewArrives ==
  /\ \E c \in command : c.pc = "fresh" /\ Show(c.state)
  /\ Continues("read", {})
  /\ UNCHANGED <<coreVars, issued, poll>>

CommandReads ==
  /\ \E c \in command : c.pc = "read"
  /\ Continues("answer", {Snapshot})
  /\ UNCHANGED <<coreVars, issued, poll, viewerVars>>

CommandAnswered ==
  /\ \E c \in command : c.pc = "answer" /\ \E s \in c.state : Show(AcceptState(s))
  /\ command' = {}
  /\ UNCHANGED <<coreVars, issued, poll>>

Core == Publish \/ Install \/ Finish
Polls == PollSends \/ PollReads \/ PollArrives
Commands ==
  \/ CommandRefused \/ Begins \/ Stops \/ Declined \/ NewClears
  \/ NewArrives \/ CommandReads \/ CommandAnswered
Loads == LoadReads \/ LoadArrives

WindowNext == Core \/ Polls \/ Commands \/ Loads \/ \E kind \in Kinds : Click(kind)

WindowSpec == WindowInit /\ [][WindowNext]_windowVars

(* Operations end, requests are answered and the timer of the poll fires.  *)
FairWindowSpec ==
  /\ WindowSpec
  /\ WF_windowVars(Finish) /\ WF_windowVars(Polls)
  /\ WF_windowVars(Commands) /\ WF_windowVars(Loads)

-----------------------------------------------------------------------------
(* Properties.                                                             *)

(* The window never goes back to an older state, although answers overtake *)
(* each other and New replaces the state without comparing revisions.      *)
NeverGoesBack == [][\A s \in shown, t \in shown' : s.revision <= t.revision]_windowVars

(* At rest the window comes to show the core's state with the mesh of its  *)
(* object: no discarded answer and no pruned preview leaves it behind.     *)
Settles == []<>(shown = {Snapshot} /\ geometry = object /\ ~failed)
=============================================================================
