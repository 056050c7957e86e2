----------------------------- MODULE WireWriter -----------------------------
(***************************************************************************)
(* The wire of the native session (engine/cli/src/desktop_session.cpp):    *)
(* the writer thread, the bounded queue of responses, the single pending   *)
(* phase and packing slots, the 250 ms delivery gate, the watchdog of a    *)
(* stalled pipe, the flush that ends a publishing run, and the cleanup     *)
(* that joins the writer.                                                  *)
(*                                                                         *)
(* wire_mutex is held across a step only by a writer that evaluated its    *)
(* wait predicate and has not yet blocked; every other critical section is *)
(* one step.  A thread blocked on wire_ready is a member of waiting until  *)
(* it is notified: notify_one picks any member, notify_all empties the     *)
(* set, and neither reaches a thread that has not blocked yet.             *)
(*                                                                         *)
(* The solver worker is reduced to what it does to the wire.  The client   *)
(* starts an operation only after the response to the one before, as       *)
(* NativeSession::request does.                                            *)
(***************************************************************************)
EXTENDS Naturals, Sequences, FiniteSets

CONSTANTS
  QueueLimit,   \* responses queued at most: 4 in the code
  MaxOps,       \* bound: publishing runs of one session
  MaxRevision,  \* bound: packings published by one run
  MaxPhases,    \* bound: phases reported by one run
  MaxReports,   \* bound: packings and phases of one run together
  MaxRejects    \* bound: responses of the main thread

ASSUME BoundsAssumption ==
  /\ QueueLimit \in Nat \ {0}
  /\ {MaxOps, MaxRevision, MaxPhases, MaxReports, MaxRejects} \subseteq Nat

Packing == [kind : {"packing"}, op : 1..MaxOps, seq : 1..MaxRevision]

Phase == [kind : {"phase"}, op : 1..MaxOps, seq : 1..MaxPhases]

Terminal == [kind : {"terminal"}, op : 1..MaxOps, ok : BOOLEAN]

Rejection == [kind |-> "reject"]

Response == Terminal \cup {Rejection}

Record == Packing \cup Phase \cup Response

VARIABLES
  writerPc,          \* control state of the writer thread
  out,               \* the record it took and has not written
  waiting,           \* threads blocked on wire_ready
  records,           \* Session::wire_records
  pendingPhase,      \* Session::pending_phase
  pendingPacking,    \* Session::pending_packing
  inflight,          \* Session::packing_inflight
  publicationFailed, \* Session::publication_failed
  due,               \* next_delivery has passed
  wireDown,          \* Session::wire_failed
  closing,           \* Session::wire_closing
  opPc,              \* control state of the solver worker
  op,                \* the operation it runs, 0 before the first
  revision,          \* revision of its last published packing
  phases,            \* sequence of its last phase
  delivered,         \* what flush_packing returned
  servePc,           \* control state of the main thread
  rejects,           \* responses the main thread sent
  written            \* history: records written completely

wireVars == <<writerPc, out, waiting, records, pendingPhase, pendingPacking,
          inflight, publicationFailed, due, wireDown, closing, opPc, op,
          revision, phases, delivered, servePc, rejects, written>>

writerVars == <<writerPc, out>>
slotVars   == <<pendingPhase, pendingPacking, inflight>>
opVars     == <<opPc, op, revision, phases, delivered>>
serveVars  == <<servePc, rejects, closing>>

-----------------------------------------------------------------------------
(* wire_mutex and wire_ready.                                              *)

MutexFree == writerPc # "blocking"

NotifyOne ==
  IF waiting = {} THEN UNCHANGED waiting
                  ELSE \E t \in waiting : waiting' = waiting \ {t}

NotifyAll == waiting' = {}

Unsent == pendingPacking # {} \/ pendingPhase # {}

Idle == closing = FALSE /\ ~wireDown /\ ~Unsent /\ records = <<>>

-----------------------------------------------------------------------------
(* The writer thread: waiting for work.                                    *)

(* The predicate is false: the mutex stays held until the thread blocks.   *)
FindsNothing ==
  /\ writerPc = "check"
  /\ Idle
  /\ writerPc' = "blocking"
  /\ UNCHANGED <<out, waiting, records, slotVars, publicationFailed, due,
                 wireDown, opVars, serveVars, written>>

Blocks ==
  /\ writerPc = "blocking"
  /\ writerPc' = "asleep"
  /\ waiting' = waiting \cup {"writer"}
  /\ UNCHANGED <<out, records, slotVars, publicationFailed, due, wireDown,
                 opVars, serveVars, written>>

Wakes ==
  /\ writerPc = "asleep"
  /\ "writer" \notin waiting
  /\ writerPc' = "check"
  /\ UNCHANGED <<out, waiting, records, slotVars, publicationFailed, due,
                 wireDown, opVars, serveVars, written>>

(* A condition variable may wake a thread nobody notified.                 *)
WakesSpuriously ==
  /\ waiting # {}
  /\ NotifyOne
  /\ UNCHANGED <<writerVars, records, slotVars, publicationFailed, due,
                 wireDown, opVars, serveVars, written>>

(* A failed wire ends the writer at its next look; a closing one only when *)
(* everything is written.                                                  *)
Leaves ==
  /\ \/ writerPc \in {"check", "pacing", "write"} /\ wireDown
     \/ writerPc = "check" /\ closing /\ ~Unsent /\ records = <<>>
  /\ writerPc' = "done"
  /\ out' = {}
  /\ waiting' = waiting \ {"writer"}
  /\ UNCHANGED <<records, slotVars, publicationFailed, due, wireDown,
                 opVars, serveVars, written>>

(* A phase or a packing waits for the gate with the mutex released; only a *)
(* failed wire cuts the wait short, whatever else is notified.             *)
WaitsForGate ==
  /\ writerPc = "check"
  /\ ~wireDown
  /\ Unsent
  /\ ~due
  /\ writerPc' = "pacing"
  /\ waiting' = waiting \cup {"writer"}
  /\ UNCHANGED <<out, records, slotVars, publicationFailed, due, wireDown,
                 opVars, serveVars, written>>

MayTakePaced == writerPc \in {"check", "pacing"} /\ ~wireDown /\ due

(* The newest packing is taken and the phase it supersedes is dropped.     *)
TakePacking ==
  /\ MayTakePaced
  /\ pendingPacking # {}
  /\ out' = pendingPacking
  /\ pendingPacking' = {}
  /\ inflight' = TRUE
  /\ pendingPhase' = {}
  /\ writerPc' = "encode"
  /\ waiting' = waiting \ {"writer"}
  /\ UNCHANGED <<records, publicationFailed, due, wireDown, opVars, serveVars,
                 written>>

TakePhase ==
  /\ MayTakePaced
  /\ pendingPacking = {}
  /\ pendingPhase # {}
  /\ out' = pendingPhase
  /\ pendingPhase' = {}
  /\ writerPc' = "write"
  /\ waiting' = waiting \ {"writer"}
  /\ UNCHANGED <<records, pendingPacking, inflight, publicationFailed, due,
                 wireDown, opVars, serveVars, written>>

(* Faulty variant: a response overtakes what is pending.                   *)
TakeResponseFirst ==
  /\ writerPc = "check"
  /\ ~wireDown
  /\ records # <<>>
  /\ out' = {Head(records)}
  /\ records' = Tail(records)
  /\ writerPc' = "write"
  /\ UNCHANGED <<waiting, slotVars, publicationFailed, due, wireDown, opVars,
                 serveVars, written>>

TakeResponse ==
  /\ writerPc = "check"
  /\ ~wireDown
  /\ ~Unsent
  /\ records # <<>>
  /\ out' = {Head(records)}
  /\ records' = Tail(records)
  /\ writerPc' = "write"
  /\ UNCHANGED <<waiting, slotVars, publicationFailed, due, wireDown, opVars,
                 serveVars, written>>

-----------------------------------------------------------------------------
(* The writer thread: encoding and writing.                                *)

Encodes ==
  /\ writerPc = "encode"
  /\ writerPc' = "encoded"
  /\ UNCHANGED <<out, waiting, records, slotVars, publicationFailed, due,
                 wireDown, opVars, serveVars, written>>

EncodingFails ==
  /\ writerPc = "encode"
  /\ writerPc' = "encoded"
  /\ publicationFailed' = TRUE
  /\ out' = {}
  /\ UNCHANGED <<waiting, records, slotVars, due, wireDown, opVars, serveVars,
                 written>>

(* The packing is no longer in flight before it is written; an empty record*)
(* is not written.                                                         *)
Unpins ==
  /\ writerPc = "encoded"
  /\ inflight' = FALSE
  /\ NotifyAll
  /\ writerPc' = IF out = {} THEN "check" ELSE "write"
  /\ UNCHANGED <<out, records, pendingPhase, pendingPacking, publicationFailed,
                 due, wireDown, opVars, serveVars, written>>

(* A phase record that cannot be built is an exception of the thread.      *)
PhaseThrows ==
  /\ writerPc = "write"
  /\ \E p \in out : p.kind = "phase"
  /\ wireDown' = TRUE
  /\ NotifyAll
  /\ writerPc' = "done"
  /\ out' = {}
  /\ UNCHANGED <<records, slotVars, publicationFailed, due, opVars, serveVars,
                 written>>

BeginsWrite ==
  /\ writerPc = "write"
  /\ ~wireDown
  /\ writerPc' = "writing"
  /\ UNCHANGED <<out, waiting, records, slotVars, publicationFailed, due,
                 wireDown, opVars, serveVars, written>>

(* The client read the whole record; a paced one closes the gate.          *)
WriteReturns ==
  /\ writerPc = "writing"
  /\ \E x \in out :
       /\ written' = Append(written, x)
       /\ due' = (due /\ x.kind \notin {"phase", "packing"})
  /\ out' = {}
  /\ writerPc' = "check"
  /\ UNCHANGED <<waiting, records, slotVars, publicationFailed, wireDown,
                 opVars, serveVars>>

(* The pipe is broken, or the watchdog cancelled the write.                *)
WriteFails ==
  /\ writerPc = "writing"
  /\ wireDown' = TRUE
  /\ NotifyAll
  /\ writerPc' = "done"
  /\ out' = {}
  /\ UNCHANGED <<records, slotVars, publicationFailed, due, opVars, serveVars,
                 written>>

GateOpens ==
  /\ ~due
  /\ due' = TRUE
  /\ UNCHANGED <<writerVars, waiting, records, slotVars, publicationFailed,
                 wireDown, opVars, serveVars, written>>

(* A write outstanding for 250 ms fails the wire.                          *)
WatchdogFires ==
  /\ writerPc = "writing"
  /\ wireDown' = TRUE
  /\ NotifyAll
  /\ UNCHANGED <<writerVars, records, slotVars, publicationFailed, due, opVars,
                 serveVars, written>>

-----------------------------------------------------------------------------
(* Session::send.                                                          *)

(* Faulty variant: a queued response is not announced.                     *)
SendSilently(response) ==
  /\ MutexFree
  /\ ~wireDown
  /\ Len(records) < QueueLimit
  /\ records' = Append(records, response)
  /\ UNCHANGED <<wireDown, waiting>>

(* A response beyond the limit, in number or in bytes, fails the wire.     *)
SendResponse(response) ==
  /\ MutexFree
  /\ \/ /\ wireDown
        /\ UNCHANGED <<records, wireDown, waiting>>
     \/ /\ ~wireDown
        /\ wireDown' = TRUE
        /\ NotifyAll
        /\ UNCHANGED records
     \/ /\ ~wireDown
        /\ Len(records) < QueueLimit
        /\ records' = Append(records, response)
        /\ NotifyOne
        /\ UNCHANGED wireDown

-----------------------------------------------------------------------------
(* The solver worker: a publishing run.                                    *)

AnswerWritten(o) == \E i \in 1..Len(written) :
                      written[i].kind = "terminal" /\ written[i].op = o

Begin ==
  /\ opPc = "idle"
  /\ servePc = "serving"
  /\ op < MaxOps
  /\ op = 0 \/ AnswerWritten(op)
  /\ opPc' = "run"
  /\ op' = op + 1
  /\ revision' = 0
  /\ phases' = 0
  /\ delivered' = FALSE
  /\ publicationFailed' = FALSE
  /\ UNCHANGED <<writerVars, waiting, records, slotVars, due, wireDown,
                 serveVars, written>>

Publish ==
  /\ opPc = "run"
  /\ revision < MaxRevision /\ revision + phases < MaxReports
  /\ MutexFree
  /\ revision' = revision + 1
  /\ pendingPacking' = {[kind |-> "packing", op |-> op, seq |-> revision']}
  /\ NotifyOne
  /\ UNCHANGED <<writerVars, records, pendingPhase, inflight, publicationFailed,
                 due, wireDown, opPc, op, phases, delivered, serveVars,
                 written>>

(* try_lock: a phase that finds the mutex taken is dropped.                *)
ReportPhase ==
  /\ opPc = "run"
  /\ phases < MaxPhases /\ revision + phases < MaxReports
  /\ phases' = phases + 1
  /\ \/ UNCHANGED <<pendingPhase, waiting>>
     \/ /\ MutexFree
        /\ pendingPhase' = {[kind |-> "phase", op |-> op, seq |-> phases']}
        /\ NotifyOne
  /\ UNCHANGED <<writerVars, records, pendingPacking, inflight,
                 publicationFailed, due, wireDown, opPc, op, revision,
                 delivered, serveVars, written>>

SolveReturns ==
  /\ opPc = "run"
  /\ opPc' = "flush"
  /\ UNCHANGED <<writerVars, waiting, records, slotVars, publicationFailed, due,
                 wireDown, op, revision, phases, delivered, serveVars,
                 written>>

(* Faulty variant: a packing that is still being encoded is not awaited.   *)
FlushedWhenTaken == pendingPacking = {}

Flushed == pendingPacking = {} /\ ~inflight

FlushReturns ==
  /\ delivered' = (Flushed /\ ~wireDown /\ ~publicationFailed)
  /\ opPc' = "answer"
  /\ waiting' = waiting \ {"worker"}

(* flush_packing looks, and returns or blocks for at most five seconds.    *)
FlushLooks ==
  /\ opPc = "flush"
  /\ MutexFree
  /\ IF wireDown \/ Flushed
       THEN FlushReturns
       ELSE /\ opPc' = "flushing"
            /\ waiting' = waiting \cup {"worker"}
            /\ UNCHANGED delivered
  /\ UNCHANGED <<writerVars, records, slotVars, publicationFailed, due,
                 wireDown, op, revision, phases, serveVars, written>>

FlushWakes ==
  /\ opPc = "flushing"
  /\ "worker" \notin waiting
  /\ opPc' = "flush"
  /\ UNCHANGED <<writerVars, waiting, records, slotVars, publicationFailed, due,
                 wireDown, op, revision, phases, delivered, serveVars,
                 written>>

FlushTimesOut ==
  /\ opPc = "flushing"
  /\ MutexFree
  /\ FlushReturns
  /\ UNCHANGED <<writerVars, records, slotVars, publicationFailed, due,
                 wireDown, op, revision, phases, serveVars, written>>

(* The run succeeds only if its last packing was delivered; it may fail    *)
(* for reasons of its own.                                                 *)
Answer ==
  /\ opPc = "answer"
  /\ \E ok \in {delivered, FALSE} :
       SendResponse([kind |-> "terminal", op |-> op, ok |-> ok])
  /\ opPc' = "idle"
  /\ UNCHANGED <<writerVars, slotVars, publicationFailed, due, op, revision,
                 phases, delivered, serveVars, written>>

(* An exception of the worker fails the wire and wakes whoever waits.      *)
RunThrows ==
  /\ opPc \in {"run", "flush", "answer"}
  /\ opPc' = "idle"
  /\ wireDown' = TRUE
  /\ NotifyAll
  /\ UNCHANGED <<writerVars, records, slotVars, publicationFailed, due, op,
                 revision, phases, delivered, serveVars, written>>

-----------------------------------------------------------------------------
(* The main thread: refusals, then the cleanup once the worker is joined.  *)

Reject ==
  /\ servePc = "serving"
  /\ rejects < MaxRejects
  /\ SendResponse(Rejection)
  /\ rejects' = rejects + 1
  /\ UNCHANGED <<writerVars, slotVars, publicationFailed, due, opVars, servePc,
                 closing, written>>

(* End of input or shutdown; an overlong record or an exception also fails *)
(* the wire, and notifies nobody.                                          *)
LeavesLoop ==
  /\ servePc = "serving"
  /\ servePc' = "cleanup"
  /\ wireDown' \in {wireDown, TRUE}
  /\ UNCHANGED <<writerVars, waiting, records, slotVars, publicationFailed, due,
                 opVars, rejects, closing, written>>

(* finish_writer stores wire_closing without holding wire_mutex.           *)
CloseWriter ==
  /\ servePc = "cleanup"
  /\ opPc = "idle"
  /\ closing' = TRUE
  /\ servePc' = "notify"
  /\ UNCHANGED <<writerVars, waiting, records, slotVars, publicationFailed, due,
                 wireDown, opVars, rejects, written>>

NotifyClosing ==
  /\ servePc = "notify"
  /\ NotifyAll
  /\ servePc' = "join"
  /\ UNCHANGED <<writerVars, records, slotVars, publicationFailed, due,
                 wireDown, opVars, rejects, closing, written>>

JoinWriter ==
  /\ servePc = "join"
  /\ writerPc = "done"
  /\ servePc' = "done"
  /\ UNCHANGED <<writerVars, waiting, records, slotVars, publicationFailed, due,
                 wireDown, opVars, rejects, closing, written>>

WireEnded ==
  /\ servePc = "done"
  /\ UNCHANGED wireVars

-----------------------------------------------------------------------------
WireInit ==
  /\ writerPc = "check"
  /\ out = {}
  /\ waiting = {}
  /\ records = <<>>
  /\ pendingPhase = {}
  /\ pendingPacking = {}
  /\ inflight = FALSE
  /\ publicationFailed = FALSE
  /\ due = TRUE
  /\ wireDown = FALSE
  /\ closing = FALSE
  /\ opPc = "idle"
  /\ op = 0
  /\ revision = 0
  /\ phases = 0
  /\ delivered = FALSE
  /\ servePc = "serving"
  /\ rejects = 0
  /\ written = <<>>

(* What the writer does when it is scheduled.                              *)
Writer ==
  \/ FindsNothing \/ Blocks \/ Wakes \/ Leaves \/ WaitsForGate
  \/ TakePacking \/ TakePhase \/ TakeResponse
  \/ Encodes \/ EncodingFails \/ Unpins \/ PhaseThrows \/ BeginsWrite

(* How a write ends: nothing obliges the client to read.                   *)
WriteEnds == WriteReturns \/ WriteFails

Worker ==
  \/ FlushLooks \/ FlushWakes \/ FlushTimesOut \/ Answer

Cleanup == CloseWriter \/ NotifyClosing \/ JoinWriter

WireNext ==
  \/ Writer \/ WriteEnds \/ GateOpens \/ WatchdogFires \/ WakesSpuriously
  \/ Begin \/ Publish \/ ReportPhase \/ SolveReturns \/ Worker \/ RunThrows
  \/ Reject \/ LeavesLoop \/ Cleanup \/ WireEnded

WireSpec == WireInit /\ [][WireNext]_wireVars

(* Threads that can run do, time passes, and the watchdog keeps cancelling *)
(* the write of a failed wire until it returns.  The worker gets wire_mutex*)
(* although the writer keeps taking it (SF): every wait of the writer      *)
(* releases it.  A client may never read, a run may never end, and a       *)
(* spurious wake-up may never come.                                        *)
WireFairness ==
  /\ WF_wireVars(Writer)
  /\ WF_wireVars(WriteEnds /\ wireDown)
  /\ WF_wireVars(GateOpens)
  /\ WF_wireVars(WatchdogFires)
  /\ SF_wireVars(Worker)
  /\ WF_wireVars(Cleanup)

WireFairSpec == WireSpec /\ WireFairness
-----------------------------------------------------------------------------
WireTypeOK ==
  /\ writerPc \in {"check", "blocking", "asleep", "pacing", "encode",
                   "encoded", "write", "writing", "done"}
  /\ opPc \in {"idle", "run", "flush", "flushing", "answer"}
  /\ servePc \in {"serving", "cleanup", "notify", "join", "done"}
  /\ out \subseteq Record
  /\ waiting \subseteq {"writer", "worker"}
  /\ records \in Seq(Response) /\ Len(records) <= QueueLimit
  /\ pendingPhase \subseteq Phase
  /\ pendingPacking \subseteq Packing
  /\ inflight \in BOOLEAN /\ publicationFailed \in BOOLEAN
  /\ due \in BOOLEAN /\ wireDown \in BOOLEAN /\ closing \in BOOLEAN
  /\ delivered \in BOOLEAN
  /\ op \in 0..MaxOps
  /\ revision \in 0..MaxRevision
  /\ phases \in 0..MaxPhases
  /\ rejects \in 0..MaxRejects
  /\ written \in Seq(Record)

(* Nothing of an operation follows its answer on the wire, although phases *)
(* and packings travel beside the queue: the client frees the operation's  *)
(* state when the answer arrives.                                          *)
TerminalLast ==
  \A i, j \in 1..Len(written) :
    /\ i < j
    /\ written[i].kind = "terminal"
    /\ written[j].kind \in {"phase", "packing"}
    => written[j].op > written[i].op

(* Before a successful answer the client got the last packing of the run:  *)
(* whatever the queue, the gate and the encoder do in between.             *)
LatestDelivered ==
  revision > 0 =>
    \A i \in 1..Len(written) :
      written[i] = [kind |-> "terminal", op |-> op, ok |-> TRUE] =>
        \E j \in 1..i :
          written[j] = [kind |-> "packing", op |-> op, seq |-> revision]

(* A run that has been solved is answered, or the wire fails: no wake-up   *)
(* is lost between the threads that share wire_ready.                      *)
Answered ==
  \A o \in 1..MaxOps :
    op = o /\ opPc = "flush" ~> wireDown \/ AnswerWritten(o)

(* Cleanup ends once it waits for the writer.                              *)
CleanupEnds == servePc = "join" ~> servePc = "done"
=============================================================================
