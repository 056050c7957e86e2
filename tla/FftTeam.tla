------------------------------ MODULE FftTeam ------------------------------
(***************************************************************************)
(* The transform team of engine/pack_compute/src/fft_execution.cpp: an     *)
(* owner thread, worker 0, that dispatches the lines of one axis to itself *)
(* and to Count - 1 parked threads, waits for all of them, and joins the   *)
(* team for good when a call fails.                                        *)
(*                                                                         *)
(* The fields of the job are written with no lock held while the others    *)
(* are parked.  Sections under the mutex are single steps; a thread blocked*)
(* on `wake` is in asleep until notify_all.  Each worker transforms its    *)
(* contiguous share of the lines group by group; a group never crosses a   *)
(* row of Lower lines nor exceeds GroupLimit.                              *)
(***************************************************************************)
EXTENDS Naturals, FiniteSets

CONSTANTS
  Count,       \* threads of the team: 2..8 in the code
  Lower,       \* lines per row
  Upper,       \* rows
  GroupLimit,  \* lines per library call at most
  MaxRuns      \* bound: calls of one team

ASSUME TeamAssumption ==
  /\ Count \in Nat /\ Count >= 2
  /\ {Lower, Upper, GroupLimit} \subseteq Nat \ {0}
  /\ MaxRuns \in Nat

Workers == 0..Count - 1

Peers == 1..Count - 1

LineCount == Lower * Upper

Lines == 0..LineCount - 1

VARIABLES
  pc,          \* control state of each worker; pc[0] is the owner's
  asleep,      \* workers blocked on Storage::wake
  seen,        \* generation each worker last took
  generation,  \* Storage::generation
  finished,    \* Storage::finished
  created,     \* Storage::created
  shutdown,    \* Storage::shutdown
  abort,       \* AxisJob::abort
  failures,    \* workers that recorded a failure
  position,    \* each worker's next line
  stopped,     \* the stop token was stopped
  late,        \* the deadline has passed
  result,      \* what the last call returned
  transformed  \* history: how often this call transformed each line

vars == <<pc, asleep, seen, generation, finished, created, shutdown, abort,
          failures, position, stopped, late, result, transformed>>

lifeVars == <<created, shutdown>>
jobVars  == <<failures, position, transformed>>
envVars  == <<stopped, late>>

First(w) == (LineCount * w) \div Count

(* Faulty variant: the remainder of the division is left out.              *)
EndRounded(w) == (LineCount \div Count) * (w + 1)

End(w) == (LineCount * (w + 1)) \div Count

Least(a, b) == IF a <= b THEN a ELSE b

GroupLength(w) ==
  Least(Least(End(w) - position[w], Lower - (position[w] % Lower)), GroupLimit)

Group(w) == position[w]..position[w] + GroupLength(w) - 1

Interrupted == stopped \/ late

Goto(w, state) == pc' = [pc EXCEPT ![w] = state]

-----------------------------------------------------------------------------
(* The owner: construction.                                                *)

Create ==
  /\ pc[0] = "create"
  /\ created < Count - 1
  /\ created' = created + 1
  /\ Goto(created + 1, "parked")
  /\ UNCHANGED <<asleep, seen, generation, finished, shutdown, abort, jobVars,
                 envVars, result>>

Created ==
  /\ pc[0] = "create"
  /\ created = Count - 1
  /\ Goto(0, "idle")
  /\ UNCHANGED <<asleep, seen, generation, finished, lifeVars, abort, jobVars,
                 envVars, result>>

(* A thread cannot start: the destructor joins those that did.             *)
StartFails ==
  /\ pc[0] = "create"
  /\ created < Count - 1
  /\ Goto(0, "join")
  /\ result' = "failure"
  /\ UNCHANGED <<asleep, seen, generation, finished, lifeVars, abort, jobVars,
                 envVars>>

-----------------------------------------------------------------------------
(* The owner: FftAccess::run.                                              *)

(* The job is rewritten with no lock held.  A joined team is never idle    *)
(* again: it refuses every later call (CORRELATION_EXECUTION_CLOSED).      *)
SetUp ==
  /\ pc[0] = "idle"
  /\ generation < MaxRuns
  /\ Goto(0, "dispatch")
  /\ failures' = {}
  /\ abort' = FALSE
  /\ position' = [w \in Workers |-> First(w)]
  /\ transformed' = [l \in Lines |-> 0]
  /\ result' = "none"
  /\ UNCHANGED <<asleep, seen, generation, finished, lifeVars, envVars>>

Dispatch ==
  /\ pc[0] = "dispatch"
  /\ finished' = 0
  /\ generation' = generation + 1
  /\ Goto(0, "notify")
  /\ UNCHANGED <<asleep, seen, lifeVars, abort, jobVars, envVars, result>>

(* Faulty variant: only one worker is woken.                               *)
NotifyOne ==
  /\ pc[0] = "notify"
  /\ asleep' \in {asleep \ {w} : w \in Peers}
  /\ Goto(0, "check")
  /\ UNCHANGED <<seen, generation, finished, lifeVars, abort, jobVars, envVars,
                 result>>

Notify ==
  /\ pc[0] = "notify"
  /\ asleep' = {}
  /\ Goto(0, "check")
  /\ UNCHANGED <<seen, generation, finished, lifeVars, abort, jobVars, envVars,
                 result>>

(* While it waits, the owner polls every 5 ms and aborts the others.       *)
WaitPolls ==
  /\ pc[0] = "wait"
  /\ finished # created
  /\ Interrupted
  /\ abort' = TRUE
  /\ UNCHANGED <<pc, asleep, seen, generation, finished, lifeVars, jobVars,
                 envVars, result>>

WaitEnds ==
  /\ pc[0] = "wait"
  /\ finished = created
  /\ Goto(0, "decide")
  /\ UNCHANGED <<asleep, seen, generation, finished, lifeVars, abort, jobVars,
                 envVars, result>>

(* Faulty variant: the final poll is missing.                              *)
SucceedsUnpolled ==
  /\ pc[0] = "decide"
  /\ failures = {}
  /\ Goto(0, "idle")
  /\ result' = "success"
  /\ UNCHANGED <<asleep, seen, generation, finished, lifeVars, abort, jobVars,
                 envVars>>

Succeeds ==
  /\ pc[0] = "decide"
  /\ ~Interrupted
  /\ failures = {}
  /\ Goto(0, "idle")
  /\ result' = "success"
  /\ UNCHANGED <<asleep, seen, generation, finished, lifeVars, abort, jobVars,
                 envVars>>

Fails ==
  /\ pc[0] = "decide"
  /\ Interrupted \/ failures # {}
  /\ Goto(0, "join")
  /\ result' = "failure"
  /\ UNCHANGED <<asleep, seen, generation, finished, lifeVars, abort, jobVars,
                 envVars>>

-----------------------------------------------------------------------------
(* The owner: join, by a failed call or the destructor.                    *)

Destroy ==
  /\ pc[0] = "idle"
  /\ Goto(0, "join")
  /\ UNCHANGED <<asleep, seen, generation, finished, lifeVars, abort, jobVars,
                 envVars, result>>

ShutDown ==
  /\ pc[0] = "join"
  /\ shutdown' = TRUE
  /\ abort' = TRUE
  /\ Goto(0, "wake")
  /\ UNCHANGED <<asleep, seen, generation, finished, created, jobVars, envVars,
                 result>>

WakeAll ==
  /\ pc[0] = "wake"
  /\ asleep' = {}
  /\ Goto(0, "joining")
  /\ UNCHANGED <<seen, generation, finished, lifeVars, abort, jobVars, envVars,
                 result>>

Joined ==
  /\ pc[0] = "joining"
  /\ \A w \in 1..created : pc[w] = "exited"
  /\ Goto(0, "closed")
  /\ UNCHANGED <<asleep, seen, generation, finished, lifeVars, abort, jobVars,
                 envVars, result>>

-----------------------------------------------------------------------------
(* A worker: AxisJob::run, the owner's own share included.                 *)

(* Worker 0 polls before every group and aborts the others.                *)
PollsAbort ==
  /\ pc[0] = "check"
  /\ position[0] # End(0)
  /\ Interrupted
  /\ abort' = TRUE
  /\ UNCHANGED <<pc, asleep, seen, generation, finished, lifeVars, jobVars,
                 envVars, result>>

Ended(w) == Goto(w, IF w = 0 THEN "wait" ELSE "report")

Enters(w) ==
  /\ pc[w] = "check"
  /\ position[w] # End(w)
  /\ ~abort /\ ~stopped
  /\ w = 0 => ~Interrupted
  /\ Goto(w, "call")
  /\ UNCHANGED <<asleep, seen, generation, finished, lifeVars, abort, jobVars,
                 envVars, result>>

Transforms(w) ==
  /\ pc[w] = "call"
  /\ transformed' = [l \in Lines |-> IF l \in Group(w) THEN transformed[l] + 1
                                                       ELSE transformed[l]]
  /\ position' = [position EXCEPT ![w] = @ + GroupLength(w)]
  /\ Goto(w, "check")
  /\ UNCHANGED <<asleep, seen, generation, finished, lifeVars, abort, failures,
                 envVars, result>>

(* The floating environment is unsupported, or the library throws after it *)
(* transformed some lines of the group.                                    *)
CallFails(w) ==
  /\ pc[w] = "call"
  /\ \E S \in SUBSET Group(w) :
       transformed' = [l \in Lines |-> IF l \in S THEN transformed[l] + 1
                                                  ELSE transformed[l]]
  /\ failures' = failures \cup {w}
  /\ abort' = TRUE
  /\ Ended(w)
  /\ UNCHANGED <<asleep, seen, generation, finished, lifeVars, position,
                 envVars, result>>

Returns(w) ==
  /\ pc[w] = "check"
  /\ position[w] = End(w) \/ abort \/ (stopped /\ w # 0)
  /\ Ended(w)
  /\ UNCHANGED <<asleep, seen, generation, finished, lifeVars, abort, jobVars,
                 envVars, result>>

-----------------------------------------------------------------------------
(* A parked worker: Storage::entry.                                        *)

Sleeps(w) ==
  /\ pc[w] = "parked"
  /\ w \notin asleep
  /\ ~shutdown
  /\ generation = seen[w]
  /\ asleep' = asleep \cup {w}
  /\ UNCHANGED <<pc, seen, generation, finished, lifeVars, abort, jobVars,
                 envVars, result>>

Takes(w) ==
  /\ pc[w] = "parked"
  /\ w \notin asleep
  /\ ~shutdown
  /\ generation # seen[w]
  /\ seen' = [seen EXCEPT ![w] = generation]
  /\ Goto(w, "check")
  /\ UNCHANGED <<asleep, generation, finished, lifeVars, abort, jobVars,
                 envVars, result>>

Reports(w) ==
  /\ pc[w] = "report"
  /\ finished' = finished + 1
  /\ Goto(w, "parked")
  /\ UNCHANGED <<asleep, seen, generation, lifeVars, abort, jobVars, envVars,
                 result>>

Exits(w) ==
  /\ pc[w] = "parked"
  /\ w \notin asleep
  /\ shutdown
  /\ Goto(w, "exited")
  /\ UNCHANGED <<asleep, seen, generation, finished, lifeVars, abort, jobVars,
                 envVars, result>>

-----------------------------------------------------------------------------
(* The rest of the program.                                                *)

Stop ==
  /\ stopped' = TRUE
  /\ UNCHANGED <<pc, asleep, seen, generation, finished, lifeVars, abort,
                 jobVars, late, result>>

Expire ==
  /\ late' = TRUE
  /\ UNCHANGED <<pc, asleep, seen, generation, finished, lifeVars, abort,
                 jobVars, stopped, result>>

-----------------------------------------------------------------------------
Init ==
  /\ pc = [w \in Workers |-> IF w = 0 THEN "create" ELSE "unborn"]
  /\ asleep = {}
  /\ seen = [w \in Peers |-> 0]
  /\ generation = 0
  /\ finished = 0
  /\ created = 0
  /\ shutdown = FALSE
  /\ abort = FALSE
  /\ failures = {}
  /\ position = [w \in Workers |-> First(w)]
  /\ stopped = FALSE
  /\ late = FALSE
  /\ result = "none"
  /\ transformed = [l \in Lines |-> 0]

Construction == Create \/ Created \/ StartFails

Running ==
  Dispatch \/ Notify \/ WaitPolls \/ WaitEnds \/ Succeeds \/ Fails

Joining == ShutDown \/ WakeAll \/ Joined

Kernel(w) == Enters(w) \/ Transforms(w) \/ CallFails(w) \/ Returns(w)

Entry(w) == Sleeps(w) \/ Takes(w) \/ Reports(w) \/ Exits(w)

Next ==
  \/ Construction \/ SetUp \/ Running \/ Destroy \/ Joining
  \/ PollsAbort
  \/ \E w \in Workers : Kernel(w)
  \/ \E w \in Peers : Entry(w)
  \/ Stop \/ Expire

Spec == Init /\ [][Next]_vars

(* Every thread is scheduled, and a library call returns.                  *)
Fairness ==
  /\ WF_vars(Running)
  /\ WF_vars(Joining)
  /\ WF_vars(PollsAbort)
  /\ \A w \in Workers : WF_vars(Kernel(w))
  /\ \A w \in Peers : WF_vars(Entry(w))

FairSpec == Spec /\ Fairness
-----------------------------------------------------------------------------
TypeOK ==
  /\ pc \in [Workers -> {"unborn", "create", "idle", "dispatch", "notify",
                         "check", "call", "wait", "decide", "report", "parked",
                         "join", "wake", "joining", "closed", "exited"}]
  /\ asleep \subseteq Peers
  /\ seen \in [Peers -> 0..MaxRuns]
  /\ generation \in 0..MaxRuns
  /\ finished \in 0..Count - 1
  /\ created \in 0..Count - 1
  /\ shutdown \in BOOLEAN /\ abort \in BOOLEAN
  /\ failures \subseteq Workers
  /\ position \in [Workers -> 0..LineCount]
  /\ stopped \in BOOLEAN /\ late \in BOOLEAN
  /\ result \in {"none", "success", "failure"}
  /\ transformed \in [Lines -> Nat]

(* Transforms are in place: a line transformed twice in one call, by two   *)
(* workers or by one, is corrupted.                                        *)
Exclusive == \A l \in Lines : transformed[l] <= 1

(* A call that returns success has transformed every line, whatever stop,  *)
(* deadline or failure raced it.                                           *)
SuccessComplete ==
  pc[0] = "idle" /\ result = "success" =>
    \A l \in Lines : transformed[l] = 1

(* The owner never rewrites the job, nor returns the borrowed data to its  *)
(* caller, while another worker may still use them.                        *)
QuietOutsideCall ==
  pc[0] \notin {"notify", "check", "call", "wait"} =>
    \A w \in Peers : pc[w] \notin {"check", "call", "report"}

(* A failed call leaves a team whose threads are gone: it is never reused, *)
(* and a failed construction leaks none.                                   *)
FailedIsClosed ==
  result = "failure" =>
    /\ pc[0] \in {"join", "wake", "joining", "closed"}
    /\ pc[0] = "closed" => \A w \in Peers : pc[w] \in {"unborn", "exited"}

(* Every call returns: no wake-up is lost between generations, and a       *)
(* failed or interrupted team can be joined.                               *)
CallReturns == pc[0] = "dispatch" ~> pc[0] \in {"idle", "closed"}

(* The team is a fork-join of its lines.                                   *)
CallPhase ==
  CASE pc[0] \in {"create", "idle"} -> "idle"
    [] pc[0] \in {"join", "wake", "joining", "closed"} -> "closed"
    [] OTHER -> "busy"

Abstract == INSTANCE ForkJoin WITH phase <- CallPhase, times <- transformed

IsForkJoin == Abstract!Spec
=============================================================================
