--------------------------- MODULE DesktopSession ---------------------------
(***************************************************************************)
(* The retained native session of the desktop application                  *)
(* (engine/cli/src/desktop_session.cpp): a main thread that reads one      *)
(* request at a time, one worker thread that prepares an asset or runs the *)
(* solver, the watchdog that turns a broken wire into a stop, and the      *)
(* marker watcher that turns the stop file into one.                       *)
(*                                                                         *)
(* An optional value of the code (asset, previous_asset, retained_solution,*)
(* the last request) is a set of at most one element.  A request id is     *)
(* abstracted to an element of Ids, its identity hash to the set of bits   *)
(* it probes in the fixed history, a native asset to its token and the     *)
(* solid it shares.  The wire itself is modelled in WireWriter; here       *)
(* sending appends to the answers or overflows the queue.                  *)
(***************************************************************************)
EXTENDS Naturals, FiniteSets

CONSTANTS
  Ids,        \* request identities
  Bits,       \* bits of the insertion-only identity history
  Probes,     \* the bits an identity's hash selects
  Solids,     \* solids a prepared report can denote
  MaxToken    \* bound: fresh tokens drawn in one behaviour

ASSUME ProbesAssumption == Probes \in [Ids -> (SUBSET Bits) \ {{}}]
ASSUME MaxTokenAssumption == MaxToken \in Nat

Tokens == 1..MaxToken

Methods == {"prepare", "run", "release", "shutdown"}

(* A canonical request: two requests are equal when their encodings are.   *)
(* Token 0 stands for a method without an asset_token parameter.           *)
Request ==
  {r \in [id : Ids, method : Methods, token : Tokens \cup {0}] :
     r.token = 0 <=> r.method \in {"prepare", "shutdown"}}

Prepared == [token : Tokens, solid : Solids]

(* What a completed request answered: its outcome and the token a          *)
(* successful prepare grants (0: none).                                    *)
Reply == [ok : BOOLEAN, token : Tokens \cup {0}]

Granting(t) == [ok |-> TRUE, token |-> t]
Success == [ok |-> TRUE, token |-> 0]
Failure == [ok |-> FALSE, token |-> 0]

Completion == [req : Request, reply : Reply]

VARIABLES
  mainPc,       \* control state of the thread that runs run_desktop_session
  req,          \* the request that thread is handling
  mutex,        \* whether it holds state_mutex
  active,       \* Session::active
  stop,         \* the active stop source has been asked to stop
  workerPc,     \* control state of the worker; "none": not joinable
  job,          \* the request the worker executes
  reply,        \* what operate returned
  watchFailed,  \* MarkerWatcher::failed_
  asset,        \* Session::asset
  previous,     \* Session::previous_asset
  retained,     \* the solid of Session::retained_solution
  nextToken,    \* the next fresh token
  identities,   \* bits set in Session::identities
  last,         \* last_request_id, last_canonical and last_response
  wireFailed,   \* Session::wire_failed
  answers,      \* history: completions handed to the wire
  completed     \* history: how often each identity completed

vars == <<mainPc, req, mutex, active, stop, workerPc, job, reply, watchFailed,
          asset, previous, retained, nextToken, identities, last, wireFailed,
          answers, completed>>

mainVars   == <<mainPc, req, mutex>>
workerVars == <<workerPc, job, reply, watchFailed>>
assetVars  == <<asset, previous, retained, nextToken>>
doneVars   == <<identities, last, completed>>

Held == asset \cup previous

HeldTokens == {p.token : p \in Held}

-----------------------------------------------------------------------------
(* Session::send: dropped once the wire failed; the fifth queued record    *)
(* (or too many bytes) fails the wire instead of being queued.             *)
Send(S) ==
  \/ /\ ~wireFailed
     /\ answers' = answers \cup S
     /\ UNCHANGED wireFailed
  \/ /\ wireFailed' = TRUE
     /\ UNCHANGED answers

(* The lock acquired for the iteration is released at its end.             *)
NextLine ==
  /\ mainPc' = "read"
  /\ req' = {}
  /\ mutex' = FALSE

LeaveLoop ==
  /\ mainPc' = "cleanup"
  /\ req' = {}
  /\ mutex' = FALSE

(* Faulty variant: the identity history is not extended.                   *)
RememberLastOnly(r, answer) ==
  /\ last' = {[req |-> r, reply |-> answer]}
  /\ completed' = [completed EXCEPT ![r.id] = @ + 1]
  /\ UNCHANGED identities

(* A completion becomes the last one and enters the insertion-only history.*)
Remember(r, answer) ==
  /\ last' = {[req |-> r, reply |-> answer]}
  /\ identities' = identities \cup Probes[r.id]
  /\ completed' = [completed EXCEPT ![r.id] = @ + 1]

Expired(id) == Probes[id] \subseteq identities

-----------------------------------------------------------------------------
(* The main thread: reading.                                               *)

ReadRequest(r) ==
  /\ mainPc = "read"
  /\ ~wireFailed
  /\ mainPc' = "lock"
  /\ req' = {r}
  /\ UNCHANGED <<mutex, active, stop, workerVars, assetVars, doneVars,
                 wireFailed, answers>>

(* A record that does not parse is answered without a lookup.              *)
ReadMalformed ==
  /\ mainPc = "read"
  /\ ~wireFailed
  /\ Send({})
  /\ UNCHANGED <<mainVars, active, stop, workerVars, assetVars, doneVars>>

(* A record longer than the limit fails the wire and ends the loop.        *)
ReadOverflow ==
  /\ mainPc = "read"
  /\ wireFailed' = TRUE
  /\ LeaveLoop
  /\ UNCHANGED <<active, stop, workerVars, assetVars, doneVars, answers>>

ReadEof ==
  /\ mainPc = "read"
  /\ LeaveLoop
  /\ UNCHANGED <<active, stop, workerVars, assetVars, doneVars, wireFailed,
                 answers>>

(* The watchdog cancels the blocking read of a session whose wire failed.  *)
ReadCancelled ==
  /\ wireFailed
  /\ ReadEof

Lock ==
  /\ mainPc = "lock"
  /\ ~mutex
  /\ mutex' = TRUE
  /\ mainPc' = "dispatch"
  /\ UNCHANGED <<req, active, stop, workerVars, assetVars, doneVars,
                 wireFailed, answers>>

-----------------------------------------------------------------------------
(* The main thread: dispatching the request under state_mutex.             *)

Dispatching(r) == mainPc = "dispatch" /\ r \in req

(* Faulty variant: shutdown joins without requesting a stop.               *)
ShutdownWaits(r) ==
  /\ Dispatching(r)
  /\ r.method = "shutdown"
  /\ active
  /\ mainPc' = "joinStop"
  /\ mutex' = FALSE
  /\ UNCHANGED <<req, active, stop, workerVars, assetVars, doneVars, wireFailed,
                 answers>>

ShutdownActive(r) ==
  /\ Dispatching(r)
  /\ r.method = "shutdown"
  /\ active
  /\ stop' = TRUE
  /\ mainPc' = "joinStop"
  /\ mutex' = FALSE
  /\ UNCHANGED <<req, active, workerVars, assetVars, doneVars, wireFailed,
                 answers>>

(* Faulty variant: shutdown detaches the worker.                           *)
DetachOnStop ==
  /\ mainPc = "joinStop"
  /\ workerPc' = "none"
  /\ Send({})
  /\ LeaveLoop
  /\ UNCHANGED <<active, stop, job, reply, watchFailed, assetVars, doneVars>>

JoinStop ==
  /\ mainPc = "joinStop"
  /\ workerPc \in {"none", "exited"}
  /\ workerPc' = "none"
  /\ Send({})
  /\ LeaveLoop
  /\ UNCHANGED <<active, stop, job, reply, watchFailed, assetVars, doneVars>>

Busy(r) ==
  /\ Dispatching(r)
  /\ r.method # "shutdown"
  /\ active
  /\ Send({})
  /\ NextLine
  /\ UNCHANGED <<active, stop, workerVars, assetVars, doneVars>>

(* A finished worker is joined with the lock released, then the lock is    *)
(* taken again.                                                            *)
UnlockToJoin(r) ==
  /\ Dispatching(r)
  /\ ~active
  /\ workerPc # "none"
  /\ mainPc' = "joinIdle"
  /\ mutex' = FALSE
  /\ UNCHANGED <<req, active, stop, workerVars, assetVars, doneVars,
                 wireFailed, answers>>

JoinIdle ==
  /\ mainPc = "joinIdle"
  /\ workerPc = "exited"
  /\ workerPc' = "none"
  /\ mainPc' = "lock"
  /\ UNCHANGED <<req, mutex, active, stop, job, reply, watchFailed, assetVars,
                 doneVars, wireFailed, answers>>

(* Faulty variant: a release does not wait for the active operation.       *)
DecidingReleaseAnyTime(r) ==
  /\ Dispatching(r)
  /\ r.method = "release" \/ (~active /\ workerPc = "none")

Deciding(r) ==
  /\ Dispatching(r)
  /\ ~active
  /\ workerPc = "none"

IsLast(r) == \E c \in last : c.req.id = r.id

(* Faulty variant: the canonical records are not compared.                 *)
ReplayAnyContent(r) ==
  /\ Deciding(r)
  /\ IsLast(r)
  /\ Send({[req |-> r, reply |-> c.reply] : c \in last})
  /\ NextLine
  /\ UNCHANGED <<active, stop, workerVars, assetVars, doneVars>>

(* The last completed request is answered again; the same identity with    *)
(* other content is refused (REQUEST_ID_CONFLICT).                         *)
Replay(r) ==
  /\ Deciding(r)
  /\ IsLast(r)
  /\ Send({c \in last : c.req = r})
  /\ NextLine
  /\ UNCHANGED <<active, stop, workerVars, assetVars, doneVars>>

RefuseExpired(r) ==
  /\ Deciding(r)
  /\ ~IsLast(r)
  /\ Expired(r.id)
  /\ Send({})
  /\ NextLine
  /\ UNCHANGED <<active, stop, workerVars, assetVars, doneVars>>

Fresh(r) ==
  /\ Deciding(r)
  /\ ~IsLast(r)
  /\ ~Expired(r.id)

ShutdownIdle(r) ==
  /\ Fresh(r)
  /\ r.method = "shutdown"
  /\ Send({})
  /\ LeaveLoop
  /\ UNCHANGED <<active, stop, workerVars, assetVars, doneVars>>

(* Faulty variant: the retained solution outlives its asset.               *)
DropAssetOnly(t) ==
  LET prior == {p \in previous : p.token # t}
      current == \E p \in asset : p.token = t
  IN
  /\ asset' = IF current THEN prior ELSE asset
  /\ previous' = IF current THEN {} ELSE prior
  /\ UNCHANGED <<retained, nextToken>>

(* Releasing the current asset restores the prior one; releasing the prior *)
(* one empties the rollback slot; a retained solution whose object neither *)
(* denotes any more is dropped.                                            *)
Drop(t) ==
  LET prior == {p \in previous : p.token # t}
      current == \E p \in asset : p.token = t
  IN
  /\ asset' = IF current THEN prior ELSE asset
  /\ previous' = IF current THEN {} ELSE prior
  /\ retained' = IF t \in HeldTokens
                   THEN retained \cap {p.solid : p \in asset' \cup previous'}
                   ELSE retained
  /\ UNCHANGED nextToken

Releasing(r) == Fresh(r) /\ r.method = "release"

Release(r) ==
  /\ Releasing(r)
  /\ Drop(r.token)
  /\ Remember(r, IF r.token \in HeldTokens THEN Success ELSE Failure)
  /\ Send(last')
  /\ NextLine
  /\ UNCHANGED <<active, stop, workerVars>>

Starting(r) == Fresh(r) /\ r.method \in {"prepare", "run"}

Start(r) ==
  /\ Starting(r)
  /\ active' = TRUE
  /\ stop' = FALSE
  /\ workerPc' = "start"
  /\ job' = {r}
  /\ reply' = Failure
  /\ watchFailed' = FALSE
  /\ NextLine
  /\ UNCHANGED <<assetVars, doneVars, wireFailed, answers>>

(* An exception on the main thread fails the wire and leaves the loop; the *)
(* lock is released by unwinding.  It may strike after a release dropped   *)
(* its asset, or after active was set for a worker that did not start.     *)
DispatchThrows(r) ==
  /\ Dispatching(r)
  /\ \/ UNCHANGED <<active, assetVars>>
     \/ Releasing(r) /\ Drop(r.token) /\ UNCHANGED active
     \/ Starting(r) /\ active' = TRUE /\ UNCHANGED assetVars
  /\ wireFailed' = TRUE
  /\ LeaveLoop
  /\ UNCHANGED <<stop, workerVars, doneVars, answers>>

-----------------------------------------------------------------------------
(* The main thread: cleanup.                                               *)

RequestStop ==
  /\ mainPc = "cleanup"
  /\ ~mutex
  /\ stop' = (active \/ stop)
  /\ mainPc' = "joinWorker"
  /\ UNCHANGED <<req, mutex, active, workerVars, assetVars, doneVars,
                 wireFailed, answers>>

JoinWorker ==
  /\ mainPc = "joinWorker"
  /\ workerPc \in {"none", "exited"}
  /\ workerPc' = "none"
  /\ mainPc' = "done"
  /\ UNCHANGED <<req, mutex, active, stop, job, reply, watchFailed, assetVars,
                 doneVars, wireFailed, answers>>

Terminated ==
  /\ mainPc = "done"
  /\ UNCHANGED vars

-----------------------------------------------------------------------------
(* The worker: operate.                                                    *)

Working(pc, r) == workerPc = pc /\ r \in job

OperateReturns(answer) ==
  /\ workerPc' = "finish"
  /\ reply' = answer
  /\ UNCHANGED <<job, watchFailed>>

(* Every failure before the new asset is staged: a rollback slot still in  *)
(* use (ASSET_BUSY), admission, the output directory, the load, the role,  *)
(* the preview, a stop while loading.                                      *)
PrepareFails(r) ==
  /\ Working("start", r)
  /\ r.method = "prepare"
  /\ OperateReturns(Failure)
  /\ UNCHANGED <<mainVars, active, stop, assetVars, doneVars, wireFailed,
                 answers>>

PrepareStages(r, s) ==
  /\ Working("start", r)
  /\ r.method = "prepare"
  /\ previous = {}
  /\ nextToken \in Tokens
  /\ previous' = asset
  /\ asset' = {[token |-> nextToken, solid |-> s]}
  /\ nextToken' = nextToken + 1
  /\ workerPc' = "staged"
  /\ UNCHANGED <<mainVars, active, stop, job, reply, watchFailed, retained,
                 doneVars, wireFailed, answers>>

PrepareCommits(r) ==
  /\ Working("staged", r)
  /\ ~watchFailed
  /\ ~wireFailed
  /\ \E p \in asset : OperateReturns(Granting(p.token))
  /\ UNCHANGED <<mainVars, active, stop, assetVars, doneVars, wireFailed,
                 answers>>

(* Faulty variant: the staged asset is dropped, the prior one not restored.*)
PrepareForgetsPrevious(r) ==
  /\ Working("staged", r)
  /\ asset' = {}
  /\ previous' = {}
  /\ OperateReturns(Failure)
  /\ UNCHANGED <<mainVars, active, stop, retained, nextToken, doneVars,
                 wireFailed, answers>>

(* PreparationRollback: the stop monitor failed, the wire failed, or the   *)
(* reply could not be built.                                               *)
PrepareRollsBack(r) ==
  /\ Working("staged", r)
  /\ asset' = previous
  /\ previous' = {}
  /\ OperateReturns(Failure)
  /\ UNCHANGED <<mainVars, active, stop, retained, nextToken, doneVars,
                 wireFailed, answers>>

(* An unknown token (ASSET_TOKEN_EXPIRED), or settings, clock, admission   *)
(* or paths that are refused.                                              *)
RunFails(r) ==
  /\ Working("start", r)
  /\ r.method = "run"
  /\ OperateReturns(Failure)
  /\ UNCHANGED <<mainVars, active, stop, assetVars, doneVars, wireFailed,
                 answers>>

RunSolves(r) ==
  /\ Working("start", r)
  /\ r.method = "run"
  /\ r.token \in HeldTokens
  /\ workerPc' = "solve"
  /\ UNCHANGED <<mainVars, active, stop, job, reply, watchFailed, assetVars,
                 doneVars, wireFailed, answers>>

(* cli::solve returned: a nonempty validated solution replaces the         *)
(* retained one even when a later step of the run fails.                   *)
RunEnds(r) ==
  /\ Working("solve", r)
  /\ \/ UNCHANGED retained
     \/ \E p \in Held : p.token = r.token /\ retained' = {p.solid}
  /\ \/ ~watchFailed /\ ~wireFailed /\ OperateReturns(Success)
     \/ OperateReturns(Failure)
  /\ UNCHANGED <<mainVars, active, stop, asset, previous, nextToken, doneVars,
                 wireFailed, answers>>

(* The worker leaves the session idle; its locals are dead.                *)
WorkerExits ==
  /\ active' = FALSE
  /\ stop' = FALSE
  /\ workerPc' = "exited"
  /\ reply' = Failure
  /\ watchFailed' = FALSE
  /\ UNCHANGED job

(* Under state_mutex: the completion is remembered, the session is idle    *)
(* again, and the answer is sent.                                          *)
Finish(r) ==
  /\ Working("finish", r)
  /\ ~mutex
  /\ Remember(r, reply)
  /\ WorkerExits
  /\ Send(last')
  /\ UNCHANGED <<mainVars, assetVars>>

(* An exception that leaves operate or the completion: a staged asset is   *)
(* rolled back, nothing is remembered and the wire fails.                  *)
WorkerThrows ==
  /\ workerPc \in {"start", "staged", "solve", "finish"}
  /\ workerPc' = "thrown"
  /\ reply' = Failure
  /\ wireFailed' = TRUE
  /\ asset' = IF workerPc = "staged" THEN previous ELSE asset
  /\ previous' = IF workerPc = "staged" THEN {} ELSE previous
  /\ UNCHANGED <<mainVars, active, stop, job, watchFailed, retained,
                 nextToken, doneVars, answers>>

WorkerCatches ==
  /\ workerPc = "thrown"
  /\ ~mutex
  /\ WorkerExits
  /\ UNCHANGED <<mainVars, assetVars, doneVars, wireFailed, answers>>

-----------------------------------------------------------------------------
(* The marker watcher, the watchdog and the wire.                          *)

Watched == workerPc \in {"start", "staged", "solve"} /\ ~stop

MarkerStops ==
  /\ Watched
  /\ stop' = TRUE
  /\ UNCHANGED <<mainVars, active, workerVars, assetVars, doneVars,
                 wireFailed, answers>>

MarkerBreaks ==
  /\ Watched
  /\ stop' = TRUE
  /\ watchFailed' = TRUE
  /\ UNCHANGED <<mainVars, active, workerPc, job, reply, assetVars, doneVars,
                 wireFailed, answers>>

WireBreaks ==
  /\ mainPc # "done"
  /\ wireFailed' = TRUE
  /\ UNCHANGED <<mainVars, active, stop, workerVars, assetVars, doneVars,
                 answers>>

WatchdogStops ==
  /\ wireFailed
  /\ active
  /\ ~mutex
  /\ stop' = TRUE
  /\ UNCHANGED <<mainVars, active, workerVars, assetVars, doneVars,
                 wireFailed, answers>>

-----------------------------------------------------------------------------
Init ==
  /\ mainPc = "read"
  /\ req = {}
  /\ mutex = FALSE
  /\ active = FALSE
  /\ stop = FALSE
  /\ workerPc = "none"
  /\ job = {}
  /\ reply = Failure
  /\ watchFailed = FALSE
  /\ asset = {}
  /\ previous = {}
  /\ retained = {}
  /\ nextToken = 1
  /\ identities = {}
  /\ last = {}
  /\ wireFailed = FALSE
  /\ answers = {}
  /\ completed = [i \in Ids |-> 0]

Dispatch(r) ==
  \/ ShutdownActive(r)
  \/ Busy(r)
  \/ UnlockToJoin(r)
  \/ Replay(r)
  \/ RefuseExpired(r)
  \/ ShutdownIdle(r)
  \/ Release(r)
  \/ Start(r)

Main ==
  \/ Lock
  \/ JoinStop
  \/ JoinIdle
  \/ RequestStop
  \/ JoinWorker
  \/ \E r \in Request : Dispatch(r)

(* What the worker does of itself, however long no stop is requested.      *)
Completes ==
  \/ \E r \in Request : PrepareCommits(r) \/ PrepareRollsBack(r) \/ Finish(r)
  \/ WorkerCatches

(* Loading, preparing and searching are only bounded by a stop.            *)
Interruptible ==
  \E r \in Request : PrepareFails(r) \/ RunFails(r) \/ RunEnds(r)

Next ==
  \/ \E r \in Request : ReadRequest(r) \/ DispatchThrows(r) \/ RunSolves(r)
  \/ ReadMalformed \/ ReadOverflow \/ ReadEof
  \/ Main
  \/ \E r \in Request, s \in Solids : PrepareStages(r, s)
  \/ Completes
  \/ Interruptible
  \/ WorkerThrows
  \/ MarkerStops \/ MarkerBreaks \/ WireBreaks \/ WatchdogStops
  \/ Terminated

Spec == Init /\ [][Next]_vars

(* Threads that can run do; nothing obliges the client to send a request,  *)
(* to close its end, or to create a stop marker, and an operation nobody   *)
(* stops may run for ever.                                                 *)
Fairness ==
  /\ WF_vars(ReadCancelled)
  /\ WF_vars(Main)
  /\ WF_vars(Completes)
  /\ WF_vars(stop /\ Interruptible)
  /\ WF_vars(WatchdogStops)

FairSpec == Spec /\ Fairness
-----------------------------------------------------------------------------
TypeOK ==
  /\ mainPc \in {"read", "lock", "dispatch", "joinIdle", "joinStop", "cleanup",
                 "joinWorker", "done"}
  /\ workerPc \in {"none", "start", "staged", "solve", "finish", "thrown",
                   "exited"}
  /\ mutex \in BOOLEAN /\ active \in BOOLEAN /\ stop \in BOOLEAN
  /\ watchFailed \in BOOLEAN /\ wireFailed \in BOOLEAN
  /\ req \subseteq Request
  /\ job \subseteq Request
  /\ reply \in Reply
  /\ asset \subseteq Prepared
  /\ previous \subseteq Prepared
  /\ retained \subseteq Solids
  /\ nextToken \in 1..MaxToken + 1
  /\ identities \subseteq Bits
  /\ last \subseteq Completion
  /\ answers \subseteq Completion
  /\ completed \in [Ids -> Nat]

(* A request identity completes at most once: whatever is repeated, in     *)
(* whatever interleaving with the worker, is replayed, refused or busy.    *)
NeverRerun == \A i \in Ids : completed[i] <= 1

(* All completions sent for one identity are the same answer to the same   *)
(* request: a replay never answers a request with another one's result.    *)
OneAnswer ==
  \A a, b \in answers : a.req.id = b.req.id => a = b

Granted == {a.reply.token : a \in answers} \ {0}

Released ==
  {a.req.token : a \in {c \in answers : c.req.method = "release" /\ c.reply.ok}}

(* While the wire holds, the client's view of its tokens is right: a token *)
(* it was granted and has not released is held, through staging, rollback  *)
(* and restoration; and an idle session holds no other.                    *)
GrantsHonoured ==
  ~wireFailed =>
    /\ Granted \ Released \subseteq HeldTokens
    /\ ~active => HeldTokens = Granted \ Released

(* The asset a run borrows by pointer is held until the run ends.          *)
RunKeepsAsset ==
  workerPc = "solve" => \A r \in job : r.token \in HeldTokens

(* The retained solution always shares the solid of a held asset, so that  *)
(* the session's residency charge counts that solid once and no solution   *)
(* outlives the assets it places.                                          *)
RetainedOwned == retained \subseteq {p.solid : p \in Held}

(* A session that ends on a working wire has answered the operation it was *)
(* running: shutdown and end of input join the worker first.               *)
EndsAnswered ==
  mainPc = "done" /\ ~wireFailed =>
    \A r \in job : \E a \in answers : a.req = r

(* End of input, shutdown and a failed wire all end the session, even in   *)
(* the middle of an operation that would otherwise run for ever.           *)
Ending == wireFailed \/ mainPc \in {"joinStop", "cleanup", "joinWorker"}

SessionEnds == Ending ~> mainPc = "done"
=============================================================================
