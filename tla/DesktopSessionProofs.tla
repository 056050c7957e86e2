------------------------ MODULE DesktopSessionProofs ------------------------
(***************************************************************************)
(* Safety of the native session (engine/cli/src/desktop_session.cpp): its  *)
(* requests and assets (module DesktopSession) for every set of            *)
(* identities, every hash and every number of tokens, and its wire (module *)
(* WireWriter) for every queue limit and every number of runs, packings,   *)
(* phases and refusals.  Fairness plays no part in either.                 *)
(*                                                                         *)
(* Each inductive invariant, IInv and WireInv, is the conjunction of named *)
(* parts; each part is what one property lacks to be inductive by itself.  *)
(***************************************************************************)
EXTENDS DesktopSession, WireWriter, SequenceTheorems, TLAPS

-----------------------------------------------------------------------------
(* Requests and assets.                                                    *)

Running == {"start", "staged", "solve", "finish", "thrown"}

(* A running worker belongs to the active operation, nothing runs once the *)
(* main thread is done, and a worker that threw has failed the wire.       *)
Control ==
  /\ workerPc \in Running => active
  /\ workerPc = "thrown" => wireFailed
  /\ mainPc = "done" => workerPc = "none"
  /\ \A r, q \in job : r = q
  /\ \A r \in job : r.method \in {"prepare", "run"}
  /\ workerPc = "staged" => \A r \in job : r.method = "prepare"

(* A completed identity is in the history, so it is never started again.   *)
History ==
  /\ \A i \in Ids : completed[i] \in {0, 1}
  /\ \A i \in Ids : completed[i] = 1 => Probes[i] \subseteq identities
  /\ workerPc \in Running => \A r \in job : completed[r.id] = 0

(* Answers and the last completion agree, identity by identity.            *)
Agreement ==
  /\ \A a \in answers : completed[a.req.id] = 1
  /\ \A c \in last : completed[c.req.id] = 1
  /\ \A c, d \in last : c = d
  /\ \A a \in answers, c \in last : a.req.id = c.req.id => a = c
  /\ OneAnswer
  /\ ~wireFailed => last \subseteq answers
  /\ ~wireFailed /\ workerPc \notin Running =>
       \A r \in job : \E a \in answers : a.req = r

SolidsOf(S) == {p.solid : p \in S}

TokensOf(S) == {p.token : p \in S}

(* The retained solid survives a rollback.                                 *)
Ownership ==
  /\ RetainedOwned
  /\ workerPc = "staged" => retained \subseteq SolidsOf(previous)
  /\ RunKeepsAsset

(* Tokens are fresh, and the two slots never share one.                    *)
Freshness ==
  /\ \A p, q \in asset : p = q
  /\ \A p, q \in previous : p = q
  /\ \A p \in asset, q \in previous : p.token # q.token
  /\ \A p \in Held : p.token < nextToken
  /\ \A t \in Granted \cup Released : t < nextToken
  /\ reply.token # 0 => workerPc = "finish"
  /\ reply.token # 0 => reply.ok /\ \E p \in asset : p.token = reply.token
  /\ reply.token # 0 => \A r \in job : r.method = "prepare"
  /\ workerPc = "staged" => asset # {} /\ reply.token = 0

(* The token a completed prepare is about to grant.                        *)
Pending == {reply.token} \ {0}

(* What the client was granted and has not released: the tokens held, but  *)
(* for one that is staged or whose grant is not yet sent.                  *)
Account ==
  ~wireFailed =>
    /\ workerPc = "staged" => Granted \ Released = TokensOf(previous)
    /\ workerPc # "staged" => HeldTokens = (Granted \ Released) \cup Pending
    /\ Pending \cap (Granted \cup Released) = {}

(* A staged token was never seen by the client.                            *)
Unissued ==
  workerPc = "staged" =>
    \A p \in asset : p.token \notin Granted \cup Released

IInv ==
  /\ TypeOK
  /\ Control
  /\ History
  /\ Agreement
  /\ Ownership
  /\ Freshness
  /\ Account
  /\ Unissued

-----------------------------------------------------------------------------
(* The actions of Next, one by one.                                        *)
Step ==
  \/ \E r \in Request :
       \/ ReadRequest(r) \/ ShutdownActive(r) \/ Busy(r) \/ UnlockToJoin(r)
       \/ Replay(r) \/ RefuseExpired(r) \/ ShutdownIdle(r) \/ Release(r)
       \/ Start(r) \/ DispatchThrows(r) \/ PrepareFails(r)
       \/ (\E s \in Solids : PrepareStages(r, s)) \/ PrepareCommits(r)
       \/ PrepareRollsBack(r) \/ RunFails(r) \/ RunSolves(r) \/ RunEnds(r)
       \/ Finish(r)
  \/ ReadMalformed \/ ReadOverflow \/ ReadEof \/ Lock \/ JoinStop \/ JoinIdle
  \/ RequestStop \/ JoinWorker \/ WorkerThrows \/ WorkerCatches
  \/ MarkerStops \/ MarkerBreaks \/ WireBreaks \/ WatchdogStops
  \/ UNCHANGED vars

(* The steps, one disjunct each.                                           *)
LEMMA NextStep == [Next]_vars => Step
  BY DEF Next, Main, Dispatch, Completes, Interruptible, Terminated, Step

(* Sending adds the given completions or fails the wire.                   *)
LEMMA SendEffect ==
  ASSUME NEW ACTION S, wireFailed \in BOOLEAN, Send(S)
  PROVE  /\ wireFailed' \in BOOLEAN
         /\ answers \subseteq answers'
         /\ answers' \subseteq answers \cup S
         /\ ~wireFailed' => ~wireFailed /\ answers' = answers \cup S
         /\ wireFailed => wireFailed' /\ answers' = answers
  BY DEF Send

(* A remembered completion is well typed and is counted once more.         *)
LEMMA RememberEffect ==
  ASSUME TypeOK, NEW STATE r, NEW STATE a, r \in Request, a \in Reply,
         Remember(r, a)
  PROVE  /\ last' \subseteq Completion
         /\ last' = {[req |-> r, reply |-> a]}
         /\ identities' \subseteq Bits
         /\ identities' = identities \cup Probes[r.id]
         /\ completed' \in [Ids -> Nat]
         /\ completed'[r.id] = completed[r.id] + 1
         /\ \A i \in Ids \ {r.id} : completed'[i] = completed[i]
  <1>1. r.id \in Ids
    BY DEF Request
  <1>2. Probes[r.id] \subseteq Bits
    BY <1>1, ProbesAssumption
  <1>3. [req |-> r, reply |-> a] \in Completion
    BY DEF Completion
  <1> QED
    BY <1>1, <1>2, <1>3 DEF Remember, TypeOK

(* Dropping a token keeps the types of the three slots.                    *)
LEMMA DropType ==
  ASSUME TypeOK, NEW STATE t, Drop(t)
  PROVE  /\ asset' \subseteq Prepared
         /\ previous' \subseteq Prepared
         /\ retained' \subseteq Solids
         /\ nextToken' = nextToken
  BY DEF Drop, TypeOK

(* Every variable keeps its type.                                          *)
LEMMA TypeStep == TypeOK /\ [Next]_vars => TypeOK'
  <1> SUFFICES ASSUME TypeOK, Step \/ UNCHANGED vars PROVE TypeOK'
    BY NextStep
  <1> USE MaxTokenAssumption DEF mainVars, workerVars, assetVars, doneVars
  <1>a. Failure \in Reply /\ Success \in Reply
    BY DEF Failure, Success, Reply
  <1>1. ASSUME NEW r \in Request, ReadRequest(r) PROVE TypeOK'
    BY <1>1 DEF ReadRequest, TypeOK
  <1>2. ASSUME NEW r \in Request, ShutdownActive(r) PROVE TypeOK'
    BY <1>2 DEF ShutdownActive, Dispatching, TypeOK
  <1>3. ASSUME NEW r \in Request, Busy(r) PROVE TypeOK'
    BY <1>3 DEF Busy, Dispatching, Send, NextLine, TypeOK
  <1>4. ASSUME NEW r \in Request, UnlockToJoin(r) PROVE TypeOK'
    BY <1>4 DEF UnlockToJoin, Dispatching, TypeOK
  <1>5. ASSUME NEW r \in Request, Replay(r) PROVE TypeOK'
    BY <1>5 DEF Replay, Deciding, Send, NextLine, TypeOK
  <1>6. ASSUME NEW r \in Request, RefuseExpired(r) PROVE TypeOK'
    BY <1>6 DEF RefuseExpired, Deciding, Send, NextLine, TypeOK
  <1>7. ASSUME NEW r \in Request, ShutdownIdle(r) PROVE TypeOK'
    BY <1>7 DEF ShutdownIdle, Fresh, Deciding, Send, LeaveLoop, TypeOK
  <1>8. ASSUME NEW r \in Request, Release(r) PROVE TypeOK'
    <2>1. PICK a \in Reply : Remember(r, a)
      BY <1>8, <1>a DEF Release
    <2>2. Drop(r.token)
      BY <1>8 DEF Release
    <2>3. last' \subseteq Completion /\ identities' \subseteq Bits
          /\ completed' \in [Ids -> Nat]
      BY <2>1, RememberEffect
    <2>4. asset' \subseteq Prepared /\ previous' \subseteq Prepared
          /\ retained' \subseteq Solids /\ nextToken' = nextToken
      BY <2>2, DropType
    <2>5. answers' \subseteq Completion /\ wireFailed' \in BOOLEAN
      BY <2>3, <1>8 DEF Release, Send, TypeOK
    <2> QED
      BY <2>3, <2>4, <2>5, <1>8
         DEF TypeOK, Release, Releasing, Fresh, Deciding, NextLine
  <1>9. ASSUME NEW r \in Request, Start(r) PROVE TypeOK'
    BY <1>9, <1>a DEF Start, Starting, Fresh, Deciding, NextLine, TypeOK
  <1>10. ASSUME NEW r \in Request, DispatchThrows(r) PROVE TypeOK'
    <2>1. CASE UNCHANGED <<active, assetVars>>
      BY <2>1, <1>10 DEF DispatchThrows, LeaveLoop, TypeOK
    <2>2. CASE Releasing(r) /\ Drop(r.token) /\ UNCHANGED active
      BY <2>2, <1>10, DropType DEF DispatchThrows, LeaveLoop, TypeOK
    <2>3. CASE Starting(r) /\ active' = TRUE /\ UNCHANGED assetVars
      BY <2>3, <1>10 DEF DispatchThrows, LeaveLoop, TypeOK
    <2> QED
      BY <2>1, <2>2, <2>3, <1>10 DEF DispatchThrows
  <1>11. ASSUME NEW r \in Request, PrepareFails(r) PROVE TypeOK'
    BY <1>11, <1>a DEF PrepareFails, Working, OperateReturns, TypeOK
  <1>12. ASSUME NEW r \in Request, NEW s \in Solids, PrepareStages(r, s)
        PROVE  TypeOK'
    <2>1. [token |-> nextToken, solid |-> s] \in Prepared
      BY <1>12 DEF PrepareStages, Prepared
    <2>2. nextToken + 1 \in 1..MaxToken + 1
      BY <1>12 DEF PrepareStages, Tokens
    <2> QED
      BY <2>1, <2>2, <1>12 DEF PrepareStages, Working, TypeOK
  <1>13. ASSUME NEW r \in Request, PrepareCommits(r) PROVE TypeOK'
    <2>1. PICK p \in asset : OperateReturns(Granting(p.token))
      BY <1>13 DEF PrepareCommits
    <2>2. Granting(p.token) \in Reply
      BY <2>1 DEF Granting, Reply, TypeOK, Prepared
    <2> QED
      BY <2>1, <2>2, <1>13 DEF PrepareCommits, Working, OperateReturns, TypeOK
  <1>14. ASSUME NEW r \in Request, PrepareRollsBack(r) PROVE TypeOK'
    BY <1>14, <1>a DEF PrepareRollsBack, Working, OperateReturns, TypeOK
  <1>15. ASSUME NEW r \in Request, RunFails(r) PROVE TypeOK'
    BY <1>15, <1>a DEF RunFails, Working, OperateReturns, TypeOK
  <1>16. ASSUME NEW r \in Request, RunSolves(r) PROVE TypeOK'
    BY <1>16 DEF RunSolves, Working, TypeOK
  <1>17. ASSUME NEW r \in Request, RunEnds(r) PROVE TypeOK'
    <2>1. retained' \subseteq Solids
      BY <1>17 DEF RunEnds, TypeOK, Held, Prepared
    <2> QED
      BY <2>1, <1>17, <1>a DEF RunEnds, Working, OperateReturns, TypeOK
  <1>18. ASSUME NEW r \in Request, Finish(r) PROVE TypeOK'
    <2>1. Remember(r, reply) /\ Send(last') /\ reply \in Reply
      BY <1>18 DEF Finish, TypeOK
    <2>2. last' \subseteq Completion /\ identities' \subseteq Bits
          /\ completed' \in [Ids -> Nat]
      BY <2>1, RememberEffect
    <2>3. answers' \subseteq Completion /\ wireFailed' \in BOOLEAN
      BY <2>1, <2>2 DEF Send, TypeOK
    <2> QED
      BY <2>2, <2>3, <1>18, <1>a DEF TypeOK, Finish, Working, WorkerExits
  <1>19. CASE ReadMalformed
    BY <1>19 DEF ReadMalformed, Send, TypeOK
  <1>20. CASE ReadOverflow
    BY <1>20 DEF ReadOverflow, LeaveLoop, TypeOK
  <1>21. CASE ReadEof
    BY <1>21 DEF ReadEof, LeaveLoop, TypeOK
  <1>22. CASE Lock
    BY <1>22 DEF Lock, TypeOK
  <1>23. CASE JoinStop
    BY <1>23 DEF JoinStop, Send, LeaveLoop, TypeOK
  <1>24. CASE JoinIdle
    BY <1>24 DEF JoinIdle, TypeOK
  <1>25. CASE RequestStop
    BY <1>25 DEF RequestStop, TypeOK
  <1>26. CASE JoinWorker
    BY <1>26 DEF JoinWorker, TypeOK
  <1>27. CASE WorkerThrows
    BY <1>27, <1>a DEF WorkerThrows, TypeOK
  <1>28. CASE WorkerCatches
    BY <1>28, <1>a DEF WorkerCatches, WorkerExits, TypeOK
  <1>29. CASE MarkerStops
    BY <1>29 DEF MarkerStops, Watched, TypeOK
  <1>30. CASE MarkerBreaks
    BY <1>30 DEF MarkerBreaks, Watched, TypeOK
  <1>31. CASE WireBreaks
    BY <1>31 DEF WireBreaks, TypeOK
  <1>32. CASE WatchdogStops
    BY <1>32 DEF WatchdogStops, TypeOK
  <1>33. CASE UNCHANGED vars
    BY <1>33 DEF vars, TypeOK
  <1> QED
    BY <1>1, <1>2, <1>3, <1>4, <1>5, <1>6, <1>7, <1>8, <1>9, <1>10, <1>11,
       <1>12, <1>13, <1>14, <1>15, <1>16, <1>17, <1>18, <1>19, <1>20, <1>21,
       <1>22, <1>23, <1>24, <1>25, <1>26, <1>27, <1>28, <1>29, <1>30, <1>31,
       <1>32, <1>33 DEF Step

-----------------------------------------------------------------------------
(* Most steps concern only the threads' control.  Calm is what they have   *)
(* in common, and Event the steps that do more.                            *)
Calm ==
  /\ UNCHANGED <<doneVars, assetVars, job, reply, active, answers>>
  /\ wireFailed => wireFailed'
  /\ \/ workerPc' = workerPc /\ (mainPc' = "done" => mainPc = "done")
     \/ workerPc \notin Running /\ workerPc' = "none"

EventOf(r) ==
  \/ Release(r) \/ Start(r) \/ DispatchThrows(r) \/ PrepareFails(r)
  \/ (\E s \in Solids : PrepareStages(r, s)) \/ PrepareCommits(r)
  \/ PrepareRollsBack(r) \/ RunFails(r) \/ RunSolves(r) \/ RunEnds(r)
  \/ Finish(r)

Event ==
  \/ \E r \in Request : EventOf(r)
  \/ WorkerThrows
  \/ WorkerCatches

(* A replay is calm: what it sends was sent before.                        *)
LEMMA ReplayCalm ==
  ASSUME TypeOK, Agreement, NEW r \in Request, Replay(r)
  PROVE  Calm
  <1>1. answers' = answers /\ (wireFailed => wireFailed')
    BY DEF Replay, Send, Agreement, TypeOK
  <1> QED
    BY <1>1 DEF Calm, Replay, NextLine, workerVars, assetVars, doneVars

(* A step is calm, or one of the events.                                   *)
LEMMA StepCases ==
  ASSUME TypeOK, Agreement, Step
  PROVE  Calm \/ Event
  <1> USE DEF Calm, mainVars, workerVars, assetVars, doneVars, Running
  <1>1. ASSUME NEW r \in Request,
               \/ ReadRequest(r) \/ ShutdownActive(r) \/ UnlockToJoin(r)
        PROVE  Calm
    BY <1>1 DEF ReadRequest, ShutdownActive, UnlockToJoin
  <1>2. ASSUME NEW r \in Request,
               \/ Busy(r) \/ RefuseExpired(r) \/ ShutdownIdle(r)
        PROVE  Calm
    BY <1>2 DEF Busy, RefuseExpired, ShutdownIdle, Send, NextLine, LeaveLoop
  <1>3. CASE ReadMalformed \/ ReadOverflow \/ ReadEof \/ Lock
    BY <1>3 DEF ReadMalformed, ReadOverflow, ReadEof, Lock, Send, LeaveLoop
  <1>4. CASE JoinStop \/ JoinIdle \/ RequestStop \/ JoinWorker
    BY <1>4 DEF JoinStop, JoinIdle, RequestStop, JoinWorker, Send, LeaveLoop
  <1>5. CASE MarkerStops \/ MarkerBreaks \/ WireBreaks \/ WatchdogStops
    BY <1>5 DEF MarkerStops, MarkerBreaks, WireBreaks, WatchdogStops
  <1>6. CASE UNCHANGED vars
    BY <1>6 DEF vars
  <1> QED
    BY <1>1, <1>2, <1>3, <1>4, <1>5, <1>6, ReplayCalm DEF Step, Event, EventOf

(* Control is kept by every step.                                          *)
LEMMA ControlStep ==
  ASSUME TypeOK, Control, Agreement, Step
  PROVE  Control'
  <1> USE DEF Control, Running
  <1>1. CASE Calm
    BY <1>1 DEF Calm
  <1>2. ASSUME NEW r \in Request, Release(r) PROVE Control'
    BY <1>2 DEF Release, Releasing, Fresh, Deciding, NextLine, workerVars
  <1>3. ASSUME NEW r \in Request, Start(r) PROVE Control'
    BY <1>3 DEF Start, Starting, NextLine
  <1>4. ASSUME NEW r \in Request, DispatchThrows(r) PROVE Control'
    BY <1>4 DEF DispatchThrows, LeaveLoop, workerVars
  <1>5. ASSUME NEW r \in Request,
               PrepareFails(r) \/ RunFails(r) \/ RunSolves(r) \/ RunEnds(r)
        PROVE  Control'
    BY <1>5 DEF PrepareFails, RunFails, RunSolves, RunEnds, Working,
                OperateReturns, mainVars
  <1>6. ASSUME NEW r \in Request, \E s \in Solids : PrepareStages(r, s)
        PROVE  Control'
    BY <1>6 DEF PrepareStages, Working, mainVars
  <1>7. ASSUME NEW r \in Request, PrepareCommits(r) \/ PrepareRollsBack(r)
        PROVE  Control'
    BY <1>7 DEF PrepareCommits, PrepareRollsBack, Working, OperateReturns,
                mainVars
  <1>8. ASSUME NEW r \in Request, Finish(r) PROVE Control'
    BY <1>8 DEF Finish, Working, WorkerExits, mainVars
  <1>9. CASE WorkerThrows
    BY <1>9 DEF WorkerThrows, mainVars
  <1>10. CASE WorkerCatches
    BY <1>10 DEF WorkerCatches, WorkerExits, mainVars
  <1> QED
    BY <1>1, <1>2, <1>3, <1>4, <1>5, <1>6, <1>7, <1>8, <1>9, <1>10, StepCases
       DEF Event, EventOf

-----------------------------------------------------------------------------
(* The completion of an identity that has not completed keeps the history  *)
(* and the answers in agreement.                                           *)
LEMMA CompletionKeeps ==
  ASSUME TypeOK, History, Agreement, NEW STATE r, NEW STATE a,
         r \in Request, a \in Reply, completed[r.id] = 0,
         Remember(r, a), Send(last'), workerPc' \notin Running,
         \A q \in job' : workerPc \in Running => q = r,
         workerPc \notin Running => job' = job
  PROVE  History' /\ Agreement'
  <1> DEFINE c == [req |-> r, reply |-> a]
  <1>1. r.id \in Ids
    BY DEF Request
  <1>2. /\ last' = {c}
        /\ identities' = identities \cup Probes[r.id]
        /\ completed'[r.id] = 1
        /\ \A i \in Ids \ {r.id} : completed'[i] = completed[i]
    BY RememberEffect
  <1>3. /\ answers' \subseteq answers \cup {c}
        /\ ~wireFailed' => ~wireFailed /\ answers' = answers \cup {c}
        /\ answers \subseteq answers'
    BY <1>2, SendEffect DEF TypeOK
  <1>4. \A b \in answers : b.req.id \in Ids /\ b.req.id # r.id
    BY DEF Agreement, TypeOK, Completion, Request
  <1>5. c.req = r
    OBVIOUS
  <1>6. History'
    BY <1>1, <1>2 DEF History
  <1>7. OneAnswer'
    BY <1>3, <1>4, <1>5 DEF OneAnswer, Agreement
  <1>8. \A b \in answers' : completed'[b.req.id] = 1
    BY <1>2, <1>3, <1>4, <1>5 DEF Agreement
  <1>9. \A b \in answers' : b.req.id = c.req.id => b = c
    BY <1>3, <1>4, <1>5
  <1>10. ~wireFailed' => \A q \in job' : \E b \in answers' : b.req = q
    BY <1>3, <1>5 DEF Agreement
  <1> QED
    BY <1>2, <1>3, <1>5, <1>6, <1>7, <1>8, <1>9, <1>10 DEF Agreement

(* A step that completes nothing keeps both, if the jobs it leaves behind  *)
(* were answered.                                                          *)
LEMMA NothingCompletes ==
  ASSUME History, Agreement,
         UNCHANGED <<identities, last, completed, answers, job>>,
         wireFailed => wireFailed',
         workerPc' \in Running => workerPc \in Running,
         workerPc \in Running /\ workerPc' \notin Running => wireFailed'
  PROVE  History' /\ Agreement'
  BY DEF History, Agreement, OneAnswer

(* A request that is fresh has not completed.                              *)
LEMMA FreshNew ==
  ASSUME History, NEW r \in Request, Fresh(r)
  PROVE  completed[r.id] = 0
  BY DEF History, Fresh, Expired, Request

(* Every step keeps the history and the agreement of answers.              *)
LEMMA CompletionStep ==
  ASSUME TypeOK, Control, History, Agreement, Step
  PROVE  History' /\ Agreement'
  <1> USE DEF mainVars, workerVars, assetVars, doneVars
  <1>1. CASE Calm
    BY <1>1, NothingCompletes DEF Calm, Running
  <1>2. ASSUME NEW r \in Request, Release(r) PROVE History' /\ Agreement'
    <2>1. PICK a \in Reply : Remember(r, a)
      BY <1>2 DEF Release, Success, Failure, Reply
    <2>2. completed[r.id] = 0
      BY <1>2, FreshNew DEF Release, Releasing
    <2>3. workerPc = "none" /\ workerPc' = workerPc /\ job' = job
      BY <1>2 DEF Release, Releasing, Fresh, Deciding
    <2>4. workerPc \notin Running
      BY <2>3 DEF Running
    <2>5. Send(last')
      BY <1>2 DEF Release
    <2> QED
      BY <2>1, <2>2, <2>3, <2>4, <2>5, CompletionKeeps
  <1>3. ASSUME NEW r \in Request, Start(r) PROVE History' /\ Agreement'
    <2>1. completed[r.id] = 0
      BY <1>3, FreshNew DEF Start, Starting
    <2> QED
      BY <2>1, <1>3 DEF Start, History, Agreement, OneAnswer, Running
  <1>4. ASSUME NEW r \in Request, DispatchThrows(r) PROVE History' /\ Agreement'
    BY <1>4, NothingCompletes DEF DispatchThrows
  <1>5. ASSUME NEW r \in Request,
               PrepareFails(r) \/ RunFails(r) \/ RunSolves(r) \/ RunEnds(r)
        PROVE  History' /\ Agreement'
    <2>1. UNCHANGED <<identities, last, completed, answers, job, wireFailed>>
      BY <1>5 DEF PrepareFails, RunFails, RunSolves, RunEnds, OperateReturns
    <2>2. workerPc \in Running /\ workerPc' \in Running
      BY <1>5 DEF PrepareFails, RunFails, RunSolves, RunEnds, OperateReturns,
                  Working, Running
    <2> QED
      BY <2>1, <2>2, NothingCompletes
  <1>6. ASSUME NEW r \in Request, \E s \in Solids : PrepareStages(r, s)
        PROVE  History' /\ Agreement'
    BY <1>6, NothingCompletes DEF PrepareStages, Working, Running
  <1>7. ASSUME NEW r \in Request, PrepareCommits(r) \/ PrepareRollsBack(r)
        PROVE  History' /\ Agreement'
    BY <1>7, NothingCompletes DEF PrepareCommits, PrepareRollsBack, Working,
                                  OperateReturns, Running
  <1>8. ASSUME NEW r \in Request, Finish(r) PROVE History' /\ Agreement'
    <2>1. workerPc \in Running /\ workerPc' \notin Running
      BY <1>8 DEF Finish, Working, WorkerExits, Running
    <2>2. r \in job /\ job' = job /\ Remember(r, reply) /\ Send(last')
      BY <1>8 DEF Finish, Working, WorkerExits
    <2>3. completed[r.id] = 0
      BY <2>1, <2>2 DEF History
    <2>4. \A q \in job' : q = r
      BY <2>2 DEF Control
    <2>5. reply \in Reply
      BY DEF TypeOK
    <2> QED
      BY <2>1, <2>2, <2>3, <2>4, <2>5, CompletionKeeps
  <1>9. CASE WorkerThrows
    BY <1>9, NothingCompletes DEF WorkerThrows, Running
  <1>10. CASE WorkerCatches
    <2>1. wireFailed /\ workerPc' \notin Running
      BY <1>10 DEF WorkerCatches, WorkerExits, Control, Running
    <2> QED
      BY <2>1, <1>10, NothingCompletes DEF WorkerCatches, WorkerExits
  <1> QED
    BY <1>1, <1>2, <1>3, <1>4, <1>5, <1>6, <1>7, <1>8, <1>9, <1>10, StepCases
       DEF Event, EventOf

-----------------------------------------------------------------------------
(* The two slots: at most one asset each, and never the same token.        *)
Slots ==
  /\ \A p, q \in asset : p = q
  /\ \A p, q \in previous : p = q
  /\ \A p \in asset, q \in previous : p.token # q.token

(* Fresh tokens keep the slots apart.                                      *)
LEMMA FreshnessSlots == Freshness => Slots
  BY DEF Freshness, Slots

(* Dropping a token removes exactly that token, keeps the slots apart, and *)
(* leaves the retained solid with an asset that denotes it.                *)
LEMMA DropEffect ==
  ASSUME Slots, RetainedOwned, NEW STATE t, Drop(t)
  PROVE  /\ Slots'
         /\ Held' \subseteq Held
         /\ HeldTokens' = HeldTokens \ {t}
         /\ RetainedOwned'
  <1>1. CASE \E p \in asset : p.token = t
    <2>1. PICK p \in asset : p.token = t
      BY <1>1
    <2>2. asset' = {q \in previous : q.token # t} /\ previous' = {}
      BY <1>1 DEF Drop
    <2>3. asset' = previous
      BY <2>1, <2>2 DEF Slots
    <2>4. Held' = previous /\ Held = {p} \cup previous
      BY <2>1, <2>2, <2>3 DEF Held, Slots
    <2>5. HeldTokens' = HeldTokens \ {t}
      BY <2>1, <2>4 DEF HeldTokens, Slots
    <2>6. t \in HeldTokens
      BY <2>1 DEF HeldTokens, Held
    <2>7. RetainedOwned'
      BY <2>6 DEF Drop, RetainedOwned, Held
    <2> QED
      BY <2>2, <2>3, <2>4, <2>5, <2>7 DEF Slots
  <1>2. CASE ~\E p \in asset : p.token = t
    <2>1. asset' = asset /\ previous' = {q \in previous : q.token # t}
      BY <1>2 DEF Drop
    <2>2. Held' = {q \in Held : q.token # t}
      BY <1>2, <2>1 DEF Held
    <2>3. HeldTokens' = HeldTokens \ {t}
      BY <2>2 DEF HeldTokens
    <2>4. t \notin HeldTokens => Held' = Held
      BY <2>2 DEF HeldTokens
    <2>5. RetainedOwned'
      <3>1. CASE t \in HeldTokens
        BY <3>1 DEF Drop, RetainedOwned, Held
      <3>2. CASE t \notin HeldTokens
        BY <3>2, <2>4 DEF Drop, RetainedOwned
      <3> QED
        BY <3>1, <3>2
    <2> QED
      BY <2>1, <2>2, <2>3, <2>5 DEF Slots
  <1> QED
    BY <1>1, <1>2

(* Every step keeps who owns the retained solid.                           *)
LEMMA OwnershipStep ==
  ASSUME TypeOK, Control, Agreement, Ownership, Freshness, Step
  PROVE  Ownership'
  <1> USE DEF Ownership, mainVars, workerVars, assetVars, doneVars
  <1>1. CASE Calm
    BY <1>1 DEF Calm, Running, RetainedOwned, RunKeepsAsset, HeldTokens, Held,
                SolidsOf
  <1>2. ASSUME NEW r \in Request, Releasing(r), Drop(r.token), UNCHANGED workerPc
        PROVE  Ownership'
    <2>1. RetainedOwned'
      BY <1>2, FreshnessSlots, DropEffect
    <2>2. workerPc' = "none"
      BY <1>2 DEF Releasing, Fresh, Deciding
    <2> QED
      BY <2>1, <2>2 DEF RunKeepsAsset
  <1>3. ASSUME NEW r \in Request, Start(r) PROVE Ownership'
    BY <1>3 DEF Start, RetainedOwned, RunKeepsAsset, Held
  <1>4. ASSUME NEW r \in Request, DispatchThrows(r) PROVE Ownership'
    <2>1. CASE UNCHANGED assetVars
      BY <2>1, <1>4 DEF DispatchThrows, RetainedOwned, RunKeepsAsset, Held,
                        HeldTokens, SolidsOf
    <2> QED
      BY <2>1, <1>2, <1>4 DEF DispatchThrows
  <1>5. ASSUME NEW r \in Request, PrepareFails(r) \/ RunFails(r)
        PROVE  Ownership'
    BY <1>5 DEF PrepareFails, RunFails, OperateReturns, RetainedOwned,
                RunKeepsAsset, Held
  <1>6. ASSUME NEW r \in Request, RunSolves(r) PROVE Ownership'
    <2>1. \A q \in job' : q = r
      BY <1>6 DEF RunSolves, Working, Control
    <2>2. r.token \in HeldTokens'
      BY <1>6 DEF RunSolves, HeldTokens, Held
    <2> QED
      BY <2>1, <2>2, <1>6 DEF RunSolves, RetainedOwned, RunKeepsAsset, Held
  <1>7. ASSUME NEW r \in Request, RunEnds(r) PROVE Ownership'
    <2>1. Held' = Held /\ workerPc' = "finish"
      BY <1>7 DEF RunEnds, OperateReturns, Held
    <2>2. retained' \subseteq {p.solid : p \in Held}
      BY <1>7 DEF RunEnds, RetainedOwned
    <2> QED
      BY <2>1, <2>2 DEF RetainedOwned, RunKeepsAsset
  <1>8. ASSUME NEW r \in Request, NEW s \in Solids, PrepareStages(r, s)
        PROVE  Ownership'
    <2>1. previous = {} /\ previous' = asset /\ retained' = retained
          /\ workerPc' = "staged"
      BY <1>8 DEF PrepareStages
    <2>2. retained' \subseteq SolidsOf(previous')
      BY <2>1 DEF RetainedOwned, Held, SolidsOf
    <2> QED
      BY <2>1, <2>2 DEF RetainedOwned, RunKeepsAsset, Held, SolidsOf
  <1>9. ASSUME NEW r \in Request, PrepareCommits(r) PROVE Ownership'
    BY <1>9 DEF PrepareCommits, OperateReturns, RetainedOwned, RunKeepsAsset,
                Held
  <1>10. ASSUME NEW r \in Request, PrepareRollsBack(r) PROVE Ownership'
    <2>1. retained' \subseteq SolidsOf(asset') /\ workerPc' = "finish"
      BY <1>10 DEF PrepareRollsBack, Working, OperateReturns
    <2> QED
      BY <2>1 DEF RetainedOwned, RunKeepsAsset, Held, SolidsOf
  <1>11. ASSUME NEW r \in Request, Finish(r) PROVE Ownership'
    BY <1>11 DEF Finish, WorkerExits, RetainedOwned, RunKeepsAsset, Held
  <1>12. CASE WorkerThrows
    <2>1. CASE workerPc = "staged"
      BY <2>1, <1>12 DEF WorkerThrows, RetainedOwned, RunKeepsAsset, Held,
                         SolidsOf
    <2>2. CASE workerPc # "staged"
      BY <2>2, <1>12 DEF WorkerThrows, RetainedOwned, RunKeepsAsset, Held
    <2> QED
      BY <2>1, <2>2
  <1>13. CASE WorkerCatches
    BY <1>13 DEF WorkerCatches, WorkerExits, RetainedOwned, RunKeepsAsset, Held
  <1>14. ASSUME NEW r \in Request, Release(r) PROVE Ownership'
    BY <1>14, <1>2 DEF Release
  <1> QED
    BY <1>1, <1>3, <1>4, <1>5, <1>6, <1>7, <1>8, <1>9, <1>10, <1>11, <1>12,
       <1>13, <1>14, StepCases DEF Event, EventOf

-----------------------------------------------------------------------------
(* What a completion adds to the tokens granted and released.              *)
Grants(a) == {a.token} \ {0}

Releases(r, a) == IF r.method = "release" /\ a.ok THEN {r.token} ELSE {}

(* What an answer changes.                                                 *)
LEMMA AnswerEffect ==
  ASSUME NEW STATE r, NEW STATE a, wireFailed \in BOOLEAN,
         last' = {[req |-> r, reply |-> a]}, Send(last')
  PROVE  /\ Granted' \subseteq Granted \cup Grants(a)
         /\ Released' \subseteq Released \cup Releases(r, a)
         /\ ~wireFailed' => /\ ~wireFailed
                            /\ Granted' = Granted \cup Grants(a)
                            /\ Released' = Released \cup Releases(r, a)
  <1> DEFINE c == [req |-> r, reply |-> a]
  <1>1. /\ answers' \subseteq answers \cup {c}
        /\ ~wireFailed' => ~wireFailed /\ answers' = answers \cup {c}
    BY SendEffect
  <1>2. c.req = r /\ c.reply = a
    OBVIOUS
  <1> QED
    BY <1>1, <1>2 DEF Granted, Released, Grants, Releases

(* The tokens seen by the client do not change with its answers unchanged. *)
LEMMA SameAnswers ==
  answers' = answers => Granted' = Granted /\ Released' = Released
  BY DEF Granted, Released

(* A step that draws no token, sends nothing and readies no grant.         *)
LEMMA FreshnessKept ==
  ASSUME Freshness, Slots', Held' \subseteq Held, nextToken' = nextToken,
         answers' = answers, reply'.token = 0, workerPc' # "staged"
  PROVE  Freshness'
  BY SameAnswers DEF Freshness, Slots

(* Every step keeps tokens fresh.                                          *)
LEMMA FreshnessStep ==
  ASSUME TypeOK, Control, Agreement, Ownership, Freshness, Step
  PROVE  Freshness'
  <1> USE DEF mainVars, workerVars, assetVars, doneVars
  <1>a. Slots /\ Failure.token = 0 /\ Success.token = 0
    BY FreshnessSlots DEF Failure, Success
  <1>1. CASE Calm
    BY <1>1, SameAnswers DEF Calm, Freshness, Held, Running
  <1>2. ASSUME NEW r \in Request, Release(r) PROVE Freshness'
    <2>1. /\ Drop(r.token) /\ Send(last') /\ RetainedOwned
          /\ wireFailed \in BOOLEAN
      BY <1>2 DEF Release, Ownership, TypeOK
    <2>2. Slots' /\ Held' \subseteq Held /\ nextToken' = nextToken
      BY <2>1, <1>a, DropEffect DEF Drop
    <2>3. PICK a \in {Success, Failure} :
            /\ Remember(r, a)
            /\ a.ok => r.token \in HeldTokens
      BY <1>2 DEF Release, Failure
    <2>4. last' = {[req |-> r, reply |-> a]}
      BY <2>3 DEF Remember
    <2>5. Granted' \subseteq Granted /\ Released' \subseteq Released \cup HeldTokens
      BY <2>1, <2>3, <2>4, <1>a, AnswerEffect DEF Grants, Releases
    <2>6. \A t \in HeldTokens : t < nextToken
      BY DEF Freshness, HeldTokens
    <2>7. workerPc = "none" /\ UNCHANGED <<workerPc, reply, job>>
      BY <1>2 DEF Release, Releasing, Fresh, Deciding
    <2> QED
      BY <2>2, <2>5, <2>6, <2>7 DEF Freshness, Slots
  <1>3. ASSUME NEW r \in Request, Start(r) PROVE Freshness'
    <2>1. /\ UNCHANGED <<asset, previous, nextToken, answers>>
          /\ reply' = Failure /\ workerPc' = "start"
      BY <1>3 DEF Start
    <2>2. Slots' /\ Held' = Held
      BY <2>1, <1>a DEF Slots, Held
    <2> QED
      BY <2>1, <2>2, <1>a, FreshnessKept
  <1>4. ASSUME NEW r \in Request, DispatchThrows(r) PROVE Freshness'
    <2>1. UNCHANGED <<workerPc, reply, job, answers>>
      BY <1>4 DEF DispatchThrows
    <2>2. CASE UNCHANGED assetVars
      BY <2>1, <2>2, SameAnswers DEF Freshness, Held
    <2>3. CASE Releasing(r) /\ Drop(r.token)
      <3>1. Slots' /\ Held' \subseteq Held /\ nextToken' = nextToken
        BY <2>3, <1>a, DropEffect DEF Drop, Ownership
      <3>2. workerPc = "none"
        BY <2>3 DEF Releasing, Fresh, Deciding
      <3> QED
        BY <2>1, <3>1, <3>2, SameAnswers DEF Freshness, Slots
    <2> QED
      BY <2>2, <2>3, <1>4 DEF DispatchThrows
  <1>5. ASSUME NEW r \in Request,
               PrepareFails(r) \/ RunFails(r) \/ RunSolves(r) \/ RunEnds(r)
        PROVE  Freshness'
    <2>1. UNCHANGED <<asset, previous, nextToken, answers>>
      BY <1>5 DEF PrepareFails, RunFails, RunSolves, RunEnds
    <2>2. workerPc' \in {"solve", "finish"}
      BY <1>5 DEF PrepareFails, RunFails, RunSolves, RunEnds, OperateReturns
    <2>3. reply'.token = 0
      BY <1>5, <1>a DEF PrepareFails, RunFails, RunSolves, RunEnds,
                        OperateReturns, Working, Freshness
    <2>4. Slots' /\ Held' = Held
      BY <2>1, <1>a DEF Slots, Held
    <2> QED
      BY <2>1, <2>2, <2>3, <2>4, FreshnessKept
  <1>6. ASSUME NEW r \in Request, NEW s \in Solids, PrepareStages(r, s)
        PROVE  Freshness'
    <2>1. /\ previous = {} /\ previous' = asset
          /\ asset' = {[token |-> nextToken, solid |-> s]}
          /\ nextToken' = nextToken + 1 /\ nextToken \in Nat
          /\ UNCHANGED <<reply, job, answers>>
          /\ workerPc = "start" /\ workerPc' = "staged"
      BY <1>6, MaxTokenAssumption DEF PrepareStages, Working, TypeOK
    <2>2. \A p \in asset' : p.token = nextToken
      BY <2>1
    <2>3. \A p \in Held' : p.token < nextToken'
      <3>1. \A p \in asset : p.token \in Nat /\ p.token < nextToken
        BY MaxTokenAssumption DEF Freshness, Held, TypeOK, Prepared, Tokens
      <3> QED
        BY <2>1, <2>2, <3>1 DEF Held
    <2>4. \A t \in (Granted \cup Released)' : t < nextToken'
      <3>1. \A t \in Granted \cup Released : t \in Nat
        BY MaxTokenAssumption
           DEF Granted, Released, TypeOK, Completion, Reply, Request, Tokens
      <3> QED
        BY <2>1, <3>1, SameAnswers DEF Freshness
    <2>5. reply'.token = 0
      BY <2>1 DEF Freshness
    <2>6. \A p \in asset', q \in previous' : p.token # q.token
      BY <2>1, <2>2 DEF Freshness, Held
    <2>7. asset' # {} /\ \A p, q \in asset' : p = q
      BY <2>1
    <2>8. \A p, q \in previous' : p = q
      BY <2>1 DEF Freshness
    <2> QED
      BY <2>1, <2>3, <2>4, <2>5, <2>6, <2>7, <2>8 DEF Freshness
  <1>7. ASSUME NEW r \in Request, PrepareCommits(r) PROVE Freshness'
    <2>1. PICK p \in asset : OperateReturns(Granting(p.token))
      BY <1>7 DEF PrepareCommits
    <2>2. workerPc' = "finish" /\ reply'.ok /\ reply'.token = p.token
      BY <2>1 DEF OperateReturns, Granting
    <2>3. r \in job /\ job' = job
          /\ UNCHANGED <<asset, previous, nextToken, answers>>
          /\ workerPc = "staged"
      BY <1>7, <2>1 DEF PrepareCommits, Working, OperateReturns
    <2>4. \A q \in job' : q.method = "prepare"
      BY <2>3 DEF Control
    <2> QED
      BY <2>1, <2>2, <2>3, <2>4, SameAnswers DEF Freshness, Held
  <1>8. ASSUME NEW r \in Request, PrepareRollsBack(r) PROVE Freshness'
    <2>1. /\ asset' = previous /\ previous' = {} /\ nextToken' = nextToken
          /\ reply' = Failure /\ workerPc' = "finish" /\ answers' = answers
      BY <1>8 DEF PrepareRollsBack, OperateReturns
    <2>2. Slots' /\ Held' \subseteq Held
      BY <2>1, <1>a DEF Slots, Held
    <2> QED
      BY <2>1, <2>2, <1>a, FreshnessKept
  <1>9. ASSUME NEW r \in Request, Finish(r) PROVE Freshness'
    <2>1. /\ r \in job /\ Send(last') /\ wireFailed \in BOOLEAN
          /\ last' = {[req |-> r, reply |-> reply]}
          /\ UNCHANGED <<asset, previous, nextToken>>
          /\ reply' = Failure /\ workerPc' = "exited"
      BY <1>9 DEF Finish, Working, Remember, WorkerExits, TypeOK
    <2>2. Released' \subseteq Released /\ Granted' \subseteq Granted \cup Grants(reply)
      BY <2>1, AnswerEffect DEF Releases, Control
    <2>3. \A t \in Grants(reply) : t < nextToken
      BY DEF Grants, Freshness, Held
    <2> QED
      BY <2>1, <2>2, <2>3, <1>a DEF Freshness, Held
  <1>10. CASE WorkerThrows
    <2>1. /\ Held' \subseteq Held /\ nextToken' = nextToken
          /\ reply' = Failure /\ workerPc' = "thrown" /\ answers' = answers
      BY <1>10 DEF WorkerThrows, Held
    <2>2. Slots'
      BY <1>10, <1>a DEF WorkerThrows, Slots
    <2> QED
      BY <2>1, <2>2, <1>a, FreshnessKept
  <1>11. CASE WorkerCatches
    <2>1. /\ UNCHANGED <<asset, previous, nextToken, answers>>
          /\ reply' = Failure /\ workerPc' = "exited"
      BY <1>11 DEF WorkerCatches, WorkerExits
    <2>2. Slots' /\ Held' = Held
      BY <2>1, <1>a DEF Slots, Held
    <2> QED
      BY <2>1, <2>2, <1>a, FreshnessKept
  <1> QED
    BY <1>1, <1>2, <1>3, <1>4, <1>5, <1>6, <1>7, <1>8, <1>9, <1>10, <1>11,
       StepCases DEF Event, EventOf

-----------------------------------------------------------------------------
(* A step that leaves a failed wire has nothing to account for; one that   *)
(* moves no token and grants none keeps the account.                       *)
LEMMA AccountKept ==
  ASSUME Account, workerPc # "staged", workerPc' # "staged",
         wireFailed => wireFailed', HeldTokens' = HeldTokens,
         answers' = answers, Pending' = Pending
  PROVE  Account'
  BY SameAnswers DEF Account

(* Steps that leave the slots alone keep the tokens held.                  *)
LEMMA SameSlots ==
  UNCHANGED <<asset, previous>> => HeldTokens' = HeldTokens
  BY DEF HeldTokens, Held

(* Every step keeps the account of tokens.                                 *)
LEMMA AccountStep ==
  ASSUME TypeOK, Control, Agreement, Ownership, Freshness, Account, Unissued,
         Step
  PROVE  Account' /\ Unissued'
  <1> USE DEF mainVars, workerVars, assetVars, doneVars
  <1>a. Failure.token = 0 /\ Success.token = 0 /\ ~Failure.ok /\ Success.ok
    BY DEF Failure, Success
  <1>b. Pending = {} <=> reply.token = 0
    BY DEF Pending
  <1>1. CASE Calm
    BY <1>1, SameAnswers, SameSlots
       DEF Calm, Account, Unissued, Pending, TokensOf, Running
  <1>2. ASSUME NEW r \in Request, Release(r) PROVE Account' /\ Unissued'
    <2>1. /\ Drop(r.token) /\ Send(last') /\ wireFailed \in BOOLEAN
          /\ Slots /\ RetainedOwned
      BY <1>2, FreshnessSlots DEF Release, Ownership, TypeOK
    <2>2. HeldTokens' = HeldTokens \ {r.token}
      BY <2>1, DropEffect
    <2>3. workerPc = "none" /\ workerPc' = "none" /\ reply' = reply
          /\ r.method = "release"
      BY <1>2 DEF Release, Releasing, Fresh, Deciding
    <2>4. Pending = {} /\ Pending' = {}
      BY <2>3 DEF Pending, Freshness
    <2>5. PICK a \in {Success, Failure} :
            /\ Remember(r, a)
            /\ a.ok <=> r.token \in HeldTokens
      BY <1>2, <1>a DEF Release
    <2>6. last' = {[req |-> r, reply |-> a]}
      BY <2>5 DEF Remember
    <2>7. ~wireFailed' => /\ ~wireFailed
                          /\ Granted' = Granted \cup Grants(a)
                          /\ Released' = Released \cup Releases(r, a)
      BY <2>1, <2>6, AnswerEffect
    <2>8. Grants(a) = {}
      BY <1>a DEF Grants
    <2>9. Releases(r, a) = IF r.token \in HeldTokens THEN {r.token} ELSE {}
      BY <2>3, <2>5 DEF Releases
    <2> QED
      BY <2>2, <2>3, <2>4, <2>7, <2>8, <2>9 DEF Account, Unissued
  <1>3. ASSUME NEW r \in Request, Start(r) PROVE Account' /\ Unissued'
    <2>1. /\ workerPc = "none" /\ workerPc' = "start" /\ reply' = Failure
          /\ answers' = answers /\ wireFailed' = wireFailed
          /\ UNCHANGED <<asset, previous>>
      BY <1>3 DEF Start, Starting, Fresh, Deciding
    <2>2. Pending' = Pending
      BY <2>1, <1>a DEF Pending, Freshness
    <2> QED
      BY <2>1, <2>2, SameSlots, AccountKept DEF Unissued
  <1>4. ASSUME NEW r \in Request, DispatchThrows(r)
        PROVE  Account' /\ Unissued'
    <2>1. wireFailed' /\ workerPc' = workerPc /\ answers' = answers
      BY <1>4 DEF DispatchThrows
    <2>2. workerPc = "staged" => asset' = asset
      BY <1>4 DEF DispatchThrows, Releasing, Fresh, Deciding
    <2> QED
      BY <2>1, <2>2, SameAnswers DEF Account, Unissued
  <1>5. ASSUME NEW r \in Request,
               PrepareFails(r) \/ RunFails(r) \/ RunSolves(r) \/ RunEnds(r)
        PROVE  Account' /\ Unissued'
    <2>1. /\ workerPc \in {"start", "solve"}
          /\ workerPc' \in {"solve", "finish"}
          /\ UNCHANGED <<asset, previous, answers, wireFailed>>
      BY <1>5 DEF PrepareFails, RunFails, RunSolves, RunEnds, Working,
                  OperateReturns
    <2>2. reply.token = 0
      BY <2>1 DEF Freshness
    <2>3. reply'.token = 0
      BY <1>5, <1>a, <2>2 DEF PrepareFails, RunFails, RunSolves, RunEnds,
                              OperateReturns
    <2>4. Pending' = Pending
      BY <2>2, <2>3 DEF Pending
    <2> QED
      BY <2>1, <2>4, SameSlots, AccountKept DEF Unissued
  <1>6. ASSUME NEW r \in Request, NEW s \in Solids, PrepareStages(r, s)
        PROVE  Account' /\ Unissued'
    <2>1. /\ previous = {} /\ previous' = asset
          /\ asset' = {[token |-> nextToken, solid |-> s]}
          /\ UNCHANGED <<reply, answers, wireFailed>>
          /\ workerPc = "start" /\ workerPc' = "staged" /\ nextToken \in Nat
      BY <1>6, MaxTokenAssumption DEF PrepareStages, Working, TypeOK
    <2>2. Pending = {} /\ Pending' = {}
      BY <2>1 DEF Pending, Freshness
    <2>3. HeldTokens = TokensOf(asset)
      BY <2>1 DEF HeldTokens, Held, TokensOf
    <2>4. Account'
      BY <2>1, <2>2, <2>3, SameAnswers DEF Account, TokensOf
    <2>5. nextToken \notin Granted \cup Released
      BY <2>1 DEF Freshness
    <2> QED
      BY <2>1, <2>4, <2>5, SameAnswers DEF Unissued
  <1>7. ASSUME NEW r \in Request, PrepareCommits(r) PROVE Account' /\ Unissued'
    <2>1. PICK p \in asset : OperateReturns(Granting(p.token))
      BY <1>7 DEF PrepareCommits
    <2>2. /\ workerPc = "staged" /\ workerPc' = "finish"
          /\ reply'.token = p.token
          /\ UNCHANGED <<asset, previous, answers, wireFailed>>
      BY <1>7, <2>1 DEF PrepareCommits, Working, OperateReturns, Granting
    <2>3. asset = {p}
      BY <2>1 DEF Freshness
    <2>4. p.token # 0
      BY <2>1, MaxTokenAssumption DEF TypeOK, Prepared, Tokens
    <2>5. Pending' = {p.token}
      BY <2>2, <2>4 DEF Pending
    <2>6. HeldTokens' = TokensOf(previous) \cup {p.token}
      BY <2>2, <2>3, SameSlots DEF HeldTokens, Held, TokensOf
    <2>7. p.token \notin Granted \cup Released
      BY <2>1, <2>2 DEF Unissued
    <2> QED
      BY <2>2, <2>5, <2>6, <2>7, SameAnswers DEF Account, Unissued
  <1>8. ASSUME NEW r \in Request, PrepareRollsBack(r)
        PROVE  Account' /\ Unissued'
    <2>1. /\ asset' = previous /\ previous' = {} /\ reply' = Failure
          /\ workerPc = "staged" /\ workerPc' = "finish"
          /\ UNCHANGED <<answers, wireFailed>>
      BY <1>8 DEF PrepareRollsBack, Working, OperateReturns
    <2>2. HeldTokens' = TokensOf(previous)
      BY <2>1 DEF HeldTokens, Held, TokensOf
    <2>3. Pending' = {}
      BY <2>1, <1>a DEF Pending
    <2> QED
      BY <2>1, <2>2, <2>3, SameAnswers DEF Account, Unissued
  <1>9. ASSUME NEW r \in Request, Finish(r) PROVE Account' /\ Unissued'
    <2>1. /\ r \in job /\ Send(last') /\ wireFailed \in BOOLEAN
          /\ last' = {[req |-> r, reply |-> reply]}
          /\ UNCHANGED <<asset, previous>>
          /\ reply' = Failure /\ workerPc = "finish" /\ workerPc' = "exited"
      BY <1>9 DEF Finish, Working, Remember, WorkerExits, TypeOK
    <2>2. Releases(r, reply) = {} /\ Grants(reply) = Pending
      BY <2>1 DEF Releases, Control, Grants, Pending
    <2>3. ~wireFailed' => /\ ~wireFailed
                          /\ Granted' = Granted \cup Pending
                          /\ Released' = Released
      BY <2>1, <2>2, AnswerEffect
    <2>4. Pending' = {} /\ HeldTokens' = HeldTokens
      BY <2>1, <1>a, SameSlots DEF Pending
    <2> QED
      BY <2>1, <2>3, <2>4 DEF Account, Unissued
  <1>10. CASE WorkerThrows
    BY <1>10 DEF WorkerThrows, Account, Unissued
  <1>11. CASE WorkerCatches
    BY <1>11 DEF WorkerCatches, WorkerExits, Control, Account, Unissued
  <1> QED
    BY <1>1, <1>2, <1>3, <1>4, <1>5, <1>6, <1>7, <1>8, <1>9, <1>10, <1>11,
       StepCases DEF Event, EventOf

-----------------------------------------------------------------------------
(* The invariant holds at first.                                           *)
LEMMA InitInv == Init => IInv
  <1> SUFFICES ASSUME Init PROVE IInv
    OBVIOUS
  <1> USE DEF Init
  <1>a. Failure \in Reply /\ 1 \in 1..MaxToken + 1
    BY MaxTokenAssumption DEF Failure, Reply
  <1>b. [i \in Ids |-> 0] \in [Ids -> Nat]
    OBVIOUS
  <1>1. TypeOK
    BY <1>a, <1>b DEF TypeOK
  <1>2. Control /\ History
    BY DEF Control, History, Running
  <1>3. Agreement
    BY DEF Agreement, OneAnswer
  <1>4. Held = {} /\ HeldTokens = {} /\ Granted = {} /\ Released = {}
    BY DEF Held, HeldTokens, Granted, Released
  <1>5. Ownership
    BY DEF Ownership, RetainedOwned, RunKeepsAsset
  <1>6. Freshness /\ Account /\ Unissued
    BY <1>4 DEF Freshness, Account, Unissued, Pending, Failure
  <1> QED
    BY <1>1, <1>2, <1>3, <1>5, <1>6 DEF IInv

(* Every step keeps it.                                                    *)
LEMMA NextInv == IInv /\ [Next]_vars => IInv'
  <1> SUFFICES ASSUME IInv, [Next]_vars PROVE IInv'
    OBVIOUS
  <1>1. Step
    BY NextStep
  <1>2. TypeOK'
    BY TypeStep DEF IInv
  <1>3. Control' /\ History' /\ Agreement'
    BY <1>1, ControlStep, CompletionStep DEF IInv
  <1>4. Ownership' /\ Freshness'
    BY <1>1, OwnershipStep, FreshnessStep DEF IInv
  <1>5. Account' /\ Unissued'
    BY <1>1, AccountStep DEF IInv
  <1> QED
    BY <1>2, <1>3, <1>4, <1>5 DEF IInv

(* The inductive invariant holds in every reachable state of the session.  *)
THEOREM Invariance == Spec => []IInv
  BY InitInv, NextInv, PTL DEF Spec

(* Every variable of the session keeps its type.                           *)
THEOREM TypeCorrect == Spec => []TypeOK
  <1>1. IInv => TypeOK
    BY DEF IInv
  <1> QED
    BY <1>1, Invariance, PTL

(* A request identity completes at most once, for every hash and every     *)
(* identity history: a retry is never run again.                           *)
THEOREM CompletesOnce == Spec => []NeverRerun
  <1>1. IInv => NeverRerun
    BY DEF IInv, History, NeverRerun
  <1> QED
    BY <1>1, Invariance, PTL

(* All answers to one identity are one answer: a replay never gives a      *)
(* request the result of another.                                          *)
THEOREM AnswersAgree == Spec => []OneAnswer
  <1>1. IInv => OneAnswer
    BY DEF IInv, Agreement
  <1> QED
    BY <1>1, Invariance, PTL

(* The client's view of its tokens is right while the wire holds, through  *)
(* staging, rollback, replacement and restoration.                         *)
THEOREM TokensHonoured == Spec => []GrantsHonoured
  <1>1. IInv => GrantsHonoured
    <2> SUFFICES ASSUME IInv, ~wireFailed PROVE
          /\ Granted \ Released \subseteq HeldTokens
          /\ ~active => HeldTokens = Granted \ Released
      BY DEF GrantsHonoured
    <2>1. workerPc = "staged" => TokensOf(previous) \subseteq HeldTokens
      BY DEF TokensOf, HeldTokens, Held
    <2>2. Granted \ Released \subseteq HeldTokens
      BY <2>1 DEF IInv, Account
    <2>3. ~active => workerPc \notin {"staged", "finish"}
      BY DEF IInv, Control, Running
    <2>4. ~active => Pending = {}
      BY <2>3 DEF IInv, Freshness, Pending
    <2> QED
      BY <2>2, <2>3, <2>4 DEF IInv, Account
  <1> QED
    BY <1>1, Invariance, PTL

(* The asset a run works on stays held until the run has ended.            *)
THEOREM RunAssetHeld == Spec => []RunKeepsAsset
  <1>1. IInv => RunKeepsAsset
    BY DEF IInv, Ownership
  <1> QED
    BY <1>1, Invariance, PTL

(* The retained solution never outlives the assets that own its solid.     *)
THEOREM SolutionOwned == Spec => []RetainedOwned
  <1>1. IInv => RetainedOwned
    BY DEF IInv, Ownership
  <1> QED
    BY <1>1, Invariance, PTL

(* A session that ends on a working wire has answered its last operation.  *)
THEOREM LastAnswered == Spec => []EndsAnswered
  <1>1. IInv => EndsAnswered
    BY DEF IInv, Control, Agreement, Running, EndsAnswered
  <1> QED
    BY <1>1, Invariance, PTL

-----------------------------------------------------------------------------
(* The wire.                                                               *)

Paced(x) == x.kind \in {"phase", "packing"}

IsAnswer(x) == x.kind = "terminal"

Latest == [kind |-> "packing", op |-> op, seq |-> revision]

Succeeded == [kind |-> "terminal", op |-> op, ok |-> TRUE]

OnWire(x) == \E i \in 1..Len(written) : written[i] = x

AtMostOne(S) == \A x, y \in S : x = y

(* The first operation is 1.                                               *)
NumberedInv == opPc # "idle" => op > 0

(* What the writer holds, by where it is.                                  *)
TakenInv ==
  /\ writerPc \in {"check", "blocking", "asleep", "pacing", "done"} => out = {}
  /\ inflight <=> writerPc \in {"encode", "encoded"}
  /\ inflight => out \subseteq Packing
  /\ AtMostOne(out) /\ AtMostOne(pendingPhase) /\ AtMostOne(pendingPacking)

(* What is not written yet is of the operation that runs.                  *)
CurrentInv ==
  \A x \in out \cup pendingPhase \cup pendingPacking : Paced(x) => x.op = op

(* An answer is of an operation that has ended.                            *)
Ended(x) == IsAnswer(x) => x.op <= op /\ (x.op = op => opPc = "idle")

EndedInv ==
  /\ \A i \in 1..Len(records) : Ended(records[i])
  /\ \A x \in out : Ended(x)
  /\ \A i \in 1..Len(written) : Ended(written[i])

(* An answer leaves the queue only when nothing paced is pending, and      *)
(* nothing paced of its operation appears after that.                      *)
Swept == pendingPhase = {} /\ pendingPacking = {} /\ \A x \in out : ~Paced(x)

SweptInv ==
  /\ \A x \in out : IsAnswer(x) /\ x.op = op => Swept
  /\ \A i \in 1..Len(written) : IsAnswer(written[i]) /\ written[i].op = op => Swept

(* While the run lasts its last packing is pending, with the writer, or    *)
(* written, unless it could not be encoded or the wire failed.             *)
KeptInv ==
  revision > 0 /\ opPc # "idle" /\ ~publicationFailed /\ ~wireDown =>
    \/ Latest \in pendingPacking
    \/ Latest \in out
    \/ OnWire(Latest)

(* Once a success is promised the packing is past the encoder.             *)
Promised ==
  \/ opPc = "answer" /\ delivered
  \/ \E i \in 1..Len(records) : records[i] = Succeeded

PromisedInv ==
  revision > 0 /\ Promised /\ ~wireDown =>
    /\ pendingPacking = {}
    /\ ~inflight
    /\ Latest \in out \/ OnWire(Latest)

(* A success with the writer follows the packing.                          *)
FollowsInv == revision > 0 /\ Succeeded \in out => OnWire(Latest)

SafetyInv ==
  /\ CurrentInv
  /\ EndedInv
  /\ SweptInv
  /\ KeptInv
  /\ PromisedInv
  /\ FollowsInv
  /\ TerminalLast
  /\ LatestDelivered

WireInv == WireTypeOK /\ NumberedInv /\ TakenInv /\ SafetyInv

-----------------------------------------------------------------------------
(* Facts about sequences.                                                  *)

(* Appending keeps the old positions and adds one.                         *)
LEMMA Appended ==
  ASSUME NEW S, NEW s \in Seq(S), NEW e \in S
  PROVE  /\ Append(s, e) \in Seq(S)
         /\ Len(s) \in Nat
         /\ Len(Append(s, e)) = Len(s) + 1
         /\ \A i \in 1..Len(s) : Append(s, e)[i] = s[i]
         /\ Append(s, e)[Len(s) + 1] = e
  BY AppendProperties, LenProperties

(* Every element after the append is an old one or the new one.            *)
LEMMA AppendedAll ==
  ASSUME NEW S, NEW s \in Seq(S), NEW e \in S,
         NEW i \in 1..Len(Append(s, e))
  PROVE  \/ i \in 1..Len(s) /\ Append(s, e)[i] = s[i]
         \/ i = Len(s) + 1 /\ Append(s, e)[i] = e
  BY Appended

(* Taking the head moves the other elements one position down.             *)
LEMMA Taken ==
  ASSUME NEW S, NEW s \in Seq(S), s # <<>>
  PROVE  /\ Head(s) = s[1] /\ Head(s) \in S /\ 1 \in 1..Len(s)
         /\ Tail(s) \in Seq(S) /\ Len(Tail(s)) = Len(s) - 1
         /\ \A i \in 1..Len(Tail(s)) :
              i + 1 \in 1..Len(s) /\ Tail(s)[i] = s[i + 1]
  BY HeadTailProperties, LenProperties, EmptySeq

-----------------------------------------------------------------------------
(* Type correctness.                                                       *)

(* The kinds of record.                                                    *)
LEMMA ResponseIsRecord ==
  /\ Response \subseteq Record
  /\ Packing \subseteq Record
  /\ Phase \subseteq Record
  BY DEF Record

(* Notifying one thread or all of them wakes only threads that waited.     *)
LEMMA NotifyShrinks ==
  /\ NotifyOne => waiting' \subseteq waiting
  /\ NotifyAll => waiting' \subseteq waiting
  BY DEF NotifyOne, NotifyAll

(* A send keeps the queue within its limit.                                *)
LEMMA SendType ==
  ASSUME WireTypeOK, NEW r \in Response, SendResponse(r)
  PROVE  /\ records' \in Seq(Response) /\ Len(records') <= QueueLimit
         /\ wireDown' \in BOOLEAN
         /\ waiting' \subseteq waiting
  <1>1. /\ records \in Seq(Response) /\ Len(records) \in Nat
        /\ Len(records) <= QueueLimit /\ QueueLimit \in Nat
        /\ wireDown \in BOOLEAN
    BY BoundsAssumption, LenProperties DEF WireTypeOK
  <1>2. CASE UNCHANGED <<records, wireDown, waiting>>
    BY <1>1, <1>2
  <1>3. CASE wireDown' = TRUE /\ NotifyAll /\ UNCHANGED records
    BY <1>1, <1>3, NotifyShrinks
  <1>4. CASE /\ Len(records) < QueueLimit
             /\ records' = Append(records, r)
             /\ NotifyOne
             /\ UNCHANGED wireDown
    <2>1. records' \in Seq(Response) /\ Len(records') = Len(records) + 1
      BY <1>1, <1>4, Appended
    <2> QED
      BY <1>1, <1>4, <2>1, NotifyShrinks
  <1> QED
    BY <1>2, <1>3, <1>4 DEF SendResponse

(* Every variable of the wire keeps its type.                              *)
LEMMA WireTypeStep == WireTypeOK /\ NumberedInv /\ [WireNext]_wireVars => WireTypeOK'
  <1> SUFFICES ASSUME WireTypeOK, NumberedInv, WireNext \/ UNCHANGED wireVars PROVE WireTypeOK'
    OBVIOUS
  <1> USE DEF slotVars, writerVars, opVars, serveVars
  <1>a. /\ QueueLimit \in Nat /\ MaxOps \in Nat /\ MaxRevision \in Nat
        /\ MaxPhases \in Nat /\ MaxReports \in Nat /\ MaxRejects \in Nat
    BY BoundsAssumption
  <1>1. CASE FindsNothing
    BY <1>1 DEF FindsNothing, WireTypeOK
  <1>2. CASE Blocks
    BY <1>2 DEF Blocks, WireTypeOK
  <1>3. CASE Wakes
    BY <1>3 DEF Wakes, WireTypeOK
  <1>4. CASE Leaves
    BY <1>4 DEF Leaves, WireTypeOK
  <1>5. CASE WaitsForGate
    BY <1>5 DEF WaitsForGate, WireTypeOK
  <1>6. CASE TakePacking
    BY <1>6, ResponseIsRecord DEF TakePacking, WireTypeOK
  <1>7. CASE TakePhase
    BY <1>7, ResponseIsRecord DEF TakePhase, WireTypeOK
  <1>8. CASE TakeResponse
    <2>1. /\ Head(records) \in Response /\ Tail(records) \in Seq(Response)
          /\ Len(Tail(records)) <= QueueLimit
      BY <1>8, <1>a, Taken, LenProperties DEF TakeResponse, WireTypeOK
    <2> QED
      BY <1>8, <2>1, ResponseIsRecord DEF TakeResponse, WireTypeOK
  <1>9. CASE Encodes
    BY <1>9 DEF Encodes, WireTypeOK
  <1>10. CASE EncodingFails
    BY <1>10 DEF EncodingFails, WireTypeOK
  <1>11. CASE Unpins
    BY <1>11, NotifyShrinks DEF Unpins, WireTypeOK
  <1>12. CASE PhaseThrows
    BY <1>12, NotifyShrinks DEF PhaseThrows, WireTypeOK
  <1>13. CASE BeginsWrite
    BY <1>13 DEF BeginsWrite, WireTypeOK
  <1>14. CASE WriteReturns
    <2>1. PICK x \in out :
            /\ written' = Append(written, x)
            /\ due' = (due /\ x.kind \notin {"phase", "packing"})
      BY <1>14 DEF WriteReturns
    <2>2. written' \in Seq(Record)
      BY <2>1, Appended DEF WireTypeOK
    <2> QED
      BY <1>14, <2>1, <2>2 DEF WriteReturns, WireTypeOK
  <1>15. CASE WriteFails
    BY <1>15, NotifyShrinks DEF WriteFails, WireTypeOK
  <1>16. CASE GateOpens
    BY <1>16 DEF GateOpens, WireTypeOK
  <1>17. CASE WatchdogFires
    BY <1>17, NotifyShrinks DEF WatchdogFires, WireTypeOK
  <1>18. CASE WakesSpuriously
    <2>1. waiting' \subseteq {"writer", "worker"}
      BY <1>18, NotifyShrinks DEF WakesSpuriously, WireTypeOK
    <2> QED
      BY <1>18, <2>1 DEF WakesSpuriously, WireTypeOK
  <1>19. CASE Begin
    <2>1. op' \in 0..MaxOps /\ revision' \in 0..MaxRevision
          /\ phases' \in 0..MaxPhases
      BY <1>19, <1>a DEF Begin, WireTypeOK
    <2> QED
      BY <1>19, <2>1 DEF Begin, WireTypeOK
  <1>20. CASE Publish
    <2>1. revision' \in 1..MaxRevision /\ op \in 1..MaxOps
      BY <1>20, <1>a DEF Publish, NumberedInv, WireTypeOK
    <2>2. pendingPacking' \subseteq Packing
      BY <1>20, <2>1 DEF Publish, Packing
    <2>3. waiting' \subseteq {"writer", "worker"}
      BY <1>20, NotifyShrinks DEF Publish, WireTypeOK
    <2> QED
      BY <1>20, <2>1, <2>2, <2>3 DEF Publish, WireTypeOK
  <1>21. CASE ReportPhase
    <2>1. phases' \in 1..MaxPhases /\ op \in 1..MaxOps
      BY <1>21, <1>a DEF ReportPhase, NumberedInv, WireTypeOK
    <2>2. pendingPhase' \subseteq Phase
      BY <1>21, <2>1 DEF ReportPhase, Phase, WireTypeOK
    <2>3. waiting' \subseteq {"writer", "worker"}
      BY <1>21, NotifyShrinks DEF ReportPhase, WireTypeOK
    <2> QED
      BY <1>21, <1>a, <2>1, <2>2, <2>3, SMTT(30) DEF ReportPhase, WireTypeOK
  <1>22. CASE SolveReturns
    BY <1>22 DEF SolveReturns, WireTypeOK
  <1>23. CASE FlushLooks
    BY <1>23, ZenonT(60) DEF FlushLooks, FlushReturns, WireTypeOK
  <1>24. CASE FlushWakes
    BY <1>24 DEF FlushWakes, WireTypeOK
  <1>25. CASE FlushTimesOut
    BY <1>25 DEF FlushTimesOut, FlushReturns, WireTypeOK
  <1>26. CASE Answer
    <2>1. PICK ok \in {delivered, FALSE} :
            SendResponse([kind |-> "terminal", op |-> op, ok |-> ok])
      BY <1>26 DEF Answer
    <2>2. op \in 1..MaxOps
      <3>1. opPc = "answer"
        BY <1>26 DEF Answer
      <3> QED
        BY <3>1, <1>a DEF NumberedInv, WireTypeOK
    <2>3. ok \in BOOLEAN
      BY <2>1 DEF WireTypeOK
    <2>4. [kind |-> "terminal", op |-> op, ok |-> ok] \in Response
      BY <2>2, <2>3 DEF Response, Terminal
    <2> QED
      BY <1>26, <2>1, <2>4, SendType, ZenonT(60) DEF Answer, WireTypeOK
  <1>27. CASE RunThrows
    BY <1>27 DEF RunThrows, NotifyAll, WireTypeOK
  <1>28. CASE Reject
    <2>1. Rejection \in Response
      BY DEF Response
    <2>2. rejects' \in 0..MaxRejects
      BY <1>28, <1>a DEF Reject, WireTypeOK
    <2> QED
      BY <1>28, <2>1, <2>2, SendType, ZenonT(60) DEF Reject, WireTypeOK
  <1>29. CASE LeavesLoop
    <2>1. wireDown' \in BOOLEAN
      BY <1>29 DEF LeavesLoop, WireTypeOK
    <2> QED
      BY <1>29, <2>1, ZenonT(60) DEF LeavesLoop, WireTypeOK
  <1>30. CASE CloseWriter
    BY <1>30 DEF CloseWriter, WireTypeOK
  <1>31. CASE NotifyClosing
    BY <1>31, NotifyShrinks, ZenonT(60) DEF NotifyClosing, WireTypeOK
  <1>32. CASE JoinWriter
    BY <1>32 DEF JoinWriter, WireTypeOK
  <1>33. CASE UNCHANGED wireVars
    BY <1>33 DEF wireVars, WireTypeOK
  <1> QED
    BY <1>1, <1>2, <1>3, <1>4, <1>5, <1>6, <1>7, <1>8, <1>9, <1>10, <1>11,
       <1>12, <1>13, <1>14, <1>15, <1>16, <1>17, <1>18, <1>19, <1>20, <1>21,
       <1>22, <1>23, <1>24, <1>25, <1>26, <1>27, <1>28, <1>29, <1>30, <1>31,
       <1>32, <1>33
       DEF WireNext, Writer, WriteEnds, Worker, Cleanup,
           WireEnded
(* What the writer holds follows from where it is.                         *)
LEMMA TakenStep ==
  ASSUME WireTypeOK, TakenInv, NumberedInv, WireNext \/ UNCHANGED wireVars
  PROVE  NumberedInv' /\ TakenInv'
  <1> USE DEF WireTypeOK, NumberedInv, TakenInv, AtMostOne, slotVars, writerVars,
              opVars, serveVars
  <1>1. CASE FindsNothing
    BY <1>1 DEF FindsNothing
  <1>2. CASE Blocks
    BY <1>2 DEF Blocks
  <1>3. CASE Wakes
    BY <1>3 DEF Wakes
  <1>4. CASE Leaves
    BY <1>4 DEF Leaves
  <1>5. CASE WaitsForGate
    BY <1>5 DEF WaitsForGate
  <1>6. CASE TakePacking
    BY <1>6 DEF TakePacking, MayTakePaced
  <1>7. CASE TakePhase
    BY <1>7 DEF TakePhase, MayTakePaced
  <1>8. CASE TakeResponse
    BY <1>8 DEF TakeResponse
  <1>9. CASE Encodes
    BY <1>9 DEF Encodes
  <1>10. CASE EncodingFails
    BY <1>10 DEF EncodingFails
  <1>11. CASE Unpins
    <2>1. /\ writerPc' \in {"check", "write"}
          /\ out' = out /\ (writerPc' = "check" => out = {})
          /\ inflight' = FALSE
          /\ UNCHANGED <<pendingPhase, pendingPacking, opVars>>
      BY <1>11 DEF Unpins
    <2> QED
      BY <2>1
  <1>12. CASE PhaseThrows
    BY <1>12 DEF PhaseThrows
  <1>13. CASE BeginsWrite
    BY <1>13 DEF BeginsWrite
  <1>14. CASE WriteReturns
    BY <1>14 DEF WriteReturns
  <1>15. CASE WriteFails
    BY <1>15 DEF WriteFails
  <1>16. CASE GateOpens
    BY <1>16 DEF GateOpens
  <1>17. CASE WatchdogFires
    BY <1>17 DEF WatchdogFires
  <1>18. CASE WakesSpuriously
    BY <1>18 DEF WakesSpuriously
  <1>19. CASE Begin
    BY <1>19 DEF Begin
  <1>20. CASE Publish
    BY <1>20 DEF Publish
  <1>21. CASE ReportPhase
    BY <1>21 DEF ReportPhase
  <1>22. CASE SolveReturns
    BY <1>22 DEF SolveReturns
  <1>23. CASE FlushLooks
    BY <1>23 DEF FlushLooks, FlushReturns
  <1>24. CASE FlushWakes
    BY <1>24 DEF FlushWakes
  <1>25. CASE FlushTimesOut
    BY <1>25 DEF FlushTimesOut, FlushReturns
  <1>26. CASE Answer
    BY <1>26 DEF Answer
  <1>27. CASE RunThrows
    BY <1>27 DEF RunThrows, NotifyAll
  <1>28. CASE Reject
    BY <1>28 DEF Reject
  <1>29. CASE LeavesLoop
    BY <1>29 DEF LeavesLoop
  <1>30. CASE CloseWriter
    BY <1>30 DEF CloseWriter
  <1>31. CASE NotifyClosing
    BY <1>31 DEF NotifyClosing
  <1>32. CASE JoinWriter
    BY <1>32 DEF JoinWriter
  <1>33. CASE UNCHANGED wireVars
    BY <1>33 DEF wireVars
  <1> QED
    BY <1>1, <1>2, <1>3, <1>4, <1>5, <1>6, <1>7, <1>8, <1>9, <1>10, <1>11,
       <1>12, <1>13, <1>14, <1>15, <1>16, <1>17, <1>18, <1>19, <1>20, <1>21,
       <1>22, <1>23, <1>24, <1>25, <1>26, <1>27, <1>28, <1>29, <1>30, <1>31,
       <1>32, <1>33
       DEF WireNext, Writer, WriteEnds, Worker, Cleanup, WireEnded
(* Steps that only move control.  A record may be dropped, and the run may *)
(* be cut short, only with the wire failed.                                *)
Background ==
  /\ UNCHANGED <<records, pendingPhase, pendingPacking, publicationFailed, op,
                 revision, delivered, written>>
  /\ wireDown => wireDown'
  /\ inflight' => inflight
  /\ out' = out \/ (out' = {} /\ wireDown')
  /\ \/ opPc' = opPc
     \/ opPc # "idle" /\ opPc' \notin {"idle", "answer"}
     \/ opPc' = "idle" /\ wireDown'

Moves ==
  \/ FindsNothing \/ Blocks \/ Wakes \/ Leaves \/ WaitsForGate \/ Encodes
  \/ Unpins \/ PhaseThrows \/ BeginsWrite \/ WriteFails \/ GateOpens
  \/ WatchdogFires \/ WakesSpuriously \/ SolveReturns \/ FlushWakes
  \/ RunThrows \/ LeavesLoop \/ CloseWriter \/ NotifyClosing \/ JoinWriter

(* Each of these steps only moves control.                                 *)
LEMMA MovesInBackground == TakenInv /\ Moves => Background
  <1> SUFFICES ASSUME TakenInv, Moves PROVE Background
    OBVIOUS
  <1> USE DEF Background, slotVars, writerVars, opVars, serveVars
  <1>1. CASE FindsNothing
    BY <1>1 DEF FindsNothing
  <1>2. CASE Blocks
    BY <1>2 DEF Blocks
  <1>3. CASE Wakes
    BY <1>3 DEF Wakes
  <1>4. CASE Leaves
    BY <1>4 DEF Leaves, TakenInv
  <1>5. CASE WaitsForGate
    BY <1>5 DEF WaitsForGate
  <1>6. CASE Encodes
    BY <1>6 DEF Encodes
  <1>7. CASE Unpins
    BY <1>7 DEF Unpins
  <1>8. CASE PhaseThrows
    BY <1>8 DEF PhaseThrows
  <1>9. CASE BeginsWrite
    BY <1>9 DEF BeginsWrite
  <1>10. CASE WriteFails
    BY <1>10 DEF WriteFails
  <1>11. CASE GateOpens
    BY <1>11 DEF GateOpens
  <1>12. CASE WatchdogFires
    BY <1>12 DEF WatchdogFires
  <1>13. CASE WakesSpuriously
    BY <1>13 DEF WakesSpuriously
  <1>14. CASE SolveReturns
    BY <1>14 DEF SolveReturns
  <1>15. CASE FlushWakes
    BY <1>15 DEF FlushWakes
  <1>16. CASE RunThrows
    BY <1>16 DEF RunThrows, NotifyAll
  <1>17. CASE LeavesLoop
    <2>1. wireDown' = wireDown \/ wireDown' = TRUE
      BY <1>17 DEF LeavesLoop
    <2> QED
      BY <1>17, <2>1 DEF LeavesLoop
  <1>18. CASE CloseWriter
    BY <1>18 DEF CloseWriter
  <1>19. CASE NotifyClosing
    BY <1>19 DEF NotifyClosing
  <1>20. CASE JoinWriter
    BY <1>20 DEF JoinWriter
  <1> QED
    BY <1>1, <1>2, <1>3, <1>4, <1>5, <1>6, <1>7, <1>8, <1>9, <1>10,
       <1>11, <1>12, <1>13, <1>14, <1>15, <1>16, <1>17, <1>18, <1>19,
       <1>20 DEF Moves

(* Such a step keeps the invariant.                                        *)
LEMMA BackgroundStep == WireTypeOK /\ SafetyInv /\ Background => SafetyInv'
  <1> SUFFICES ASSUME WireTypeOK, SafetyInv, Background PROVE SafetyInv'
    OBVIOUS
  <1> USE DEF SafetyInv, Background, Paced, IsAnswer, OnWire, Latest, Succeeded
  <1>1. CurrentInv'
    BY DEF CurrentInv
  <1>2. EndedInv'
    BY DEF EndedInv, Ended
  <1>3. SweptInv'
    BY DEF SweptInv, Swept
  <1>4. KeptInv'
    BY DEF KeptInv
  <1>5. PromisedInv'
    BY DEF PromisedInv, Promised
  <1>6. FollowsInv'
    BY DEF FollowsInv
  <1>7. TerminalLast' /\ LatestDelivered'
    BY DEF TerminalLast, LatestDelivered
  <1> QED
    BY <1>1, <1>2, <1>3, <1>4, <1>5, <1>6, <1>7

-----------------------------------------------------------------------------
(* The steps that move records.                                            *)

(* The packing the writer takes was pending, and so was the phase it drops.*)
LEMMA TakePacedStep ==
  ASSUME WireTypeOK, TakenInv, SafetyInv, TakePacking \/ TakePhase
  PROVE  SafetyInv'
  <1> DEFINE S == pendingPhase \cup pendingPacking
  <1>1. /\ UNCHANGED <<records, publicationFailed, wireDown, opPc, op,
                       revision, delivered, written>>
        /\ out = {} /\ out' \subseteq S
        /\ pendingPhase' = {} /\ pendingPacking' = {}
        /\ S # {}
        /\ pendingPacking # {} => out' = pendingPacking
        /\ pendingPacking = {} => inflight' = inflight
        /\ \A x \in S : Paced(x)
    BY DEF TakePacking, TakePhase, MayTakePaced, TakenInv, WireTypeOK, Paced,
       Packing, Phase, slotVars, opVars, serveVars
  <1> HIDE DEF S
  <1> USE DEF SafetyInv, OnWire, Latest, Succeeded
  <1>2. CurrentInv'
    BY <1>1 DEF CurrentInv, S
  <1>3. EndedInv'
    BY <1>1 DEF EndedInv, Ended, Paced, IsAnswer
  <1>4. SweptInv'
    BY <1>1 DEF SweptInv, Swept, Paced, IsAnswer, S
  <1>5. KeptInv'
    BY <1>1 DEF KeptInv
  <1>6. PromisedInv'
    BY <1>1 DEF PromisedInv, Promised
  <1>7. FollowsInv'
    BY <1>1 DEF FollowsInv, Paced
  <1>8. TerminalLast' /\ LatestDelivered'
    BY <1>1 DEF TerminalLast, LatestDelivered
  <1> QED
    BY <1>2, <1>3, <1>4, <1>5, <1>6, <1>7, <1>8

(* A response is taken when nothing paced is pending or held.              *)
LEMMA TakeResponseStep ==
  ASSUME WireTypeOK, TakenInv, SafetyInv, TakeResponse
  PROVE  SafetyInv'
  <1> DEFINE r == Head(records)
  <1>1. /\ UNCHANGED <<pendingPhase, pendingPacking, inflight,
                       publicationFailed, wireDown, opPc, op, revision, delivered, written>>
        /\ out = {} /\ out' = {r} /\ ~wireDown
        /\ pendingPhase = {} /\ pendingPacking = {}
        /\ records' = Tail(records)
        /\ records \in Seq(Response) /\ records # <<>>
    BY DEF TakeResponse, TakenInv, WireTypeOK, Unsent, slotVars, opVars, serveVars
  <1>2. /\ 1 \in 1..Len(records) /\ r = records[1] /\ r \in Response
        /\ \A i \in 1..Len(records') :
             i + 1 \in 1..Len(records) /\ records'[i] = records[i + 1]
    BY <1>1, Taken
  <1>3. ~Paced(r)
    BY <1>2 DEF Response, Terminal, Rejection, Paced
  <1> HIDE DEF r
  <1> USE DEF SafetyInv, OnWire, Latest
  <1>4. CurrentInv'
    BY <1>1, <1>3 DEF CurrentInv
  <1>5. EndedInv'
    BY <1>1, <1>2 DEF EndedInv, Ended, IsAnswer
  <1>6. SweptInv'
    BY <1>1, <1>3 DEF SweptInv, Swept
  <1>7. KeptInv'
    BY <1>1 DEF KeptInv
  <1>8. PromisedInv'
    <2>1. Promised' => Promised
      BY <1>1, <1>2 DEF Promised, Succeeded
    <2> QED
      BY <1>1, <2>1 DEF PromisedInv
  <1>9. FollowsInv'
    <2>1. Succeeded \in out' => Promised
      BY <1>1, <1>2 DEF Promised
    <2> QED
      BY <1>1, <2>1 DEF FollowsInv, PromisedInv, Succeeded
  <1>10. TerminalLast' /\ LatestDelivered'
    BY <1>1 DEF TerminalLast, LatestDelivered
  <1> QED
    BY <1>4, <1>5, <1>6, <1>7, <1>8, <1>9, <1>10

(* An encoding that fails gives the packing up, before any success.        *)
LEMMA EncodingFailsStep ==
  ASSUME WireTypeOK, TakenInv, SafetyInv, EncodingFails
  PROVE  SafetyInv'
  <1>1. /\ UNCHANGED <<records, pendingPhase, pendingPacking, inflight,
                       wireDown, opPc, op, revision, delivered, written>>
        /\ inflight /\ out' = {} /\ publicationFailed' = TRUE
    BY DEF EncodingFails, TakenInv, slotVars, opVars, serveVars
  <1> USE DEF SafetyInv, OnWire, Latest, Succeeded
  <1>2. CurrentInv' /\ EndedInv' /\ SweptInv'
    BY <1>1 DEF CurrentInv, EndedInv, Ended, SweptInv, Swept
  <1>3. KeptInv' /\ PromisedInv' /\ FollowsInv'
    BY <1>1 DEF KeptInv, PromisedInv, Promised, FollowsInv
  <1>4. TerminalLast' /\ LatestDelivered'
    BY <1>1 DEF TerminalLast, LatestDelivered
  <1> QED
    BY <1>2, <1>3, <1>4

(* A record reaches the wire after everything it must follow.              *)
LEMMA WriteReturnsStep ==
  ASSUME WireTypeOK, TakenInv, SafetyInv, WriteReturns
  PROVE  SafetyInv'
  <1>1. PICK x \in out : written' = Append(written, x)
    BY DEF WriteReturns
  <1>2. /\ UNCHANGED <<records, pendingPhase, pendingPacking, inflight,
                       publicationFailed, wireDown, opPc, op, revision,
                       delivered>>
        /\ out' = {} /\ ~inflight /\ \A y \in out : y = x
        /\ x \in Record /\ written \in Seq(Record)
    BY DEF WriteReturns, TakenInv, AtMostOne, WireTypeOK, slotVars, opVars,
       serveVars
  <1>3. /\ Len(written) \in Nat /\ Len(written') = Len(written) + 1
        /\ \A i \in 1..Len(written) : written'[i] = written[i]
        /\ written'[Len(written) + 1] = x
    BY <1>1, <1>2, Appended
  <1>4. \A i \in 1..Len(written') :
          \/ i \in 1..Len(written) /\ written'[i] = written[i]
          \/ i = Len(written) + 1 /\ written'[i] = x
    BY <1>3
  <1>5. ASSUME NEW y PROVE OnWire(y) \/ y = x <=> OnWire(y)'
    BY <1>3, <1>4 DEF OnWire
  <1> USE DEF SafetyInv
  <1>6. CurrentInv'
    BY <1>2 DEF CurrentInv
  <1>7. EndedInv'
    BY <1>2, <1>4 DEF EndedInv, Ended
  <1>8. SweptInv'
    BY <1>2, <1>4 DEF SweptInv, Swept
  <1>9. /\ Latest' = Latest
        /\ OnWire(Latest) \/ Latest \in out => OnWire(Latest)'
    BY <1>2, <1>5 DEF Latest
  <1>10. KeptInv'
    BY <1>2, <1>9 DEF KeptInv
  <1>11. PromisedInv'
    BY <1>2, <1>9 DEF PromisedInv, Promised, Succeeded
  <1>12. FollowsInv'
    BY <1>2 DEF FollowsInv
  <1>13. TerminalLast'
    <2> SUFFICES ASSUME NEW i \in 1..Len(written'), NEW j \in 1..Len(written'),
                        i < j,
                        IsAnswer(written'[i]), Paced(written'[j])
                 PROVE  written'[j].op > written'[i].op
      BY DEF TerminalLast, IsAnswer, Paced
    <2>1. i \in 1..Len(written) /\ written'[i] = written[i]
      BY <1>3, <1>4
    <2>2. CASE j \in 1..Len(written) /\ written'[j] = written[j]
      BY <2>1, <2>2 DEF TerminalLast, IsAnswer, Paced
    <2>3. CASE written'[j] = x
      <3>1. x.op = op
        BY <2>3 DEF CurrentInv
      <3>2. written[i].op # op
        BY <2>1, <2>3 DEF SweptInv, Swept
      <3>3. written[i].op <= op
        BY <2>1 DEF EndedInv, Ended
      <3>4. written[i].op \in Nat /\ op \in Nat
        BY <1>2, <2>1, BoundsAssumption, SMTT(30)
           DEF WireTypeOK, Record, Response, Terminal, Rejection, Packing, Phase,
               IsAnswer
      <3> QED
        BY <2>1, <2>3, <3>1, <3>2, <3>3, <3>4
    <2> QED
      BY <1>4, <2>2, <2>3
  <1>14. LatestDelivered'
    <2> SUFFICES ASSUME revision > 0, NEW i \in 1..Len(written'),
                        written'[i] = Succeeded
                 PROVE  \E j \in 1..i : written'[j] = Latest
      BY <1>2 DEF LatestDelivered, Succeeded, Latest
    <2>1. CASE i \in 1..Len(written) /\ written'[i] = written[i]
      <3>1. PICK j \in 1..i : written[j] = Latest
        BY <2>1 DEF LatestDelivered, Succeeded, Latest
      <3> QED
        BY <1>3, <2>1, <3>1
    <2>2. CASE i = Len(written) + 1 /\ written'[i] = x
      <3>1. PICK j \in 1..Len(written) : written[j] = Latest
        BY <2>2 DEF FollowsInv, OnWire
      <3> QED
        BY <1>3, <2>2, <3>1
    <2> QED
      BY <1>4, <2>1, <2>2
  <1> QED
    BY <1>6, <1>7, <1>8, <1>10, <1>11, <1>12, <1>13, <1>14

(* A run begins when nothing of the one before is left but its answer.     *)
LEMMA BeginStep ==
  ASSUME WireTypeOK, SafetyInv, Begin
  PROVE  SafetyInv'
  <1>1. /\ UNCHANGED <<out, records, pendingPhase, pendingPacking, inflight,
                       wireDown, written>>
        /\ opPc' = "run" /\ op' = op + 1 /\ revision' = 0
        /\ op \in Nat /\ (op = 0 \/ AnswerWritten(op))
    BY BoundsAssumption DEF Begin, WireTypeOK, writerVars, slotVars
  <1> USE DEF SafetyInv
  <1>2. \A x \in Record : IsAnswer(x) \/ Paced(x) => x.op \in Nat \ {0}
    BY BoundsAssumption
       DEF Record, Response, Terminal, Rejection, Packing, Phase, IsAnswer,
           Paced
  <1>3. \A x \in out \cup pendingPhase \cup pendingPacking : ~Paced(x)
    <2>1. CASE op = 0
      BY <1>2, <2>1, ResponseIsRecord DEF CurrentInv, WireTypeOK
    <2>2. CASE AnswerWritten(op)
      <3>1. Swept
        BY <2>2 DEF AnswerWritten, SweptInv, IsAnswer
      <3> QED
        BY <3>1 DEF Swept
    <2> QED
      BY <1>1, <2>1, <2>2
  <1>4. CurrentInv'
    BY <1>1, <1>3 DEF CurrentInv
  <1>5. ASSUME NEW x \in Record, Ended(x) PROVE IsAnswer(x) => x.op < op'
    BY <1>1, <1>2, <1>5 DEF Ended
  <1>6. /\ \A i \in 1..Len(records) :
             IsAnswer(records[i]) => records[i].op < op'
        /\ \A x \in out : IsAnswer(x) => x.op < op'
        /\ \A i \in 1..Len(written) : IsAnswer(written[i]) => written[i].op < op'
    BY <1>5, ResponseIsRecord DEF EndedInv, WireTypeOK
  <1>7. ASSUME NEW x \in Record, IsAnswer(x), x.op < op'
        PROVE  x.op <= op' /\ x.op # op'
    BY <1>1, <1>2, <1>7
  <1>8. EndedInv' /\ SweptInv'
    BY <1>1, <1>6, <1>7, ResponseIsRecord
       DEF EndedInv, Ended, SweptInv, WireTypeOK
  <1>9. KeptInv' /\ PromisedInv' /\ FollowsInv' /\ LatestDelivered'
    BY <1>1 DEF KeptInv, PromisedInv, FollowsInv, LatestDelivered
  <1>10. TerminalLast'
    BY <1>1 DEF TerminalLast
  <1> QED
    BY <1>4, <1>8, <1>9, <1>10

(* While a run lasts no answer of it exists.                               *)
LEMMA RunningUnanswered ==
  ASSUME WireTypeOK, SafetyInv, opPc # "idle"
  PROVE  /\ \A i \in 1..Len(records) :
              ~(IsAnswer(records[i]) /\ records[i].op = op)
         /\ \A x \in out : ~(IsAnswer(x) /\ x.op = op)
         /\ \A i \in 1..Len(written) : ~(IsAnswer(written[i]) /\ written[i].op = op)
  BY DEF SafetyInv, EndedInv, Ended

(* A published packing is current, and owed to the client.                 *)
LEMMA PublishStep ==
  ASSUME WireTypeOK, SafetyInv, Publish
  PROVE  SafetyInv'
  <1>1. /\ UNCHANGED <<out, records, pendingPhase, inflight, publicationFailed,
                       wireDown, opPc, op, written>>
        /\ opPc = "run" /\ revision' = revision + 1
        /\ pendingPacking' = {Latest'}
    BY DEF Publish, writerVars, Latest
  <1>2. opPc # "idle"
    BY <1>1
  <1>3. /\ Paced(Latest') /\ Latest'.op = op /\ Succeeded' = Succeeded
        /\ IsAnswer(Succeeded) /\ Succeeded.op = op
    BY <1>1 DEF Latest, Paced, IsAnswer, Succeeded
  <1> USE RunningUnanswered, <1>2 DEF SafetyInv
  <1>4. CurrentInv'
    BY <1>1, <1>3 DEF CurrentInv
  <1>5. EndedInv' /\ SweptInv'
    BY <1>1 DEF EndedInv, Ended, SweptInv
  <1>6. KeptInv'
    BY <1>1 DEF KeptInv
  <1>7. ~Promised' /\ Succeeded' \notin out'
    BY <1>1, <1>3 DEF Promised
  <1>8. PromisedInv' /\ FollowsInv'
    BY <1>7 DEF PromisedInv, FollowsInv
  <1>9. TerminalLast'
    BY <1>1 DEF TerminalLast
  <1>10. LatestDelivered'
    BY <1>1, <1>3 DEF LatestDelivered, Succeeded
  <1> QED
    BY <1>4, <1>5, <1>6, <1>8, <1>9, <1>10

(* A phase overtakes no answer.                                            *)
LEMMA ReportPhaseStep ==
  ASSUME WireTypeOK, SafetyInv, ReportPhase
  PROVE  SafetyInv'
  <1>1. /\ UNCHANGED <<out, records, pendingPacking, inflight,
                       publicationFailed, wireDown, opPc, op, revision,
                       delivered, written>>
        /\ opPc = "run" /\ opPc # "idle"
        /\ \A x \in pendingPhase' : x \in pendingPhase \/ x.op = op
    BY DEF ReportPhase, writerVars
  <1> USE RunningUnanswered, <1>1 DEF SafetyInv
  <1>2. CurrentInv'
    BY DEF CurrentInv
  <1>3. EndedInv' /\ SweptInv'
    BY DEF EndedInv, Ended, SweptInv
  <1>4. KeptInv' /\ PromisedInv' /\ FollowsInv'
    BY DEF KeptInv, PromisedInv, Promised, FollowsInv, Latest, Succeeded, OnWire
  <1>5. TerminalLast' /\ LatestDelivered'
    BY DEF TerminalLast, LatestDelivered
  <1> QED
    BY <1>2, <1>3, <1>4, <1>5

(* The flush blocks, or promises a success when the packing got past the   *)
(* encoder.                                                                *)
LEMMA FlushStep ==
  ASSUME WireTypeOK, SafetyInv, FlushLooks \/ FlushTimesOut
  PROVE  SafetyInv'
  <1>1. /\ UNCHANGED <<out, records, pendingPhase, pendingPacking, inflight,
                       publicationFailed, wireDown, op, revision, written>>
        /\ opPc # "idle" /\ opPc' # "idle"
        /\ \/ opPc' = "flushing"
           \/ delivered' = (Flushed /\ ~wireDown /\ ~publicationFailed)
    BY DEF FlushLooks, FlushTimesOut, FlushReturns, writerVars, slotVars
  <1> USE RunningUnanswered, <1>1 DEF SafetyInv
  <1>2. CurrentInv'
    BY DEF CurrentInv
  <1>3. EndedInv' /\ SweptInv'
    BY DEF EndedInv, Ended, SweptInv, Swept
  <1>4. KeptInv' /\ FollowsInv'
    BY DEF KeptInv, FollowsInv, Latest, Succeeded, OnWire
  <1>5. PromisedInv'
    <2> SUFFICES ASSUME revision > 0, Promised', ~wireDown
                 PROVE  /\ pendingPacking = {} /\ ~inflight
                        /\ Latest \in out \/ OnWire(Latest)
      BY DEF PromisedInv, Latest, OnWire
    <2>1. opPc' = "answer" /\ delivered'
      BY DEF Promised, Succeeded, IsAnswer
    <2>2. Flushed /\ ~publicationFailed
      BY <2>1
    <2> QED
      BY <2>2 DEF Flushed, KeptInv
  <1>6. TerminalLast' /\ LatestDelivered'
    BY DEF TerminalLast, LatestDelivered
  <1> QED
    BY <1>2, <1>3, <1>4, <1>5, <1>6

(* An answer joins the queue, or the wire fails.                           *)
LEMMA SendAppends ==
  ASSUME WireTypeOK, NEW r \in Response, SendResponse(r)
  PROVE  /\ wireDown => wireDown'
         /\ \A i \in 1..Len(records') :
              \/ i \in 1..Len(records) /\ records'[i] = records[i]
              \/ records'[i] = r
  <1>1. CASE UNCHANGED records
    BY <1>1 DEF SendResponse
  <1>2. CASE records' = Append(records, r)
    BY <1>2, AppendedAll DEF SendResponse, WireTypeOK
  <1> QED
    BY <1>1, <1>2 DEF SendResponse

(* An answer ends its operation behind the last packing.                   *)
LEMMA AnswerStep ==
  ASSUME WireTypeOK, NumberedInv, SafetyInv, Answer
  PROVE  SafetyInv'
  <1>1. PICK ok \in {delivered, FALSE} :
          SendResponse([kind |-> "terminal", op |-> op, ok |-> ok])
    BY DEF Answer
  <1> DEFINE r == [kind |-> "terminal", op |-> op, ok |-> ok]
  <1>2. /\ UNCHANGED <<out, pendingPhase, pendingPacking, inflight,
                       publicationFailed, op, revision, delivered, written>>
        /\ opPc = "answer" /\ opPc # "idle" /\ opPc' = "idle"
    BY DEF Answer, writerVars, slotVars
  <1>3. op \in Nat /\ delivered \in BOOLEAN
    BY BoundsAssumption DEF WireTypeOK
  <1>4. r \in Response
    <2>1. op \in 1..MaxOps
      BY <1>2, BoundsAssumption DEF WireTypeOK, NumberedInv
    <2>2. ok \in BOOLEAN
      BY <1>1, <1>3
    <2> QED
      BY <2>1, <2>2 DEF Response, Terminal
  <1>5. /\ wireDown => wireDown'
        /\ \A i \in 1..Len(records') :
             \/ i \in 1..Len(records) /\ records'[i] = records[i]
             \/ records'[i] = r
    BY <1>1, <1>4, SendAppends
  <1> USE RunningUnanswered, <1>2 DEF SafetyInv
  <1>6. CurrentInv'
    BY DEF CurrentInv
  <1>7. EndedInv'
    BY <1>5, <1>3 DEF EndedInv, Ended
  <1>8. SweptInv'
    BY DEF SweptInv
  <1>9. KeptInv' /\ FollowsInv'
    BY DEF KeptInv, FollowsInv, Latest, Succeeded, OnWire
  <1>10. PromisedInv'
    <2>1. ASSUME NEW i \in 1..Len(records'), records'[i] = Succeeded
          PROVE  delivered
      <3>1. IsAnswer(Succeeded) /\ Succeeded.op = op
        BY DEF IsAnswer, Succeeded
      <3>2. r = Succeeded
        BY <1>5, <2>1, <3>1
      <3>3. r.ok = ok /\ Succeeded.ok = TRUE
        BY DEF Succeeded
      <3>4. ok = TRUE
        BY <3>2, <3>3
      <3> QED
        BY <1>1, <1>3, <3>4
    <2>2. Succeeded' = Succeeded
      BY DEF Succeeded
    <2>3. Promised' => Promised
      BY <2>1, <2>2 DEF Promised
    <2> QED
      BY <1>5, <2>3 DEF PromisedInv, Latest, OnWire
  <1>11. TerminalLast' /\ LatestDelivered'
    BY DEF TerminalLast, LatestDelivered
  <1> QED
    BY <1>6, <1>7, <1>8, <1>9, <1>10, <1>11

(* A refusal is no answer, and keeps the invariant.                        *)
LEMMA RejectStep ==
  ASSUME WireTypeOK, SafetyInv, Reject
  PROVE  SafetyInv'
  <1>1. Rejection \in Response /\ ~IsAnswer(Rejection) /\ Rejection # Succeeded
    BY DEF Response, Rejection, IsAnswer, Succeeded
  <1>2. /\ UNCHANGED <<out, pendingPhase, pendingPacking, inflight,
                       publicationFailed, opPc, op, revision, delivered, written>>
        /\ SendResponse(Rejection)
    BY DEF Reject, writerVars, slotVars, opVars
  <1>3. /\ wireDown => wireDown'
        /\ \A i \in 1..Len(records') :
             \/ i \in 1..Len(records) /\ records'[i] = records[i]
             \/ records'[i] = Rejection
    BY <1>1, <1>2, SendAppends
  <1> USE <1>2 DEF SafetyInv
  <1>4. CurrentInv'
    BY DEF CurrentInv
  <1>5. EndedInv' /\ SweptInv'
    BY <1>1, <1>3 DEF EndedInv, Ended, SweptInv, Swept
  <1>6. KeptInv' /\ FollowsInv'
    BY <1>3 DEF KeptInv, FollowsInv, Latest, Succeeded, OnWire
  <1>7. PromisedInv'
    <2>1. Promised' => Promised
      BY <1>1, <1>3 DEF Promised, Succeeded
    <2> QED
      BY <1>3, <2>1 DEF PromisedInv, Latest, OnWire
  <1>8. TerminalLast' /\ LatestDelivered'
    BY DEF TerminalLast, LatestDelivered
  <1> QED
    BY <1>4, <1>5, <1>6, <1>7, <1>8

-----------------------------------------------------------------------------
(* The invariant holds at first.                                           *)
LEMMA Initially == WireInit => WireInv
  <1> SUFFICES ASSUME WireInit PROVE WireInv
    OBVIOUS
  <1>1. WireTypeOK
    <2>1. /\ records \in Seq(Response) /\ written \in Seq(Record)
          /\ Len(records) <= QueueLimit
      BY BoundsAssumption DEF WireInit
    <2>2. /\ op \in 0..MaxOps /\ revision \in 0..MaxRevision
          /\ phases \in 0..MaxPhases /\ rejects \in 0..MaxRejects
      BY BoundsAssumption DEF WireInit
    <2> QED
      BY <2>1, <2>2 DEF WireInit, WireTypeOK
  <1>2. Len(records) = 0 /\ Len(written) = 0
    BY DEF WireInit
  <1>3. NumberedInv /\ TakenInv
    BY DEF WireInit, NumberedInv, TakenInv, AtMostOne
  <1>4. CurrentInv /\ EndedInv /\ SweptInv
    BY <1>2 DEF WireInit, CurrentInv, EndedInv, SweptInv
  <1>5. KeptInv /\ PromisedInv /\ FollowsInv /\ LatestDelivered
    BY DEF WireInit, KeptInv, PromisedInv, FollowsInv, LatestDelivered
  <1>6. TerminalLast
    BY <1>2 DEF TerminalLast
  <1> QED
    BY <1>1, <1>3, <1>4, <1>5, <1>6 DEF WireInv, SafetyInv

(* Every step keeps it.                                                    *)
LEMMA InvariantStep == WireInv /\ [WireNext]_wireVars => WireInv'
  <1> SUFFICES ASSUME WireTypeOK, NumberedInv, TakenInv, SafetyInv, [WireNext]_wireVars
               PROVE  SafetyInv'
    BY WireTypeStep, TakenStep DEF WireInv
  <1>1. CASE Moves
    BY <1>1, MovesInBackground, BackgroundStep
  <1>2. CASE WireEnded \/ UNCHANGED wireVars
    <2>1. UNCHANGED wireVars
      BY <1>2 DEF WireEnded
    <2>2. Background
      BY <2>1 DEF Background, wireVars
    <2> QED
      BY <2>2, BackgroundStep
  <1>3. CASE TakePacking \/ TakePhase
    BY <1>3, TakePacedStep
  <1>4. CASE TakeResponse
    BY <1>4, TakeResponseStep
  <1>5. CASE EncodingFails
    BY <1>5, EncodingFailsStep
  <1>6. CASE WriteReturns
    BY <1>6, WriteReturnsStep
  <1>7. CASE Begin
    BY <1>7, BeginStep
  <1>8. CASE Publish
    BY <1>8, PublishStep
  <1>9. CASE ReportPhase
    BY <1>9, ReportPhaseStep
  <1>10. CASE FlushLooks \/ FlushTimesOut
    BY <1>10, FlushStep
  <1>11. CASE Answer
    BY <1>11, AnswerStep
  <1>12. CASE Reject
    BY <1>12, RejectStep
  <1> QED
    BY <1>1, <1>2, <1>3, <1>4, <1>5, <1>6, <1>7, <1>8, <1>9, <1>10, <1>11,
       <1>12
       DEF WireNext, Writer, WriteEnds, Worker, Cleanup, Moves

(* In every reachable state the wire satisfies the invariant.              *)
THEOREM WireInvariant == WireSpec => []WireInv
  <1> QED
    BY Initially, InvariantStep, PTL DEF WireSpec

(* Every variable keeps its type; the queue never holds more responses     *)
(* than its limit (Session::send).                                         *)
THEOREM WireTypes == WireSpec => []WireTypeOK
  <1>1. WireInv => WireTypeOK
    BY DEF WireInv
  <1> QED
    BY <1>1, WireInvariant, PTL

(* Nothing paced follows the answer of its operation on the wire, whatever *)
(* the queue, the gate and the encoder do (writer_loop).                   *)
THEOREM AnswersComeLast == WireSpec => []TerminalLast
  <1>1. WireInv => TerminalLast
    BY DEF WireInv, SafetyInv
  <1> QED
    BY <1>1, WireInvariant, PTL

(* A successful answer follows the last packing of its run on the wire     *)
(* (flush_packing, run_operation).                                         *)
THEOREM LastPackingArrives == WireSpec => []LatestDelivered
  <1>1. WireInv => LatestDelivered
    BY DEF WireInv, SafetyInv
  <1> QED
    BY <1>1, WireInvariant, PTL
=============================================================================
