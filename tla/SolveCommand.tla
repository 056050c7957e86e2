----------------------------- MODULE SolveCommand -----------------------------
(* The command `solve` (cli/src/solve.cpp), from its arguments to its answer:  *)
(* the watcher of the stop file runs beside it, a console signal or the        *)
(* deadline may come at any time, every step may fail, and what the search has *)
(* retained is built, certified and exported under a control of its own.  The  *)
(* certification of the staged STL is QuantizedExport.                         *)
EXTENDS QuantizedExport

CONSTANTS Requests,  \* the settings and options a command may be given
          MaxFound   \* the largest count a search finds: a bound of the model

ASSUME SolveAssumption ==
  /\ Requests \subseteq [timed : BOOLEAN, total : BOOLEAN, stopFile : BOOLEAN, stl : BOOLEAN]
  /\ MaxFound \in Nat

VARIABLES
  request,       \* timed or fixed work, the budget's scope, --stop-file, --stl
  phase,         \* the step of the command
  marker,        \* the stop file: absent, a regular file, or not to be read
  watch,         \* the watcher's thread: none, polling or done
  monitorError,  \* StopFileWatcher::monitor_error_
  stop, late,    \* stop was requested; the deadline has passed
  found,         \* the count of the retained layout, or NoLayout
  why,           \* why the search ended
  seen,          \* what finish() told of the monitor after the search
  written,       \* what this command put in the result file: nothing or one
  answer         \* the terminal record and the exit code

commandVars == <<request, phase, found, why, seen, written, answer>>
watchVars == <<marker, watch, monitorError, stop, late>>
solveVars == <<commandVars, watchVars, certVars>>

NoLayout == -1

NoAnswer == [ok |-> FALSE, code |-> "none", exit |-> 0, count |-> NoLayout,
             named |-> FALSE, monitor |-> FALSE]

Init ==
  /\ request \in Requests
  /\ phase = "arguments"
  /\ marker \in {"absent", "marked", "bad"}
  /\ watch = "none" /\ monitorError = FALSE /\ stop = FALSE /\ late = FALSE
  /\ found = NoLayout /\ why = "none" /\ seen = FALSE
  /\ written = {} /\ answer = NoAnswer
  /\ CertInit
  /\ scene = (CHOOSE s \in Scenes : TRUE)
  /\ limit = (CHOOSE l \in Limits : TRUE)

-----------------------------------------------------------------------------
(* The stop file, the console and the clock *)

(* The file is written, removed or replaced while somebody may still look. *)
ChangeMarker ==
  /\ phase \in {"arguments", "watch"} \/ watch = "polling"
  /\ marker' \in {"absent", "marked", "bad"} \ {marker}
  /\ UNCHANGED <<commandVars, watch, monitorError, stop, late, certVars>>

ObserveQuietly ==
  /\ monitorError' = (monitorError \/ marker = "bad")
  /\ stop' = (stop \/ marker = "marked")

(* What the watcher makes of the file: a marker, or an error, requests stop. *)
Observe ==
  /\ monitorError' = (monitorError \/ marker = "bad")
  /\ stop' = (stop \/ marker # "absent")

(* The thread looks again until it has seen something or stop is requested. *)
WatchPoll ==
  /\ watch = "polling"
  /\ IF stop THEN UNCHANGED <<monitorError, stop>> ELSE Observe
  /\ watch' = IF stop \/ marker # "absent" THEN "done" ELSE "polling"
  /\ UNCHANGED <<commandVars, marker, late, certVars>>

ConsoleSignal ==
  /\ phase # "exited" /\ ~stop
  /\ stop' = TRUE
  /\ UNCHANGED <<commandVars, marker, watch, monitorError, late, certVars>>

(* A total budget runs from the command's start, any other from the search's. *)
HasDeadline ==
  /\ request.timed
  /\ phase = "search" \/ (request.total /\ phase \in {"start", "load", "prepare"})

DeadlinePasses ==
  /\ HasDeadline /\ ~late
  /\ late' = TRUE
  /\ UNCHANGED <<commandVars, marker, watch, monitorError, stop, certVars>>

-----------------------------------------------------------------------------
(* Answers *)

Goto(p) == phase' = p

LeaveWatcher == UNCHANGED watch

(* finish(): no more polls, the thread is joined and its error read. *)
JoinWatcher == watch' = (IF watch = "polling" THEN "done" ELSE watch)

(* failure_outcome: the monitor's failure is told with any other one, and      *)
(* instead of a cancellation.                                                  *)
FailNaming(named, code, exit) ==
  /\ JoinWatcher
  /\ answer' = [ok |-> FALSE, exit |-> exit, count |-> NoLayout,
                code |-> IF code = "OPERATION_CANCELLED" /\ monitorError
                         THEN "STOP_MONITOR_FAILED" ELSE code,
                named |-> named, monitor |-> monitorError]
  /\ Goto("exited")
  /\ UNCHANGED <<request, found, why, seen, written, marker, monitorError, stop, late, certVars>>

FailBarely(code, exit) == FailNaming(FALSE, code, exit)

(* A failure names the result file if it has been written by then. *)
Fail(code, exit) == FailNaming(written # {}, code, exit)

(* The command goes on and nothing but its own variables changes. *)
GoesOn == UNCHANGED <<request, answer, watchVars, certVars>>

-----------------------------------------------------------------------------
(* Up to the search *)

Arguments ==
  /\ phase = "arguments"
  /\ \/ Fail("INVALID_REQUEST", 2)
     \/ Goto("watch") /\ GoesOn /\ UNCHANGED <<found, why, seen, written>>

(* A marker that is already there stops the command without a thread. *)
StartWatcher ==
  /\ phase = "watch"
  /\ Goto("settings")
  /\ IF request.stopFile
     THEN Observe /\ watch' = IF marker = "absent" THEN "polling" ELSE "done"
     ELSE UNCHANGED <<watch, monitorError, stop>>
  /\ UNCHANGED <<request, found, why, seen, written, answer, marker, late, certVars>>

LoadSettings ==
  /\ phase = "settings"
  /\ \/ Fail("INVALID_SETTINGS", 2)
     \/ \E code \in {"SETTINGS_LOAD", "MEMORY_LIMIT"} : Fail(code, 3)
     \/ Goto("start") /\ GoesOn /\ UNCHANGED <<found, why, seen, written>>

(* What a poll of the operation's control answers. *)
Interruption == IF stop THEN "OPERATION_CANCELLED" ELSE "DEADLINE_EXCEEDED"

StartSolve ==
  /\ phase = "start"
  /\ IF stop \/ late THEN Fail(Interruption, 3)
     ELSE \/ \E code \in {"UNSUPPORTED_SETTINGS", "MEMORY_LIMIT"} : Fail(code, 3)
          \/ Goto("load") /\ GoesOn /\ UNCHANGED <<found, why, seen, written>>

(* The accepted assets are read and verified, polling as they are. *)
LoadAssets ==
  /\ phase = "load"
  /\ \/ (stop \/ late) /\ Fail(Interruption, 3)
     \/ \E exit \in {2, 3} : Fail("ASSET_MISMATCH", exit)
     \/ Goto("prepare") /\ GoesOn /\ UNCHANGED <<found, why, seen, written>>

(* Settings, catalog and limits are checked; a command that can be stopped by  *)
(* a file has the empty layout validated first, so that it has one to show.    *)
Prepare ==
  /\ phase = "prepare"
  /\ \/ Fail("INVALID_SETTINGS", 2)
     \/ \E code \in {"UNSUPPORTED_SETTINGS", "MEMORY_LIMIT"} : Fail(code, 3)
     \/ request.stopFile /\ Fail("SOLVE_FAILED", 3)
     \/ /\ found' = (IF request.stopFile THEN 0 ELSE NoLayout)
        /\ Goto("search") /\ GoesOn /\ UNCHANGED <<why, seen, written>>

-----------------------------------------------------------------------------
(* The search (module SpectralSearch) and what it retains *)

FindMore ==
  /\ phase = "search"
  /\ found' \in {n \in 1..MaxFound : n > found}
  /\ GoesOn /\ UNCHANGED <<phase, why, seen, written>>

EndSearch(reason) ==
  /\ why' = reason
  /\ Goto("searched") /\ GoesOn /\ UNCHANGED <<found, seen, written>>

(* A poll sees the stop or the deadline. *)
SearchInterrupted ==
  /\ phase = "search" /\ (stop \/ late)
  /\ EndSearch(IF stop THEN "user_stopped" ELSE "budget_exhausted")

SearchEnds ==
  /\ phase = "search"
  /\ \E reason \in {"search_stalled", "resource_limit", "error"}
                     \cup (IF request.timed THEN {} ELSE {"budget_exhausted"}) :
       EndSearch(reason)

(* The monitor is asked once the search is over. *)
AskMonitor ==
  /\ phase = "searched"
  /\ JoinWatcher
  /\ seen' = monitorError
  /\ Goto("retained")
  /\ UNCHANGED <<request, found, why, written, answer, marker, monitorError, stop, late, certVars>>

Retained ==
  /\ phase = "retained"
  /\ \/ /\ found = NoLayout
        /\ IF why = "resource_limit" THEN Fail("RESOURCE_LIMIT", 3)
           ELSE Fail("SOLVE_FAILED", 4)
     \/ /\ found # NoLayout
        /\ \E code \in {"RESOURCE_MEASUREMENT_FAILED", "MEMORY_LIMIT"} : Fail(code, 3)
     \/ /\ found # NoLayout
        /\ Goto("build") /\ GoesOn /\ UNCHANGED <<found, why, seen, written>>

-----------------------------------------------------------------------------
(* The export, under a control without the stop and with a deadline of its own *)

CleanupSeesStop == FALSE

(* What a poll of that control may answer. *)
CleanupInterruption ==
  IF CleanupSeesStop THEN "OPERATION_CANCELLED" ELSE "DEADLINE_EXCEEDED"

BuildFails ==
  /\ phase = "build"
  /\ \E code \in {"RESULT_VALIDATION_FAILED", "EXPORT_PATH_INVALID", CleanupInterruption} :
       Fail(code, 3)

(* The result is built around a fresh validation and put in the file, naming   *)
(* no artifact; an STL is then staged, to be certified.                        *)
Build ==
  /\ phase = "build"
  /\ written' = {[count |-> found, artifact |-> FALSE]}
  /\ IF request.stl
     THEN Goto("certify") /\ scene' \in Scenes /\ limit' \in Limits
     ELSE Goto("exported") /\ UNCHANGED <<scene, limit>>
  /\ UNCHANGED <<request, found, why, seen, answer, watchVars,
                 cpc, current, prior, ledger, meters, report>>

Certify ==
  /\ phase = "certify"
  /\ CertNext
  /\ UNCHANGED <<commandVars, watchVars>>

CertificateCode ==
  IF report.code = "OPERATION_CANCELLED" THEN CleanupInterruption ELSE report.code

CertifyFails ==
  /\ phase = "certify" /\ cpc = "done" /\ report.validity # "valid"
  /\ Fail(CertificateCode, 3)

(* The certified STL is published and the result that names it committed. *)
Commit ==
  /\ phase = "certify" /\ report.validity = "valid"
  /\ \/ \E code \in {"EXPORT_DESTINATION_EXISTS", CleanupInterruption} : Fail(code, 3)
     \/ /\ written' = {[count |-> found, artifact |-> TRUE]}
        /\ Goto("exported")
        /\ GoesOn /\ UNCHANGED <<found, why, seen>>

(* The answer after an export: an error of the monitor, then the search's own. *)
Reply ==
  /\ phase = "exported"
  /\ IF seen THEN Fail("STOP_MONITOR_FAILED", 3)
     ELSE IF why = "resource_limit" THEN Fail("RESOURCE_LIMIT", 3)
     ELSE IF why = "error" THEN Fail("SOLVE_FAILED", 4)
     ELSE /\ answer' = [ok |-> TRUE, code |-> why, exit |-> 0, count |-> found,
                        named |-> TRUE, monitor |-> FALSE]
          /\ Goto("exited")
          /\ UNCHANGED <<request, found, why, seen, written, watchVars, certVars>>

-----------------------------------------------------------------------------
CommandSteps ==
  \/ Arguments \/ StartWatcher \/ LoadSettings \/ StartSolve \/ LoadAssets \/ Prepare
  \/ SearchInterrupted \/ AskMonitor \/ Retained
  \/ BuildFails \/ Build \/ Certify \/ CertifyFails \/ Commit \/ Reply

Terminated == phase = "exited" /\ UNCHANGED solveVars

Next ==
  \/ CommandSteps \/ FindMore \/ SearchEnds
  \/ ChangeMarker \/ WatchPoll \/ ConsoleSignal \/ DeadlinePasses
  \/ Terminated

(* The command goes on, but need not end its search of its own accord; the     *)
(* watcher's thread runs and time passes.                                      *)
Spec ==
  /\ Init /\ [][Next]_solveVars
  /\ WF_solveVars(CommandSteps) /\ WF_solveVars(WatchPoll) /\ WF_solveVars(DeadlinePasses)

-----------------------------------------------------------------------------
(* The command names the result file exactly when it has replaced it, whatever *)
(* failed after that; an answer without an error says what is in it: the       *)
(* layout the search retained, with its certified STL when one was asked for;  *)
(* and a stop loses nothing that was found before it.                          *)
AnswerNamesResult ==
  phase = "exited" =>
    /\ answer.named <=> written # {}
    /\ answer.ok => /\ answer.count = found
                    /\ written = {[count |-> found, artifact |-> request.stl]}
    /\ answer.code = "OPERATION_CANCELLED" => found = NoLayout

(* A stop file that could not be read is never passed over: the command fails  *)
(* and says that its monitor did, whenever in the run it went wrong.           *)
MonitorFailureTold ==
  phase = "exited" /\ monitorError =>
    ~answer.ok /\ (answer.monitor \/ answer.code = "STOP_MONITOR_FAILED")

(* A stop, an error of the monitor and the deadline end the command. *)
CommandEnds ==
  /\ (stop \/ monitorError \/ late) ~> (phase = "exited")
  /\ request.timed => <>(phase = "exited")

=============================================================================
