---------------------------- MODULE FrontEndProofs ----------------------------
(* Proofs about the three components a user meets last, for any values of      *)
(* their constants:                                                            *)
(*   - the command `solve` (SolveCommand): what its answer says of the result  *)
(*     file, and that a failure of the stop file's monitor is told;            *)
(*   - the ledger of its certification (QuantizedExport): that the cache never *)
(*     makes memory fail which would have sufficed without it;                 *)
(*   - the publication of a result (ResultExport): a result that names an STL  *)
(*     names the bytes that lie there, and an untouched one can be read back;  *)
(*   - the window (InterfaceState): what it shows never goes back.             *)
EXTENDS SolveCommand, ResultExport, InterfaceState, FiniteSetTheorems,
        WellFoundedInduction, TLAPS

-------------------------------------------------------------------------------
(* The command: its inductive invariant.                                       *)

BeforeSearch == {"arguments", "watch", "settings", "start", "load", "prepare"}
BeforeBuild == BeforeSearch \cup {"search", "searched", "retained"}
AfterJoin == {"retained", "build", "certify", "exported"}
Phases == BeforeBuild \cup AfterJoin \cup {"exited"}

Reasons == {"user_stopped", "budget_exhausted", "search_stalled", "resource_limit",
            "error"}

(* What has been found, and what of it is in the result file.                  *)
Written ==
  /\ phase \in BeforeSearch => found = NoLayout
  /\ phase \in {"build", "certify", "exported"} => found # NoLayout
  /\ phase \in BeforeBuild \cup {"build"} => written = {}
  /\ phase = "certify" =>
       request.stl /\ written = {[count |-> found, artifact |-> FALSE]}
  /\ phase = "exported" => written = {[count |-> found, artifact |-> request.stl]}

(* Once the watcher is joined its error is known and cannot change.            *)
Monitored ==
  /\ phase \in AfterJoin \cup {"exited"} => watch # "polling"
  /\ phase \in AfterJoin => seen = monitorError

SolveInv ==
  /\ request \in Requests
  /\ phase \in Phases
  /\ phase \in {"searched"} \cup AfterJoin => why \in Reasons
  /\ Written
  /\ Monitored
  /\ AnswerNamesResult
  /\ MonitorFailureTold

-------------------------------------------------------------------------------
(* Every step keeps it.                                                        *)

(* A failure names the file if it is written, and tells of the monitor.        *)
LEMMA FailKeeps ==
  ASSUME SolveInv, NEW code, NEW exit, Fail(code, exit),
         code = "OPERATION_CANCELLED" => found = NoLayout
  PROVE  SolveInv'
  <1>1. /\ watch' # "polling" /\ phase' = "exited"
        /\ UNCHANGED <<request, found, written, monitorError>>
    BY DEF Fail, FailNaming, JoinWatcher, Goto
  <1>2. PICK c : c = IF code = "OPERATION_CANCELLED" /\ monitorError
                       THEN "STOP_MONITOR_FAILED" ELSE code
    OBVIOUS
  <1>3. answer' = [ok |-> FALSE, exit |-> exit, count |-> NoLayout, code |-> c,
                   named |-> written # {}, monitor |-> monitorError]
    BY <1>2 DEF Fail, FailNaming
  <1>4. /\ answer'.ok = FALSE /\ answer'.code = c /\ answer'.named = (written # {})
        /\ answer'.monitor = monitorError
    BY <1>3
  <1>5. AnswerNamesResult'
    BY <1>1, <1>2, <1>4 DEF AnswerNamesResult
  <1>6. MonitorFailureTold'
    BY <1>1, <1>4 DEF MonitorFailureTold
  <1>7. phase' \in Phases /\ phase' \notin BeforeBuild \cup AfterJoin
    BY <1>1 DEF Phases, BeforeBuild, BeforeSearch, AfterJoin
  <1> QED
    BY <1>1, <1>5, <1>6, <1>7
       DEF SolveInv, Written, Monitored, BeforeBuild, AfterJoin

(* A step that goes on without an answer.                                      *)
LEMMA StillRunning ==
  ASSUME phase' # "exited"
  PROVE  AnswerNamesResult' /\ MonitorFailureTold'
  BY DEF AnswerNamesResult, MonitorFailureTold

(* Parsing the arguments keeps the invariant.                              *)
LEMMA ArgumentsKeeps ==
  ASSUME SolveInv, Arguments
  PROVE  SolveInv'
  <1>1. CASE \E code, exit : Fail(code, exit)
    <2>1. PICK code, exit : Fail(code, exit)
      BY <1>1
    <2>2. found = NoLayout
      BY DEF Arguments, SolveInv, Written, BeforeSearch
    <2> QED
      BY <2>1, <2>2, FailKeeps
  <1>2. CASE Goto("watch") /\ GoesOn /\ UNCHANGED <<found, why, seen, written>>
    BY <1>2, StillRunning DEF Arguments, SolveInv, Written, Monitored, GoesOn, Goto,
      commandVars, watchVars,
       Phases, BeforeBuild, BeforeSearch, AfterJoin
  <1> QED
    BY <1>1, <1>2 DEF Arguments

(* LoadSettings keeps the invariant.                                       *)
LEMMA LoadSettingsKeeps ==
  ASSUME SolveInv, LoadSettings
  PROVE  SolveInv'
  <1>1. CASE \E code, exit : Fail(code, exit)
    <2>1. PICK code, exit : Fail(code, exit)
      BY <1>1
    <2>2. found = NoLayout
      BY DEF LoadSettings, SolveInv, Written, BeforeSearch
    <2> QED
      BY <2>1, <2>2, FailKeeps
  <1>2. CASE Goto("start") /\ GoesOn /\ UNCHANGED <<found, why, seen, written>>
    BY <1>2, StillRunning DEF LoadSettings, SolveInv, Written, Monitored, GoesOn, Goto,
      commandVars, watchVars,
       Phases, BeforeBuild, BeforeSearch, AfterJoin
  <1> QED
    BY <1>1, <1>2 DEF LoadSettings

(* StartSolve keeps the invariant.                                         *)
LEMMA StartSolveKeeps ==
  ASSUME SolveInv, StartSolve
  PROVE  SolveInv'
  <1>1. CASE \E code, exit : Fail(code, exit)
    <2>1. PICK code, exit : Fail(code, exit)
      BY <1>1
    <2>2. found = NoLayout
      BY DEF StartSolve, SolveInv, Written, BeforeSearch
    <2> QED
      BY <2>1, <2>2, FailKeeps
  <1>2. CASE Goto("load") /\ GoesOn /\ UNCHANGED <<found, why, seen, written>>
    BY <1>2, StillRunning DEF StartSolve, SolveInv, Written, Monitored, GoesOn, Goto,
      commandVars, watchVars,
       Phases, BeforeBuild, BeforeSearch, AfterJoin
  <1> QED
    BY <1>1, <1>2 DEF StartSolve

(* LoadAssets keeps the invariant.                                         *)
LEMMA LoadAssetsKeeps ==
  ASSUME SolveInv, LoadAssets
  PROVE  SolveInv'
  <1>1. CASE \E code, exit : Fail(code, exit)
    <2>1. PICK code, exit : Fail(code, exit)
      BY <1>1
    <2>2. found = NoLayout
      BY DEF LoadAssets, SolveInv, Written, BeforeSearch
    <2> QED
      BY <2>1, <2>2, FailKeeps
  <1>2. CASE Goto("prepare") /\ GoesOn /\ UNCHANGED <<found, why, seen, written>>
    BY <1>2, StillRunning DEF LoadAssets, SolveInv, Written, Monitored, GoesOn, Goto,
      commandVars, watchVars,
       Phases, BeforeBuild, BeforeSearch, AfterJoin
  <1> QED
    BY <1>1, <1>2 DEF LoadAssets

(* Prepare keeps the invariant.                                            *)
LEMMA PrepareKeeps ==
  ASSUME SolveInv, Prepare
  PROVE  SolveInv'
  <1>1. CASE \E code, exit : Fail(code, exit)
    <2>1. PICK code, exit : Fail(code, exit)
      BY <1>1
    <2>2. found = NoLayout
      BY DEF Prepare, SolveInv, Written, BeforeSearch
    <2> QED
      BY <2>1, <2>2, FailKeeps
  <1>2. CASE /\ found' = (IF request.stopFile THEN 0 ELSE NoLayout)
               /\ Goto("search") /\ GoesOn /\ UNCHANGED <<why, seen, written>>
    BY <1>2, StillRunning DEF Prepare, SolveInv, Written, Monitored, GoesOn, Goto,
      commandVars, watchVars,
       Phases, BeforeBuild, BeforeSearch, AfterJoin
  <1> QED
    BY <1>1, <1>2 DEF Prepare

(* Retained keeps the invariant.                                           *)
LEMMA RetainedKeeps ==
  ASSUME SolveInv, Retained
  PROVE  SolveInv'
  <1>1. CASE \E code \in {"RESOURCE_LIMIT", "SOLVE_FAILED", "MEMORY_LIMIT",
                          "RESOURCE_MEASUREMENT_FAILED"} : \E exit : Fail(code, exit)
    BY <1>1, FailKeeps
  <1>2. CASE /\ found # NoLayout /\ Goto("build") /\ GoesOn
             /\ UNCHANGED <<found, why, seen, written>>
    BY <1>2, StillRunning DEF Retained, SolveInv, Written, Monitored, GoesOn, Goto,
      commandVars, watchVars,
       Phases, BeforeBuild, BeforeSearch, AfterJoin
  <1> QED
    BY <1>1, <1>2 DEF Retained

(* BuildFails keeps the invariant.                                         *)
LEMMA BuildFailsKeeps ==
  ASSUME SolveInv, BuildFails
  PROVE  SolveInv'
  <1>1. PICK code \in {"RESULT_VALIDATION_FAILED", "EXPORT_PATH_INVALID",
                      "DEADLINE_EXCEEDED"} : Fail(code, 3)
    BY DEF BuildFails, CleanupInterruption, CleanupSeesStop
  <1> QED
    BY <1>1, FailKeeps

(* CertifyFails keeps the invariant.                                       *)
LEMMA CertifyFailsKeeps ==
  ASSUME SolveInv, CertifyFails
  PROVE  SolveInv'
  <1>1. CertificateCode # "OPERATION_CANCELLED"
    BY DEF CertificateCode, CleanupInterruption, CleanupSeesStop
  <1>2. PICK code : code = CertificateCode
    OBVIOUS
  <1> QED
    BY <1>1, <1>2, FailKeeps DEF CertifyFails

(* The commit of a result says what it wrote.                              *)
LEMMA CommitKeeps ==
  ASSUME SolveInv, Commit
  PROVE  SolveInv'
  <1>1. CASE \E code \in {"EXPORT_DESTINATION_EXISTS", CleanupInterruption} : Fail(code, 3)
    <2>1. PICK code \in {"EXPORT_DESTINATION_EXISTS", "DEADLINE_EXCEEDED"} : Fail(code, 3)
      BY <1>1 DEF CleanupInterruption, CleanupSeesStop
    <2> QED
      BY <2>1, FailKeeps
  <1>2. CASE /\ written' = {[count |-> found, artifact |-> TRUE]}
             /\ Goto("exported") /\ GoesOn /\ UNCHANGED <<found, why, seen>>
    <2>1. request.stl /\ request.stl \in BOOLEAN
      BY SolveAssumption DEF Commit, SolveInv, Written
    <2>2. request.stl = TRUE
      BY <2>1
    <2> QED
      BY <1>2, <2>2, StillRunning DEF Commit, SolveInv, Written, Monitored, GoesOn,
        Goto, commandVars, watchVars,
       Phases, BeforeBuild, BeforeSearch, AfterJoin
  <1> QED
    BY <1>1, <1>2 DEF Commit

(* The answer says what was committed, and what the watcher met.           *)
LEMMA ReplyKeeps ==
  ASSUME SolveInv, Reply
  PROVE  SolveInv'
  <1>1. CASE \E code \in {"STOP_MONITOR_FAILED", "RESOURCE_LIMIT", "SOLVE_FAILED"},
    exit \in {3, 4} :
             Fail(code, exit)
    BY <1>1, FailKeeps
  <1>2. CASE /\ ~ seen /\ why \notin {"resource_limit", "error"}
             /\ answer' = [ok |-> TRUE, code |-> why, exit |-> 0, count |-> found,
                           named |-> TRUE, monitor |-> FALSE]
             /\ Goto("exited")
             /\ UNCHANGED <<request, found, why, seen, written, watchVars, certVars>>
    <2>1. /\ phase = "exported" /\ phase' = "exited"
          /\ UNCHANGED <<request, found, written, watch, monitorError>>
      BY <1>2 DEF Reply, Goto, watchVars
    <2>2. /\ why \in Reasons /\ monitorError = seen /\ watch # "polling"
          /\ written = {[count |-> found, artifact |-> request.stl]}
      BY <2>1 DEF SolveInv, Written, Monitored, AfterJoin
    <2>3. /\ answer'.ok = TRUE /\ answer'.code = why /\ answer'.count = found
          /\ answer'.named = TRUE
      BY <1>2
    <2>4. AnswerNamesResult'
      BY <2>1, <2>2, <2>3 DEF AnswerNamesResult, Reasons
    <2>5. MonitorFailureTold'
      BY <1>2, <2>1, <2>2 DEF MonitorFailureTold
    <2>6. phase' \in Phases /\ phase' \notin BeforeBuild \cup AfterJoin
      BY <2>1 DEF Phases, BeforeBuild, BeforeSearch, AfterJoin
    <2> QED
      BY <2>1, <2>2, <2>4, <2>5, <2>6 DEF SolveInv, Written, Monitored, BeforeBuild,
        AfterJoin
  <1> QED
    BY <1>1, <1>2 DEF Reply

(* Every step keeps the invariant.                                         *)
LEMMA SolveKept ==
  ASSUME SolveInv, [Next]_solveVars
  PROVE  SolveInv'
  <1> USE StillRunning
  <1>1. CASE Arguments
    BY <1>1, ArgumentsKeeps
  <1>2. CASE StartWatcher
    BY <1>2 DEF StartWatcher, Observe, SolveInv, Written, Monitored, GoesOn, Goto,
      commandVars, watchVars,
       Phases, BeforeBuild, BeforeSearch, AfterJoin
  <1>3. CASE LoadSettings
    BY <1>3, LoadSettingsKeeps
  <1>4. CASE StartSolve
    BY <1>4, StartSolveKeeps
  <1>5. CASE LoadAssets
    BY <1>5, LoadAssetsKeeps
  <1>6. CASE Prepare
    BY <1>6, PrepareKeeps
  <1>7. CASE SearchInterrupted
    BY <1>7 DEF SearchInterrupted, EndSearch, Reasons, SolveInv, Written, Monitored,
      GoesOn, Goto, commandVars, watchVars,
       Phases, BeforeBuild, BeforeSearch, AfterJoin
  <1>8. CASE AskMonitor
    BY <1>8 DEF AskMonitor, JoinWatcher, SolveInv, Written, Monitored, GoesOn, Goto,
      commandVars, watchVars,
       Phases, BeforeBuild, BeforeSearch, AfterJoin
  <1>9. CASE Retained
    BY <1>9, RetainedKeeps
  <1>10. CASE BuildFails
    BY <1>10, BuildFailsKeeps
  <1>11. CASE Build
    <2>1. request.stl \in BOOLEAN
      BY SolveAssumption DEF SolveInv
    <2>2. /\ phase = "build" /\ written' = {[count |-> found, artifact |-> FALSE]}
          /\ UNCHANGED <<request, found, why, seen, watch, monitorError>>
          /\ \/ request.stl /\ phase' = "certify"
             \/ ~ request.stl /\ phase' = "exported"
      BY <1>11 DEF Build, Goto, watchVars
    <2>3. request.stl = FALSE \/ request.stl
      BY <2>1
    <2> QED
      BY <2>2, <2>3 DEF SolveInv, Written, Monitored, GoesOn, Goto, commandVars, watchVars,
       Phases, BeforeBuild, BeforeSearch, AfterJoin
  <1>12. CASE Certify
    BY <1>12 DEF Certify, SolveInv, Written, Monitored, GoesOn, Goto, commandVars,
      watchVars,
       Phases, BeforeBuild, BeforeSearch, AfterJoin
  <1>13. CASE CertifyFails
    BY <1>13, CertifyFailsKeeps
  <1>14. CASE Commit
    BY <1>14, CommitKeeps
  <1>15. CASE Reply
    BY <1>15, ReplyKeeps
  <1>16. CASE FindMore
    BY <1>16 DEF FindMore, SolveInv, Written, Monitored, GoesOn, Goto, commandVars,
      watchVars,
       Phases, BeforeBuild, BeforeSearch, AfterJoin
  <1>17. CASE SearchEnds
    BY <1>17 DEF SearchEnds, EndSearch, Reasons, SolveInv, Written, Monitored, GoesOn,
      Goto, commandVars, watchVars,
       Phases, BeforeBuild, BeforeSearch, AfterJoin
  <1>18. CASE ChangeMarker
    BY <1>18 DEF ChangeMarker, AnswerNamesResult, MonitorFailureTold, SolveInv,
      Written, Monitored, GoesOn, Goto, commandVars, watchVars,
       Phases, BeforeBuild, BeforeSearch, AfterJoin
  <1>19. CASE WatchPoll
    <2>1. /\ watch = "polling" /\ watch' \in {"done", "polling"}
          /\ UNCHANGED <<request, phase, found, why, seen, written, answer>>
      BY <1>19 DEF WatchPoll, commandVars
    <2>2. phase \notin AfterJoin \cup {"exited"}
      BY <2>1 DEF SolveInv, Monitored
    <2> QED
      BY <2>1, <2>2 DEF SolveInv, Written, Monitored, GoesOn, Goto, commandVars, watchVars,
       Phases, BeforeBuild, BeforeSearch, AfterJoin
  <1>20. CASE ConsoleSignal
    BY <1>20 DEF ConsoleSignal, SolveInv, Written, Monitored, GoesOn, Goto,
      commandVars, watchVars,
       Phases, BeforeBuild, BeforeSearch, AfterJoin
  <1>21. CASE DeadlinePasses
    BY <1>21 DEF DeadlinePasses, HasDeadline, SolveInv, Written, Monitored, GoesOn,
      Goto, commandVars, watchVars,
       Phases, BeforeBuild, BeforeSearch, AfterJoin
  <1>22. CASE Terminated
    BY <1>22 DEF Terminated, solveVars, AnswerNamesResult, MonitorFailureTold,
      SolveInv, Written, Monitored, GoesOn, Goto, commandVars, watchVars,
       Phases, BeforeBuild, BeforeSearch, AfterJoin
  <1>23. CASE UNCHANGED solveVars
    BY <1>23 DEF solveVars, AnswerNamesResult, MonitorFailureTold, SolveInv, Written,
      Monitored, GoesOn, Goto, commandVars, watchVars,
       Phases, BeforeBuild, BeforeSearch, AfterJoin
  <1> QED
    BY <1>1, <1>2, <1>3, <1>4, <1>5, <1>6, <1>7, <1>8, <1>9,
       <1>10, <1>11, <1>12, <1>13, <1>14, <1>15, <1>16, <1>17, <1>18,
       <1>19, <1>20, <1>21, <1>22, <1>23 DEF Next, CommandSteps

-------------------------------------------------------------------------------
(* The theorems.                                                               *)

(* The invariant holds in every reachable state.                               *)
THEOREM SolveInvariant == Spec => []SolveInv
  <1>1. Init => SolveInv
    BY DEF Init, SolveInv, Written, Monitored, AnswerNamesResult, MonitorFailureTold,
       Phases, BeforeBuild, BeforeSearch, AfterJoin
  <1>2. SolveInv /\ [Next]_solveVars => SolveInv'
    BY SolveKept
  <1> QED
    BY <1>1, <1>2, PTL DEF Spec

(* The answer names the result file exactly when the command wrote it, says    *)
(* what is in it, and no stop loses what was found before it (solve.cpp).      *)
THEOREM AnswersAreTrue == Spec => []AnswerNamesResult
  <1>1. SolveInv => AnswerNamesResult
    BY DEF SolveInv
  <1> QED
    BY <1>1, SolveInvariant, PTL

(* A stop file that could not be read fails the command, whenever it was       *)
(* (StopFileWatcher, failure_outcome).                                         *)
THEOREM MonitorIsHeard == Spec => []MonitorFailureTold
  <1>1. SolveInv => MonitorFailureTold
    BY DEF SolveInv
  <1> QED
    BY <1>1, SolveInvariant, PTL

-------------------------------------------------------------------------------
(* Sums.  Induction is by the least counterexample: NatLeast follows from the  *)
(* well-foundedness of < on Nat, whose theorems take no operator.              *)

(* A set of naturals that is not empty has a least element.                    *)
LEMMA NatLeast ==
  ASSUME NEW T \in SUBSET Nat, T # {}
  PROVE  \E m \in T : \A n \in T : m <= n
  <1> DEFINE R == OpToRel(<, Nat)
  <1>1. IsWellFoundedOn(R, Nat)
    BY NatLessThanWellFounded
  <1>2. PICK m \in T : \A n \in T : ~ (<<n, m>> \in R)
    <2> HIDE DEF R
    <2> QED BY <1>1, WFMin
  <1>3. \A n \in T : ~ (n < m)
    BY <1>2 DEF OpToRel
  <1> QED
    BY <1>3

(* A sum over a finite set of equal terms is a product.                      *)
LEMMA SumOfEquals ==
  ASSUME NEW f, NEW T, IsFiniteSet(T), NEW C \in Nat, \A i \in T : f[i] = C
  PROVE  SumFunctionOnSet(f, T) = Cardinality(T) * C
  <1> DEFINE pick(s) == CHOOSE x \in s : TRUE
             Step(g) == [s \in SUBSET T |-> IF s = {} THEN 0 ELSE f[pick(s)] + g[s \ {pick(s)}]]
             iter == CHOOSE g : g = Step(g)
             direct == [s \in SUBSET T |-> Cardinality(s) * C]
  <1>1. SumFunctionOnSet(f, T) = iter[T]
    BY DEF SumFunctionOnSet, FoldFunctionOnSet, MapThenFoldSet
  <1>2. ASSUME NEW s \in SUBSET T
        PROVE  /\ IsFiniteSet(s) /\ Cardinality(s) \in Nat
               /\ s # {} => /\ pick(s) \in s /\ f[pick(s)] = C
                            /\ s \ {pick(s)} \in SUBSET T
                            /\ Cardinality(s \ {pick(s)}) = Cardinality(s) - 1
    <2>1. IsFiniteSet(s) /\ Cardinality(s) \in Nat
      BY FS_Subset, FS_CardinalityType
    <2>2. ASSUME s # {}
          PROVE  pick(s) \in s
      BY <2>2
    <2> HIDE DEF pick
    <2> QED
      BY <2>1, <2>2, FS_RemoveElement
  <1>3. direct = Step(direct)
    <2>1. ASSUME NEW s \in SUBSET T
          PROVE  direct[s] = Step(direct)[s]
      <3>1. CASE s = {}
        BY <3>1, FS_EmptySet
      <3>2. CASE s # {}
        <4>1. Step(direct)[s] = C + (Cardinality(s) - 1) * C
          <5> HIDE DEF pick
          <5> QED
            BY <3>2, <1>2
        <4>2. Cardinality(s) \in Nat
          BY <1>2
        <4> QED
          BY <4>1, <4>2
      <3> QED
        BY <3>1, <3>2
    <2> HIDE DEF pick
    <2> QED
      BY <2>1
  <1>4. iter = Step(iter)
    BY <1>3
  <1> HIDE DEF iter
  <1>5. ASSUME NEW s \in SUBSET T
        PROVE  iter[s] = IF s = {} THEN 0 ELSE f[pick(s)] + iter[s \ {pick(s)}]
    <2> HIDE DEF pick
    <2> QED
      BY <1>4
  <1> HIDE DEF pick, Step
  <1> DEFINE wrong == {Cardinality(s) : s \in {r \in SUBSET T : iter[r] # Cardinality(r) * C}}
  <1>6. wrong = {}
    <2>1. SUFFICES ASSUME wrong # {} PROVE FALSE
      OBVIOUS
    <2>2. wrong \in SUBSET Nat
      BY <1>2
    <2>3. PICK n \in wrong : \A m \in wrong : n <= m
      <3> HIDE DEF wrong
      <3> QED
        BY <2>1, <2>2, NatLeast
    <2>4. PICK s \in SUBSET T : iter[s] # Cardinality(s) * C /\ n = Cardinality(s)
      BY <2>3
    <2>5. CASE s = {}
      <3>1. iter[s] = 0 /\ Cardinality(s) = 0
        BY <2>5, <1>5, FS_EmptySet
      <3>2. Cardinality(s) * C = 0
        BY <3>1
      <3> QED
        BY <3>1, <3>2, <2>4
    <2>6. CASE s # {}
      <3> DEFINE less == s \ {pick(s)}
      <3>1. less \in SUBSET T /\ Cardinality(less) = n - 1
        BY <2>6, <2>4, <1>2
      <3>2. iter[s] = C + iter[less]
        BY <2>6, <1>5, <1>2
      <3>3. n \in Nat
        BY <2>3, <2>2
      <3>4. iter[less] = Cardinality(less) * C
        <4>1. SUFFICES ASSUME iter[less] # Cardinality(less) * C PROVE FALSE
          OBVIOUS
        <4>2. Cardinality(less) \in wrong
          BY <4>1, <3>1
        <4> QED
          BY <4>2, <3>1, <3>3, <2>3
      <3>5. iter[s] = C + (n - 1) * C
        BY <3>1, <3>2, <3>4
      <3>6. C + (n - 1) * C = n * C
        BY <3>3
      <3>7. iter[s] = n * C
        BY <3>5, <3>6
      <3> QED
        BY <3>7, <2>4
    <2> QED
      BY <2>5, <2>6
  <1>7. T \in SUBSET T
    OBVIOUS
  <1> QED
    BY <1>1, <1>6, <1>7

-------------------------------------------------------------------------------
(* The certification's ledger.                                                 *)

(* The memory an uncached certification needs is there.                        *)
Roomy == UncachedNeed <= limit.memory

IsCached(c) == \E i \in DOMAIN kept : kept[i] = c

(* What is leased besides the cache.                                           *)
Resident ==
  (IF cpc = "admit" THEN 0 ELSE SourceBytes) + held.current + held.reread
    + (IF cpc = "import" THEN ReaderBytes ELSE 0)

(* Every cached copy was certified before the current one, is there once, and  *)
(* its lease is what a copy costs; together they are within the cache's share. *)
CacheOf(k, l) ==
  /\ k \in Seq(CopyIds) /\ l \in [CopyIds -> Nat]
  /\ \A i \in DOMAIN k : l[k[i]] = CopyBytes /\ k[i] < current
  /\ \A i, j \in DOMAIN k : k[i] = k[j] => i = j
  /\ k # <<>> => Len(k) * CopyBytes <= CacheBytes

(* What the copy at work, and one that is reread, have leased in each step.    *)
Holding ==
  /\ cpc \in {"admit", "read", "import", "place", "contain", "next", "pair", "keep"}
  /\ current \in CopyIds /\ prior \in 1 .. current
  /\ pinned \in Nat /\ held \in [current : Nat, reread : Nat]
  /\ cpc \in {"admit", "contain"} => prior = current
  /\ cpc = "pair" => prior < current
  /\ cpc = "keep" => prior > 1 /\ pinned = prior - 1
  /\ cpc \in {"read", "import", "place", "pair"} /\ prior < current =>
       scene.apart # PairIds /\ pinned = prior
  /\ cpc = "keep" => held.reread = CopyBytes
  /\ cpc = "pair" => held.reread = CopyBytes \/ (held.reread = 0 /\ IsCached(pinned))
  /\ cpc \in {"admit", "read", "import", "place", "contain", "keep"} \/ held.reread # 0 =>
       ~ IsCached(pinned)
  /\ cpc \in {"contain", "next", "pair", "keep"} \/ prior < current =>
       held.current = CopyBytes
  /\ cpc = "place" => IF prior < current THEN held.reread = AcceptedBytes
                      ELSE held.current = AcceptedBytes
  /\ cpc \in {"admit", "read", "import"} /\ prior = current => held.current = 0
  /\ cpc \in {"admit", "read", "import", "contain", "next"} \/ (cpc = "place" /\ prior = current) =>
       held.reread = 0

Ledger ==
  /\ Holding
  /\ CacheOf(kept, lease)
  /\ live = Resident + Len(kept) * CopyBytes

(* Nothing is leased before the certification starts.                          *)
Idle ==
  /\ current = 1 /\ prior = 1 /\ live = 0 /\ kept = <<>> /\ pinned = 0
  /\ lease = [c \in CopyIds |-> 0] /\ held = [current |-> 0, reread |-> 0]
  /\ report = NoReport

CertInv ==
  /\ scene \in Scenes /\ limit \in Limits
  /\ cpc = "admit" => Idle
  /\ Roomy => report.code # "EXPORT_MEMORY_LIMIT" /\ (cpc # "done" => Ledger)

(* Nothing is certified before the result is built.                            *)
CommandInv ==
  /\ CertInv
  /\ phase \in BeforeBuild \cup {"build"} => cpc = "admit"

-------------------------------------------------------------------------------
(* Sizes.                                                                      *)

(* What a copy costs.                                                          *)
LEMMA Sizes ==
  /\ SourceBytes \in Nat /\ ReaderBytes \in Nat /\ ImportBytes \in Nat
  /\ AcceptedBytes \in Nat /\ PlacedBytes \in Nat /\ WallBytes \in Nat
  /\ CompareBytes \in Nat /\ CopyBytes \in Nat
  /\ CopyBytes = AcceptedBytes + PlacedBytes /\ Copies \in Nat
  BY CertAssumption DEF CopyBytes

(* The largest of two or four numbers.                                         *)
LEMMA Largest ==
  ASSUME NEW a \in Int, NEW b \in Int, NEW c \in Int, NEW d \in Int,
         NEW T, T = {a, b} \/ T = {a, b} \cup {c, d}
  PROVE  Max(T) \in Int /\ \A x \in T : x <= Max(T)
  <1>1. \E x \in T : \A y \in T : x >= y
    <2>1. CASE T = {a, b}
      BY <2>1
    <2>2. CASE T = {a, b} \cup {c, d}
      <3>1. PICK x \in {a, b} : x >= a /\ x >= b
        OBVIOUS
      <3>2. PICK y \in {c, d} : y >= c /\ y >= d
        OBVIOUS
      <3>3. CASE x >= y
        <4>1. \A z \in T : x >= z
          BY <2>2, <3>1, <3>2, <3>3
        <4> QED
          BY <2>2, <4>1
      <3>4. CASE y >= x
        <4>1. \A z \in T : y >= z
          BY <2>2, <3>1, <3>2, <3>4
        <4> QED
          BY <2>2, <4>1
      <3> QED
        BY <3>3, <3>4
    <2> QED
      BY <2>1, <2>2
  <1>2. Max(T) \in T /\ \A y \in T : Max(T) >= y
    BY <1>1 DEF Max
  <1>3. T \subseteq Int
    OBVIOUS
  <1>4. Max(T) \in Int /\ \A x \in T : x \in Int
    BY <1>2, <1>3
  <1> QED
    BY <1>2, <1>4

(* The need is a size.                                                         *)
LEMMA NeedInt ==
  UncachedNeed \in Int
  <1> DEFINE a == LoadBytes
             b == CopyBytes + WallBytes
             c == CopyBytes + LoadBytes
             d == 2 * CopyBytes + CompareBytes
             T == IF scene.apart = PairIds THEN {a, b} ELSE {a, b} \cup {c, d}
  <1>1. a \in Int /\ b \in Int /\ c \in Int /\ d \in Int /\ SourceBytes \in Int
    BY Sizes DEF LoadBytes
  <1>2. T = {a, b} \/ T = {a, b} \cup {c, d}
    OBVIOUS
  <1>3. UncachedNeed = SourceBytes + Max(T)
    BY DEF UncachedNeed
  <1> HIDE DEF a, b, c, d, T
  <1>4. Max(T) \in Int
    BY <1>1, <1>2, Largest
  <1> QED
    BY <1>1, <1>3, <1>4

(* With room for an uncached certification, each of its steps fits.            *)
LEMMA RoomForSteps ==
  ASSUME Roomy, limit \in Limits
  PROVE  /\ limit.memory \in Nat
         /\ SourceBytes + LoadBytes <= limit.memory
         /\ SourceBytes + CopyBytes + WallBytes <= limit.memory
         /\ scene.apart # PairIds =>
              /\ SourceBytes + CopyBytes + LoadBytes <= limit.memory
              /\ SourceBytes + 2 * CopyBytes + CompareBytes <= limit.memory
  <1> DEFINE a == LoadBytes
             b == CopyBytes + WallBytes
             c == CopyBytes + LoadBytes
             d == 2 * CopyBytes + CompareBytes
  <1>1. a \in Nat /\ b \in Nat /\ c \in Nat /\ d \in Nat /\ CopyBytes \in Nat /\ SourceBytes \in Nat
        /\ LoadBytes \in Nat /\ WallBytes \in Nat /\ CompareBytes \in Nat
    BY Sizes DEF LoadBytes
  <1>2. limit.memory \in Nat
    BY CertAssumption
  <1>3. ASSUME NEW T, T = {a, b} \/ T = {a, b} \cup {c, d}
        PROVE  Max(T) \in Int /\ \A x \in T : x <= Max(T)
    <2> HIDE DEF a, b, c, d
    <2> QED
      BY <1>1, <1>3, Largest
  <1>4. CASE scene.apart = PairIds
    <2>1. UncachedNeed = SourceBytes + Max({a, b})
      BY <1>4 DEF UncachedNeed
    <2>2. Max({a, b}) \in Int /\ a <= Max({a, b}) /\ b <= Max({a, b})
      <3> HIDE DEF a, b
      <3> QED
        BY <1>3
    <2> HIDE DEF a, b
    <2>3. SourceBytes + a <= limit.memory /\ SourceBytes + b <= limit.memory
      BY <2>1, <2>2, <1>1, <1>2 DEF Roomy
    <2> QED
      BY <2>3, <1>1, <1>2, <1>4 DEF a, b
  <1>5. CASE scene.apart # PairIds
    <2> DEFINE T == {a, b} \cup {c, d}
    <2>1. UncachedNeed = SourceBytes + Max(T)
      BY <1>5 DEF UncachedNeed
    <2>2. Max(T) \in Int /\ a <= Max(T) /\ b <= Max(T) /\ c <= Max(T) /\ d <= Max(T)
      <3> HIDE DEF a, b, c, d
      <3> QED
        BY <1>3
    <2> HIDE DEF a, b, c, d, T
    <2>3. /\ SourceBytes + a <= limit.memory /\ SourceBytes + b <= limit.memory
          /\ SourceBytes + c <= limit.memory /\ SourceBytes + d <= limit.memory
      BY <2>1, <2>2, <1>1, <1>2 DEF Roomy
    <2> QED
      BY <2>3, <1>1, <1>2 DEF a, b, c, d
  <1> QED
    BY <1>4, <1>5

(* The cache's share is a quarter of what the source leaves.                   *)
LEMMA CacheShare ==
  ASSUME limit \in Limits
  PROVE  /\ limit.memory \in Nat /\ CacheBytes \in Int
         /\ 4 * CacheBytes <= limit.memory - SourceBytes
  BY CertAssumption, Sizes DEF CacheBytes

(* Products of a count and a size.                                             *)
LEMMA Products ==
  ASSUME NEW m \in Nat, NEW n \in Nat, m <= n, NEW size \in Nat
  PROVE  /\ m * size \in Nat /\ n * size \in Nat
         /\ (n - m) * size = n * size - m * size
         /\ (n + 1) * size = n * size + size
         /\ m * size <= n * size
  <1>1. m * size \in Nat /\ n * size \in Nat /\ (n - m) * size \in Nat
    OBVIOUS
  <1>2. (n - m) * size = n * size - m * size
    OBVIOUS
  <1>3. (n + 1) * size = n * size + size
    OBVIOUS
  <1> QED
    BY <1>1, <1>2, <1>3
-------------------------------------------------------------------------------
(* Evicting the first copies of the cache.                                     *)

(* Leases of cached copies are alike: a set of places holds so many sizes.     *)
LEMMA LeasesAlike ==
  ASSUME CacheOf(kept, lease), NEW places \in SUBSET DOMAIN kept
  PROVE  /\ IsFiniteSet(places) /\ Cardinality(places) \in Nat
         /\ LeaseOf(places) = Cardinality(places) * CopyBytes
  <1>1. DOMAIN kept = 1 .. Len(kept) /\ Len(kept) \in Nat
    BY DEF CacheOf
  <1>2. IsFiniteSet(places)
    <2>1. IsFiniteSet(1 .. Len(kept))
      BY <1>1, FS_Interval
    <2> QED
      BY <1>1, <2>1, FS_Subset
  <1>3. \A i \in places : [j \in DOMAIN kept |-> lease[kept[j]]][i] = CopyBytes
    BY DEF CacheOf
  <1>4. LeaseOf(places) = Cardinality(places) * CopyBytes
    BY <1>2, <1>3, SumOfEquals, Sizes DEF LeaseOf
  <1> QED
    BY <1>2, <1>4, FS_CardinalityType

(* Among the first n places is the pinned copy's, or it is not.                *)
PinnedAmong(n) == \E i \in 1 .. n : kept[i] = pinned

(* Evicting from the first n places frees all of them but the pinned one's.    *)
LEMMA FreedBytes ==
  ASSUME CacheOf(kept, lease), NEW n \in 0 .. Len(kept)
  PROVE  /\ PinnedAmong(n) => n > 0 /\ Freed(n) = (n - 1) * CopyBytes
         /\ ~ PinnedAmong(n) => Freed(n) = n * CopyBytes
  <1>1. DOMAIN kept = 1 .. Len(kept) /\ Len(kept) \in Nat /\ n \in Nat
    BY DEF CacheOf
  <1>2. Evictable(n) \in SUBSET DOMAIN kept
    BY <1>1 DEF Evictable
  <1>3. Freed(n) = Cardinality(Evictable(n)) * CopyBytes
    BY <1>2, LeasesAlike DEF Freed
  <1>4. IsFiniteSet(1 .. n) /\ Cardinality(1 .. n) = n
    BY <1>1, FS_Interval
  <1>5. CASE PinnedAmong(n)
    <2>1. PICK i \in 1 .. n : kept[i] = pinned
      BY <1>5 DEF PinnedAmong
    <2>2. Evictable(n) = (1 .. n) \ {i}
      <3>1. \A j \in 1 .. n : j \in DOMAIN kept
        BY <1>1
      <3>2. \A j \in 1 .. n : kept[j] = pinned => j = i
        BY <2>1, <3>1 DEF CacheOf
      <3> QED
        BY <2>1, <3>2 DEF Evictable
    <2>3. Cardinality(Evictable(n)) = n - 1
      BY <2>1, <2>2, <1>4, FS_RemoveElement
    <2> QED
      BY <2>1, <2>3, <1>1, <1>3, <1>5
  <1>6. CASE ~ PinnedAmong(n)
    <2>1. Evictable(n) = 1 .. n
      BY <1>6 DEF Evictable, PinnedAmong
    <2> QED
      BY <2>1, <1>3, <1>4, <1>6
  <1> QED
    BY <1>5, <1>6

(* What stays in the cache.                                                    *)
LEMMA Evicting ==
  ASSUME limit \in Limits, CacheOf(kept, lease), NEW n \in 0 .. Len(kept)
  PROVE  /\ CacheOf(KeptAfter(n), LeaseAfter(n))
         /\ Len(KeptAfter(n)) * CopyBytes = Len(kept) * CopyBytes - Freed(n)
         /\ (\E i \in DOMAIN KeptAfter(n) : KeptAfter(n)[i] = pinned) <=> IsCached(pinned)
  <1> DEFINE k == KeptAfter(n)
             rest == SubSeq(kept, n + 1, Len(kept))
             len == Len(kept)
             Stays ==
               /\ k \in Seq(CopyIds)
               /\ \A i \in DOMAIN k : \E q \in 1 .. len : k[i] = kept[q] /\ q \notin Evictable(n)
               /\ \A i, j \in DOMAIN k : k[i] = k[j] => i = j
               /\ Len(k) * CopyBytes = len * CopyBytes - Freed(n) /\ Len(k) \in Nat /\ Len(k) <= len
               /\ (\E i \in DOMAIN k : k[i] = pinned) <=> IsCached(pinned)
  <1>1. DOMAIN kept = 1 .. len /\ len \in Nat /\ n \in Nat /\ kept \in Seq(CopyIds)
        /\ \A i \in 1 .. len : kept[i] \in CopyIds
    BY DEF CacheOf
  <1>2. /\ rest \in Seq(CopyIds) /\ Len(rest) = len - n
        /\ \A i \in 1 .. len - n : rest[i] = kept[n + i]
    BY <1>1
  <1>3. ASSUME PinnedAmong(n) PROVE Stays
    <2>1. PICK p \in 1 .. n : kept[p] = pinned
      BY <1>3 DEF PinnedAmong
    <2>2. p \in 1 .. len /\ pinned \in CopyIds
      BY <2>1, <1>1
    <2>3. k = <<pinned>> \o rest
      BY <1>3 DEF KeptAfter, PinnedAmong
    <2>4. /\ k \in Seq(CopyIds) /\ Len(k) = 1 + len - n
          /\ k[1] = pinned
          /\ \A i \in 2 .. 1 + len - n : k[i] = kept[n + i - 1] /\ n + i - 1 \in 1 .. len
      <3> HIDE DEF k, rest
      <3>1. <<pinned>> \in Seq(CopyIds) /\ Len(<<pinned>>) = 1 /\ <<pinned>>[1] = pinned
        BY <2>2
      <3>2. k \in Seq(CopyIds) /\ Len(k) = 1 + (len - n) /\ k[1] = pinned
        BY <3>1, <2>3, <1>1, <1>2
      <3>3. ASSUME NEW i \in 2 .. 1 + len - n
            PROVE  k[i] = kept[n + i - 1] /\ n + i - 1 \in 1 .. len
        <4>1. i - 1 \in 1 .. len - n /\ i \in Int
          BY <1>1
        <4>2. k[i] = rest[i - 1]
          BY <4>1, <3>1, <2>3, <1>1, <1>2
        <4>3. n + (i - 1) = n + i - 1
          BY <4>1, <1>1
        <4> QED
          BY <4>1, <4>2, <4>3, <1>1, <1>2
      <3> QED
        BY <3>2, <3>3, <1>1
    <2>5. \A i \in DOMAIN k : \E q \in 1 .. len : k[i] = kept[q] /\ q \notin Evictable(n)
      <3> HIDE DEF k, rest
      <3>1. ASSUME NEW i \in DOMAIN k
            PROVE  \E q \in 1 .. len : k[i] = kept[q] /\ q \notin Evictable(n)
        <4>1. i \in 1 .. 1 + len - n
          BY <2>4
        <4>2. CASE i = 1
          BY <4>2, <2>1, <2>2, <2>4 DEF Evictable
        <4>3. CASE i # 1
          <5>1. i \in 2 .. 1 + len - n
            BY <4>1, <4>3, <1>1
          <5>2. k[i] = kept[n + i - 1] /\ n + i - 1 \in 1 .. len
            BY <5>1, <2>4
          <5>3. n + i - 1 \notin 1 .. n
            BY <5>1, <1>1
          <5> QED
            BY <5>2, <5>3 DEF Evictable
        <4> QED
          BY <4>2, <4>3
      <3> QED
        BY <3>1
    <2>6. \A i, j \in DOMAIN k : k[i] = k[j] => i = j
      <3> HIDE DEF k, rest
      <3>1. ASSUME NEW i \in 2 .. 1 + len - n, NEW j \in 2 .. 1 + len - n, k[i] = k[j]
            PROVE  i = j
        <4>1. /\ kept[n + i - 1] = kept[n + j - 1]
              /\ n + i - 1 \in DOMAIN kept /\ n + j - 1 \in DOMAIN kept
          BY <3>1, <2>4, <1>1
        <4>2. n + i - 1 = n + j - 1
          BY <4>1 DEF CacheOf
        <4> QED
          BY <4>2, <1>1
      <3>2. ASSUME NEW i \in 2 .. 1 + len - n
            PROVE  k[i] # k[1]
        <4>1. k[i] = kept[n + i - 1] /\ n + i - 1 \in DOMAIN kept /\ n + i - 1 > n
          BY <2>4, <1>1
        <4>2. n + i - 1 # p
          BY <4>1, <2>1, <1>1
        <4> QED
          <5>1. p \in DOMAIN kept /\ k[1] = kept[p]
            BY <2>1, <2>2, <2>4, <1>1
          <5> QED
            BY <4>1, <4>2, <5>1 DEF CacheOf
      <3>3. DOMAIN k = 1 .. 1 + len - n
        BY <2>4
      <3> QED
        BY <3>1, <3>2, <3>3, <1>1
    <2>7. Freed(n) = (n - 1) * CopyBytes /\ n - 1 \in Nat /\ n - 1 <= len
      BY <1>1, <1>3, FreedBytes
    <2>8. Len(k) = len - (n - 1)
      BY <2>4, <1>1
    <2>9. \E i \in DOMAIN k : k[i] = pinned
      <3> HIDE DEF k, rest
      <3>1. 1 \in DOMAIN k
        BY <2>4, <1>1
      <3> QED
        BY <3>1, <2>4
    <2>10. IsCached(pinned)
      BY <2>1, <2>2, <1>1 DEF IsCached
    <2>11. Len(k) * CopyBytes = len * CopyBytes - Freed(n) /\ Len(k) \in Nat /\ Len(k) <= len
      <3> HIDE DEF k
      <3>1. (len - (n - 1)) * CopyBytes = len * CopyBytes - (n - 1) * CopyBytes
        BY <2>7, <1>1, Products, Sizes
      <3>2. n # 0
        BY <2>1, <1>1
      <3> QED
        BY <2>7, <2>8, <3>1, <3>2, <1>1
    <2> HIDE DEF k, rest
    <2> QED
      BY <2>4, <2>5, <2>6, <2>9, <2>10, <2>11
  <1>4. ASSUME ~ PinnedAmong(n) PROVE Stays
    <2>1. k = rest
      <3>1. k = << >> \o rest
        BY <1>4 DEF KeptAfter, PinnedAmong
      <3> HIDE DEF k, rest
      <3> QED
        BY <3>1, <1>2
    <2> HIDE DEF k, rest
    <2>2. \A i \in DOMAIN k : n + i \in 1 .. len /\ n + i \notin 1 .. n /\ k[i] = kept[n + i] /\ i \in Int
      BY <2>1, <1>1, <1>2
    <2>3. \A i \in DOMAIN k : \E q \in 1 .. len : k[i] = kept[q] /\ q \notin Evictable(n)
      BY <2>2 DEF Evictable
    <2>4. \A i, j \in DOMAIN k : k[i] = k[j] => i = j
      <3>1. SUFFICES ASSUME NEW i \in DOMAIN k, NEW j \in DOMAIN k, k[i] = k[j]
                     PROVE  i = j
        OBVIOUS
      <3>2. n + i = n + j
        BY <3>1, <2>2, <1>1 DEF CacheOf
      <3> QED
        BY <3>2, <2>2, <1>1
    <2>5. Len(k) * CopyBytes = len * CopyBytes - Freed(n) /\ Len(k) \in Nat /\ Len(k) <= len
      <3>1. (len - n) * CopyBytes = len * CopyBytes - n * CopyBytes
        BY <1>1, Products, Sizes
      <3> QED
        BY <2>1, <3>1, <1>1, <1>2, <1>4, FreedBytes
    <2>6. (\E i \in DOMAIN k : k[i] = pinned) <=> IsCached(pinned)
      <3>1. ASSUME NEW q \in DOMAIN kept, kept[q] = pinned
            PROVE  \E i \in DOMAIN k : k[i] = pinned
        <4>1. q - n \in 1 .. len - n
          BY <3>1, <1>1, <1>4 DEF PinnedAmong
        <4>2. q - n \in DOMAIN k /\ n + (q - n) = q
          BY <4>1, <2>1, <1>1, <1>2
        <4> QED
          BY <4>2, <3>1, <2>2
      <3>2. ASSUME NEW i \in DOMAIN k, k[i] = pinned
            PROVE  IsCached(pinned)
        BY <3>2, <2>2, <1>1 DEF IsCached
      <3> QED
        BY <3>1, <3>2 DEF IsCached
    <2> QED
      BY <2>1, <2>3, <2>4, <2>5, <2>6, <1>2
  <1>5. Stays
    BY <1>3, <1>4
  <1> HIDE DEF k, rest
  <1>6. \A i \in DOMAIN k : LeaseAfter(n)[k[i]] = CopyBytes /\ k[i] < current
    <2>1. SUFFICES ASSUME NEW i \in DOMAIN k
                   PROVE  LeaseAfter(n)[k[i]] = CopyBytes /\ k[i] < current
      OBVIOUS
    <2>2. PICK q \in 1 .. len : k[i] = kept[q] /\ q \notin Evictable(n)
      BY <1>5
    <2>3. kept[q] \in CopyIds /\ lease[kept[q]] = CopyBytes /\ kept[q] < current
      BY <1>1 DEF CacheOf
    <2>4. ~ \E j \in Evictable(n) : kept[j] = kept[q]
      <3>1. SUFFICES ASSUME NEW j \in Evictable(n), kept[j] = kept[q] PROVE FALSE
        OBVIOUS
      <3>2. j \in DOMAIN kept /\ q \in DOMAIN kept
        BY <1>1 DEF Evictable
      <3>3. j = q
        BY <3>1, <3>2 DEF CacheOf
      <3> QED
        BY <2>2, <3>3
    <2> QED
      BY <2>2, <2>3, <2>4 DEF LeaseAfter
  <1>7. LeaseAfter(n) \in [CopyIds -> Nat]
    BY DEF LeaseAfter, CacheOf
  <1>8. k # <<>> => Len(k) * CopyBytes <= CacheBytes
    <2>1. SUFFICES ASSUME k # <<>> PROVE Len(k) * CopyBytes <= CacheBytes
      OBVIOUS
    <2>2. Len(k) # 0
      BY <2>1, <1>5
    <2>3. kept # <<>> /\ len * CopyBytes <= CacheBytes
      BY <2>2, <1>1, <1>5 DEF CacheOf
    <2>4. Len(k) * CopyBytes <= len * CopyBytes
      BY <1>1, <1>5, Products, Sizes
    <2>5. len * CopyBytes \in Nat /\ Len(k) * CopyBytes \in Nat
      BY <1>1, <1>5, Sizes
    <2> QED
      BY <2>3, <2>4, <2>5, <1>5, CacheShare
  <1> QED
    BY <1>5, <1>6, <1>7, <1>8 DEF CacheOf, k
-------------------------------------------------------------------------------
(* Reservations.                                                               *)

(* Every lease of the copy at work is a size.                                  *)
LEMMA ResidentInt ==
  ASSUME Ledger
  PROVE  /\ Resident \in Int /\ held.current \in Nat /\ held.reread \in Nat
         /\ Len(kept) \in Nat /\ Len(kept) * CopyBytes \in Nat
         /\ prior \in Nat /\ current \in Nat /\ prior <= current
  <1>1. Len(kept) \in Nat
    BY DEF Ledger, CacheOf
  <1>2. Len(kept) * CopyBytes \in Nat
    BY <1>1, Sizes
  <1>3. held.current \in Nat /\ held.reread \in Nat
    BY DEF Ledger, Holding
  <1> QED
    BY <1>1, <1>2, <1>3, Sizes DEF Ledger, Holding, Resident, CopyIds

(* A reservation fits when it does with the cache, or all of it but the pinned *)
(* copy, given back.                                                           *)
LEMMA CanFit ==
  ASSUME limit \in Limits, Ledger, NEW bytes \in Int,
         \/ ~ IsCached(pinned) /\ Resident + bytes <= limit.memory
         \/ Resident + CopyBytes + bytes <= limit.memory
  PROVE  CanReserve(bytes)
  <1> USE DEF Ledger
  <1>0. Resident \in Int
    BY ResidentInt
  <1>1. DOMAIN kept = 1 .. Len(kept) /\ Len(kept) \in Nat
    BY DEF CacheOf
  <1>2. /\ PinnedAmong(Len(kept)) => Len(kept) > 0 /\ Freed(Len(kept)) = (Len(kept) - 1) * CopyBytes
        /\ ~ PinnedAmong(Len(kept)) => Freed(Len(kept)) = Len(kept) * CopyBytes
        /\ PinnedAmong(Len(kept)) <=> IsCached(pinned)
    BY <1>1, FreedBytes DEF PinnedAmong, IsCached
  <1>3. limit.memory \in Nat
    BY CacheShare
  <1>4. CASE PinnedAmong(Len(kept))
    <2>1. (Len(kept) - 1) * CopyBytes = Len(kept) * CopyBytes - CopyBytes
      BY <1>1, Sizes
    <2> QED
      BY <1>1, <1>2, <1>3, <1>0, <1>4, <2>1, Sizes DEF CanReserve, Fits
  <1>5. CASE ~ PinnedAmong(Len(kept))
    BY <1>1, <1>2, <1>3, <1>0, <1>5, Sizes DEF CanReserve, Fits
  <1> QED
    BY <1>4, <1>5

(* What can be reserved evicts some first copies, and none when it need not.   *)
LEMMA ReclaimedPlace ==
  ASSUME CacheOf(kept, lease), NEW bytes, CanReserve(bytes)
  PROVE  /\ Reclaimed(bytes) \in 0 .. Len(kept)
         /\ Fits(bytes, 0) => Reclaimed(bytes) = 0
  <1> DEFINE enough == {n \in 0 .. Len(kept) : Fits(bytes, n)}
  <1>1. Len(kept) \in Nat
    BY DEF CacheOf
  <1>2. enough \in SUBSET Nat /\ Len(kept) \in enough
    BY <1>1 DEF CanReserve
  <1>3. \E n \in enough : \A m \in enough : n <= m
    <2> HIDE DEF enough
    <2> QED
      BY <1>2, NatLeast
  <1>4. Reclaimed(bytes) \in enough /\ \A m \in enough : Reclaimed(bytes) <= m
    BY <1>3 DEF Reclaimed
  <1> QED
    BY <1>1, <1>4

(* After a reservation the ledger holds what was leased, what stays and what   *)
(* is left of the cache.                                                       *)
LEMMA Reserved ==
  ASSUME limit \in Limits, Ledger, NEW bytes, NEW staying \in Int,
         ReserveThenKeep(bytes, staying), UNCHANGED <<limit, current, pinned>>
  PROVE  /\ CacheOf(kept, lease)'
         /\ live' = Resident + staying + Len(kept') * CopyBytes
         /\ IsCached(pinned)' <=> IsCached(pinned)
  <1> DEFINE n == Reclaimed(bytes)
  <1> USE DEF Ledger
  <1>1. n \in 0 .. Len(kept)
    BY ReclaimedPlace DEF ReserveThenKeep
  <1>2. /\ kept' = KeptAfter(n) /\ lease' = LeaseAfter(n)
        /\ live' = live - Freed(n) + staying
    BY DEF ReserveThenKeep
  <1> HIDE DEF n
  <1>3. /\ CacheOf(KeptAfter(n), LeaseAfter(n))
        /\ Len(KeptAfter(n)) * CopyBytes = Len(kept) * CopyBytes - Freed(n)
        /\ (\E i \in DOMAIN KeptAfter(n) : KeptAfter(n)[i] = pinned) <=> IsCached(pinned)
    BY <1>1, Evicting
  <1>4. CacheOf(kept', lease')
    BY <1>2, <1>3
  <1>5. CacheOf(kept, lease)'
    BY <1>4 DEF CacheOf, CacheBytes
  <1>6. Freed(n) \in Int /\ Len(kept) * CopyBytes \in Int
    <2>1. Len(kept) \in Nat
      BY DEF CacheOf
    <2>2. Len(kept) * CopyBytes \in Nat
      BY <2>1, Sizes
    <2>3. n * CopyBytes \in Int /\ (n - 1) * CopyBytes \in Int
      BY <1>1, <2>1, Sizes
    <2> QED
      BY <2>2, <2>3, <1>1, FreedBytes
  <1>7. live' = Resident + staying + Len(kept') * CopyBytes
    BY <1>2, <1>3, <1>6, ResidentInt
  <1> QED
    BY <1>2, <1>3, <1>5, <1>7 DEF IsCached

-------------------------------------------------------------------------------
(* Every step of the certification keeps its ledger.                           *)

(* A verdict that does not blame memory it had.                                *)
LEMMA CertEnds ==
  ASSUME CertInv, cpc' = "done", UNCHANGED <<scene, limit>>,
         Roomy => report'.code # "EXPORT_MEMORY_LIMIT"
  PROVE  CertInv'
  BY DEF CertInv, Roomy, UncachedNeed

(* A step that ends with a refusal or finds no memory.                         *)
LEMMA CertRefuses ==
  ASSUME CertInv, NEW verdict, NEW code, Refused(verdict, code),
         code # "EXPORT_MEMORY_LIMIT"
  PROVE  CertInv'
  <1>1. report'.code = code /\ cpc' = "done" /\ UNCHANGED <<scene, limit>>
    BY DEF Refused, Ends
  <1> QED
    BY <1>1, CertEnds

(* So does one whose verdict is left open.                                     *)
LEMMA CertDeclines ==
  ASSUME CertInv, NEW code, Declines(code), code # "EXPORT_MEMORY_LIMIT"
  PROVE  CertInv'
  <1>1. PICK verdict : Refused(verdict, code)
    BY DEF Declines
  <1> QED
    BY <1>1, CertRefuses

(* Memory is refused only where it cannot be reserved.                         *)
LEMMA CertStarves ==
  ASSUME CertInv, NEW bytes, OutOfMemory(bytes), Roomy => CanReserve(bytes)
  PROVE  CertInv'
  <1>1. ~ Roomy /\ cpc' = "done" /\ UNCHANGED <<scene, limit>>
    BY DEF OutOfMemory, Ends
  <1> QED
    BY <1>1, CertEnds

(* A step that goes on.                                                        *)
LEMMA CertGoesOn ==
  ASSUME CertInv, cpc # "done", cpc' \notin {"admit", "done"},
         UNCHANGED <<scene, limit, report>>, Roomy /\ Ledger => Ledger'
  PROVE  CertInv'
  BY DEF CertInv, Roomy, UncachedNeed

(* Admitting the source.                                                       *)
LEMMA AdmitKeeps ==
  ASSUME CertInv, Admit
  PROVE  CertInv'
  <1>1. ASSUME Roomy
        PROVE  Ledger /\ CanReserve(SourceBytes)
    <2>1. Ledger /\ cpc = "admit" /\ Idle /\ limit \in Limits
      BY <1>1 DEF CertInv, Admit
    <2>2. Resident = 0 /\ ~ IsCached(pinned)
      BY <2>1 DEF Resident, Idle, IsCached
    <2>3. SourceBytes <= limit.memory
      BY <1>1, <2>1, RoomForSteps, Sizes DEF LoadBytes
    <2> QED
      BY <2>1, <2>2, <2>3, CanFit, Sizes
  <1>2. CASE OutOfMemory(SourceBytes)
    BY <1>1, <1>2, CertStarves
  <1>3. CASE /\ Reserve(SourceBytes) /\ cpc' = "read"
             /\ UNCHANGED <<scene, limit, current, prior, pinned, held, report>>
    <2>1. cpc = "admit"
      BY DEF Admit
    <2>2. ASSUME Roomy, Ledger
          PROVE  Ledger'
      <3>1. Idle /\ limit \in Limits
        BY <2>1 DEF CertInv
      <3>2. Resident = 0
        BY <2>1, <3>1 DEF Resident, Idle
      <3>3. /\ CacheOf(kept, lease)' /\ live' = Resident + SourceBytes + Len(kept') * CopyBytes
            /\ IsCached(pinned)' <=> IsCached(pinned)
        BY <1>3, <2>2, <3>1, <3>2, Reserved, Sizes DEF Reserve
      <3>4. Resident' = SourceBytes
        BY <1>3, <2>1, <3>1, Sizes DEF Resident, Idle
      <3>5. Holding'
        BY <1>3, <2>1, <2>2, <3>3 DEF Ledger, Holding
      <3> QED
        BY <3>2, <3>3, <3>4, <3>5, Sizes DEF Ledger
    <2> QED
      BY <1>3, <2>1, <2>2, CertGoesOn
  <1>4. CASE Declines("EXPORT_SOURCE_VALIDATION")
    BY <1>4, CertDeclines
  <1>5. CASE Refused("indeterminate", "EXPORT_KERNEL_WORK_LIMIT")
    BY <1>5, CertRefuses
  <1> QED
    BY <1>2, <1>3, <1>4, <1>5 DEF Admit

(* Reading a staged copy.                                                      *)
LEMMA ReadCopyKeeps ==
  ASSUME CertInv, ReadCopy
  PROVE  CertInv'
  <1>0. cpc = "read"
    BY DEF ReadCopy
  <1>1. ASSUME Roomy
        PROVE  CanReserve(ReaderBytes)
    <2>1. Ledger /\ limit \in Limits
      BY <1>0, <1>1 DEF CertInv
    <2>2. ~ IsCached(pinned)
      BY <1>0, <2>1 DEF Ledger, Holding
    <2>3. Resident + ReaderBytes <= limit.memory
      <3>1. CASE prior < current
        <4>1. Resident = SourceBytes + CopyBytes /\ scene.apart # PairIds
          BY <1>0, <2>1, <3>1, Sizes DEF Resident, Ledger, Holding
        <4> QED
          BY <1>1, <2>1, <4>1, RoomForSteps, Sizes DEF LoadBytes
      <3>2. CASE prior = current
        <4>1. Resident = SourceBytes
          BY <1>0, <2>1, <3>2, Sizes DEF Resident, Ledger, Holding
        <4> QED
          BY <1>1, <2>1, <4>1, RoomForSteps, Sizes DEF LoadBytes
      <3> QED
        BY <2>1, <3>1, <3>2, ResidentInt
    <2> QED
      BY <2>1, <2>2, <2>3, CanFit, Sizes
  <1>2. CASE Refused("indeterminate", "EXPORT_COPY_READ")
    BY <1>2, CertRefuses
  <1>3. CASE OutOfMemory(ReaderBytes)
    BY <1>1, <1>3, CertStarves
  <1>4. CASE /\ Reserve(ReaderBytes) /\ cpc' = "import"
             /\ UNCHANGED <<scene, limit, current, prior, pinned, held, report>>
    <2>1. ASSUME Roomy, Ledger
          PROVE  Ledger'
      <3>1. limit \in Limits
        BY DEF CertInv
      <3>2. /\ CacheOf(kept, lease)' /\ live' = Resident + ReaderBytes + Len(kept') * CopyBytes
            /\ IsCached(pinned)' <=> IsCached(pinned)
        BY <1>4, <2>1, <3>1, Reserved, Sizes DEF Reserve
      <3>3. Resident' = Resident + ReaderBytes
        BY <1>0, <1>4, <2>1, Sizes DEF Resident, Ledger, Holding
      <3>4. Holding'
        BY <1>0, <1>4, <2>1, <3>2 DEF Ledger, Holding
      <3> QED
        BY <3>2, <3>3, <3>4 DEF Ledger
    <2> QED
      BY <1>0, <1>4, <2>1, CertGoesOn
  <1> QED
    BY <1>2, <1>3, <1>4 DEF ReadCopy, Reserve

(* Importing it.                                                               *)
LEMMA ImportCopyKeeps ==
  ASSUME CertInv, ImportCopy
  PROVE  CertInv'
  <1> DEFINE need == ImportBytes + AcceptedBytes
  <1>0. cpc = "import" /\ need \in Int
    BY Sizes DEF ImportCopy
  <1>1. ASSUME Roomy
        PROVE  CanReserve(need)
    <2>1. Ledger /\ limit \in Limits
      BY <1>0, <1>1 DEF CertInv
    <2>2. ~ IsCached(pinned)
      BY <1>0, <2>1 DEF Ledger, Holding
    <2>3. Resident + need <= limit.memory
      <3>1. CASE prior < current
        <4>1. Resident = SourceBytes + CopyBytes + ReaderBytes /\ scene.apart # PairIds
          BY <1>0, <2>1, <3>1, Sizes DEF Resident, Ledger, Holding
        <4> QED
          BY <1>1, <2>1, <4>1, RoomForSteps, Sizes DEF LoadBytes
      <3>2. CASE prior = current
        <4>1. Resident = SourceBytes + ReaderBytes
          BY <1>0, <2>1, <3>2, Sizes DEF Resident, Ledger, Holding
        <4> QED
          BY <1>1, <2>1, <4>1, RoomForSteps, Sizes DEF LoadBytes
      <3> QED
        BY <2>1, <3>1, <3>2, ResidentInt
    <2> HIDE DEF need
    <2> QED
      BY <1>0, <2>1, <2>2, <2>3, CanFit
  <1>2. CASE OutOfMemory(need)
    <2> HIDE DEF need
    <2> QED
      BY <1>1, <1>2, CertStarves
  <1>3. CASE /\ ReserveThenKeep(need, AcceptedBytes - ReaderBytes)
             /\ held' = [held EXCEPT ![Loading] = AcceptedBytes]
             /\ cpc' = "place"
             /\ UNCHANGED <<scene, limit, current, prior, pinned, report>>
    <2>1. ASSUME Roomy, Ledger
          PROVE  Ledger'
      <3>1. limit \in Limits /\ AcceptedBytes - ReaderBytes \in Int
        BY Sizes DEF CertInv
      <3>2. /\ CacheOf(kept, lease)'
            /\ live' = Resident + (AcceptedBytes - ReaderBytes) + Len(kept') * CopyBytes
            /\ IsCached(pinned)' <=> IsCached(pinned)
        <4> HIDE DEF need
        <4> QED
          BY <1>3, <2>1, <3>1, Reserved
      <3>3. /\ held \in [current : Nat, reread : Nat] /\ held.reread = 0
            /\ prior < current => held.current = CopyBytes
            /\ prior = current => held.current = 0
            /\ prior \in Nat /\ current \in Nat /\ prior <= current
        BY <1>0, <2>1, ResidentInt DEF Ledger, Holding
      <3>4. /\ held' \in [current : Nat, reread : Nat]
            /\ prior < current => held'.current = CopyBytes /\ held'.reread = AcceptedBytes
            /\ prior = current => held'.current = AcceptedBytes /\ held'.reread = 0
        BY <1>3, <3>3, Sizes DEF Loading
      <3>5. Resident' = Resident + (AcceptedBytes - ReaderBytes)
        BY <1>0, <1>3, <3>3, <3>4, Sizes DEF Resident
      <3>6. Holding'
        BY <1>0, <1>3, <2>1, <3>2, <3>3, <3>4 DEF Ledger, Holding
      <3> QED
        BY <3>2, <3>5, <3>6 DEF Ledger
    <2> QED
      BY <1>0, <1>3, <2>1, CertGoesOn
  <1>4. CASE Declines("EXPORT_QUANTIZED_IMPORT")
    BY <1>4, CertDeclines
  <1> QED
    BY <1>2, <1>3, <1>4 DEF ImportCopy

(* Placing it evicts nothing, so that its lease is what it costs.              *)
LEMMA PlaceCopyKeeps ==
  ASSUME CertInv, PlaceCopy
  PROVE  CertInv'
  <1>0. cpc = "place"
    BY DEF PlaceCopy
  <1>1. ASSUME Roomy
        PROVE  Ledger /\ limit \in Limits /\ Fits(PlacedBytes, 0)
    <2>1. Ledger /\ limit \in Limits
      BY <1>0, <1>1 DEF CertInv
    <2>2. Freed(0) = 0
      <3>1. 0 \in 0 .. Len(kept)
        BY <2>1, ResidentInt
      <3>2. ~ PinnedAmong(0)
        BY DEF PinnedAmong
      <3> QED
        BY <2>1, <3>1, <3>2, FreedBytes, Sizes DEF Ledger
    <2>3. Resident + PlacedBytes = SourceBytes + CopyBytes
          \/ /\ Resident + PlacedBytes = SourceBytes + 2 * CopyBytes
             /\ scene.apart # PairIds
      <3>1. CASE prior < current
        BY <1>0, <2>1, <3>1, Sizes DEF Resident, Ledger, Holding
      <3>2. CASE prior = current
        BY <1>0, <2>1, <3>2, Sizes DEF Resident, Ledger, Holding
      <3> QED
        BY <2>1, <3>1, <3>2, ResidentInt
    <2>4. CASE kept = <<>>
      <3>1. live = Resident
        <4>1. Len(kept) = 0
          BY <2>4
        <4>2. Len(kept) * CopyBytes = 0
          BY <4>1, Sizes
        <4> QED
          BY <2>1, <4>2, ResidentInt DEF Ledger
      <3>2. Resident + PlacedBytes <= limit.memory
        BY <1>1, <2>1, <2>3, RoomForSteps, Sizes
      <3> QED
        BY <2>1, <2>2, <3>1, <3>2, ResidentInt, Sizes DEF Fits
    <2>5. CASE kept # <<>>
      <3>1. Len(kept) \in Nat /\ Len(kept) >= 1 /\ Len(kept) * CopyBytes \in Nat
        <4>1. kept \in Seq(CopyIds)
          BY <2>1 DEF Ledger, CacheOf
        <4>2. Len(kept) # 0 /\ Len(kept) \in Nat
          BY <2>5, <4>1
        <4> QED
          BY <4>2, <2>1, ResidentInt
      <3>2. CopyBytes <= Len(kept) * CopyBytes
        <4>1. 1 * CopyBytes <= Len(kept) * CopyBytes
          BY <3>1, Products, Sizes
        <4> QED
          BY <4>1, Sizes
      <3>3. /\ Len(kept) * CopyBytes <= CacheBytes
            /\ 4 * CacheBytes <= limit.memory - SourceBytes
            /\ CacheBytes \in Int /\ limit.memory \in Nat
        BY <2>1, <2>5, CacheShare DEF Ledger, CacheOf
      <3>4. live = Resident + Len(kept) * CopyBytes /\ Resident \in Int
        BY <2>1, ResidentInt DEF Ledger
      <3>5. live + PlacedBytes <= limit.memory
        BY <2>3, <3>1, <3>2, <3>3, <3>4, Sizes
      <3> QED
        <4>1. live \in Int /\ PlacedBytes \in Int
          BY <3>1, <3>4, Sizes
        <4>2. live - Freed(0) + PlacedBytes = live + PlacedBytes
          BY <2>2, <4>1
        <4> QED
          BY <2>1, <3>5, <4>2 DEF Fits
    <2> QED
      BY <2>1, <2>4, <2>5
  <1>2. ASSUME Roomy
        PROVE  CanReserve(PlacedBytes)
    <2>1. /\ CacheOf(kept, lease) /\ live \in Int /\ Len(kept) \in Nat
          /\ limit.memory \in Nat
      BY <1>1, <1>2, ResidentInt, CacheShare DEF Ledger
    <2>2. Freed(0) = 0 /\ Freed(Len(kept)) >= 0 /\ Freed(Len(kept)) \in Int
      <3>1. ~ PinnedAmong(0) /\ 0 \in 0 .. Len(kept) /\ Len(kept) \in 0 .. Len(kept)
        BY <2>1 DEF PinnedAmong
      <3>2. Freed(0) = 0
        BY <2>1, <3>1, FreedBytes, Sizes
      <3>3. CASE PinnedAmong(Len(kept))
        <4>1. Len(kept) - 1 \in Nat
          BY <2>1, <3>1, <3>3, FreedBytes
        <4>2. (Len(kept) - 1) * CopyBytes \in Nat
          BY <4>1, Sizes
        <4> QED
          BY <2>1, <3>1, <3>2, <3>3, <4>2, FreedBytes
      <3>4. CASE ~ PinnedAmong(Len(kept))
        <4>1. Len(kept) * CopyBytes \in Nat
          BY <2>1, Sizes
        <4> QED
          BY <2>1, <3>1, <3>2, <3>4, <4>1, FreedBytes
      <3> QED
        BY <3>3, <3>4
    <2> QED
      BY <1>1, <1>2, <2>1, <2>2, Sizes DEF CanReserve, Fits
  <1>3. CASE OutOfMemory(PlacedBytes)
    BY <1>2, <1>3, CertStarves
  <1>4. CASE /\ Reserve(PlacedBytes)
             /\ held' = [held EXCEPT ![Loading] =
                           @ + IF live' >= live THEN live' - live ELSE 0]
             /\ cpc' = IF Loading = "reread" THEN "pair" ELSE "contain"
             /\ UNCHANGED <<scene, limit, current, prior, pinned, report>>
    <2>1. ASSUME Roomy, Ledger
          PROVE  Ledger'
      <3>1. /\ CacheOf(kept, lease)' /\ live' = Resident + PlacedBytes + Len(kept') * CopyBytes
            /\ IsCached(pinned)' <=> IsCached(pinned)
        BY <1>1, <1>4, <2>1, Reserved, Sizes DEF Reserve
      <3>2. live' = live + PlacedBytes /\ live \in Int
        <4>1. Reclaimed(PlacedBytes) = 0
          BY <1>1, <1>2, <2>1, ReclaimedPlace DEF Ledger
        <4>2. Freed(0) = 0
          <5>1. 0 \in 0 .. Len(kept)
            BY <2>1, ResidentInt
          <5>2. ~ PinnedAmong(0)
            BY DEF PinnedAmong
          <5> QED
            BY <2>1, <5>1, <5>2, FreedBytes, Sizes DEF Ledger
        <4>3. live \in Int
          BY <2>1, ResidentInt DEF Ledger
        <4> QED
          BY <1>4, <4>1, <4>2, <4>3, Sizes DEF Reserve, ReserveThenKeep
      <3>3. (IF live' >= live THEN live' - live ELSE 0) = PlacedBytes
        BY <3>2, Sizes
      <3>4. /\ held \in [current : Nat, reread : Nat]
            /\ prior < current => held.current = CopyBytes /\ held.reread = AcceptedBytes
            /\ prior = current => held.current = AcceptedBytes /\ held.reread = 0
            /\ prior \in Nat /\ current \in Nat /\ prior <= current
        BY <1>0, <2>1, ResidentInt DEF Ledger, Holding
      <3>5. held' = [held EXCEPT ![Loading] = @ + PlacedBytes]
        BY <1>4, <3>3
      <3>6. /\ held' \in [current : Nat, reread : Nat]
            /\ prior < current => held'.current = CopyBytes /\ held'.reread = CopyBytes
            /\ prior = current => held'.current = CopyBytes /\ held'.reread = 0
        BY <3>4, <3>5, Sizes DEF Loading
      <3>7. Resident' = Resident + PlacedBytes
        BY <1>0, <1>4, <3>4, <3>6, Sizes DEF Resident, Loading
      <3>8. Holding'
        <4>1. CASE prior < current
          <5>1. cpc' = "pair"
            BY <1>4, <4>1 DEF Loading
          <5> QED
            BY <1>0, <1>4, <2>1, <3>1, <3>4, <3>6, <4>1, <5>1 DEF Ledger, Holding
        <4>2. CASE prior = current
          <5>1. cpc' = "contain"
            BY <1>4, <3>4, <4>2 DEF Loading
          <5> QED
            BY <1>0, <1>4, <2>1, <3>1, <3>4, <3>6, <4>2, <5>1 DEF Ledger, Holding
        <4> QED
          BY <3>4, <4>1, <4>2
      <3> QED
        BY <3>1, <3>7, <3>8 DEF Ledger
    <2> QED
      BY <1>0, <1>4, <2>1, CertGoesOn
  <1> QED
    BY <1>3, <1>4 DEF PlaceCopy

(* The wall clearance is measured.                                             *)
LEMMA ContainKeeps ==
  ASSUME CertInv, Contain
  PROVE  CertInv'
  <1>0. cpc = "contain"
    BY DEF Contain
  <1>1. ASSUME Roomy
        PROVE  CanReserve(WallBytes)
    <2>1. Ledger /\ limit \in Limits
      BY <1>0, <1>1 DEF CertInv
    <2>2. ~ IsCached(pinned) /\ Resident = SourceBytes + CopyBytes
      BY <1>0, <2>1, Sizes DEF Resident, Ledger, Holding
    <2>3. Resident + WallBytes <= limit.memory
      BY <1>1, <2>1, <2>2, RoomForSteps, Sizes
    <2> QED
      BY <2>1, <2>2, <2>3, CanFit, Sizes
  <1>2. CASE OutOfMemory(WallBytes)
    BY <1>1, <1>2, CertStarves
  <1>3. CASE Refused(scene.inside[current], "EXPORT_QUANTIZED_CONTAINMENT")
    BY <1>3, CertRefuses
  <1>4. CASE /\ ReserveThenKeep(WallBytes, 0) /\ prior' = 1 /\ cpc' = "next"
             /\ UNCHANGED <<scene, limit, current, pinned, held, report>>
    <2>1. ASSUME Roomy, Ledger
          PROVE  Ledger'
      <3>1. limit \in Limits /\ Resident \in Int
        BY <2>1, ResidentInt DEF CertInv
      <3>2. CacheOf(kept, lease)' /\ live' = Resident + 0 + Len(kept') * CopyBytes
        BY <1>4, <2>1, <3>1, Reserved
      <3>3. Resident' = Resident
        BY <1>0, <1>4, <2>1, Sizes DEF Resident, Ledger, Holding
      <3>4. Holding'
        <4>1. 1 \in 1 .. current
          BY <2>1, ResidentInt DEF Ledger, Holding, CopyIds
        <4> QED
          BY <1>0, <1>4, <2>1, <4>1 DEF Ledger, Holding
      <3> QED
        BY <3>1, <3>2, <3>3, <3>4 DEF Ledger
    <2> QED
      BY <1>0, <1>4, <2>1, CertGoesOn
  <1>5. CASE Declines("EXPORT_ENVELOPE")
    BY <1>5, CertDeclines
  <1> QED
    BY <1>2, <1>3, <1>4, <1>5 DEF Contain

(* Going to the next earlier copy; the cached one becomes the most recent.     *)
LEMMA NextPriorKeeps ==
  ASSUME CertInv, NextPrior
  PROVE  CertInv'
  <1>0. cpc = "next" /\ prior < current
    BY DEF NextPrior
  <1>1. CASE Refused("indeterminate", "EXPORT_PAIR_LIMIT")
    BY <1>1, CertRefuses
  <1>2. CASE /\ Ends("indeterminate", "EXPORT_KERNEL_WORK_LIMIT")
             /\ UNCHANGED <<scene, limit>>
    BY <1>2, CertEnds DEF Ends
  <1>3. CASE /\ prior' = prior + 1 /\ UNCHANGED <<cpc, kept, pinned>>
             /\ UNCHANGED <<scene, limit, current, live, lease, held, report>>
    <2>1. ASSUME Roomy, Ledger
          PROVE  Ledger'
      <3>1. Resident' = Resident
        BY <1>3 DEF Resident
      <3>2. CacheOf(kept, lease)'
        BY <1>3, <2>1 DEF Ledger, CacheOf, CacheBytes
      <3>3. prior + 1 \in 1 .. current
        BY <1>0, <2>1, ResidentInt DEF Ledger, Holding
      <3>4. Holding'
        BY <1>0, <1>3, <2>1, <3>3 DEF Ledger, Holding, IsCached
      <3> QED
        BY <1>3, <2>1, <3>1, <3>2, <3>4 DEF Ledger
    <2> QED
      BY <1>0, <1>3, <2>1, CertGoesOn
  <1>4. CASE /\ ~ Separated /\ pinned' = prior
             /\ IF Contains(kept, prior)
                  THEN /\ \E i \in DOMAIN kept :
                            kept[i] = prior /\ kept' = Append(RemoveAt(kept, i), prior)
                       /\ cpc' = "pair"
                  ELSE cpc' = "read" /\ UNCHANGED kept
             /\ UNCHANGED <<scene, limit, current, prior, live, lease, held, report>>
    <2>1. ASSUME Roomy, Ledger
          PROVE  Ledger'
      <3>1. /\ prior \in CopyIds /\ current \in CopyIds /\ prior \in Nat
            /\ held.current = CopyBytes /\ held.reread = 0
            /\ held \in [current : Nat, reread : Nat]
        <4>1. current \in 1 .. Copies /\ prior \in 1 .. current /\ Copies \in Nat
          BY <2>1, Sizes DEF Ledger, Holding, CopyIds
        <4>2. prior \in 1 .. Copies /\ current \in 1 .. Copies /\ prior \in Nat
          BY <4>1
        <4> QED
          BY <1>0, <2>1, <4>2 DEF Ledger, Holding, CopyIds
      <3>2. scene.apart # PairIds
        <4>1. <<prior, current>> \in PairIds
          BY <1>0, <3>1 DEF PairIds
        <4> QED
          BY <1>4, <4>1 DEF Separated
      <3>3. kept \in Seq(CopyIds) /\ DOMAIN kept = 1 .. Len(kept) /\ Len(kept) \in Nat
        BY <2>1 DEF Ledger, CacheOf
      <3>4. Contains(kept, prior) <=> IsCached(prior)
        BY <3>3 DEF Contains, IsCached
      <3>5. CASE IsCached(prior)
        <4>1. PICK i \in DOMAIN kept : kept[i] = prior /\ kept' = Append(RemoveAt(kept, i), prior)
          BY <1>4, <3>4, <3>5
        <4>2. cpc' = "pair"
          BY <1>4, <3>4, <3>5
        <4>3. /\ i \in 1 .. Len(kept) /\ i \in Int
              /\ kept' \in Seq(CopyIds) /\ Len(kept') = Len(kept) /\ kept'[Len(kept)] = prior
              /\ \A j \in 1 .. i - 1 : kept'[j] = kept[j]
              /\ \A j \in i .. Len(kept) - 1 : kept'[j] = kept[j + 1]
          <5> DEFINE front == SubSeq(kept, 1, i - 1)
                     back == SubSeq(kept, i + 1, Len(kept))
                     r == front \o back
          <5>1. i \in 1 .. Len(kept) /\ Len(kept) >= 1 /\ i \in Int
            BY <3>3
          <5>2. /\ front \in Seq(CopyIds) /\ Len(front) = i - 1
                /\ \A j \in 1 .. i - 1 : front[j] = kept[j]
            BY <3>3, <5>1
          <5>3. /\ back \in Seq(CopyIds) /\ Len(back) = Len(kept) - i
                /\ \A j \in 1 .. Len(kept) - i : back[j] = kept[i + j]
            BY <3>3, <5>1
          <5>4. kept' = Append(r, prior)
            BY <4>1 DEF RemoveAt
          <5> HIDE DEF front, back
          <5>5. r \in Seq(CopyIds) /\ Len(r) = Len(kept) - 1
            <6>1. r \in Seq(CopyIds) /\ Len(r) = Len(front) + Len(back)
              <7>1. front \in Seq(CopyIds) /\ back \in Seq(CopyIds)
                BY <5>2, <5>3
              <7> QED
                BY <7>1
            <6> HIDE DEF r
            <6> QED
              BY <3>3, <5>1, <5>2, <5>3, <6>1
          <5>6. \A j \in 1 .. i - 1 : r[j] = kept[j]
            BY <3>3, <5>1, <5>2, <5>3
          <5>7. \A j \in i .. Len(kept) - 1 : r[j] = kept[j + 1]
            <6>1. SUFFICES ASSUME NEW j \in i .. Len(kept) - 1
                           PROVE  r[j] = kept[j + 1]
              OBVIOUS
            <6>2. j - (i - 1) \in 1 .. Len(kept) - i /\ j \in Int
              BY <3>3, <5>1
            <6>3. r[j] = back[j - (i - 1)]
              BY <3>3, <5>1, <5>2, <5>3, <6>2
            <6>4. i + (j - (i - 1)) = j + 1
              BY <5>1, <6>2
            <6> QED
              BY <5>3, <6>2, <6>3, <6>4
          <5> HIDE DEF r
          <5>8. /\ kept' \in Seq(CopyIds) /\ Len(kept') = Len(kept) /\ kept'[Len(kept)] = prior
                /\ \A j \in 1 .. Len(kept) - 1 : kept'[j] = r[j]
            <6>1. /\ kept' \in Seq(CopyIds) /\ Len(kept') = Len(r) + 1
                  /\ kept'[Len(r) + 1] = prior
                  /\ \A j \in 1 .. Len(r) : kept'[j] = r[j]
              BY <3>1, <5>4, <5>5
            <6>2. Len(r) + 1 = Len(kept)
              BY <3>3, <5>5
            <6> QED
              BY <5>5, <6>1, <6>2
          <5> QED
            BY <3>3, <5>1, <5>6, <5>7, <5>8
        <4>4. DOMAIN kept' = 1 .. Len(kept)
          BY <4>3
        <4>5. \A j \in DOMAIN kept' : \E p \in DOMAIN kept :
                kept'[j] = kept[p] /\ p = IF j = Len(kept) THEN i ELSE IF j < i THEN j ELSE j + 1
          <5>1. SUFFICES ASSUME NEW j \in 1 .. Len(kept)
                         PROVE  \E p \in DOMAIN kept :
                kept'[j] = kept[p] /\ p = IF j = Len(kept) THEN i ELSE IF j < i THEN j ELSE j + 1
            BY <4>4
          <5>2. CASE j = Len(kept)
            BY <3>3, <4>1, <4>3, <5>2
          <5>3. CASE j # Len(kept) /\ j < i
            <6>1. j \in 1 .. i - 1 /\ j \in DOMAIN kept
              <7>1. j \in Int /\ i \in Int /\ 1 <= j /\ j <= Len(kept)
                BY <3>3, <4>3
              <7>2. j \in 1 .. i - 1
                BY <5>3, <7>1
              <7>3. j \in DOMAIN kept
                BY <3>3
              <7> QED
                BY <7>2, <7>3
            <6> QED
              BY <4>3, <5>3, <6>1
          <5>4. CASE j # Len(kept) /\ ~ j < i
            <6>1. j \in i .. Len(kept) - 1 /\ j + 1 \in DOMAIN kept
              <7>1. j \in Int /\ i \in Int /\ Len(kept) \in Int
                BY <3>3, <4>3
              <7>2. i <= j /\ j <= Len(kept) - 1 /\ 1 <= j + 1 /\ j + 1 <= Len(kept)
                BY <5>4, <7>1
              <7>3. j \in i .. Len(kept) - 1 /\ j + 1 \in 1 .. Len(kept)
                BY <7>1, <7>2
              <7> QED
                BY <3>3, <7>3
            <6> QED
              BY <4>3, <5>4, <6>1
          <5> QED
            BY <5>2, <5>3, <5>4
        <4>6. \A j, m \in DOMAIN kept' : kept'[j] = kept'[m] => j = m
          <5>1. SUFFICES ASSUME NEW j \in DOMAIN kept', NEW m \in DOMAIN kept', kept'[j] = kept'[m]
                         PROVE  j = m
            OBVIOUS
          <5>2. PICK p \in DOMAIN kept :
                  kept'[j] = kept[p] /\ p = IF j = Len(kept) THEN i ELSE IF j < i THEN j ELSE j + 1
            BY <4>5
          <5>3. PICK q \in DOMAIN kept :
                  kept'[m] = kept[q] /\ q = IF m = Len(kept) THEN i ELSE IF m < i THEN m ELSE m + 1
            BY <4>5
          <5>4. p = q
            BY <2>1, <5>1, <5>2, <5>3 DEF Ledger, CacheOf
          <5> QED
            <6>1. j \in 1 .. Len(kept) /\ m \in 1 .. Len(kept)
              BY <4>4
            <6> QED
              BY <3>3, <4>3, <5>2, <5>3, <5>4, <6>1
        <4>7. CacheOf(kept, lease)'
          <5>1. kept # <<>>
            BY <3>3, <4>1
          <5>2. Len(kept) * CopyBytes <= CacheBytes
            BY <2>1, <5>1 DEF Ledger, CacheOf
          <5>3. Len(kept') * CopyBytes <= CacheBytes'
            BY <1>4, <4>3, <5>2 DEF CacheBytes
          <5>4. \A j \in DOMAIN kept' : lease'[kept'[j]] = CopyBytes /\ kept'[j] < current'
            BY <1>4, <2>1, <4>5 DEF Ledger, CacheOf
          <5>5. lease' \in [CopyIds -> Nat]
            BY <1>4, <2>1 DEF Ledger, CacheOf
          <5> QED
            BY <4>3, <4>6, <5>3, <5>4, <5>5 DEF CacheOf
        <4>8. IsCached(pinned)'
          <5>1. Len(kept) \in DOMAIN kept' /\ kept'[Len(kept)] = prior
            BY <3>3, <4>3, <4>4
          <5> QED
            BY <1>4, <5>1 DEF IsCached
        <4>9. Resident' = Resident
          BY <1>0, <1>4, <4>2 DEF Resident
        <4>10. Holding'
          BY <1>0, <1>4, <2>1, <3>1, <3>2, <4>2, <4>8 DEF Ledger, Holding
        <4> QED
          BY <1>4, <2>1, <4>3, <4>7, <4>9, <4>10 DEF Ledger
      <3>6. CASE ~ IsCached(prior)
        <4>1. cpc' = "read" /\ UNCHANGED kept
          BY <1>4, <3>4, <3>6
        <4>2. CacheOf(kept, lease)'
          BY <1>4, <2>1, <4>1 DEF Ledger, CacheOf, CacheBytes
        <4>3. ~ IsCached(pinned)'
          BY <1>4, <3>6, <4>1 DEF IsCached
        <4>4. Resident' = Resident
          BY <1>0, <1>4, <4>1 DEF Resident
        <4>5. Holding'
          BY <1>0, <1>4, <2>1, <3>1, <3>2, <4>1, <4>3 DEF Ledger, Holding
        <4> QED
          BY <1>4, <2>1, <4>1, <4>2, <4>4, <4>5 DEF Ledger
      <3> QED
        BY <3>5, <3>6
    <2> QED
      BY <1>0, <1>4, <2>1, CertGoesOn
  <1> QED
    BY <1>1, <1>2, <1>3, <1>4 DEF NextPrior

(* The comparison with the earlier copy.                                       *)
LEMMA PairKeeps ==
  ASSUME CertInv, Pair
  PROVE  CertInv'
  <1>0. cpc = "pair"
    BY DEF Pair
  <1>1. ASSUME Roomy
        PROVE  CanReserve(CompareBytes)
    <2>1. Ledger /\ limit \in Limits
      BY <1>0, <1>1 DEF CertInv
    <2>2. scene.apart # PairIds /\ held.current = CopyBytes
      BY <1>0, <2>1 DEF Ledger, Holding
    <2>3. SourceBytes + 2 * CopyBytes + CompareBytes <= limit.memory /\ limit.memory \in Nat
      BY <1>1, <2>1, <2>2, RoomForSteps
    <2>4. CASE held.reread = CopyBytes /\ held.reread # 0
      <3>1. ~ IsCached(pinned) /\ Resident = SourceBytes + 2 * CopyBytes
        BY <1>0, <2>1, <2>2, <2>4, Sizes DEF Resident, Ledger, Holding
      <3> QED
        BY <2>1, <2>3, <3>1, CanFit, Sizes
    <2>5. CASE held.reread = 0
      <3>1. Resident + CopyBytes = SourceBytes + 2 * CopyBytes
        BY <1>0, <2>2, <2>5, Sizes DEF Resident
      <3>2. Resident + CopyBytes + CompareBytes <= limit.memory
        BY <2>3, <3>1
      <3> QED
        BY <2>1, <3>2, CanFit, Sizes
    <2> QED
      BY <1>0, <2>1, <2>4, <2>5 DEF Ledger, Holding
  <1>2. CASE OutOfMemory(CompareBytes)
    BY <1>1, <1>2, CertStarves
  <1>3. CASE \E verdict : Refused(verdict, "EXPORT_QUANTIZED_PAIR")
    BY <1>3, CertRefuses
  <1>4. CASE /\ ReserveThenKeep(CompareBytes, 0) /\ prior' = prior + 1
             /\ cpc' = IF held.reread > 0 THEN "keep" ELSE "next"
             /\ UNCHANGED <<scene, limit, current, pinned, held, report>>
    <2>1. ASSUME Roomy, Ledger
          PROVE  Ledger'
      <3>1. limit \in Limits /\ Resident \in Int
        BY <2>1, ResidentInt DEF CertInv
      <3>2. /\ CacheOf(kept, lease)' /\ live' = Resident + 0 + Len(kept') * CopyBytes
            /\ IsCached(pinned)' <=> IsCached(pinned)
        BY <1>4, <2>1, <3>1, Reserved
      <3>3. Resident' = Resident
        BY <1>0, <1>4 DEF Resident
      <3>4. /\ prior < current /\ prior \in Nat /\ current \in Nat /\ prior >= 1
            /\ pinned = prior /\ held.current = CopyBytes /\ held.reread \in {0, CopyBytes}
            /\ held \in [current : Nat, reread : Nat] /\ current \in CopyIds
            /\ held.reread # 0 => ~ IsCached(pinned)
        BY <1>0, <2>1, ResidentInt DEF Ledger, Holding
      <3>5. prior + 1 \in 1 .. current /\ prior + 1 > 1 /\ prior = prior + 1 - 1
        BY <3>4
      <3>6. Holding'
        <4>1. CASE held.reread > 0
          <5>1. held.reread = CopyBytes /\ ~ IsCached(pinned)'
            BY <3>2, <3>4, <4>1, Sizes
          <5>2. cpc' = "keep"
            BY <1>4, <4>1
          <5> QED
            BY <1>4, <3>4, <3>5, <5>1, <5>2 DEF Holding
        <4>2. CASE ~ held.reread > 0
          <5>1. held.reread = 0
            BY <3>4, <4>2, Sizes
          <5>2. cpc' = "next"
            BY <1>4, <4>2
          <5> QED
            BY <1>4, <3>4, <3>5, <5>1, <5>2 DEF Holding
        <4> QED
          BY <4>1, <4>2
      <3> QED
        BY <3>1, <3>2, <3>3, <3>6 DEF Ledger
    <2>2. cpc' \in {"keep", "next"}
      BY <1>4
    <2> QED
      BY <1>0, <1>4, <2>1, <2>2, CertGoesOn
  <1> QED
    BY <1>2, <1>3, <1>4 DEF Pair

(* A copy put in the cache takes its lease with it; older ones make room.      *)
LEMMA Inserted ==
  ASSUME limit \in Limits, Ledger, NEW copy \in CopyIds, ~ IsCached(copy),
         Insert(copy, CopyBytes), limit' = limit,
         current' \in Int, current <= current', copy < current'
  PROVE  /\ CacheOf(kept, lease)'
         /\ live' = Resident - CopyBytes + Len(kept') * CopyBytes
         /\ pinned' = 0
  <1> DEFINE len == Len(kept)
  <1>1. /\ CacheOf(kept, lease) /\ live = Resident + len * CopyBytes
        /\ Resident \in Int /\ len \in Nat /\ len * CopyBytes \in Nat
        /\ DOMAIN kept = 1 .. len /\ kept \in Seq(CopyIds) /\ current \in Int
    BY ResidentInt DEF Ledger, CacheOf
  <1>2. CopyBytes \in Nat /\ CacheBytes \in Int
    BY Sizes, CacheShare
  <1>3. \A i \in 1 .. len : /\ kept[i] \in CopyIds /\ kept[i] # copy /\ kept[i] < current'
                           /\ lease[kept[i]] = CopyBytes
    <2>1. SUFFICES ASSUME NEW i \in 1 .. len
                   PROVE  /\ kept[i] \in CopyIds /\ kept[i] # copy /\ kept[i] < current'
                          /\ lease[kept[i]] = CopyBytes
      OBVIOUS
    <2>2. kept[i] \in CopyIds /\ kept[i] < current /\ lease[kept[i]] = CopyBytes
      <3>1. kept[i] \in CopyIds
        BY <1>1
      <3>2. i \in DOMAIN kept
        BY <1>1
      <3> QED
        BY <1>1, <3>1, <3>2 DEF CacheOf
    <2>3. kept[i] # copy
      BY <1>1 DEF IsCached
    <2>4. kept[i] \in Int
      BY <2>2 DEF CopyIds
    <2> QED
      BY <1>1, <2>2, <2>3, <2>4
  <1>4. pinned' = 0
    BY DEF Insert
  <1>5. CASE CopyBytes > CacheBytes
    <2>1. live' = live - CopyBytes /\ UNCHANGED <<kept, lease>>
      BY <1>5 DEF Insert
    <2>2. CacheOf(kept, lease)'
      BY <1>1, <1>3, <2>1 DEF CacheOf, CacheBytes
    <2> QED
      BY <1>1, <1>2, <1>4, <2>1, <2>2
  <1>6. CASE ~ CopyBytes > CacheBytes
    <2> DEFINE enough == {n \in 0 .. len : LeaseOf(n + 1 .. len) + CopyBytes <= CacheBytes}
               n == Overflow(CopyBytes)
               rest == SubSeq(kept, n + 1, len)
    <2>1. ASSUME NEW m \in 0 .. len
          PROVE  LeaseOf(m + 1 .. len) = (len - m) * CopyBytes
      <3>1. m + 1 .. len \in SUBSET DOMAIN kept /\ m \in Int
        BY <1>1
      <3>2. Cardinality(m + 1 .. len) = len - m
        <4>1. m + 1 \in Int /\ len \in Int
          BY <1>1
        <4>2. Cardinality(m + 1 .. len) = IF m + 1 > len THEN 0 ELSE len - (m + 1) + 1
          BY <4>1, FS_Interval
        <4> QED
          BY <1>1, <4>2
      <3> QED
        BY <1>1, <3>1, <3>2, LeasesAlike
    <2>2. enough \in SUBSET Nat
      BY <1>1
    <2>3. len \in enough
      <3>1. LeaseOf(len + 1 .. len) = 0 * CopyBytes
        BY <1>1, <2>1
      <3>2. LeaseOf(len + 1 .. len) = 0
        BY <3>1, <1>2
      <3> QED
        BY <1>1, <1>2, <1>6, <3>2
    <2>4. \E m \in enough : \A k \in enough : m <= k
      <3> HIDE DEF enough
      <3> QED
        BY <2>2, <2>3, NatLeast
    <2>5. n \in enough
      BY <2>4 DEF Overflow
    <2>6. n \in 0 .. len /\ n \in Nat /\ (len - n) * CopyBytes + CopyBytes <= CacheBytes
      BY <1>1, <2>1, <2>5
    <2> HIDE DEF n, enough
    <2>7. LeaseOf(1 .. n) = n * CopyBytes
      <3>1. 1 .. n \in SUBSET DOMAIN kept
        BY <1>1, <2>6
      <3>2. Cardinality(1 .. n) = n
        BY <2>6, FS_Interval
      <3> QED
        BY <1>1, <3>1, <3>2, LeasesAlike
    <2>8. /\ live' = live - n * CopyBytes
          /\ kept' = Append(rest, copy)
          /\ lease' = [c \in CopyIds |->
                         IF c = copy THEN CopyBytes
                         ELSE IF \E i \in 1 .. n : kept[i] = c THEN 0 ELSE lease[c]]
      BY <1>6, <2>7 DEF Insert, n
    <2>9. /\ rest \in Seq(CopyIds) /\ Len(rest) = len - n
          /\ \A i \in 1 .. len - n : rest[i] = kept[n + i]
      <3>1. kept \in Seq(CopyIds) /\ len \in Nat /\ n \in 0 .. len
        BY <1>1, <2>6
      <3> QED
        BY <3>1
    <2> HIDE DEF rest
    <2>10. /\ kept' \in Seq(CopyIds) /\ Len(kept') = len - n + 1
           /\ kept'[len - n + 1] = copy
           /\ \A i \in 1 .. len - n : kept'[i] = kept[n + i]
      <3>1. /\ kept' \in Seq(CopyIds) /\ Len(kept') = Len(rest) + 1
            /\ kept'[Len(rest) + 1] = copy
            /\ \A i \in 1 .. Len(rest) : kept'[i] = rest[i]
        BY <2>8, <2>9
      <3> QED
        BY <3>1, <2>9
    <2>11. DOMAIN kept' = 1 .. len - n + 1
      BY <2>10
    <2>12. \A i \in 1 .. len - n : n + i \in 1 .. len /\ n + i \notin 1 .. n /\ i \in Int
      BY <1>1, <2>6
    <2>13. \A i \in DOMAIN kept' : lease'[kept'[i]] = CopyBytes /\ kept'[i] < current'
      <3>1. SUFFICES ASSUME NEW i \in DOMAIN kept'
                     PROVE  lease'[kept'[i]] = CopyBytes /\ kept'[i] < current'
        OBVIOUS
      <3>2. CASE i = len - n + 1
        BY <2>8, <2>10, <3>2
      <3>3. CASE i # len - n + 1
        <4>1. i \in 1 .. len - n
          BY <1>1, <2>6, <2>11, <3>3
        <4>2. n + i \in 1 .. len /\ n + i \notin 1 .. n /\ kept'[i] = kept[n + i]
          BY <2>10, <2>12, <4>1
        <4>3. ~ \E j \in 1 .. n : kept[j] = kept[n + i]
          <5>1. SUFFICES ASSUME NEW j \in 1 .. n, kept[j] = kept[n + i] PROVE FALSE
            OBVIOUS
          <5>2. j \in 1 .. len
            BY <1>1, <2>6
          <5>3. j = n + i
            BY <1>1, <4>2, <5>1, <5>2 DEF CacheOf
          <5> QED
            BY <4>2, <5>3
        <4> QED
          BY <1>3, <2>8, <4>2, <4>3
      <3> QED
        BY <3>2, <3>3
    <2>14. \A i, j \in DOMAIN kept' : kept'[i] = kept'[j] => i = j
      <3>1. SUFFICES ASSUME NEW i \in DOMAIN kept', NEW j \in DOMAIN kept', kept'[i] = kept'[j]
                     PROVE  i = j
        OBVIOUS
      <3>2. \A m \in DOMAIN kept' : m # len - n + 1 => m \in 1 .. len - n
        BY <1>1, <2>6, <2>11
      <3>3. \A m \in 1 .. len - n : kept'[m] # copy
        BY <1>3, <2>10, <2>12
      <3>4. CASE i \in 1 .. len - n /\ j \in 1 .. len - n
        <4>1. n + i = n + j
          BY <1>1, <2>10, <2>12, <3>1, <3>4 DEF CacheOf
        <4> QED
          BY <2>6, <2>12, <3>4, <4>1
      <3> QED
        BY <2>10, <3>1, <3>2, <3>3, <3>4
    <2>15. lease' \in [CopyIds -> Nat]
      BY <1>1, <1>2, <2>8 DEF CacheOf
    <2>16. /\ Len(kept') * CopyBytes = (len - n) * CopyBytes + CopyBytes
           /\ (len - n) * CopyBytes = len * CopyBytes - n * CopyBytes
           /\ n * CopyBytes \in Nat
      <3>1. len - n \in Nat /\ n <= len
        BY <1>1, <2>6
      <3>2. (len - n + 1) * CopyBytes = (len - n) * CopyBytes + CopyBytes
        BY <1>2, <3>1, Products
      <3> QED
        BY <1>1, <1>2, <2>6, <2>10, <3>1, <3>2, Products
    <2>17. Len(kept') * CopyBytes <= CacheBytes'
      BY <2>6, <2>16 DEF CacheBytes
    <2>18. CacheOf(kept, lease)'
      BY <2>10, <2>13, <2>14, <2>15, <2>17 DEF CacheOf
    <2>19. live' = Resident - CopyBytes + Len(kept') * CopyBytes
      <3> DEFINE total == len * CopyBytes
                 gone == n * CopyBytes
      <3>1. total \in Int /\ gone \in Int
        BY <1>1, <2>16
      <3>2. live' = Resident + total - gone /\ Len(kept') * CopyBytes = total - gone + CopyBytes
        BY <1>1, <2>8, <2>16
      <3> HIDE DEF total, gone
      <3> QED
        BY <1>1, <1>2, <3>1, <3>2
    <2> QED
      BY <1>4, <2>18, <2>19
  <1> QED
    BY <1>5, <1>6

(* A reread copy is cached.                                                    *)
LEMMA KeepRereadKeeps ==
  ASSUME CertInv, KeepReread
  PROVE  CertInv'
  <1>0. /\ cpc = "keep" /\ cpc' = "next" /\ Insert(prior - 1, held.reread)
        /\ held' = [held EXCEPT !.reread = 0]
        /\ UNCHANGED <<scene, limit, current, prior, report>>
    BY DEF KeepReread
  <1>1. ASSUME Roomy, Ledger
        PROVE  Ledger'
    <2>1. /\ held.reread = CopyBytes /\ held.current = CopyBytes
          /\ held \in [current : Nat, reread : Nat]
          /\ ~ IsCached(prior - 1) /\ prior > 1 /\ current \in CopyIds
          /\ prior \in 1 .. current
      BY <1>0, <1>1 DEF Ledger, Holding
    <2>2. prior - 1 \in CopyIds /\ prior - 1 < current /\ current \in Int
      <3>1. current \in 1 .. Copies /\ Copies \in Nat
        BY <2>1, Sizes DEF CopyIds
      <3> QED
        BY <2>1, <3>1 DEF CopyIds
    <2>3. limit \in Limits
      BY DEF CertInv
    <2>4. /\ CacheOf(kept, lease)' /\ pinned' = 0
          /\ live' = Resident - CopyBytes + Len(kept') * CopyBytes
      BY <1>0, <1>1, <2>1, <2>2, <2>3, Inserted
    <2>5. held'.reread = 0 /\ held'.current = CopyBytes /\ held' \in [current : Nat, reread : Nat]
      BY <1>0, <2>1
    <2>6. Resident' = Resident - CopyBytes
      BY <1>0, <2>1, <2>5, Sizes DEF Resident
    <2>7. Holding'
      BY <1>0, <2>1, <2>4, <2>5 DEF Holding
    <2> QED
      BY <2>4, <2>6, <2>7 DEF Ledger
  <1> QED
    BY <1>0, <1>1, CertGoesOn

(* The certified copy is cached and the next one begun.                        *)
LEMMA NextCopyKeeps ==
  ASSUME CertInv, NextCopy
  PROVE  CertInv'
  <1>0. cpc = "next" /\ prior = current
    BY DEF NextCopy
  <1>1. CASE Refused("valid", "VALID")
    BY <1>1, CertRefuses
  <1>2. CASE /\ current # Copies /\ Insert(current, held.current)
             /\ held' = [held EXCEPT !.current = 0]
             /\ current' = current + 1 /\ prior' = current + 1 /\ cpc' = "read"
             /\ UNCHANGED <<scene, limit, report>>
    <2>1. ASSUME Roomy, Ledger
          PROVE  Ledger'
      <3>1. /\ held.reread = 0 /\ held.current = CopyBytes
            /\ held \in [current : Nat, reread : Nat] /\ current \in CopyIds
        BY <1>0, <2>1 DEF Ledger, Holding
      <3>2. current + 1 \in CopyIds /\ current \in Int /\ current + 1 \in 1 .. current + 1
        <4>1. current \in 1 .. Copies /\ Copies \in Nat
          BY <3>1, Sizes DEF CopyIds
        <4> QED
          BY <1>2, <4>1 DEF CopyIds
      <3>3. ~ IsCached(current)
        BY <2>1, <3>2 DEF Ledger, CacheOf, IsCached
      <3>4. limit \in Limits
        BY DEF CertInv
      <3>5. /\ CacheOf(kept, lease)' /\ pinned' = 0
            /\ live' = Resident - CopyBytes + Len(kept') * CopyBytes
        BY <1>2, <2>1, <3>1, <3>2, <3>3, <3>4, Inserted
      <3>6. /\ held'.reread = 0 /\ held'.current = 0
            /\ held' \in [current : Nat, reread : Nat]
        BY <1>2, <3>1
      <3>7. Resident' = Resident - CopyBytes
        BY <1>0, <1>2, <3>1, <3>6, Sizes DEF Resident
      <3>8. ~ IsCached(pinned)'
        <4>1. \A i \in DOMAIN kept' : kept'[i] \in CopyIds
          BY <3>5 DEF CacheOf
        <4> QED
          BY <3>5, <4>1 DEF IsCached, CopyIds
      <3>9. Holding'
        BY <1>2, <3>2, <3>5, <3>6, <3>8 DEF Holding
      <3> QED
        BY <3>5, <3>7, <3>9 DEF Ledger
    <2> QED
      BY <1>0, <1>2, <2>1, CertGoesOn
  <1> QED
    BY <1>1, <1>2 DEF NextCopy

(* Every step of the certification keeps the invariant.                        *)
LEMMA CertKept ==
  ASSUME CertInv, CertNext
  PROVE  CertInv'
  <1>1. CASE CertStop
    BY <1>1, CertRefuses DEF CertStop
  <1> QED
    BY <1>1, AdmitKeeps, ReadCopyKeeps, ImportCopyKeeps, PlaceCopyKeeps, ContainKeeps,
       NextPriorKeeps, PairKeeps, KeepRereadKeeps, NextCopyKeeps DEF CertNext

(* Before the certification, and when a step leaves it alone.                  *)
LEMMA CertIdle ==
  ASSUME CertInv, cpc = "admit", scene' \in Scenes, limit' \in Limits,
         UNCHANGED <<cpc, current, prior, ledger, meters, report>>
  PROVE  CertInv'
  <1>1. /\ Idle /\ Idle' /\ cpc' = "admit"
    BY DEF CertInv, Idle, ledger
  <1>2. Ledger'
    <2>1. 1 \in CopyIds
      BY CertAssumption DEF CopyIds
    <2>2. Holding'
      BY <1>1, <2>1 DEF Holding, Idle, IsCached
    <2>3. CacheOf(kept, lease)'
      BY <1>1 DEF CacheOf, Idle
    <2>4. Resident' = 0
      BY <1>1 DEF Resident, Idle
    <2>5. live' = 0 /\ Len(kept') = 0
      BY <1>1 DEF Idle
    <2>6. Len(kept') * CopyBytes = 0
      BY <2>5, Sizes
    <2> QED
      BY <2>2, <2>3, <2>4, <2>5, <2>6 DEF Ledger
  <1> QED
    BY <1>1, <1>2 DEF CertInv, Idle, NoReport

(* A step that leaves the certification alone.                                 *)
LEMMA CertSame ==
  ASSUME CertInv, UNCHANGED certVars
  PROVE  CertInv'
  BY DEF CertInv, certVars, ledger, meters, Idle, Roomy, UncachedNeed, Ledger, Holding,
         CacheOf, CacheBytes, Resident, IsCached

(* Every step but the certification's own and the build leaves it alone, and   *)
(* none goes back to where nothing is built.                                   *)
LEMMA OthersLeaveCert ==
  ASSUME [Next]_solveVars, ~ Certify, ~ Build
  PROVE  /\ UNCHANGED certVars
         /\ phase' \in BeforeBuild \cup {"build"} => phase \in BeforeBuild \cup {"build"}
  <1> USE DEF BeforeBuild, BeforeSearch, Goto
  <1>1. CASE \E named, code, exit : FailNaming(named, code, exit)
    BY <1>1 DEF FailNaming
  <1>2. CASE Arguments \/ LoadSettings \/ StartSolve \/ LoadAssets \/ Prepare
    BY <1>1, <1>2 DEF Arguments, LoadSettings, StartSolve, LoadAssets, Prepare, GoesOn, Fail
  <1>3. CASE StartWatcher
    BY <1>3 DEF StartWatcher
  <1>4. CASE SearchInterrupted \/ SearchEnds \/ FindMore
    BY <1>4 DEF SearchInterrupted, SearchEnds, FindMore, EndSearch, GoesOn
  <1>5. CASE AskMonitor
    BY <1>5 DEF AskMonitor
  <1>6. CASE Retained
    BY <1>1, <1>6 DEF Retained, GoesOn, Fail
  <1>7. CASE BuildFails \/ CertifyFails
    BY <1>1, <1>7 DEF BuildFails, CertifyFails, Fail
  <1>8. CASE Commit
    BY <1>1, <1>8 DEF Commit, GoesOn, Fail
  <1>9. CASE Reply
    BY <1>1, <1>9 DEF Reply, Fail
  <1>10. CASE ChangeMarker \/ WatchPoll \/ ConsoleSignal \/ DeadlinePasses
    BY <1>10 DEF ChangeMarker, WatchPoll, ConsoleSignal, DeadlinePasses, commandVars
  <1>11. CASE Terminated \/ UNCHANGED solveVars
    BY <1>11 DEF Terminated, solveVars, commandVars
  <1> QED
    BY <1>2, <1>3, <1>4, <1>5, <1>6, <1>7, <1>8, <1>9, <1>10, <1>11 DEF Next, CommandSteps

(* The ledger is kept by every step of the command.                            *)
LEMMA CommandKept ==
  ASSUME CommandInv, [Next]_solveVars
  PROVE  CommandInv'
  <1>1. CASE Certify
    <2>1. phase = "certify" /\ phase' = "certify" /\ CertNext
      BY <1>1 DEF Certify, commandVars
    <2> QED
      BY <2>1, CertKept DEF CommandInv, BeforeBuild, BeforeSearch
  <1>2. CASE Build
    <2>1. /\ phase = "build" /\ phase' \in {"certify", "exported"}
          /\ UNCHANGED <<cpc, current, prior, ledger, meters, report>>
          /\ (scene' \in Scenes /\ limit' \in Limits) \/ UNCHANGED <<scene, limit>>
      BY <1>2 DEF Build, Goto
    <2>2. cpc = "admit" /\ CertInv /\ scene' \in Scenes /\ limit' \in Limits
      BY <2>1 DEF CommandInv, CertInv
    <2> QED
      BY <2>1, <2>2, CertIdle DEF CommandInv, BeforeBuild, BeforeSearch
  <1>3. CASE ~ Certify /\ ~ Build
    <2>1. CertInv' /\ cpc' = cpc
      BY <1>3, OthersLeaveCert, CertSame DEF CommandInv, certVars
    <2> QED
      BY <1>3, <2>1, OthersLeaveCert DEF CommandInv
  <1> QED
    BY <1>1, <1>2, <1>3

(* The ledger's invariant holds in every reachable state.                      *)
THEOREM LedgerInvariant == Spec => []CommandInv
  <1>1. Init => CommandInv
    <2>1. SUFFICES ASSUME Init PROVE CommandInv
      OBVIOUS
    <2>2. CertInit /\ phase = "arguments"
      BY <2>1 DEF Init
    <2>3. Idle /\ cpc = "admit" /\ scene \in Scenes /\ limit \in Limits
      BY <2>2 DEF CertInit, Idle
    <2>4. Ledger
      <3>1. 1 \in CopyIds
        BY CertAssumption DEF CopyIds
      <3>2. Holding
        BY <2>3, <3>1 DEF Holding, Idle, IsCached
      <3>3. CacheOf(kept, lease)
        BY <2>3 DEF CacheOf, Idle
      <3>4. Resident = 0 /\ live = 0 /\ Len(kept) = 0
        BY <2>3 DEF Resident, Idle
      <3>5. Len(kept) * CopyBytes = 0
        BY <3>4, Sizes
      <3> QED
        BY <3>2, <3>3, <3>4, <3>5 DEF Ledger
    <2>5. report.code # "EXPORT_MEMORY_LIMIT"
      BY <2>3 DEF Idle, NoReport
    <2> QED
      BY <2>3, <2>4, <2>5 DEF CommandInv, CertInv
  <1>2. CommandInv /\ [Next]_solveVars => CommandInv'
    BY CommandKept
  <1> QED
    BY <1>1, <1>2, PTL DEF Spec

(* Memory is refused to a certification only where it would have been without  *)
(* a cache (CopyCache and Budget of export_validation.cpp).                    *)
THEOREM CacheRejectsNothing == Spec => []CacheNeverRejects
  <1>1. CommandInv => CacheNeverRejects
    <2>1. SUFFICES ASSUME CommandInv, report.code = "EXPORT_MEMORY_LIMIT"
                   PROVE  limit.memory < UncachedNeed
      BY DEF CacheNeverRejects
    <2>2. ~ Roomy /\ limit.memory \in Int
      BY <2>1, CacheShare DEF CommandInv, CertInv
    <2>3. UncachedNeed \in Int
      BY <2>1, NeedInt DEF CommandInv, CertInv
    <2> QED
      BY <2>2, <2>3 DEF Roomy
  <1> QED
    BY <1>1, LedgerInvariant, PTL

-------------------------------------------------------------------------------
(* The publication of a result: its inductive invariant.                       *)

Contents == Solutions \cup {Foreign, None}

ExportTypes ==
  /\ stl \in Contents
  /\ asset \in [Assets -> Assets \cup {Foreign, None}]
  /\ step \in [Exporters -> Running \cup {"idle", "exported", "failed"}]
  /\ sol \in [Exporters -> Solutions]
  /\ stages \in [Exporters ->
                   SUBSET [role : {"asset", "result", "stl", "companion"},
                           bytes : Solutions \cup Assets \cup {Foreign}]]
  /\ pin \in [Exporters -> {"none", "stage", "published", "reused"}]

(* What an exporter has certified it keeps pinned until it commits.        *)
Certified(e) ==
  step[e] \in {"companion", "commit"} =>
    pin[e] \in {"published", "reused"} /\ stl = sol[e]

AssetsComplete == \A a \in Assets : asset[a] = a

PastAssets == Running \ {"assets"}

(* What an untouched directory owes to the place of each exporter.         *)
Delivered(e) ==
  /\ step[e] \in PastAssets => AssetsComplete
  /\ step[e] = "commit" => companion = sol[e]

(* The result that is there was committed, and so were its files.          *)
Readable ==
  result = None \/
    /\ AssetsComplete
    /\ result.artifact \in Solutions \cup {None}
    /\ result.artifact # None =>
         stl = result.artifact /\ companion = result.artifact

ExportInv ==
  /\ ExportTypes
  /\ \A e \in Exporters : Certified(e)
  /\ touched = {} => Readable /\ \A e \in Exporters : Delivered(e)

-------------------------------------------------------------------------------
(* Every step keeps it.                                                    *)

(* Every step keeps the types.                                             *)
LEMMA TypesKept ==
  ASSUME ExportTypes, [ExportNext]_exportVars
  PROVE  ExportTypes'
  <1> USE DEF ExportTypes, Contents, Running, files, mine, others
  <1>1. CASE UNCHANGED exportVars
    BY <1>1 DEF exportVars
  <1>2. CASE \E e \in Exporters : ExporterNext(e) \/ TouchStage(e)
    <2> PICK e \in Exporters : ExporterNext(e) \/ TouchStage(e)
      BY <1>2
    <2>1. CASE Begin(e)
      BY <2>1 DEF Begin, Reaches
    <2>2. CASE StageAsset(e)
      BY <2>2 DEF StageAsset, Stage, Staged
    <2>3. CASE MoveAsset(e)
      BY <2>3 DEF MoveAsset, Unstage, MayMove, Staged
    <2>4. CASE AssetsThere(e)
      BY <2>4 DEF AssetsThere, Reaches
    <2>5. CASE StageResult(e)
      BY <2>5 DEF StageResult, Stage, Staged
    <2>6. CASE Primary(e)
      BY <2>6 DEF Primary, Unstage, Staged, Reaches
    <2>7. CASE EmitStl(e)
      BY <2>7 DEF EmitStl, Reaches
    <2>8. CASE PinStl(e)
      BY <2>8 DEF PinStl, Reaches
    <2>9. CASE CertifyStl(e)
      BY <2>9 DEF CertifyStl, Reaches
    <2>10. CASE PublishStl(e)
      BY <2>10 DEF PublishStl, Unstage, Staged, Reaches
    <2>11. CASE ReuseStl(e)
      BY <2>11 DEF ReuseStl, Reaches
    <2>12. CASE StageCompanion(e)
      BY <2>12 DEF StageCompanion, Stage, Staged
    <2>13. CASE MoveCompanion(e)
      BY <2>13 DEF MoveCompanion, Unstage, MayMove, Staged, Reaches
    <2>14. CASE CommitResult(e)
      BY <2>14 DEF CommitResult, Reaches
    <2>15. CASE ExportFails(e)
      BY <2>15 DEF ExportFails, Reaches
    <2>16. CASE Die(e)
      BY <2>16 DEF Die, Reaches
    <2>17. CASE TouchStage(e)
      BY <2>17 DEF TouchStage
    <2> QED
      BY <2>1, <2>2, <2>3, <2>4, <2>5, <2>6, <2>7, <2>8, <2>9, <2>10, <2>11, <2>12,
        <2>13, <2>14, <2>15, <2>16, <2>17 DEF ExporterNext
  <1>3. CASE Outsider
    BY <1>3 DEF Outsider, Touch, StlPinned
  <1> QED
    BY <1>1, <1>2, <1>3 DEF ExportNext

(* Nobody changes an STL between its certification and its commit: the     *)
(* name is taken, and the handle that published or reused it denies every  *)
(* other write, delete and rename.                                         *)
LEMMA CertifiedKept ==
  ASSUME ExportTypes, \A e \in Exporters : Certified(e),
         [ExportNext]_exportVars, NEW x \in Exporters
  PROVE  Certified(x)'
  <1>a. /\ step \in [Exporters -> Running \cup {"idle", "exported", "failed"}]
        /\ sol \in [Exporters -> Solutions]
        /\ pin \in [Exporters -> {"none", "stage", "published", "reused"}]
        /\ None \notin Solutions
    BY ExportAssumption DEF ExportTypes
  <1> USE <1>a DEF Certified, files, mine, others
  <1>1. CASE UNCHANGED exportVars
    BY <1>1 DEF exportVars
  <1>2. CASE \E e \in Exporters : ExporterNext(e) \/ TouchStage(e)
    <2> PICK e \in Exporters : ExporterNext(e) \/ TouchStage(e)
      BY <1>2
    <2>1. CASE Begin(e)
      BY <2>1 DEF Begin, Reaches
    <2>2. CASE StageAsset(e)
      BY <2>2 DEF StageAsset, Stage, Staged
    <2>3. CASE MoveAsset(e)
      BY <2>3 DEF MoveAsset, Unstage, MayMove, Staged
    <2>4. CASE AssetsThere(e)
      BY <2>4 DEF AssetsThere, Reaches
    <2>5. CASE StageResult(e)
      BY <2>5 DEF StageResult, Stage, Staged
    <2>6. CASE Primary(e)
      BY <2>6 DEF Primary, Unstage, Staged, Reaches
    <2>7. CASE EmitStl(e)
      BY <2>7 DEF EmitStl, Reaches
    <2>8. CASE PinStl(e)
      BY <2>8 DEF PinStl, Reaches
    <2>9. CASE CertifyStl(e)
      BY <2>9 DEF CertifyStl, Reaches
    <2>10. CASE PublishStl(e)
      BY <2>10 DEF PublishStl, Unstage, Staged, Reaches
    <2>11. CASE ReuseStl(e)
      BY <2>11 DEF ReuseStl, Reaches
    <2>12. CASE StageCompanion(e)
      BY <2>12 DEF StageCompanion, Stage, Staged
    <2>13. CASE MoveCompanion(e)
      BY <2>13 DEF MoveCompanion, Unstage, MayMove, Staged, Reaches
    <2>14. CASE CommitResult(e)
      BY <2>14 DEF CommitResult, Reaches
    <2>15. CASE ExportFails(e)
      BY <2>15 DEF ExportFails, Reaches
    <2>16. CASE Die(e)
      BY <2>16 DEF Die, Reaches
    <2>17. CASE TouchStage(e)
      BY <2>17 DEF TouchStage
    <2> QED
      BY <2>1, <2>2, <2>3, <2>4, <2>5, <2>6, <2>7, <2>8, <2>9, <2>10, <2>11, <2>12,
        <2>13, <2>14, <2>15, <2>16, <2>17 DEF ExporterNext
  <1>3. CASE Outsider
    <2>1. UNCHANGED <<step, sol, pin>>
      BY <1>3 DEF Outsider, Touch
    <2>2. stl' = stl \/ ~ StlPinned
      BY <1>3 DEF Outsider, Touch
    <2> QED
      BY <2>1, <2>2 DEF StlPinned
  <1> QED
    BY <1>1, <1>2, <1>3 DEF ExportNext

(* No step makes a directory that was tampered with untouched again.       *)
LEMMA TouchesStay ==
  ASSUME [ExportNext]_exportVars, touched' = {}
  PROVE  touched = {}
  <1> USE DEF others
  <1>1. CASE UNCHANGED exportVars
    BY <1>1 DEF exportVars
  <1>2. CASE \E e \in Exporters : ExporterNext(e) \/ TouchStage(e)
    BY <1>2 DEF ExporterNext, TouchStage, Begin, StageAsset, Stage, MoveAsset, AssetsThere,
      StageResult, Primary, EmitStl, PinStl, CertifyStl, PublishStl, ReuseStl,
      StageCompanion, MoveCompanion, CommitResult, ExportFails, Die
  <1>3. CASE Outsider
    BY <1>3 DEF Outsider, Touch
  <1> QED
    BY <1>1, <1>2, <1>3 DEF ExportNext

(* While nobody tampers with the directory, what was delivered stays:      *)
(* files are moved without replacing what has other bytes.                 *)
LEMMA DeliveredKept ==
  ASSUME ExportInv, [ExportNext]_exportVars, touched' = {}
  PROVE  Readable' /\ \A e \in Exporters : Delivered(e)'
  <1>a. /\ asset \in [Assets -> Assets \cup {Foreign, None}]
        /\ step \in [Exporters -> Running \cup {"idle", "exported", "failed"}]
        /\ sol \in [Exporters -> Solutions]
        /\ None \notin Solutions
    BY ExportAssumption DEF ExportTypes, ExportInv
  <1>b. touched = {}
    BY TouchesStay
  <1>c. Readable /\ \A e \in Exporters : Delivered(e) /\ Certified(e)
    BY <1>b DEF ExportInv
  <1> USE <1>a, <1>b, <1>c DEF Delivered, Readable, AssetsComplete, PastAssets, Running,
      files, mine, others
  <1>1. CASE UNCHANGED exportVars
    BY <1>1 DEF exportVars
  <1>2. CASE \E e \in Exporters : ExporterNext(e) \/ TouchStage(e)
    <2> PICK e \in Exporters : ExporterNext(e) \/ TouchStage(e)
      BY <1>2
    <2>1. CASE Begin(e)
      BY <2>1 DEF Begin, Reaches
    <2>2. CASE StageAsset(e)
      BY <2>2 DEF StageAsset, Stage, Staged
    <2>3. CASE MoveAsset(e)
      BY <2>3 DEF MoveAsset, Unstage, MayMove, Staged
    <2>4. CASE AssetsThere(e)
      BY <2>4 DEF AssetsThere, Reaches
    <2>5. CASE StageResult(e)
      BY <2>5 DEF StageResult, Stage, Staged
    <2>6. CASE Primary(e)
      BY <2>6 DEF Primary, Unstage, Staged, Reaches
    <2>7. CASE EmitStl(e)
      BY <2>7 DEF EmitStl, Reaches
    <2>8. CASE PinStl(e)
      BY <2>8 DEF PinStl, Reaches
    <2>9. CASE CertifyStl(e)
      BY <2>9 DEF CertifyStl, Reaches
    <2>10. CASE PublishStl(e)
      BY <2>10 DEF PublishStl, Unstage, Staged, Reaches
    <2>11. CASE ReuseStl(e)
      BY <2>11 DEF ReuseStl, Reaches
    <2>12. CASE StageCompanion(e)
      BY <2>12 DEF StageCompanion, Stage, Staged
    <2>13. CASE MoveCompanion(e)
      <3>1. /\ step[e] = "companion" /\ companion' = sol[e]
            /\ companion \in {None, sol[e]}
            /\ step' = [step EXCEPT ![e] = "commit"]
            /\ UNCHANGED <<result, stl, asset, sol>>
        BY <2>13 DEF MoveCompanion, MayMove, Reaches
      <3>2. Readable'
        BY <3>1
      <3>3. \A x \in Exporters : step[x] = "commit" => companion = sol[x]
        BY <1>c
      <3>4. \A x \in Exporters : Delivered(x)'
        BY <3>1, <3>3
      <3> QED
        BY <3>2, <3>4
    <2>14. CASE CommitResult(e)
      <3>1. /\ step[e] = "commit"
            /\ result' = [of |-> sol[e], artifact |-> sol[e]]
            /\ step' = [step EXCEPT ![e] = "exported"]
            /\ UNCHANGED <<stl, companion, asset, sol>>
        BY <2>14 DEF CommitResult, Reaches
      <3>2. stl = sol[e] /\ companion = sol[e] /\ \A a \in Assets : asset[a] = a
        <4>1. Delivered(e) /\ Certified(e)
          BY <1>c
        <4> HIDE <1>c
        <4> QED
          BY <3>1, <4>1 DEF Certified
      <3>3. Readable'
        BY <3>1, <3>2
      <3>4. \A x \in Exporters : step'[x] \in PastAssets \cup {"commit"} =>
            x # e /\ step[x] = step'[x]
        BY <3>1
      <3> QED
        BY <3>1, <3>3, <3>4
    <2>15. CASE ExportFails(e)
      BY <2>15 DEF ExportFails, Reaches
    <2>16. CASE Die(e)
      BY <2>16 DEF Die, Reaches
    <2>17. CASE TouchStage(e)
      BY <2>17 DEF TouchStage
    <2> QED
      BY <2>1, <2>2, <2>3, <2>4, <2>5, <2>6, <2>7, <2>8, <2>9,
        <2>10, <2>11, <2>12, <2>13, <2>14, <2>15, <2>16, <2>17 DEF ExporterNext
  <1>3. CASE Outsider
    BY <1>3 DEF Outsider, Touch, StlPinned
  <1> QED
    BY <1>1, <1>2, <1>3 DEF ExportNext
-------------------------------------------------------------------------------
(* The theorems.                                                           *)

(* The invariant holds in every reachable state.                           *)
THEOREM ExportInvariant == ExportSpec => []ExportInv
  <1>1. ExportInit => ExportInv
    BY ExportAssumption
       DEF ExportInit, ExportInv, ExportTypes, Contents, Running, PastAssets,
           Certified, Delivered, Readable
  <1>2. ExportInv /\ [ExportNext]_exportVars => ExportInv'
    BY TypesKept, CertifiedKept, DeliveredKept DEF ExportInv
  <1> QED
    BY <1>1, <1>2, PTL DEF ExportSpec

(* A result nobody tampered with can be read back: its assets are there,   *)
(* and the STL it names with its companion, whoever failed, died or        *)
(* published another solution meanwhile (ResultPublisher::publish).        *)
THEOREM ResultReadsBack == ExportSpec => []ResultComplete
  <1>1. ExportInv => ResultComplete
    BY DEF ExportInv, ResultComplete, Readable, AssetsComplete
  <1> QED
    BY <1>1, ExportInvariant, PTL

(* A step that makes result.json name an artifact finds at the STL path    *)
(* exactly the bytes that were certified under that name.                  *)
LEMMA NamingStep ==
  ASSUME ExportInv, [ExportNext]_exportVars,
         result' # result, result' # None, result'.artifact # None
  PROVE  stl' = result'.artifact
  <1> USE DEF files, mine, others
  <1>1. CASE UNCHANGED exportVars
    BY <1>1 DEF exportVars
  <1>2. CASE \E e \in Exporters : ExporterNext(e) \/ TouchStage(e)
    <2>1. PICK e \in Exporters : Primary(e) \/ CommitResult(e)
      BY <1>2 DEF ExporterNext, TouchStage, Begin, StageAsset, Stage, MoveAsset,
        AssetsThere, StageResult, EmitStl, PinStl, CertifyStl, PublishStl, ReuseStl,
        StageCompanion, MoveCompanion, ExportFails, Die
    <2>2. ~ Primary(e)
      BY DEF Primary
    <2> QED
      BY <2>1, <2>2 DEF CommitResult, ExportInv, Certified
  <1>3. CASE Outsider
    BY <1>3 DEF Outsider
  <1> QED
    BY <1>1, <1>2, <1>3 DEF ExportNext

(* Whenever result.json comes to name an artifact, the STL path has the    *)
(* bytes that artifact's hash was taken from (export_result).              *)
THEOREM NamesCertifiedBytes == ExportSpec => CommitNamesCertified
  <1>1. ExportInv /\ [ExportNext]_exportVars =>
          [result' # result /\ result' # None /\ result'.artifact # None =>
             stl' = result'.artifact]_exportVars
    BY NamingStep
  <1> QED
    BY <1>1, ExportInvariant, PTL DEF ExportSpec, CommitNamesCertified

-------------------------------------------------------------------------------
(* The window: what travels, states of the core, at most one per question.     *)
Operations == [id : Nat, kind : Kinds, active : BOOLEAN]
Packings == [op : Nat, seq : Nat]
CoreStates == [revision : Nat, op : SUBSET Operations, object : Nat, live : SUBSET Packings]

AtMostOneOf(S) == \A x, y \in S : x = y

WindowTypes ==
  /\ begun \in Nat /\ revision \in Nat /\ object \in Nat
  /\ op \in SUBSET Operations
  /\ packing \in SUBSET Packings
  /\ shown \in SUBSET CoreStates /\ AtMostOneOf(shown)
  /\ poll \in SUBSET [current : BOOLEAN, state : SUBSET CoreStates]
  /\ command \in SUBSET [kind : Kinds, pc : {"call", "read", "fresh", "answer"},
                         state : SUBSET CoreStates]
  /\ AtMostOneOf(command)
  /\ \A c \in command : AtMostOneOf(c.state)

(* No state that travels, or is shown, is ahead of the core.               *)
Behind ==
  /\ \A s \in shown : s.revision <= revision
  /\ \A r \in poll : \A s \in r.state : s.revision <= revision
  /\ \A c \in command : \A s \in c.state : s.revision <= revision

(* From New to the arrival of its answer nothing happens in the core: there *)
(* is no operation that could publish, install or finish, and no second     *)
(* command.                                                                 *)
NewIsLast ==
  \A c \in command :
    c.pc = "fresh" => op = {} /\ \A s \in c.state : s.revision = revision

WindowInv == WindowTypes /\ Behind /\ NewIsLast

(* It holds before the window has read anything.                             *)
LEMMA WindowInitially == WindowInit => WindowInv
  BY DEF WindowInit, WindowInv, WindowTypes, Behind, NewIsLast, AtMostOneOf

-------------------------------------------------------------------------------
(* What acceptState shows is never older than what was shown, and is one   *)
(* state: the one that arrived, or the one shown already.                  *)
LEMMA AcceptedIsNewer ==
  ASSUME WindowTypes, NEW incoming \in CoreStates
  PROVE  /\ AcceptState(incoming) \in SUBSET CoreStates
         /\ AtMostOneOf(AcceptState(incoming))
         /\ \A s \in shown, t \in AcceptState(incoming) : s.revision <= t.revision
         /\ \A t \in AcceptState(incoming) : t \in shown \/ t.revision = incoming.revision
  <1> DEFINE old == UNION {s.live : s \in shown}
  <1>1. /\ shown \in SUBSET CoreStates
        /\ \A s, t \in shown : s = t
    BY DEF WindowTypes, AtMostOneOf
  <1>2. old \in SUBSET Packings
    BY <1>1 DEF CoreStates
  <1>3. \A s \in shown : s.revision \in Nat
    BY <1>1 DEF CoreStates
  <1>4. incoming.revision \in Nat
    BY DEF CoreStates
  <1>5. CASE \E s \in shown : incoming.revision <= s.revision
    <2>1. AcceptState(incoming) = shown
      BY <1>5 DEF AcceptState
    <2> QED
      BY <2>1, <1>1, <1>3 DEF AtMostOneOf
  <1>6. CASE ~ \E s \in shown : incoming.revision <= s.revision
    <2>1. PICK alive \in SUBSET Packings :
            AcceptState(incoming) = {[incoming EXCEPT !.live = alive]}
      <3>1. PICK b \in BOOLEAN :
              AcceptState(incoming) = {[incoming EXCEPT !.live = IF b THEN old ELSE @]}
        BY <1>6 DEF AcceptState
      <3>2. incoming.live \in SUBSET Packings
        BY DEF CoreStates
      <3> QED
        BY <3>1, <3>2, <1>2
    <2> DEFINE accepted == [incoming EXCEPT !.live = alive]
    <2>2. accepted \in CoreStates /\ accepted.revision = incoming.revision
      BY DEF CoreStates
    <2>3. \A s \in shown : s.revision <= accepted.revision
      BY <1>6, <1>3, <1>4, <2>2
    <2> HIDE DEF accepted
    <2> QED
      BY <2>1, <2>2, <2>3 DEF AtMostOneOf, accepted
  <1> QED
    BY <1>5, <1>6

(* A step is harmless when it keeps the invariant and shows nothing older. *)
NothingOlder == \A s \in shown, t \in shown' : s.revision <= t.revision

(* What does not change the state shown shows nothing older.               *)
LEMMA SameIsNotOlder ==
  ASSUME WindowTypes, shown' = shown
  PROVE  NothingOlder
  <1>1. \A s \in shown : s.revision \in Nat
    BY DEF WindowTypes, CoreStates
  <1>2. \A s, t \in shown : s = t
    BY DEF WindowTypes, AtMostOneOf
  <1> QED
    BY <1>1, <1>2 DEF NothingOlder

(* What a read of the core answers is a state of the core.                   *)
LEMMA SnapshotIsState ==
  ASSUME WindowTypes
  PROVE  Snapshot \in CoreStates /\ Snapshot.revision = revision
  BY DEF WindowTypes, Snapshot, CoreStates

(* The core goes on under the states that travel, and not at all while New *)
(* is in flight.                                                           *)
LEMMA CoreStep ==
  ASSUME WindowInv, Core
  PROVE  WindowInv' /\ NothingOlder
  <1>1. /\ revision \in Nat /\ revision' = revision + 1
        /\ UNCHANGED <<begun, shown, poll, command>>
    BY DEF Core, Publish, Install, Finish, viewerVars, WindowInv, WindowTypes
  <1>2. object' \in Nat /\ op' \in SUBSET Operations /\ packing' \in SUBSET Packings
    <2>1. object \in Nat /\ op \in SUBSET Operations /\ packing \in SUBSET Packings
      BY DEF WindowInv, WindowTypes
    <2>2. CASE Publish
      BY <2>1, <2>2 DEF Publish, Operations, Packings
    <2>3. CASE Install
      BY <2>1, <2>3 DEF Install, Operations
    <2>4. CASE Finish
      BY <2>1, <2>4 DEF Finish, Operations
    <2> QED
      BY <2>2, <2>3, <2>4 DEF Core
  <1>3. WindowTypes'
    BY <1>1, <1>2 DEF WindowInv, WindowTypes, AtMostOneOf
  <1>4. Behind'
    <2>1. /\ \A s \in shown : s.revision \in Nat
          /\ \A r \in poll : \A s \in r.state : s.revision \in Nat
          /\ \A c \in command : \A s \in c.state : s.revision \in Nat
      BY DEF WindowInv, WindowTypes, CoreStates
    <2> QED
      BY <2>1, <1>1 DEF WindowInv, Behind
  <1>5. NewIsLast'
    <2>1. op # {}
      BY DEF Core, Publish, Install, Finish, Busy, Snapshot
    <2>2. \A c \in command : c.pc # "fresh"
      BY <2>1 DEF WindowInv, NewIsLast
    <2> QED
      BY <2>2, <1>1 DEF NewIsLast
  <1> QED
    BY <1>1, <1>3, <1>4, <1>5, SameIsNotOlder DEF WindowInv

(* The periodic read keeps the invariant and shows nothing older.            *)
LEMMA PollStep ==
  ASSUME WindowInv, Polls
  PROVE  WindowInv' /\ NothingOlder
  <1> USE DEF WindowInv
  <1>0. UNCHANGED <<begun, revision, op, object, packing, command>>
    BY DEF Polls, PollSends, PollReads, PollArrives, coreVars
  <1>1. CASE PollSends
    <2>1. UNCHANGED shown /\ poll' = {[current |-> TRUE, state |-> {}]}
      BY <1>1 DEF PollSends, viewerVars
    <2>2. WindowTypes'
      BY <1>0, <2>1 DEF WindowTypes, AtMostOneOf
    <2>3. Behind' /\ NewIsLast'
      BY <1>0, <2>1 DEF Behind, NewIsLast
    <2> QED
      BY <2>1, <2>2, <2>3, SameIsNotOlder
  <1>2. CASE PollReads
    <2>1. PICK r \in poll : r.state = {} /\ poll' = {[r EXCEPT !.state = {Snapshot}]}
      BY <1>2 DEF PollReads
    <2>2. UNCHANGED shown
      BY <1>2 DEF PollReads, viewerVars
    <2>3. r \in [current : BOOLEAN, state : SUBSET CoreStates]
      BY <2>1 DEF WindowTypes
    <2>4. WindowTypes'
      BY <1>0, <2>1, <2>2, <2>3, SnapshotIsState DEF WindowTypes, AtMostOneOf
    <2>5. \A s \in shown' : s.revision <= revision'
      BY <1>0, <2>2 DEF Behind
    <2>6. \A q \in poll' : q.state = {Snapshot}
      BY <2>1, <2>3
    <2>7. revision \in Nat
      BY DEF WindowTypes
    <2>8. Behind' /\ NewIsLast'
      BY <1>0, <2>5, <2>6, <2>7, SnapshotIsState DEF Behind, NewIsLast
    <2> QED
      BY <2>2, <2>4, <2>8, SameIsNotOlder
  <1>3. CASE PollArrives
    <2>1. PICK r \in poll, s \in UNION {q.state : q \in poll} :
            shown' = IF r.current THEN AcceptState(s) ELSE shown
      BY <1>3 DEF PollArrives, Show
    <2>2. poll' = {}
      BY <1>3 DEF PollArrives
    <2>3. s \in CoreStates /\ s.revision <= revision
      BY <2>1 DEF WindowTypes, Behind
    <2>4. /\ shown' \in SUBSET CoreStates /\ AtMostOneOf(shown') /\ NothingOlder
          /\ \A t \in shown' : t \in shown \/ t.revision = s.revision
      <3>1. CASE shown' = AcceptState(s)
        BY <2>3, <3>1, AcceptedIsNewer DEF NothingOlder
      <3>2. CASE shown' = shown
        BY <3>2, SameIsNotOlder DEF WindowTypes
      <3> QED
        BY <2>1, <3>1, <3>2
    <2>5. WindowTypes'
      BY <1>0, <2>2, <2>4 DEF WindowTypes, AtMostOneOf
    <2>6. Behind' /\ NewIsLast'
      BY <1>0, <2>2, <2>3, <2>4 DEF Behind, NewIsLast
    <2> QED
      BY <2>4, <2>5, <2>6
  <1> QED
    BY <1>1, <1>2, <1>3 DEF Polls

(* So does a command the user gives.                                         *)
LEMMA ClickStep ==
  ASSUME WindowInv, NEW kind \in Kinds, Click(kind)
  PROVE  WindowInv' /\ NothingOlder
  <1> USE DEF WindowInv
  <1>1. UNCHANGED <<begun, revision, op, object, packing, shown>>
    BY DEF Click, coreVars, viewerVars
  <1>2. command' = {[kind |-> kind, pc |-> "call", state |-> {}]}
    BY DEF Click
  <1>3. poll' = poll \/ poll' = {[r EXCEPT !.current = FALSE] : r \in poll}
    BY DEF Click
  <1>4. /\ poll' \in SUBSET [current : BOOLEAN, state : SUBSET CoreStates]
        /\ \A q \in poll' : \E r \in poll : q.state = r.state
    <2>1. poll \in SUBSET [current : BOOLEAN, state : SUBSET CoreStates]
      BY DEF WindowTypes
    <2> QED
      BY <1>3, <2>1
  <1>5. WindowTypes'
    BY <1>1, <1>2, <1>4 DEF WindowTypes, AtMostOneOf
  <1>6. Behind' /\ NewIsLast'
    BY <1>1, <1>2, <1>4 DEF Behind, NewIsLast
  <1> QED
    BY <1>1, <1>5, <1>6, SameIsNotOlder

(* So does a preview that is loaded.                                         *)
LEMMA LoadStep ==
  ASSUME WindowInv, Loads \/ UNCHANGED windowVars
  PROVE  WindowInv' /\ NothingOlder
  <1>1. UNCHANGED <<begun, revision, op, object, packing, shown, poll, command>>
    BY DEF Loads, LoadReads, LoadArrives, windowVars, coreVars, viewerVars
  <1> QED
    BY <1>1, SameIsNotOlder DEF WindowInv, WindowTypes, Behind, NewIsLast, AtMostOneOf

(* A command that goes on carries what its next step gives it.             *)
LEMMA Continued ==
  ASSUME WindowTypes, NEW pc \in {"call", "read", "fresh", "answer"},
         NEW states \in SUBSET CoreStates, AtMostOneOf(states), Continues(pc, states)
  PROVE  /\ command' \in SUBSET [kind : Kinds, pc : {"call", "read", "fresh", "answer"},
                                 state : SUBSET CoreStates]
         /\ AtMostOneOf(command')
         /\ \A c \in command' : c.pc = pc /\ c.state = states
         /\ \A c \in command' : AtMostOneOf(c.state)
  <1>1. command \in SUBSET [kind : Kinds, pc : {"call", "read", "fresh", "answer"},
                            state : SUBSET CoreStates]
    BY DEF WindowTypes
  <1>2. \A c, d \in command : c = d
    BY DEF WindowTypes, AtMostOneOf
  <1>3. command' = {[c EXCEPT !.pc = pc, !.state = states] : c \in command}
    BY DEF Continues
  <1>4. \A c \in command' : c.pc = pc /\ c.state = states
    BY <1>1, <1>3
  <1>5. /\ command' \in SUBSET [kind : Kinds, pc : {"call", "read", "fresh", "answer"},
                                state : SUBSET CoreStates]
        /\ \A c, d \in command' : c = d
    BY <1>1, <1>2, <1>3
  <1> QED
    BY <1>4, <1>5 DEF AtMostOneOf

(* The calls that begin, stop or decline, and a refusal.                   *)
LEMMA CallStep ==
  ASSUME WindowInv, CommandRefused \/ Begins \/ Stops \/ Declined
  PROVE  WindowInv' /\ NothingOlder
  <1> USE DEF WindowInv
  <1>0. UNCHANGED <<object, packing, shown, poll>>
    BY DEF CommandRefused, Begins, Stops, Declined, coreVars, viewerVars
  <1>1. /\ begun' \in Nat /\ revision' \in Nat /\ revision <= revision'
        /\ op' \in SUBSET Operations
    <2>1. begun \in Nat /\ revision \in Nat /\ op \in SUBSET Operations
      BY DEF WindowTypes
    <2>2. CASE CommandRefused \/ Declined
      BY <2>1, <2>2 DEF CommandRefused, Declined, coreVars
    <2>3. CASE Stops
      BY <2>1, <2>3 DEF Stops
    <2>4. CASE Begins
      <3>1. begun' = begun + 1 /\ revision' = revision + 1
        BY <2>4 DEF Begins
      <3>2. op' = {[id |-> begun', kind |-> c.kind, active |-> TRUE] : c \in command}
        BY <2>4 DEF Begins
      <3>3. \A c \in command : c.kind \in Kinds
        BY DEF WindowTypes
      <3>4. begun' \in Nat /\ revision' \in Nat /\ revision <= revision'
        BY <2>1, <3>1
      <3>5. \A p \in op' : p \in Operations
        <4>1. SUFFICES ASSUME NEW c \in command
                       PROVE  [id |-> begun', kind |-> c.kind, active |-> TRUE] \in Operations
          BY <3>2
        <4> QED
          BY <3>3, <3>4 DEF Operations
      <3> QED
        BY <3>4, <3>5
    <2> QED
      BY <2>2, <2>3, <2>4
  <1>2. /\ command' \in SUBSET [kind : Kinds, pc : {"call", "read", "fresh", "answer"},
                                state : SUBSET CoreStates]
        /\ AtMostOneOf(command')
        /\ \A c \in command' : c.pc = "read" /\ c.state = {}
        /\ \A c \in command' : AtMostOneOf(c.state)
    <2>1. CASE CommandRefused
      BY <2>1 DEF CommandRefused, AtMostOneOf
    <2>2. CASE Begins \/ Stops \/ Declined
      <3>1. Continues("read", {})
        BY <2>2 DEF Begins, Stops, Declined
      <3>2. AtMostOneOf({})
        BY DEF AtMostOneOf
      <3> QED
        BY <3>1, <3>2, Continued
    <2> QED
      BY <2>1, <2>2
  <1>3. WindowTypes'
    BY <1>0, <1>1, <1>2 DEF WindowTypes, AtMostOneOf
  <1>4. Behind'
    <2>1. /\ \A s \in shown : s.revision \in Nat
          /\ \A r \in poll : \A s \in r.state : s.revision \in Nat
      BY DEF WindowTypes, CoreStates
    <2>2. revision \in Nat
      BY DEF WindowTypes
    <2>3. /\ \A s \in shown' : s.revision <= revision'
          /\ \A r \in poll' : \A s \in r.state : s.revision <= revision'
      BY <1>0, <1>1, <2>1, <2>2 DEF Behind
    <2> QED
      BY <1>2, <2>3 DEF Behind
  <1>5. NewIsLast'
    BY <1>2 DEF NewIsLast
  <1> QED
    BY <1>0, <1>3, <1>4, <1>5, SameIsNotOlder

(* New: what it returns is the core's state, and stays it until it arrives.*)
LEMMA NewStep ==
  ASSUME WindowInv, NewClears
  PROVE  WindowInv' /\ NothingOlder
  <1> USE DEF WindowInv
  <1> DEFINE fresh == [revision |-> revision', op |-> {}, object |-> 0, live |-> {}]
  <1>1. /\ UNCHANGED <<begun, poll, shown>>
        /\ op' = {} /\ object' = 0 /\ packing' = {}
        /\ revision' = revision + 1 /\ Continues("fresh", {fresh})
    BY DEF NewClears, viewerVars
  <1>2. revision \in Nat /\ revision' \in Nat
    BY <1>1 DEF WindowTypes
  <1>3. {fresh} \in SUBSET CoreStates /\ AtMostOneOf({fresh})
    BY <1>2 DEF CoreStates, AtMostOneOf
  <1>4. fresh.revision = revision'
    OBVIOUS
  <1> HIDE DEF fresh
  <1>5. /\ command' \in SUBSET [kind : Kinds, pc : {"call", "read", "fresh", "answer"},
                                state : SUBSET CoreStates]
        /\ AtMostOneOf(command')
        /\ \A c \in command' : c.pc = "fresh" /\ c.state = {fresh}
        /\ \A c \in command' : AtMostOneOf(c.state)
    BY <1>1, <1>3, Continued
  <1>6. WindowTypes'
    BY <1>1, <1>2, <1>5 DEF WindowTypes, AtMostOneOf
  <1>7. Behind'
    <2>1. /\ \A s \in shown : s.revision \in Nat
          /\ \A r \in poll : \A s \in r.state : s.revision \in Nat
      BY DEF WindowTypes, CoreStates
    <2>2. /\ \A s \in shown' : s.revision <= revision'
          /\ \A r \in poll' : \A s \in r.state : s.revision <= revision'
      BY <1>1, <1>2, <2>1 DEF Behind
    <2> QED
      BY <1>2, <1>4, <1>5, <2>2 DEF Behind
  <1>8. NewIsLast'
    BY <1>1, <1>4, <1>5 DEF NewIsLast
  <1> QED
    BY <1>1, <1>6, <1>7, <1>8, SameIsNotOlder

(* The state New returned replaces what is shown, whatever that is: it is  *)
(* as new as the core.                                                     *)
LEMMA NewArrivesStep ==
  ASSUME WindowInv, NewArrives
  PROVE  WindowInv' /\ NothingOlder
  <1> USE DEF WindowInv
  <1>1. UNCHANGED <<begun, revision, op, object, packing, poll>> /\ Continues("read", {})
    BY DEF NewArrives, coreVars
  <1>2. PICK c \in command : c.pc = "fresh" /\ shown' = c.state
    BY DEF NewArrives, Show
  <1>3. shown' \in SUBSET CoreStates /\ AtMostOneOf(shown')
    BY <1>2 DEF WindowTypes
  <1>4. \A t \in shown' : t.revision = revision
    BY <1>2 DEF NewIsLast
  <1>5. AtMostOneOf({})
    BY DEF AtMostOneOf
  <1>6. /\ command' \in SUBSET [kind : Kinds, pc : {"call", "read", "fresh", "answer"},
                                state : SUBSET CoreStates]
        /\ AtMostOneOf(command')
        /\ \A d \in command' : d.pc = "read" /\ d.state = {}
        /\ \A d \in command' : AtMostOneOf(d.state)
    BY <1>1, <1>5, Continued
  <1>7. NothingOlder
    BY <1>4 DEF Behind, NothingOlder
  <1>8. WindowTypes'
    BY <1>1, <1>3, <1>6 DEF WindowTypes, AtMostOneOf
  <1>9. revision \in Nat
    BY DEF WindowTypes
  <1>10. Behind' /\ NewIsLast'
    BY <1>1, <1>4, <1>6, <1>9 DEF Behind, NewIsLast
  <1> QED
    BY <1>7, <1>8, <1>10

(* So does the command's own read of the state.                              *)
LEMMA CommandReadStep ==
  ASSUME WindowInv, CommandReads
  PROVE  WindowInv' /\ NothingOlder
  <1> USE DEF WindowInv
  <1>1. /\ UNCHANGED <<begun, revision, op, object, packing, poll, shown>>
        /\ Continues("answer", {Snapshot})
    BY DEF CommandReads, coreVars, viewerVars
  <1>2. {Snapshot} \in SUBSET CoreStates /\ AtMostOneOf({Snapshot})
    BY SnapshotIsState DEF AtMostOneOf
  <1>3. /\ command' \in SUBSET [kind : Kinds, pc : {"call", "read", "fresh", "answer"},
                                state : SUBSET CoreStates]
        /\ AtMostOneOf(command')
        /\ \A d \in command' : d.pc = "answer" /\ d.state = {Snapshot}
        /\ \A d \in command' : AtMostOneOf(d.state)
    BY <1>1, <1>2, Continued
  <1>4. WindowTypes'
    BY <1>1, <1>3 DEF WindowTypes, AtMostOneOf
  <1>5. revision \in Nat
    BY DEF WindowTypes
  <1>6. Behind' /\ NewIsLast'
    BY <1>1, <1>3, <1>5, SnapshotIsState DEF Behind, NewIsLast
  <1> QED
    BY <1>1, <1>4, <1>6, SameIsNotOlder

(* So does the arrival of its answer.                                        *)
LEMMA CommandAnsweredStep ==
  ASSUME WindowInv, CommandAnswered
  PROVE  WindowInv' /\ NothingOlder
  <1> USE DEF WindowInv
  <1>1. UNCHANGED <<begun, revision, op, object, packing, poll>> /\ command' = {}
    BY DEF CommandAnswered, coreVars
  <1>2. PICK c \in command : \E s \in c.state : shown' = AcceptState(s)
    BY DEF CommandAnswered, Show
  <1>2a. PICK s \in c.state : shown' = AcceptState(s)
    BY <1>2
  <1>3. s \in CoreStates /\ s.revision <= revision
    BY <1>2a DEF WindowTypes, Behind
  <1>4. /\ shown' \in SUBSET CoreStates /\ AtMostOneOf(shown') /\ NothingOlder
        /\ \A t \in shown' : t \in shown \/ t.revision = s.revision
    BY <1>2a, <1>3, AcceptedIsNewer DEF NothingOlder
  <1>5. WindowTypes'
    BY <1>1, <1>4 DEF WindowTypes, AtMostOneOf
  <1>6. Behind' /\ NewIsLast'
    BY <1>1, <1>3, <1>4 DEF Behind, NewIsLast
  <1> QED
    BY <1>4, <1>5, <1>6

(* Every step keeps the invariant and shows nothing older.                   *)
LEMMA WindowStep ==
  ASSUME WindowInv, [WindowNext]_windowVars
  PROVE  WindowInv' /\ NothingOlder
  BY CoreStep, PollStep, ClickStep, LoadStep, CallStep, NewStep, NewArrivesStep,
     CommandReadStep, CommandAnsweredStep DEF WindowNext, Commands

(* The states that travel are behind the core, and the one New returned is *)
(* level with it.                                                          *)
THEOREM WindowInvariant == WindowSpec => []WindowInv
  <1>1. WindowInv /\ [WindowNext]_windowVars => WindowInv'
    BY WindowStep
  <1> QED
    BY <1>1, WindowInitially, PTL DEF WindowSpec

(* The window never goes back to an older state, although answers overtake *)
(* each other and New replaces the state without comparing revisions       *)
(* (acceptState, run, newProject).                                         *)
THEOREM WindowNeverGoesBack == WindowSpec => NeverGoesBack
  <1>1. WindowInv /\ [WindowNext]_windowVars => [NothingOlder]_windowVars
    BY WindowStep
  <1> QED
    BY <1>1, WindowInvariant, PTL DEF WindowSpec, NeverGoesBack, NothingOlder
===============================================================================
