---------------------------- MODULE Publication ----------------------------
(***************************************************************************)
(* How a packing travels from the search to the user: the solver's         *)
(* incumbent (pack_solver/incumbent.cpp), the public gate                  *)
(* (cli/count_publication.hpp) and the end of a solve (cli/solve.cpp), the *)
(* single packing slot of the session's writer, the client's reader        *)
(* (native_session.rs), and the desktop core (core.rs), which shows live   *)
(* packings and installs the result file of a run as the one that Save and *)
(* Export use.                                                             *)
(*                                                                         *)
(* A solution is its number of copies, its spans (z then xy, ranked) and   *)
(* the rank of its sorted poses.  Optional values are sets of at most one  *)
(* element.                                                                *)
(***************************************************************************)
EXTENDS Naturals, Sequences

CONSTANTS
  MaxCount, MaxSpan, MaxKey,  \* bounds: the solutions there are
  MaxOps                      \* bound: runs that are started

ASSUME BoundsAssumption ==
  /\ MaxCount \in Nat /\ MaxSpan \in Nat /\ MaxKey \in Nat
  /\ MaxOps \in Nat

Solution == [count : 1..MaxCount, span : 0..MaxSpan, key : 0..MaxKey]

Empty == [count |-> 0, span |-> 0, key |-> 0]

VARIABLES
  enginePc,       \* place of the engine in a run
  incumbent,      \* Incumbent::best: its solution, whether it has a score,
                  \* and whether the keys of its poses are known
  spectral,       \* the search has entered its last phase
  retained_solution,   \* RunOutcome::retained_solution
  sought,         \* history: the largest count this run has validated
  gate,           \* CountPublication::latest_
  revision,       \* CountPublication::revision_
  gateFailed,     \* CountPublication::failed_
  artifact,       \* result.json of the run
  verdict,        \* whether the solve ended well
  slot,           \* Session::pending_packing
  undeliverable,  \* Session::publication_failed
  pipe,           \* records sent and not yet read
  mark,           \* the client's packing_revision and packing_count
  stage,          \* place of the core in an operation
  op,             \* number of the last run started
  outcome,        \* what native_request returned
  token,          \* the object's token: none, of the native process, or stale
  live,           \* state.live_result
  result,         \* inner.result, with the packing its files hold
  failure         \* state.last_error of the last run

searchVars == <<incumbent, spectral, retained_solution, sought>>
gateVars   == <<gate, revision, gateFailed>>
fileVars   == <<artifact, verdict>>
wireVars   == <<slot, undeliverable, pipe, mark>>
runVars    == <<enginePc, searchVars, gateVars, fileVars, wireVars>>
coreVars   == <<stage, op, outcome, token, live, result, failure>>
vars       == <<runVars, coreVars>>

Packing == [op : 0..MaxOps, rev : Nat, sol : Solution \cup {Empty}]

Init ==
  /\ enginePc = "idle"
  /\ incumbent = {} /\ spectral = FALSE /\ retained_solution = {} /\ sought = 0
  /\ gate = {} /\ revision = 0 /\ gateFailed = FALSE
  /\ artifact = {} /\ verdict = "none"
  /\ slot = {} /\ undeliverable = FALSE
  /\ pipe = <<>> /\ mark = [rev |-> 0, count |-> 0]
  /\ stage = "idle" /\ op = 0 /\ outcome = "none" /\ token = "none"
  /\ live = {} /\ result = {} /\ failure = "none"

-----------------------------------------------------------------------------
(* The operations of the core that begin at rest.                          *)

(* Start passes a run to the native process; what is displayed stays until *)
(* its first packing.                                                      *)
Start ==
  /\ stage = "idle" /\ token = "live"
  /\ op < MaxOps
  /\ op' = op + 1
  /\ stage' = "run" /\ failure' = "none"
  /\ enginePc' = "search" /\ retained_solution' = {Empty}
  /\ UNCHANGED <<incumbent, spectral, sought, gateVars, fileVars, wireVars, outcome,
                 token, live, result>>

(* Start fails before a request is sent: the token was prepared by a       *)
(* process that is gone, or the run's directory cannot be made.            *)
StartFails ==
  /\ stage = "idle" /\ token # "none"
  /\ op < MaxOps
  /\ op' = op + 1
  /\ failure' = "failed"
  /\ UNCHANGED <<runVars, stage, outcome, token, live, result>>

(* Import or an accepted repair brings another object, New leaves none; an *)
(* import that is not accepted has no token.                               *)
ReplaceObject ==
  /\ stage = "idle"
  /\ live' = {} /\ result' = {}
  /\ token' \in {"none", "live"} /\ failure' = "none"
  /\ UNCHANGED <<runVars, stage, op, outcome>>

(* Open installs the project's result, if it has one, as operation 0.      *)
OpenProject ==
  /\ stage = "idle"
  /\ live' = {}
  /\ \E s \in Solution : result' = {[op |-> 0, rev |-> 1, sol |-> s]}
  /\ token' = "live" /\ failure' = "none"
  /\ UNCHANGED <<runVars, stage, op, outcome>>

(* Import, repair or Open fails: the object stays, but the process may be  *)
(* lost with its tokens.                                                   *)
ReplaceFails ==
  /\ stage = "idle"
  /\ failure' = "failed"
  /\ token' = token \/ (token = "live" /\ token' = "stale")
  /\ UNCHANGED <<runVars, stage, op, outcome, live, result>>

-----------------------------------------------------------------------------
(* The search of the engine.                                               *)

(* CountPublication::offer takes a first nonempty packing, a higher count, *)
(* or an equal count with smaller spans when both are scored.              *)
GateTakes(s, scored) ==
  /\ s.count > 0
  /\ \A p \in gate :
       \/ s.count > p.sol.count
       \/ s.count = p.sol.count /\ scored /\ p.scored /\ s.span < p.sol.span

(* A packing that is taken may still exceed its slot's bytes or fail to be *)
(* allocated; otherwise it gets the next revision and goes to the writer.  *)
Publish(s, scored) ==
  \/ /\ ~GateTakes(s, scored)
     /\ UNCHANGED <<gateVars, slot>>
  \/ /\ GateTakes(s, scored)
     /\ gateFailed' = TRUE
     /\ UNCHANGED <<gate, revision, slot>>
  \/ /\ GateTakes(s, scored)
     /\ revision' = revision + 1
     /\ gate' = {[rev |-> revision', sol |-> s, scored |-> scored]}
     /\ slot' = {[rev |-> revision', sol |-> s]}
     /\ UNCHANGED gateFailed

(* incumbent.cpp better(): count, then spans, then sorted poses; a solution*)
(* that could not be scored wins by its count alone.                       *)
Better(s, scored, b) ==
  \/ s.count > b.sol.count
  \/ /\ s.count = b.sol.count
     /\ scored
     /\ \/ ~b.scored
        \/ s.span < b.sol.span
        \/ s.span = b.sol.span /\ b.keyed /\ s.key < b.sol.key

(* A validated solution becomes the incumbent and is retained.             *)
Admit(s, scored) ==
  /\ s = Empty => scored
  /\ \A b \in incumbent : Better(s, scored, b)
  /\ incumbent' = {[sol |-> s, scored |-> scored, keyed |-> scored]}
  /\ retained_solution' = {s}
  /\ sought' = IF s.count > sought THEN s.count ELSE sought

(* An admitted solution is offered to the public gate by the sink.         *)
OfferSolution ==
  /\ enginePc = "search"
  /\ \E s \in Solution \cup {Empty}, scored \in BOOLEAN :
       Admit(s, scored) /\ Publish(s, scored)
  /\ UNCHANGED <<enginePc, spectral, fileVars, undeliverable, pipe, mark,
                 coreVars>>

(* A budget that ends between the two ends the search without the offer.   *)
OfferExhausted ==
  /\ enginePc = "search"
  /\ \E s \in Solution, scored \in BOOLEAN : Admit(s, scored)
  /\ enginePc' = "returning"
  /\ UNCHANGED <<spectral, gateVars, fileVars, wireVars, coreVars>>

(* A phase of the baseline resumes from the best without the keys.         *)
ResumePhase ==
  /\ enginePc = "search" /\ ~spectral
  /\ \E b \in incumbent :
       /\ b.keyed
       /\ incumbent' = {[b EXCEPT !.keyed = FALSE]}
  /\ UNCHANGED <<enginePc, spectral, retained_solution, sought, gateVars, fileVars,
                 wireVars, coreVars>>

(* The last phase has an incumbent of its own, which starts with what was  *)
(* retained so far and offers it to the sink again.                        *)
SpectralPhase ==
  /\ enginePc = "search" /\ ~spectral
  /\ spectral' = TRUE
  /\ \E s \in retained_solution, scored \in BOOLEAN :
       /\ s = Empty => scored
       /\ incumbent' = {[sol |-> s, scored |-> scored, keyed |-> scored]}
       /\ Publish(s, scored)
  /\ UNCHANGED <<enginePc, retained_solution, sought, fileVars, undeliverable, pipe,
                 mark, coreVars>>

-----------------------------------------------------------------------------
(* The end of a solve.                                                     *)

SearchEnds ==
  /\ enginePc \in {"search", "returning"}
  /\ enginePc' = "export"
  /\ incumbent' = {} /\ spectral' = FALSE
  /\ UNCHANGED <<sought, fileVars, undeliverable, pipe, mark, coreVars>>

(* Faulty variant: what the search retained is exported as it is.          *)
ReturnSearchRetained ==
  /\ SearchEnds
  /\ \E s \in retained_solution : Publish(s, FALSE)
  /\ UNCHANGED retained_solution

(* Faulty variant: the retained solution is not offered at the end.        *)
ReturnSearchUnoffered ==
  /\ SearchEnds
  /\ retained_solution' = IF gate = {} THEN retained_solution ELSE {p.sol : p \in gate}
  /\ UNCHANGED <<gateVars, slot>>

(* What the search retained is offered once more, without a score, and     *)
(* whatever is public replaces it.                                         *)
ReturnSearch ==
  /\ SearchEnds
  /\ \E s \in retained_solution : Publish(s, FALSE)
  /\ retained_solution' = IF gate' = {} THEN retained_solution ELSE {p.sol : p \in gate'}

(* The result file is written unless the packing is empty; the solve may   *)
(* report an error although the file exists, and must when the gate failed.*)
Export ==
  /\ enginePc = "export"
  /\ enginePc' = "flush"
  /\ artifact' = {[op |-> op, rev |-> revision, sol |-> s] :
                    s \in retained_solution \ {Empty}}
  /\ verdict' \in {"ok", "failed"}
  /\ gateFailed => verdict' = "failed"
  /\ retained_solution' = {}
  /\ UNCHANGED <<incumbent, spectral, sought, gateVars, wireVars, coreVars>>

(* Every other way a solve fails leaves no file; a stop or deadline before *)
(* the search is answered like a run that found nothing.                   *)
FailSolve ==
  /\ enginePc \in {"search", "returning", "export"}
  /\ enginePc' = "flush"
  /\ \/ verdict' = "failed"
     \/ /\ enginePc = "search" /\ incumbent = {} /\ gate = {}
        /\ verdict' = "ok"
  /\ incumbent' = {} /\ spectral' = FALSE /\ retained_solution' = {}
  /\ UNCHANGED <<sought, gateVars, artifact, wireVars, coreVars>>

-----------------------------------------------------------------------------
(* The writer and the answer.                                              *)

(* The writer sends the newest packing, unless it does not fit a record.   *)
WriteSlot ==
  /\ stage = "run" /\ slot # {}
  /\ slot' = {}
  /\ \/ /\ \E p \in slot :
             pipe' = Append(pipe, [kind |-> "packing", rev |-> p.rev,
                                   sol |-> p.sol])
        /\ UNCHANGED undeliverable
     \/ undeliverable' = TRUE /\ UNCHANGED pipe
  /\ UNCHANGED <<enginePc, searchVars, gateVars, fileVars, mark, coreVars>>

(* flush_packing, then the answer is sent, after every packing of the run: *)
(* also when the flush timed out, since the writer takes a packing first.  *)
Answer ==
  /\ stage = "run" /\ enginePc = "flush" /\ slot = {}
  /\ enginePc' = "answered"
  /\ \E ok \in BOOLEAN :
       /\ ok => verdict = "ok" /\ ~undeliverable
       /\ pipe' = Append(pipe, [kind |-> "response", ok |-> ok])
  /\ UNCHANGED <<searchVars, gateVars, fileVars, slot, undeliverable, mark,
                 coreVars>>

-----------------------------------------------------------------------------
(* The client and the core.                                                *)

(* request_with_packing passes on a packing that is newer and not smaller. *)
Passes(p) == p.rev > mark.rev /\ p.sol.count >= mark.count

(* accept_live: the same, against what is shown of the same run.           *)
Accepts(p) ==
  \A l \in live : l.op = op => p.sol.count >= l.sol.count /\ p.rev > l.rev

(* A packing that is shown takes the files of the one before away.         *)
ShowPacking(p) ==
  /\ live' = {[op |-> op, rev |-> p.rev, sol |-> p.sol]}
  /\ result' = {}

ReadPacking ==
  /\ stage = "run" /\ pipe # <<>>
  /\ Head(pipe).kind = "packing"
  /\ pipe' = Tail(pipe)
  /\ LET p == Head(pipe) IN
       /\ mark' = IF Passes(p) THEN [rev |-> p.rev, count |-> p.sol.count]
                  ELSE mark
       /\ IF Passes(p) /\ Accepts(p) THEN ShowPacking(p)
          ELSE UNCHANGED <<live, result>>
  /\ UNCHANGED <<enginePc, searchVars, gateVars, fileVars, slot, undeliverable,
                 stage, op, outcome, token, failure>>

(* A failure whose code names the transport makes the core drop the child. *)
ReadResponse ==
  /\ stage = "run" /\ pipe # <<>>
  /\ Head(pipe).kind = "response"
  /\ pipe' = Tail(pipe)
  /\ stage' = "settle"
  /\ outcome' = IF Head(pipe).ok THEN "ok" ELSE "failed"
  /\ \/ UNCHANGED token
     \/ ~Head(pipe).ok /\ token' = "stale"
  /\ UNCHANGED <<enginePc, searchVars, gateVars, fileVars, slot, undeliverable,
                 mark, op, live, result, failure>>

(* A deadline, a malformed record or the end of the output: the core drops *)
(* the client, which waits for the child and kills it after five seconds.  *)
LoseTransport ==
  /\ stage = "run"
  /\ stage' = "reap" /\ outcome' = "lost" /\ token' = "stale"
  /\ pipe' = <<>>
  /\ UNCHANGED <<enginePc, searchVars, gateVars, fileVars, slot, undeliverable,
                 mark, op, live, result, failure>>

(* The child is gone, wherever it was.                                     *)
ReapChild ==
  /\ stage = "reap"
  /\ stage' = "settle"
  /\ enginePc' = "answered"
  /\ incumbent' = {} /\ spectral' = FALSE /\ retained_solution' = {} /\ slot' = {}
  /\ UNCHANGED <<sought, gateVars, fileVars, undeliverable, pipe, mark, op,
                 outcome, token, live, result, failure>>

(* Faulty variant: the file of the run is installed as it is.              *)
MatchesAny(a) == a.op = op

(* public_artifact_matches: the file holds the packing that is shown.      *)
Matches(a) == a \in live

(* What the run kept for itself is gone with it.                           *)
RunForgotten ==
  /\ enginePc' = "idle"
  /\ sought' = 0
  /\ gate' = {} /\ revision' = 0 /\ gateFailed' = FALSE
  /\ artifact' = {} /\ verdict' = "none"
  /\ undeliverable' = FALSE /\ mark' = [rev |-> 0, count |-> 0]
  /\ outcome' = "none"
  /\ UNCHANGED <<incumbent, spectral, retained_solution, slot, pipe>>

(* The core reads the result file of the run and installs it if it is the  *)
(* packing shown; reading or copying it may fail.                          *)
Settle ==
  /\ stage = "settle"
  /\ stage' = "idle"
  /\ \/ /\ \A a \in artifact : Matches(a)
        /\ result' = IF artifact = {} THEN result ELSE artifact
        /\ failure' = IF outcome = "ok" THEN "none" ELSE "failed"
     \/ /\ \E a \in artifact : ~Matches(a)
        /\ failure' = "mismatch"
        /\ UNCHANGED result
     \/ /\ artifact # {}
        /\ failure' = "failed"
        /\ UNCHANGED result
  /\ RunForgotten
  /\ UNCHANGED <<op, token, live>>

-----------------------------------------------------------------------------
Next ==
  \/ Start \/ StartFails \/ ReplaceObject \/ OpenProject \/ ReplaceFails
  \/ OfferSolution \/ OfferExhausted \/ ResumePhase \/ SpectralPhase
  \/ ReturnSearch \/ Export \/ FailSolve \/ WriteSlot \/ Answer
  \/ ReadPacking \/ ReadResponse \/ LoseTransport \/ ReapChild \/ Settle

Spec == Init /\ [][Next]_vars

-----------------------------------------------------------------------------
(* S holds at most one element, of T.                                      *)
Option(S, T) == S \subseteq T /\ \A x, y \in S : x = y

(* Every variable has its type.                                            *)
TypeOK ==
  /\ enginePc \in {"idle", "search", "returning", "export", "flush", "answered"}
  /\ Option(incumbent, [sol : Solution \cup {Empty}, scored : BOOLEAN,
                   keyed : BOOLEAN])
  /\ spectral \in BOOLEAN
  /\ Option(retained_solution, Solution \cup {Empty})
  /\ sought \in 0..MaxCount
  /\ Option(gate, [rev : Nat, sol : Solution, scored : BOOLEAN])
  /\ revision \in Nat
  /\ gateFailed \in BOOLEAN
  /\ Option(artifact, Packing)
  /\ verdict \in {"none", "ok", "failed"}
  /\ Option(slot, [rev : Nat, sol : Solution])
  /\ undeliverable \in BOOLEAN
  /\ pipe \in Seq([kind : {"packing"}, rev : Nat, sol : Solution]
                    \cup [kind : {"response"}, ok : BOOLEAN])
  /\ mark \in [rev : Nat, count : 0..MaxCount]
  /\ stage \in {"idle", "run", "reap", "settle"}
  /\ op \in 0..MaxOps
  /\ outcome \in {"none", "ok", "failed", "lost"}
  /\ token \in {"none", "live", "stale"}
  /\ Option(live, Packing)
  /\ Option(result, Packing)
  /\ failure \in {"none", "failed", "mismatch"}

(* The chain of gates between the solver and the display agrees with the   *)
(* exporter: a run is refused with PUBLICATION_MISMATCH only if the        *)
(* transport was lost, a record could not be encoded, or nothing could be  *)
(* published at all.                                                       *)
NoMismatch ==
  [][failure' = "mismatch" /\ stage = "settle" =>
       outcome = "lost" \/ undeliverable \/ (gateFailed /\ gate = {})]_vars

(* The file of a run never holds fewer copies than a solution the run      *)
(* validated, although phases restart their incumbents and the public      *)
(* packing replaces what the search retained.                              *)
BestNotLost == \A a \in artifact : gateFailed \/ a.sol.count >= sought

(* A packing may follow another of the same run.                           *)
Follows(p, q) ==
  /\ q.rev > p.rev
  /\ \/ q.sol.count > p.sol.count
     \/ q.sol.count = p.sol.count /\ q.sol.span < p.sol.span

(* What is shown only improves within a run, and files are finished only   *)
(* for what is shown: the chain implements Showcase.                       *)
Promise ==
  INSTANCE Showcase WITH
    shown <- live, files <- result, Packings <- Packing, Improves <- Follows

IsShowcase == Promise!Spec

=============================================================================
