------------------------------ MODULE ForkJoin ------------------------------
(***************************************************************************)
(* What a transform team promises its caller: a call returns success only  *)
(* when every line of the axis has been transformed, each exactly once;    *)
(* no line is touched outside a call; and after a failed call nothing is   *)
(* ever transformed again.                                                 *)
(***************************************************************************)
EXTENDS Naturals

CONSTANT Lines  \* the lines of one axis

VARIABLES
  phase,  \* "idle": not called; "busy": in a call; "closed": failed or ended
  times   \* how often the current call has transformed each line

vars == <<phase, times>>

Fresh == [l \in Lines |-> 0]

Init == phase = "idle" /\ times = Fresh

Begin ==
  /\ phase = "idle"
  /\ phase' = "busy"
  /\ times' = Fresh

(* Some lines that were not transformed yet are.                           *)
Transform ==
  /\ phase = "busy"
  /\ \E S \in SUBSET {l \in Lines : times[l] = 0} :
       times' = [l \in Lines |-> IF l \in S THEN 1 ELSE times[l]]
  /\ UNCHANGED phase

Succeed ==
  /\ phase = "busy"
  /\ \A l \in Lines : times[l] = 1
  /\ phase' = "idle"
  /\ UNCHANGED times

(* A call fails, an idle team is closed, or a team cannot be created.      *)
Close ==
  /\ phase # "closed"
  /\ phase' = "closed"
  /\ UNCHANGED times

Next == Begin \/ Transform \/ Succeed \/ Close

Spec == Init /\ [][Next]_vars
=============================================================================
