------------------------------ MODULE Showcase ------------------------------
(***************************************************************************)
(* What the desktop promises about a packing it shows: within one run the  *)
(* packing only improves; a later run may replace it by any other; and the *)
(* files that Save and Export use are those of the packing shown, or those *)
(* of an opened project when no packing of a run is shown.                 *)
(***************************************************************************)
EXTENDS Naturals

CONSTANTS
  Packings,        \* records with a field op, the run they come from
  Improves(_, _)   \* Improves(p, q): q may replace p within one run

VARIABLES
  shown,  \* {} or {p}: the packing of a run on display
  files   \* {} or {p}: the packing whose finished files may be used

vars == <<shown, files>>

Init == shown = {} /\ files = {}

(* A new packing replaces the one shown; its files do not exist yet.       *)
Show ==
  /\ \E p \in shown' :
       /\ p \in Packings
       /\ shown' = {p}
       /\ \A q \in shown : q.op < p.op \/ (q.op = p.op /\ Improves(q, p))
  /\ files' = {}

(* The files of the packing shown are finished.                            *)
Finalise ==
  /\ shown # {}
  /\ files' = shown
  /\ UNCHANGED shown

(* Another object or project takes over, with the files of its own result. *)
Replace ==
  /\ shown' = {}
  /\ files' \subseteq Packings
  /\ \A p, q \in files' : p = q

Next == Show \/ Finalise \/ Replace

Spec == Init /\ [][Next]_vars
=============================================================================
