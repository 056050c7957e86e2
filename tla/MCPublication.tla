---------------------------- MODULE MCPublication ---------------------------
(* Bounded instances of Publication: counts and spans that can improve both *)
(* ways, two solutions with equal scores, and a run after another.          *)
EXTENDS Publication
=============================================================================
