----------------------------- MODULE MCFftTeam -----------------------------
(* Bounded instances of FftTeam: three threads share eight lines in rows   *)
(* of four, so that the shares (2, 3 and 3 lines) differ in size and one of*)
(* them crosses a row, over two calls of one team.                         *)
EXTENDS FftTeam
=============================================================================
