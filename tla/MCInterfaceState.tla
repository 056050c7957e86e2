------------------------- MODULE MCInterfaceState --------------------------
(* Bounded instances of InterfaceState: four commands, so that an object   *)
(* or a run follows New, and packings that supersede one another.          *)
EXTENDS InterfaceState
=============================================================================
