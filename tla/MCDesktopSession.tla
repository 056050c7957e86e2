-------------------------- MODULE MCDesktopSession --------------------------
(* A bounded instance of DesktopSession: two identities, each repeated and *)
(* resumed at will.  The bit of i1 is among those i2 sets, so that once i2 *)
(* has completed the history reports i1 although it never completed.       *)
EXTENDS DesktopSession

CONSTANTS i1, i2

MCIds == {i1, i2}

MCBits == 1..2

MCProbes == [i \in MCIds |-> IF i = i1 THEN {1} ELSE {1, 2}]
=============================================================================
