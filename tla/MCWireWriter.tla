---------------------------- MODULE MCWireWriter ----------------------------
(* Bounded instances of WireWriter: two runs, so that a late packing of    *)
(* the first can meet the second, two revisions, so that one supersedes    *)
(* the other, and a refusal that competes with a flush for a notification. *)
EXTENDS WireWriter
=============================================================================
