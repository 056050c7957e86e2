---------------------------- MODULE MCSolveCommand ----------------------------
(* Small instances of SolveCommand: three copies to certify. *)
EXTENDS SolveCommand

AllRead == [c \in CopyIds |-> TRUE]
AllInside == [c \in CopyIds |-> "valid"]
AllClear == [p \in PairIds |-> "valid"]

(* Every set of pairs whose bounds are apart; a pair too close, a copy that    *)
(* cannot be read and one that does not lie inside.                            *)
MCScenes ==
  [read : {AllRead}, inside : {AllInside}, apart : {{}, {<<1, 3>>}, PairIds}, gap : {AllClear}]
  \cup {[read |-> [AllRead EXCEPT ![2] = FALSE], inside |-> AllInside, apart |-> {},
         gap |-> AllClear],
        [read |-> AllRead, inside |-> [AllInside EXCEPT ![3] = "invalid"], apart |-> {},
         gap |-> [AllClear EXCEPT ![<<1, 2>>] = "indeterminate"]]}

(* Memory around what the certification needs, which is 16 with pairs that are *)
(* compared and 9 without, and around what its cache needs.                    *)
MCLimits ==
  [memory : {1, 2, 9, 15, 16, 20}, tests : {9}, work : {3}]
  \cup [memory : {20}, tests : {2, 9}, work : {1, 2}]

(* Every budget and scope; with and without a stop file; with and without STL. *)
MCRequests ==
  {r \in [timed : BOOLEAN, total : BOOLEAN, stopFile : BOOLEAN, stl : BOOLEAN] :
     r.total => r.timed}
=============================================================================
