--------------------------- MODULE FftTeamProofs ---------------------------
(***************************************************************************)
(* Safety of the transform team for every number of threads, every shape   *)
(* and every group limit, and the refinement of ForkJoin.                  *)
(***************************************************************************)
EXTENDS FftTeam, FiniteSetTheorems, TLAPS

-----------------------------------------------------------------------------
(* Division by a positive number.                                          *)
LEMMA DivBounds ==
  ASSUME NEW a \in Nat, NEW n \in Nat \ {0}
  PROVE  /\ a \div n \in Nat
         /\ n * (a \div n) <= a
         /\ a < n * (a \div n) + n
  OBVIOUS

(* Multiplication is monotone.                                             *)
LEMMA TimesMonotone ==
  ASSUME NEW n \in Nat, NEW a \in Nat, NEW b \in Nat, a <= b
  PROVE  n * a <= n * b
  OBVIOUS

(* There are lines to share.                                               *)
LEMMA LineCountType == LineCount \in Nat \ {0}
  BY TeamAssumption DEF LineCount

(* A share begins within the lines.                                        *)
LEMMA FirstType == \A w \in 0..Count : First(w) \in 0..LineCount
  <1> SUFFICES ASSUME NEW w \in 0..Count PROVE First(w) \in 0..LineCount
    OBVIOUS
  <1>1. LineCount \in Nat /\ Count \in Nat \ {0} /\ w \in Nat /\ w <= Count
    BY LineCountType, TeamAssumption
  <1>2. LineCount * w \in Nat /\ LineCount * w <= LineCount * Count
    BY <1>1, TimesMonotone
  <1>3. /\ First(w) \in Nat
        /\ Count * First(w) <= LineCount * w
    BY <1>1, <1>2, DivBounds DEF First
  <1>4. Count * First(w) <= Count * LineCount
    BY <1>1, <1>2, <1>3
  <1>5. ASSUME First(w) > LineCount PROVE FALSE
    <2>1. First(w) >= LineCount + 1
      BY <1>1, <1>3, <1>5
    <2>2. Count * (LineCount + 1) <= Count * First(w)
      BY <2>1, <1>1, <1>3, TimesMonotone
    <2>3. Count * (LineCount + 1) = Count * LineCount + Count
      BY <1>1
    <2>4. Count * LineCount \in Nat /\ Count * First(w) \in Nat
      BY <1>1, <1>3
    <2> QED
      BY <1>1, <1>4, <2>2, <2>3, <2>4
  <1> QED
    BY <1>1, <1>3, <1>5

(* The share of a worker ends where the next one's begins.                 *)
LEMMA EndIsNext == \A w \in Workers : End(w) = First(w + 1)
  BY DEF End, First

(* The beginnings of shares are ordered.                                   *)
LEMMA FirstMonotone ==
  \A v, w \in 0..Count : v <= w => First(v) <= First(w)
  <1> SUFFICES ASSUME NEW v \in 0..Count, NEW w \in 0..Count, v <= w,
                      First(v) > First(w)
               PROVE  FALSE
    BY FirstType
  <1>1. /\ LineCount \in Nat /\ Count \in Nat \ {0} /\ v \in Nat /\ w \in Nat
        /\ First(v) \in Nat /\ First(w) \in Nat
    BY LineCountType, FirstType, TeamAssumption
  <1>2. LineCount * v \in Nat /\ LineCount * w \in Nat
        /\ LineCount * v <= LineCount * w
    BY <1>1, TimesMonotone
  <1>3. Count * First(v) <= LineCount * v
    BY <1>1, <1>2, DivBounds DEF First
  <1>4. LineCount * w < Count * First(w) + Count
    BY <1>1, <1>2, DivBounds DEF First
  <1>5. Count * (First(w) + 1) <= Count * First(v)
    BY <1>1, TimesMonotone
  <1>6. Count * (First(w) + 1) = Count * First(w) + Count
    BY <1>1
  <1>7. Count * First(v) \in Nat /\ Count * First(w) \in Nat
    BY <1>1
  <1> QED
    BY <1>1, <1>2, <1>3, <1>4, <1>5, <1>6, <1>7

Share(w) == First(w)..End(w) - 1

(* No line belongs to two workers.                                         *)
LEMMA SharesDisjoint ==
  \A v, w \in Workers : v # w => Share(v) \cap Share(w) = {}
  <1>1. ASSUME NEW v \in Workers, NEW w \in Workers, v < w
        PROVE  Share(v) \cap Share(w) = {}
    <2>1. v + 1 \in 0..Count /\ w \in 0..Count /\ v + 1 <= w
          /\ w + 1 \in 0..Count /\ v \in 0..Count
      BY <1>1, TeamAssumption DEF Workers
    <2>2. End(v) <= First(w)
      BY <2>1, FirstMonotone, EndIsNext
    <2>3. {First(v), End(v), First(w), End(w)} \subseteq Nat
      BY <2>1, FirstType, EndIsNext
    <2> QED
      BY <2>2, <2>3 DEF Share
  <1> QED
    BY <1>1 DEF Workers

(* Every line belongs to some worker.                                      *)
LEMMA SharesCover == \A l \in Lines : \E w \in Workers : l \in Share(w)
  <1> SUFFICES ASSUME NEW l \in Lines PROVE \E w \in Workers : l \in Share(w)
    OBVIOUS
  <1> DEFINE top == (l + 1) * Count - 1
             w == top \div LineCount
  <1>1. /\ LineCount \in Nat \ {0} /\ Count \in Nat \ {0} /\ l \in Nat
        /\ l + 1 <= LineCount
    BY LineCountType, TeamAssumption DEF Lines
  <1>2. (l + 1) * Count \in Nat /\ (l + 1) * Count >= Count
    BY <1>1
  <1>3. top \in Nat
    BY <1>1, <1>2
  <1>4. w \in Nat /\ LineCount * w <= top /\ top < LineCount * w + LineCount
    BY <1>1, <1>3, DivBounds
  <1> HIDE DEF w
  <1>5. w < Count
    <2> SUFFICES ASSUME w >= Count PROVE FALSE
      BY <1>1, <1>4
    <2>1. LineCount * Count <= LineCount * w
      BY <1>1, <1>4, TimesMonotone
    <2>2. Count * (l + 1) <= Count * LineCount
      BY <1>1, TimesMonotone
    <2>3. Count * (l + 1) = (l + 1) * Count /\ Count * LineCount = LineCount * Count
      BY <1>1
    <2>4. LineCount * Count \in Nat /\ LineCount * w \in Nat
      BY <1>1, <1>4
    <2> QED
      BY <1>2, <1>4, <2>1, <2>2, <2>3, <2>4
  <1>6. w \in Workers /\ w \in 0..Count /\ w + 1 \in 0..Count
    BY <1>1, <1>4, <1>5 DEF Workers
  <1>7. First(w) <= l
    <2> SUFFICES ASSUME First(w) >= l + 1 PROVE FALSE
      BY <1>1, <1>6, FirstType
    <2>1. First(w) \in Nat /\ LineCount * w \in Nat
      BY <1>1, <1>4, <1>6, FirstType
    <2>2. Count * First(w) <= LineCount * w
      BY <1>1, <2>1, DivBounds DEF First
    <2>3. Count * (l + 1) <= Count * First(w)
      BY <1>1, <2>1, TimesMonotone
    <2>4. Count * (l + 1) = (l + 1) * Count /\ Count * First(w) \in Nat
      BY <1>1, <2>1
    <2> QED
      BY <1>2, <1>4, <2>1, <2>2, <2>3, <2>4
  <1>8. l < End(w)
    <2> SUFFICES ASSUME First(w + 1) <= l PROVE FALSE
      BY <1>1, <1>6, FirstType, EndIsNext
    <2>1. First(w + 1) \in Nat /\ LineCount * (w + 1) \in Nat
      BY <1>1, <1>4, <1>6, FirstType
    <2>2. LineCount * (w + 1) < Count * First(w + 1) + Count
      BY <1>1, <2>1, DivBounds DEF First
    <2>3. Count * (First(w + 1) + 1) <= Count * (l + 1)
      BY <1>1, <2>1, TimesMonotone
    <2>4. /\ Count * (First(w + 1) + 1) = Count * First(w + 1) + Count
          /\ Count * (l + 1) = (l + 1) * Count
          /\ LineCount * (w + 1) = LineCount * w + LineCount
          /\ Count * First(w + 1) \in Nat /\ LineCount * w \in Nat
      BY <1>1, <1>4, <2>1
    <2>5. top < LineCount * (w + 1)
      BY <1>4, <2>4
    <2>6. LineCount * (w + 1) < (l + 1) * Count
      <3> DEFINE A == LineCount * (w + 1)
                 B == Count * (First(w + 1) + 1)
                 D == (l + 1) * Count
      <3>1. A < B /\ B <= D
        BY <2>2, <2>3, <2>4
      <3>2. A \in Nat /\ B \in Nat /\ D \in Nat
        BY <1>1, <1>2, <2>1
      <3> HIDE DEF A, B, D
      <3>3. A < D
        BY <3>1, <3>2
      <3> QED
        BY <3>3 DEF A, D
    <2> QED
      BY <1>2, <2>1, <2>5, <2>6
  <1> QED
    BY <1>1, <1>6, <1>7, <1>8, FirstType, EndIsNext DEF Share

(* A group is a run of lines within what is left of a share.               *)
LEMMA GroupWithin ==
  ASSUME NEW STATE w, w \in Workers, position[w] \in First(w)..End(w)
  PROVE  /\ GroupLength(w) \in Nat
         /\ position[w] + GroupLength(w) \in First(w)..End(w)
         /\ Group(w) \subseteq Share(w)
         /\ \A l \in Share(w) :
              l \in Group(w) <=>
                l >= position[w] /\ l < position[w] + GroupLength(w)
  <1>1. /\ First(w) \in Nat /\ End(w) \in Nat
        /\ Lower \in Nat \ {0} /\ GroupLimit \in Nat \ {0}
    <2>1. w \in 0..Count /\ w + 1 \in 0..Count
      BY TeamAssumption DEF Workers
    <2> QED
      BY <2>1, FirstType, EndIsNext, TeamAssumption
  <1>2. position[w] \in Nat /\ position[w] % Lower \in 0..Lower - 1
    BY <1>1
  <1>3. GroupLength(w) \in 0..End(w) - position[w]
    BY <1>1, <1>2 DEF GroupLength, Least
  <1> QED
    BY <1>1, <1>2, <1>3 DEF Group, Share

-----------------------------------------------------------------------------
(* The inductive invariant.                                                *)

Calling == {"notify", "check", "call", "wait"}

Closing == {"join", "wake", "joining", "closed"}

InCall == Calling \cup {"decide"}

(* Each thread is in a state of its own kind, and exactly those created    *)
(* exist.                                                                  *)
Roles ==
  /\ pc[0] \in {"create", "idle", "dispatch"} \cup InCall \cup Closing
  /\ \A w \in Peers :
       pc[w] \in {"unborn", "parked", "check", "call", "report", "exited"}
  /\ \A w \in Peers : pc[w] = "unborn" <=> w > created
  /\ pc[0] \notin {"create"} \cup Closing => created = Count - 1
  /\ shutdown <=> pc[0] \in Closing \ {"join"}
  /\ \A w \in Peers : pc[w] = "exited" => shutdown
  /\ pc[0] = "closed" => \A w \in Peers : pc[w] \in {"unborn", "exited"}

Reported == {w \in Peers : seen[w] = generation /\ pc[w] = "parked"}

(* finished counts the peers that ended the current generation; outside a  *)
(* call every peer has seen the last one.                                  *)
Generations ==
  /\ QuietOutsideCall
  /\ \A w \in Peers :
       pc[w] \in {"check", "call", "report"} => seen[w] = generation
  /\ pc[0] \notin Calling => \A w \in Peers : seen[w] = generation
  /\ pc[0] \in Calling => finished = Cardinality(Reported)
  /\ pc[0] = "dispatch" => generation < MaxRuns

(* What each worker did to its share: everything before its position,      *)
(* unless it failed in the middle of a group.                              *)
Shares ==
  \A w \in Workers :
    /\ position[w] \in First(w)..End(w)
    /\ w \notin failures =>
         \A l \in Share(w) : transformed[l] = IF l < position[w] THEN 1 ELSE 0
    /\ w \in failures => \A l \in Share(w) : transformed[l] \in {0, 1}

(* A worker that failed has ended its part of the current generation.      *)
Stalled ==
  \A w \in failures :
    /\ pc[w] \notin {"check", "call"}
    /\ w = 0 => pc[0] \notin {"dispatch", "notify"}
    /\ w # 0 => seen[w] = generation /\ pc[0] # "dispatch"

Over(w) ==
  IF w = 0 THEN pc[0] \in {"wait", "decide"}
           ELSE /\ pc[0] \in InCall
                /\ seen[w] = generation
                /\ pc[w] \in {"report", "parked"}

(* A worker that ended early ended for a cause that outlives the call.     *)
Outcome ==
  /\ pc[0] \in {"dispatch"} \cup InCall /\ abort => Interrupted \/ failures # {}
  /\ \A w \in Workers :
       Over(w) /\ ~abort /\ ~stopped => position[w] = End(w)
  /\ SuccessComplete
  /\ result = "failure" => pc[0] \in Closing
  /\ pc[0] = "create" => result = "none"

IInv == TypeOK /\ Roles /\ Generations /\ Shares /\ Stalled /\ Outcome


-----------------------------------------------------------------------------
(* The owner is the thread 0, the others are its peers.                    *)
LEMMA WorkersPeers ==
  /\ Workers = {0} \cup Peers
  /\ 0 \notin Peers
  /\ 0 \in Workers
  BY TeamAssumption DEF Workers, Peers

(* A step to a place moves one thread.                                     *)
LEMMA GotoEffect ==
  ASSUME TypeOK, NEW STATE w, w \in Workers, NEW STATE s, Goto(w, s)
  PROVE  /\ pc'[w] = s
         /\ \A v \in Workers \ {w} : pc'[v] = pc[v]
  BY DEF Goto, TypeOK

(* What a step of the owner's control leaves alone.                        *)
LEMMA OwnerGoes ==
  ASSUME TypeOK, NEW STATE s, Goto(0, s)
  PROVE  /\ pc'[0] = s
         /\ \A w \in Peers : pc'[w] = pc[w]
  BY GotoEffect, WorkersPeers

(* A peer moves alone.                                                     *)
LEMMA PeerGoes ==
  ASSUME TypeOK, NEW STATE w, w \in Peers, NEW STATE s, Goto(w, s)
  PROVE  /\ pc'[w] = s
         /\ pc'[0] = pc[0]
         /\ \A v \in Peers \ {w} : pc'[v] = pc[v]
  BY GotoEffect, WorkersPeers

(* Threads move within their kind.                                         *)
LEMMA RolesStep ==
  ASSUME TypeOK, Roles, Next \/ UNCHANGED vars
  PROVE  Roles'
  <1> USE DEF Roles, Calling, Closing, InCall, lifeVars, jobVars, envVars
  <1>1. CASE Create
    <2>1. created' = created + 1 /\ created' \in Peers /\ created \in Nat
      BY <1>1, TeamAssumption DEF Create, TypeOK, Peers
    <2>2. /\ pc'[created'] = "parked" /\ pc'[0] = pc[0]
          /\ \A v \in Peers \ {created'} : pc'[v] = pc[v]
      BY <1>1, <2>1, WorkersPeers DEF Create, Goto, TypeOK
    <2>3. \A v \in Peers : v \in Nat
      BY DEF Peers
    <2> QED
      BY <2>1, <2>2, <2>3, <1>1 DEF Create
  <1>2. CASE Created
    <2>1. pc'[0] = "idle" /\ \A v \in Peers : pc'[v] = pc[v]
      BY <1>2, OwnerGoes DEF Created
    <2> QED
      BY <2>1, <1>2 DEF Created
  <1>3. CASE StartFails
    <2>1. pc'[0] = "join" /\ \A v \in Peers : pc'[v] = pc[v]
      BY <1>3, OwnerGoes DEF StartFails
    <2> QED
      BY <2>1, <1>3 DEF StartFails
  <1>4. CASE SetUp
    <2>1. pc'[0] = "dispatch" /\ \A v \in Peers : pc'[v] = pc[v]
      BY <1>4, OwnerGoes DEF SetUp
    <2> QED
      BY <2>1, <1>4 DEF SetUp
  <1>5. CASE Dispatch
    <2>1. pc'[0] = "notify" /\ \A v \in Peers : pc'[v] = pc[v]
      BY <1>5, OwnerGoes DEF Dispatch
    <2> QED
      BY <2>1, <1>5 DEF Dispatch
  <1>6. CASE Notify
    <2>1. pc'[0] = "check" /\ \A v \in Peers : pc'[v] = pc[v]
      BY <1>6, OwnerGoes DEF Notify
    <2> QED
      BY <2>1, <1>6 DEF Notify
  <1>7. CASE WaitPolls
    BY <1>7 DEF WaitPolls
  <1>8. CASE WaitEnds
    <2>1. pc'[0] = "decide" /\ \A v \in Peers : pc'[v] = pc[v]
      BY <1>8, OwnerGoes DEF WaitEnds
    <2> QED
      BY <2>1, <1>8 DEF WaitEnds
  <1>9. CASE Succeeds
    <2>1. pc'[0] = "idle" /\ \A v \in Peers : pc'[v] = pc[v]
      BY <1>9, OwnerGoes DEF Succeeds
    <2> QED
      BY <2>1, <1>9 DEF Succeeds
  <1>10. CASE Fails
    <2>1. pc'[0] = "join" /\ \A v \in Peers : pc'[v] = pc[v]
      BY <1>10, OwnerGoes DEF Fails
    <2> QED
      BY <2>1, <1>10 DEF Fails
  <1>11. CASE Destroy
    <2>1. pc'[0] = "join" /\ \A v \in Peers : pc'[v] = pc[v]
      BY <1>11, OwnerGoes DEF Destroy
    <2> QED
      BY <2>1, <1>11 DEF Destroy
  <1>12. CASE ShutDown
    <2>1. pc'[0] = "wake" /\ \A v \in Peers : pc'[v] = pc[v]
      BY <1>12, OwnerGoes DEF ShutDown
    <2> QED
      BY <2>1, <1>12 DEF ShutDown
  <1>13. CASE WakeAll
    <2>1. pc'[0] = "joining" /\ \A v \in Peers : pc'[v] = pc[v]
      BY <1>13, OwnerGoes DEF WakeAll
    <2> QED
      BY <2>1, <1>13 DEF WakeAll
  <1>14. CASE Joined
    <2>1. pc'[0] = "closed" /\ \A v \in Peers : pc'[v] = pc[v]
      BY <1>14, OwnerGoes DEF Joined
    <2>2. \A v \in Peers : v > created \/ v \in 1..created
      BY DEF Peers, TypeOK
    <2> QED
      BY <2>1, <2>2, <1>14 DEF Joined
  <1>15. CASE PollsAbort
    BY <1>15 DEF PollsAbort
  <1>16. ASSUME NEW w \in Workers, Enters(w) PROVE Roles'
    <2>1. /\ pc'[w] = "call"
          /\ \A v \in Workers \ {w} : pc'[v] = pc[v]
      BY <1>16, GotoEffect DEF Enters
    <2> QED
      BY <2>1, <1>16, WorkersPeers DEF Enters
  <1>17. ASSUME NEW w \in Workers, Transforms(w) PROVE Roles'
    <2>1. /\ pc'[w] = "check"
          /\ \A v \in Workers \ {w} : pc'[v] = pc[v]
      BY <1>17, GotoEffect DEF Transforms
    <2> QED
      BY <2>1, <1>17, WorkersPeers DEF Transforms
  <1>18. ASSUME NEW w \in Workers, CallFails(w) PROVE Roles'
    <2>1. /\ pc'[w] = (IF w = 0 THEN "wait" ELSE "report")
          /\ \A v \in Workers \ {w} : pc'[v] = pc[v]
      BY <1>18, GotoEffect DEF CallFails, Ended
    <2> QED
      BY <2>1, <1>18, WorkersPeers DEF CallFails
  <1>19. ASSUME NEW w \in Workers, Returns(w) PROVE Roles'
    <2>1. /\ pc'[w] = (IF w = 0 THEN "wait" ELSE "report")
          /\ \A v \in Workers \ {w} : pc'[v] = pc[v]
      BY <1>19, GotoEffect DEF Returns, Ended
    <2> QED
      BY <2>1, <1>19, WorkersPeers DEF Returns
  <1>20. ASSUME NEW w \in Peers, Sleeps(w) PROVE Roles'
    BY <1>20 DEF Sleeps
  <1>21. ASSUME NEW w \in Peers, Takes(w) PROVE Roles'
    <2>1. /\ pc'[w] = "check" /\ pc'[0] = pc[0]
          /\ \A v \in Peers \ {w} : pc'[v] = pc[v]
      BY <1>21, PeerGoes DEF Takes
    <2> QED
      BY <2>1, <1>21 DEF Takes
  <1>22. ASSUME NEW w \in Peers, Reports(w) PROVE Roles'
    <2>1. /\ pc'[w] = "parked" /\ pc'[0] = pc[0]
          /\ \A v \in Peers \ {w} : pc'[v] = pc[v]
      BY <1>22, PeerGoes DEF Reports
    <2> QED
      BY <2>1, <1>22 DEF Reports
  <1>23. ASSUME NEW w \in Peers, Exits(w) PROVE Roles'
    <2>1. /\ pc'[w] = "exited" /\ pc'[0] = pc[0]
          /\ \A v \in Peers \ {w} : pc'[v] = pc[v]
      BY <1>23, PeerGoes DEF Exits
    <2> QED
      BY <2>1, <1>23 DEF Exits
  <1>24. CASE Stop \/ Expire \/ UNCHANGED vars
    BY <1>24 DEF Stop, Expire, vars
  <1> QED
    BY <1>1, <1>2, <1>3, <1>4, <1>5, <1>6, <1>7, <1>8, <1>9, <1>10, <1>11,
       <1>12, <1>13, <1>14, <1>15, <1>16, <1>17, <1>18, <1>19, <1>20, <1>21,
       <1>22, <1>23, <1>24
       DEF Next, Construction, Running, Joining, Kernel, Entry

(* The peers are counted.                                                  *)
LEMMA PeersFinite == IsFiniteSet(Peers) /\ Cardinality(Peers) = Count - 1
  <1>1. Count - 1 \in Int /\ 1 \in Int /\ Count - 1 >= 1
    BY TeamAssumption
  <1>2. Cardinality(1..Count - 1) = (Count - 1) - 1 + 1
    BY <1>1, FS_Interval
  <1>3. IsFiniteSet(1..Count - 1)
    BY <1>1, FS_Interval
  <1> QED
    BY <1>1, <1>2, <1>3 DEF Peers

(* When every created peer has reported, every peer has: finished counts   *)
(* the peers that are parked after this generation.                        *)
LEMMA AllReported ==
  ASSUME TypeOK, Generations, pc[0] \in Calling, finished = Count - 1
  PROVE  \A w \in Peers : seen[w] = generation /\ pc[w] = "parked"
  <1>1. Count - 1 \in Nat /\ 1 \in Nat
    BY TeamAssumption
  <1>2. IsFiniteSet(Peers) /\ Cardinality(Peers) = Count - 1
    BY PeersFinite
  <1>3. Reported \in SUBSET Peers
    BY DEF Reported
  <1>4. Cardinality(Reported) = Count - 1
    BY DEF Generations
  <1>5. Reported = Peers
    BY <1>2, <1>3, <1>4, FS_Subset
  <1> QED
    BY <1>5 DEF Reported

(* A report is counted once, and there are never more than peers.          *)
LEMMA ReportCounts ==
  ASSUME TypeOK, Generations, NEW STATE w, w \in Peers, Reports(w),
         pc[0] \in Calling
  PROVE  /\ finished' = Cardinality(Reported')
         /\ finished' \in 0..Count - 1
  <1>1. Count - 1 \in Nat /\ 1 \in Nat
    BY TeamAssumption
  <1>2. IsFiniteSet(Peers) /\ Cardinality(Peers) = Count - 1
    BY PeersFinite
  <1>3. /\ pc'[w] = "parked" /\ \A v \in Peers \ {w} : pc'[v] = pc[v]
        /\ UNCHANGED <<seen, generation>>
    BY PeerGoes DEF Reports
  <1>4. seen[w] = generation /\ w \notin Reported
    BY DEF Reports, Generations, Reported
  <1>5. Reported' = Reported \cup {w}
    BY <1>3, <1>4 DEF Reported
  <1>6. IsFiniteSet(Reported) /\ Reported' \in SUBSET Peers
    BY <1>2, FS_Subset DEF Reported
  <1>7. Cardinality(Reported') = Cardinality(Reported) + 1
    BY <1>4, <1>5, <1>6, FS_AddElement
  <1>8. Cardinality(Reported') <= Count - 1
    BY <1>2, <1>6, FS_Subset
  <1>9. finished' = finished + 1 /\ finished = Cardinality(Reported)
        /\ finished \in Nat
    BY DEF Reports, Generations, TypeOK
  <1> QED
    BY <1>1, <1>7, <1>8, <1>9

(* Generations are taken and reported one by one.                          *)
LEMMA GenerationsStep ==
  ASSUME TypeOK, Roles, Generations, Next \/ UNCHANGED vars
  PROVE  Generations'
  <1> USE DEF Generations, QuietOutsideCall, Calling, lifeVars, jobVars,
             envVars
  <1>1. CASE Create
    <2>1. created' = created + 1 /\ created' \in Peers /\ created \in Nat
      BY <1>1, TeamAssumption DEF Create, TypeOK, Peers
    <2>2. /\ pc'[created'] = "parked" /\ pc'[0] = pc[0]
          /\ \A v \in Peers \ {created'} : pc'[v] = pc[v]
      BY <1>1, <2>1, WorkersPeers DEF Create, Goto, TypeOK
    <2> QED
      BY <2>1, <2>2, <1>1 DEF Create
  <1>2. CASE Created
    <2>1. pc'[0] = "idle" /\ \A v \in Peers : pc'[v] = pc[v]
      BY <1>2, OwnerGoes DEF Created
    <2> QED
      BY <2>1, <1>2 DEF Created
  <1>3. CASE StartFails
    <2>1. pc'[0] = "join" /\ \A v \in Peers : pc'[v] = pc[v]
      BY <1>3, OwnerGoes DEF StartFails
    <2> QED
      BY <2>1, <1>3 DEF StartFails
  <1>4. CASE SetUp
    <2>1. pc'[0] = "dispatch" /\ \A v \in Peers : pc'[v] = pc[v]
      BY <1>4, OwnerGoes DEF SetUp
    <2> QED
      BY <2>1, <1>4 DEF SetUp
  <1>5. CASE Dispatch
    <2>1. pc'[0] = "notify" /\ \A v \in Peers : pc'[v] = pc[v]
      BY <1>5, OwnerGoes DEF Dispatch
    <2>2. \A v \in Peers : seen'[v] = generation /\ pc'[v] \notin {"check", "call", "report"}
      BY <1>5, <2>1 DEF Dispatch
    <2>3. generation \in Nat /\ generation' = generation + 1 /\ finished' = 0
      BY <1>5, TeamAssumption DEF Dispatch, TypeOK
    <2>4. Reported' = {}
      BY <2>2, <2>3 DEF Reported
    <2>5. Cardinality(Reported') = 0
      BY <2>4, FS_EmptySet
    <2> QED
      BY <2>1, <2>2, <2>3, <2>5
  <1>6. CASE Notify
    <2>1. pc'[0] = "check" /\ \A v \in Peers : pc'[v] = pc[v]
      BY <1>6, OwnerGoes DEF Notify
    <2> QED
      BY <2>1, <1>6 DEF Notify, Reported
  <1>7. CASE WaitPolls
    BY <1>7 DEF WaitPolls, Reported
  <1>8. CASE WaitEnds
    <2>1. pc'[0] = "decide" /\ \A v \in Peers : pc'[v] = pc[v]
      BY <1>8, OwnerGoes DEF WaitEnds
    <2>2. created = Count - 1
      BY <1>8 DEF WaitEnds, Roles, Closing
    <2>3. \A v \in Peers : seen[v] = generation /\ pc[v] = "parked"
      BY <1>8, <2>2, AllReported DEF WaitEnds
    <2> QED
      BY <2>1, <2>3, <1>8 DEF WaitEnds
  <1>9. CASE Succeeds
    <2>1. pc'[0] = "idle" /\ \A v \in Peers : pc'[v] = pc[v]
      BY <1>9, OwnerGoes DEF Succeeds
    <2> QED
      BY <2>1, <1>9 DEF Succeeds
  <1>10. CASE Fails
    <2>1. pc'[0] = "join" /\ \A v \in Peers : pc'[v] = pc[v]
      BY <1>10, OwnerGoes DEF Fails
    <2> QED
      BY <2>1, <1>10 DEF Fails
  <1>11. CASE Destroy
    <2>1. pc'[0] = "join" /\ \A v \in Peers : pc'[v] = pc[v]
      BY <1>11, OwnerGoes DEF Destroy
    <2> QED
      BY <2>1, <1>11 DEF Destroy
  <1>12. CASE ShutDown
    <2>1. pc'[0] = "wake" /\ \A v \in Peers : pc'[v] = pc[v]
      BY <1>12, OwnerGoes DEF ShutDown
    <2> QED
      BY <2>1, <1>12 DEF ShutDown
  <1>13. CASE WakeAll
    <2>1. pc'[0] = "joining" /\ \A v \in Peers : pc'[v] = pc[v]
      BY <1>13, OwnerGoes DEF WakeAll
    <2> QED
      BY <2>1, <1>13 DEF WakeAll
  <1>14. CASE Joined
    <2>1. pc'[0] = "closed" /\ \A v \in Peers : pc'[v] = pc[v]
      BY <1>14, OwnerGoes DEF Joined
    <2> QED
      BY <2>1, <1>14 DEF Joined
  <1>15. CASE PollsAbort
    BY <1>15 DEF PollsAbort, Reported
  <1>16. ASSUME NEW w \in Workers, Enters(w) PROVE Generations'
    <2>1. /\ pc'[w] = "call"
          /\ \A v \in Workers \ {w} : pc'[v] = pc[v]
      BY <1>16, GotoEffect DEF Enters
    <2> QED
      BY <2>1, <1>16, WorkersPeers DEF Enters, Reported
  <1>17. ASSUME NEW w \in Workers, Transforms(w) PROVE Generations'
    <2>1. /\ pc'[w] = "check"
          /\ \A v \in Workers \ {w} : pc'[v] = pc[v]
      BY <1>17, GotoEffect DEF Transforms
    <2> QED
      BY <2>1, <1>17, WorkersPeers DEF Transforms, Reported
  <1>18. ASSUME NEW w \in Workers, CallFails(w) PROVE Generations'
    <2>1. /\ pc'[w] = (IF w = 0 THEN "wait" ELSE "report")
          /\ \A v \in Workers \ {w} : pc'[v] = pc[v]
      BY <1>18, GotoEffect DEF CallFails, Ended
    <2> QED
      BY <2>1, <1>18, WorkersPeers DEF CallFails, Reported
  <1>19. ASSUME NEW w \in Workers, Returns(w) PROVE Generations'
    <2>1. /\ pc'[w] = (IF w = 0 THEN "wait" ELSE "report")
          /\ \A v \in Workers \ {w} : pc'[v] = pc[v]
      BY <1>19, GotoEffect DEF Returns, Ended
    <2> QED
      BY <2>1, <1>19, WorkersPeers DEF Returns, Reported
  <1>20. ASSUME NEW w \in Peers, Sleeps(w) PROVE Generations'
    BY <1>20 DEF Sleeps, Reported
  <1>21. ASSUME NEW w \in Peers, Takes(w) PROVE Generations'
    <2>1. /\ pc'[w] = "check" /\ pc'[0] = pc[0]
          /\ \A v \in Peers \ {w} : pc'[v] = pc[v]
      BY <1>21, PeerGoes DEF Takes
    <2>2. /\ seen'[w] = generation /\ generation' = generation
          /\ \A v \in Peers \ {w} : seen'[v] = seen[v]
          /\ finished' = finished
      BY <1>21 DEF Takes, TypeOK
    <2>3. seen[w] # generation /\ pc[0] \in Calling
      BY <1>21 DEF Takes
    <2>4. Reported' = Reported
      BY <2>1, <2>2, <2>3 DEF Reported
    <2> QED
      BY <2>1, <2>2, <2>3, <2>4
  <1>22. ASSUME NEW w \in Peers, Reports(w) PROVE Generations'
    <2>1. /\ pc'[w] = "parked" /\ pc'[0] = pc[0]
          /\ \A v \in Peers \ {w} : pc'[v] = pc[v]
      BY <1>22, PeerGoes DEF Reports
    <2>2. pc[0] \in Calling
      BY <1>22 DEF Reports
    <2>3. finished' = Cardinality(Reported')
      BY <1>22, <2>2, ReportCounts
    <2> QED
      BY <2>1, <2>2, <2>3, <1>22 DEF Reports
  <1>23. ASSUME NEW w \in Peers, Exits(w) PROVE Generations'
    <2>1. /\ pc'[w] = "exited" /\ pc'[0] = pc[0]
          /\ \A v \in Peers \ {w} : pc'[v] = pc[v]
      BY <1>23, PeerGoes DEF Exits
    <2>2. pc[0] \notin Calling
      BY <1>23 DEF Exits, Roles, Closing
    <2> QED
      BY <2>1, <2>2, <1>23 DEF Exits
  <1>24. CASE Stop \/ Expire \/ UNCHANGED vars
    BY <1>24 DEF Stop, Expire, vars, Reported
  <1> QED
    BY <1>1, <1>2, <1>3, <1>4, <1>5, <1>6, <1>7, <1>8, <1>9, <1>10, <1>11,
       <1>12, <1>13, <1>14, <1>15, <1>16, <1>17, <1>18, <1>19, <1>20, <1>21,
       <1>22, <1>23, <1>24
       DEF Next, Construction, Running, Joining, Kernel, Entry

(* A share is a set of lines.                                              *)
LEMMA ShareLines == \A w \in Workers : Share(w) \subseteq Lines
  <1> SUFFICES ASSUME NEW w \in Workers PROVE Share(w) \subseteq Lines
    OBVIOUS
  <1>1. w \in 0..Count /\ w + 1 \in 0..Count
    BY TeamAssumption DEF Workers
  <1>2. First(w) \in 0..LineCount /\ End(w) \in 0..LineCount
    BY <1>1, FirstType, EndIsNext
  <1> QED
    BY <1>2, LineCountType DEF Share, Lines

(* What is transformed stays within the shares and positions.              *)
LEMMA SharesStep ==
  ASSUME TypeOK, Stalled, Shares, Next \/ UNCHANGED vars
  PROVE  Shares'
  <1>1. CASE SetUp
    <2> SUFFICES ASSUME NEW w \in Workers
                 PROVE  /\ First(w) \in First(w)..End(w)
                        /\ Share(w) \subseteq Lines
                        /\ \A l \in Share(w) : ~(l < First(w))
      BY <1>1 DEF SetUp, Shares
    <2>1. w \in 0..Count /\ w + 1 \in 0..Count /\ w <= w + 1
      BY TeamAssumption DEF Workers
    <2>2. First(w) \in Nat /\ End(w) \in Nat /\ First(w) <= End(w)
      BY <2>1, FirstType, FirstMonotone, EndIsNext
    <2> QED
      BY <2>2, ShareLines DEF Share
  <1>2. ASSUME NEW w \in Workers, Transforms(w) PROVE Shares'
    <2>1. /\ w \notin failures /\ failures' = failures
          /\ position' = [position EXCEPT ![w] = @ + GroupLength(w)]
          /\ \A l \in Lines : transformed'[l] = IF l \in Group(w)
                                                 THEN transformed[l] + 1
                                                 ELSE transformed[l]
      BY <1>2 DEF Transforms, Stalled
    <2>2. position[w] \in First(w)..End(w)
      BY DEF Shares
    <2>3. /\ position[w] + GroupLength(w) \in First(w)..End(w)
          /\ Group(w) \subseteq Share(w)
          /\ GroupLength(w) \in Nat
          /\ \A l \in Share(w) :
               l \in Group(w) <=>
                 l >= position[w] /\ l < position[w] + GroupLength(w)
      BY <2>2, GroupWithin
    <2>4. position'[w] = position[w] + GroupLength(w)
      BY <2>1 DEF TypeOK
    <2>5. \A l \in Share(w) :
            transformed'[l] = IF l < position'[w] THEN 1 ELSE 0
      <3> SUFFICES ASSUME NEW l \in Share(w)
                   PROVE  transformed'[l] = IF l < position'[w] THEN 1 ELSE 0
        OBVIOUS
      <3>1. transformed[l] = IF l < position[w] THEN 1 ELSE 0
        BY <2>1 DEF Shares
      <3>2. l \in Lines /\ l \in Nat
        BY ShareLines DEF Lines
      <3>3. position[w] \in Nat
        BY DEF TypeOK
      <3> QED
        BY <2>1, <2>3, <2>4, <3>1, <3>2, <3>3
    <2>6. ASSUME NEW v \in Workers \ {w}
          PROVE  /\ position'[v] = position[v]
                 /\ \A l \in Share(v) : transformed'[l] = transformed[l]
      BY <2>1, <2>3, SharesDisjoint, ShareLines DEF TypeOK
    <2> QED
      BY <2>1, <2>3, <2>4, <2>5, <2>6 DEF Shares
  <1>3. ASSUME NEW w \in Workers, CallFails(w) PROVE Shares'
    <2>1. PICK S \in SUBSET Group(w) :
            transformed' = [l \in Lines |-> IF l \in S THEN transformed[l] + 1
                                                       ELSE transformed[l]]
      BY <1>3 DEF CallFails
    <2>2. /\ w \notin failures /\ failures' = failures \cup {w}
          /\ position' = position
      BY <1>3 DEF CallFails, Stalled
    <2>3. /\ Group(w) \subseteq Share(w)
          /\ \A l \in Share(w) : l \in Group(w) => l >= position[w]
      BY GroupWithin DEF Shares
    <2>4. \A l \in Share(w) : transformed'[l] \in {0, 1}
      <3> SUFFICES ASSUME NEW l \in Share(w) PROVE transformed'[l] \in {0, 1}
        OBVIOUS
      <3>1. transformed[l] = IF l < position[w] THEN 1 ELSE 0
        BY <2>2 DEF Shares
      <3>2. l \in Lines /\ l \in Nat /\ position[w] \in Nat
        BY ShareLines DEF Lines, TypeOK
      <3> QED
        BY <2>1, <2>3, <3>1, <3>2
    <2>5. ASSUME NEW v \in Workers \ {w}
          PROVE  \A l \in Share(v) : transformed'[l] = transformed[l]
      BY <2>1, <2>3, SharesDisjoint, ShareLines
    <2> QED
      BY <2>2, <2>4, <2>5 DEF Shares
  <1>4. CASE UNCHANGED jobVars
    BY <1>4 DEF Shares, jobVars
  <1>5. \/ SetUp \/ UNCHANGED jobVars
        \/ \E w \in Workers : Transforms(w) \/ CallFails(w)
    BY DEF Next, Construction, Running, Joining, Kernel, Entry, Create, Created,
           StartFails, Dispatch, Notify, WaitPolls, WaitEnds, Succeeds, Fails,
           Destroy, ShutDown, WakeAll, Joined, PollsAbort, Enters, Returns,
           Sleeps, Takes, Reports, Exits, Stop, Expire, vars, jobVars
  <1> QED
    BY <1>1, <1>2, <1>3, <1>4, <1>5

(* Types.                                                                  *)
LEMMA TypeStep ==
  ASSUME TypeOK, Roles, Generations, Shares, Next \/ UNCHANGED vars
  PROVE  TypeOK'
  <1> USE DEF TypeOK, Goto, lifeVars, jobVars, envVars
  <1>1. CASE Create
    <2>1. created' \in 0..Count - 1
      BY <1>1, TeamAssumption DEF Create
    <2> QED
      BY <2>1, <1>1 DEF Create
  <1>2. CASE Created
    BY <1>2 DEF Created
  <1>3. CASE StartFails
    BY <1>3 DEF StartFails
  <1>4. CASE SetUp
    <2>1. position' \in [Workers -> 0..LineCount]
      BY <1>4, FirstType, TeamAssumption DEF SetUp, Workers
    <2> QED
      BY <2>1, <1>4 DEF SetUp
  <1>5. CASE Dispatch
    <2>1. generation' \in 0..MaxRuns /\ finished' \in 0..Count - 1
      BY <1>5, TeamAssumption DEF Dispatch, Generations
    <2> QED
      BY <2>1, <1>5 DEF Dispatch
  <1>6. CASE Notify
    BY <1>6 DEF Notify
  <1>7. CASE WaitPolls
    BY <1>7 DEF WaitPolls
  <1>8. CASE WaitEnds
    BY <1>8 DEF WaitEnds
  <1>9. CASE Succeeds
    BY <1>9 DEF Succeeds
  <1>10. CASE Fails
    BY <1>10 DEF Fails
  <1>11. CASE Destroy
    BY <1>11 DEF Destroy
  <1>12. CASE ShutDown
    BY <1>12 DEF ShutDown
  <1>13. CASE WakeAll
    BY <1>13 DEF WakeAll
  <1>14. CASE Joined
    BY <1>14 DEF Joined
  <1>15. CASE PollsAbort
    BY <1>15 DEF PollsAbort
  <1>16. ASSUME NEW w \in Workers, Enters(w) PROVE TypeOK'
    BY <1>16 DEF Enters
  <1>17. ASSUME NEW w \in Workers, Transforms(w) PROVE TypeOK'
    <2>1. position[w] + GroupLength(w) \in First(w)..End(w)
      BY GroupWithin DEF Shares
    <2>2. First(w) \in Nat /\ End(w) \in 0..LineCount
      BY FirstType, EndIsNext, TeamAssumption DEF Workers
    <2>3. position[w] + GroupLength(w) \in 0..LineCount
      BY <2>1, <2>2, LineCountType
    <2> QED
      BY <2>3, <1>17 DEF Transforms
  <1>18. ASSUME NEW w \in Workers, CallFails(w) PROVE TypeOK'
    <2>1. transformed' \in [Lines -> Nat]
      BY <1>18 DEF CallFails
    <2> QED
      BY <2>1, <1>18 DEF CallFails, Ended
  <1>19. ASSUME NEW w \in Workers, Returns(w) PROVE TypeOK'
    BY <1>19 DEF Returns, Ended
  <1>20. ASSUME NEW w \in Peers, Sleeps(w) PROVE TypeOK'
    BY <1>20 DEF Sleeps
  <1>21. ASSUME NEW w \in Peers, Takes(w) PROVE TypeOK'
    BY <1>21 DEF Takes
  <1>22. ASSUME NEW w \in Peers, Reports(w) PROVE TypeOK'
    <2>1. finished' \in 0..Count - 1
      BY <1>22, ReportCounts DEF Reports, Generations, QuietOutsideCall, Calling
    <2> QED
      BY <2>1, <1>22 DEF Reports
  <1>23. ASSUME NEW w \in Peers, Exits(w) PROVE TypeOK'
    BY <1>23 DEF Exits
  <1>24. CASE Stop \/ Expire \/ UNCHANGED vars
    BY <1>24 DEF Stop, Expire, vars
  <1> QED
    BY <1>1, <1>2, <1>3, <1>4, <1>5, <1>6, <1>7, <1>8, <1>9, <1>10, <1>11,
       <1>12, <1>13, <1>14, <1>15, <1>16, <1>17, <1>18, <1>19, <1>20, <1>21,
       <1>22, <1>23, <1>24
       DEF Next, Construction, Running, Joining, Kernel, Entry

(* When the owner decides, every peer has reported this generation.        *)
LEMMA DecidePeers ==
  ASSUME TypeOK, Roles, Generations, pc[0] = "decide"
  PROVE  \A w \in Workers : Over(w)
  <1>1. \A w \in Peers : ~(w > Count - 1)
    BY TeamAssumption DEF Peers
  <1> QED
    BY <1>1, WorkersPeers
       DEF Roles, Generations, QuietOutsideCall, Calling, Closing, InCall, Over

(* A call that may succeed has transformed every line exactly once.        *)
LEMMA DecideComplete ==
  ASSUME TypeOK, Roles, Generations, Shares, Outcome, pc[0] = "decide",
         ~Interrupted, failures = {}
  PROVE  \A l \in Lines : transformed[l] = 1
  <1> SUFFICES ASSUME NEW l \in Lines PROVE transformed[l] = 1
    OBVIOUS
  <1>1. PICK w \in Workers : l \in Share(w)
    BY SharesCover
  <1>2. Over(w) /\ ~abort /\ ~stopped
    BY DecidePeers DEF Outcome, InCall, Interrupted
  <1>3. position[w] = End(w)
    BY <1>2 DEF Outcome
  <1>4. l < position[w]
    BY <1>1, <1>3 DEF Share, Lines, TypeOK
  <1> QED
    BY <1>1, <1>4 DEF Shares

(* A failed worker does nothing more in its call.                          *)
LEMMA StalledStep ==
  ASSUME TypeOK, Roles, Generations, Stalled, Next \/ UNCHANGED vars
  PROVE  Stalled'
  <1> USE DEF Stalled, lifeVars, jobVars, envVars
  <1>1. CASE Create
    <2>1. created' = created + 1 /\ created' \in Peers
      BY <1>1, TeamAssumption DEF Create, TypeOK, Peers
    <2>2. \A v \in Workers \ {created'} : pc'[v] = pc[v]
      BY <1>1, <2>1, WorkersPeers, GotoEffect DEF Create
    <2>3. pc'[created'] = "parked" /\ pc'[0] = pc[0]
      BY <1>1, <2>1, <2>2, WorkersPeers, GotoEffect DEF Create
    <2> QED
      BY <2>1, <2>2, <2>3, <1>1 DEF Create, TypeOK
  <1>2. CASE Created
    <2>1. pc'[0] = "idle" /\ \A v \in Peers : pc'[v] = pc[v]
      BY <1>2, OwnerGoes DEF Created
    <2> QED
      BY <2>1, <1>2, WorkersPeers DEF Created, TypeOK
  <1>3. CASE StartFails
    <2>1. pc'[0] = "join" /\ \A v \in Peers : pc'[v] = pc[v]
      BY <1>3, OwnerGoes DEF StartFails
    <2> QED
      BY <2>1, <1>3, WorkersPeers DEF StartFails, TypeOK
  <1>4. CASE SetUp
    BY <1>4 DEF SetUp
  <1>5. CASE Dispatch
    <2>1. pc'[0] = "notify" /\ \A v \in Peers : pc'[v] = pc[v]
      BY <1>5, OwnerGoes DEF Dispatch
    <2> QED
      BY <2>1, <1>5, WorkersPeers DEF Dispatch, TypeOK
  <1>6. CASE Notify
    <2>1. pc'[0] = "check" /\ \A v \in Peers : pc'[v] = pc[v]
      BY <1>6, OwnerGoes DEF Notify
    <2> QED
      BY <2>1, <1>6, WorkersPeers DEF Notify, TypeOK
  <1>7. CASE WaitPolls
    BY <1>7 DEF WaitPolls, TypeOK
  <1>8. CASE WaitEnds
    <2>1. pc'[0] = "decide" /\ \A v \in Peers : pc'[v] = pc[v]
      BY <1>8, OwnerGoes DEF WaitEnds
    <2> QED
      BY <2>1, <1>8, WorkersPeers DEF WaitEnds, TypeOK
  <1>9. CASE Succeeds
    <2>1. pc'[0] = "idle" /\ \A v \in Peers : pc'[v] = pc[v]
      BY <1>9, OwnerGoes DEF Succeeds
    <2> QED
      BY <2>1, <1>9, WorkersPeers DEF Succeeds, TypeOK
  <1>10. CASE Fails
    <2>1. pc'[0] = "join" /\ \A v \in Peers : pc'[v] = pc[v]
      BY <1>10, OwnerGoes DEF Fails
    <2> QED
      BY <2>1, <1>10, WorkersPeers DEF Fails, TypeOK
  <1>11. CASE Destroy
    <2>1. pc'[0] = "join" /\ \A v \in Peers : pc'[v] = pc[v]
      BY <1>11, OwnerGoes DEF Destroy
    <2> QED
      BY <2>1, <1>11, WorkersPeers DEF Destroy, TypeOK
  <1>12. CASE ShutDown
    <2>1. pc'[0] = "wake" /\ \A v \in Peers : pc'[v] = pc[v]
      BY <1>12, OwnerGoes DEF ShutDown
    <2> QED
      BY <2>1, <1>12, WorkersPeers DEF ShutDown, TypeOK
  <1>13. CASE WakeAll
    <2>1. pc'[0] = "joining" /\ \A v \in Peers : pc'[v] = pc[v]
      BY <1>13, OwnerGoes DEF WakeAll
    <2> QED
      BY <2>1, <1>13, WorkersPeers DEF WakeAll, TypeOK
  <1>14. CASE Joined
    <2>1. pc'[0] = "closed" /\ \A v \in Peers : pc'[v] = pc[v]
      BY <1>14, OwnerGoes DEF Joined
    <2> QED
      BY <2>1, <1>14, WorkersPeers DEF Joined, TypeOK
  <1>15. CASE PollsAbort
    BY <1>15 DEF PollsAbort, TypeOK
  <1>16. ASSUME NEW w \in Workers, Enters(w) PROVE Stalled'
    <2>1. /\ pc'[w] = "call"
          /\ \A v \in Workers \ {w} : pc'[v] = pc[v]
      BY <1>16, GotoEffect DEF Enters
    <2> QED
      BY <2>1, <1>16, WorkersPeers DEF Enters, TypeOK
  <1>17. ASSUME NEW w \in Workers, Transforms(w) PROVE Stalled'
    <2>1. /\ pc'[w] = "check"
          /\ \A v \in Workers \ {w} : pc'[v] = pc[v]
      BY <1>17, GotoEffect DEF Transforms
    <2> QED
      BY <2>1, <1>17, WorkersPeers DEF Transforms, TypeOK
  <1>18. ASSUME NEW w \in Workers, CallFails(w) PROVE Stalled'
    <2>1. /\ pc'[w] = (IF w = 0 THEN "wait" ELSE "report")
          /\ \A v \in Workers \ {w} : pc'[v] = pc[v]
      BY <1>18, GotoEffect DEF CallFails, Ended
    <2>2. w # 0 => seen[w] = generation /\ pc[0] # "dispatch"
      BY <1>18, WorkersPeers DEF CallFails, Generations, QuietOutsideCall
    <2> QED
      BY <2>1, <2>2, <1>18, WorkersPeers DEF CallFails, TypeOK
  <1>19. ASSUME NEW w \in Workers, Returns(w) PROVE Stalled'
    <2>1. /\ pc'[w] = (IF w = 0 THEN "wait" ELSE "report")
          /\ \A v \in Workers \ {w} : pc'[v] = pc[v]
      BY <1>19, GotoEffect DEF Returns, Ended
    <2> QED
      BY <2>1, <1>19, WorkersPeers DEF Returns, TypeOK
  <1>20. ASSUME NEW w \in Peers, Sleeps(w) PROVE Stalled'
    BY <1>20 DEF Sleeps, TypeOK
  <1>21. ASSUME NEW w \in Peers, Takes(w) PROVE Stalled'
    <2>1. /\ pc'[w] = "check" /\ pc'[0] = pc[0]
          /\ \A v \in Peers \ {w} : pc'[v] = pc[v]
      BY <1>21, PeerGoes DEF Takes
    <2>2. w \notin failures /\ \A v \in Peers \ {w} : seen'[v] = seen[v]
      BY <1>21, WorkersPeers DEF Takes, TypeOK
    <2> QED
      BY <2>1, <2>2, <1>21, WorkersPeers DEF Takes, TypeOK
  <1>22. ASSUME NEW w \in Peers, Reports(w) PROVE Stalled'
    <2>1. /\ pc'[w] = "parked" /\ pc'[0] = pc[0]
          /\ \A v \in Peers \ {w} : pc'[v] = pc[v]
      BY <1>22, PeerGoes DEF Reports
    <2> QED
      BY <2>1, <1>22, WorkersPeers DEF Reports, TypeOK
  <1>23. ASSUME NEW w \in Peers, Exits(w) PROVE Stalled'
    <2>1. /\ pc'[w] = "exited" /\ pc'[0] = pc[0]
          /\ \A v \in Peers \ {w} : pc'[v] = pc[v]
      BY <1>23, PeerGoes DEF Exits
    <2> QED
      BY <2>1, <1>23, WorkersPeers DEF Exits, TypeOK
  <1>24. CASE Stop \/ Expire \/ UNCHANGED vars
    BY <1>24 DEF Stop, Expire, vars, TypeOK
  <1> QED
    BY <1>1, <1>2, <1>3, <1>4, <1>5, <1>6, <1>7, <1>8, <1>9, <1>10, <1>11,
       <1>12, <1>13, <1>14, <1>15, <1>16, <1>17, <1>18, <1>19, <1>20, <1>21,
       <1>22, <1>23, <1>24
       DEF Next, Construction, Running, Joining, Kernel, Entry

(* What ends a worker early also fails its call.                           *)
LEMMA OutcomeStep ==
  ASSUME TypeOK, Roles, Generations, Shares, Stalled, Outcome, Next \/ UNCHANGED vars
  PROVE  Outcome'
  <1> USE DEF Outcome, SuccessComplete, Over, InCall, Calling, Closing,
             Interrupted, lifeVars, jobVars, envVars
  <1>1. CASE Create
    <2>1. created' \in Peers
      BY <1>1, TeamAssumption DEF Create, TypeOK, Peers
    <2>2. pc'[0] = "create"
      BY <1>1, <2>1, WorkersPeers DEF Create, Goto, TypeOK
    <2> QED
      BY <2>2, <1>1 DEF Create
  <1>2. CASE Created
    <2>1. pc'[0] = "idle" /\ \A v \in Peers : pc'[v] = pc[v]
      BY <1>2, OwnerGoes DEF Created
    <2> QED
      BY <2>1, <1>2, WorkersPeers DEF Created
  <1>3. CASE StartFails
    <2>1. pc'[0] = "join" /\ \A v \in Peers : pc'[v] = pc[v]
      BY <1>3, OwnerGoes DEF StartFails
    <2> QED
      BY <2>1, <1>3, WorkersPeers DEF StartFails
  <1>4. CASE SetUp
    <2>1. pc'[0] = "dispatch"
      BY <1>4, OwnerGoes DEF SetUp
    <2> QED
      BY <2>1, <1>4 DEF SetUp
  <1>5. CASE Dispatch
    <2>1. pc'[0] = "notify"
      BY <1>5, OwnerGoes DEF Dispatch
    <2>2. \A w \in Peers : seen'[w] # generation'
      BY <1>5 DEF Dispatch, Generations, TypeOK
    <2>3. abort => Interrupted \/ failures # {}
      BY <1>5 DEF Dispatch
    <2> QED
      BY <2>1, <2>2, <2>3, <1>5, WorkersPeers DEF Dispatch
  <1>6. CASE Notify
    <2>1. pc'[0] = "check" /\ \A v \in Peers : pc'[v] = pc[v]
      BY <1>6, OwnerGoes DEF Notify
    <2> QED
      BY <2>1, <1>6, WorkersPeers DEF Notify
  <1>7. CASE WaitPolls
    BY <1>7 DEF WaitPolls
  <1>8. CASE WaitEnds
    <2>1. pc'[0] = "decide" /\ \A v \in Peers : pc'[v] = pc[v]
      BY <1>8, OwnerGoes DEF WaitEnds
    <2> QED
      BY <2>1, <1>8, WorkersPeers DEF WaitEnds
  <1>9. CASE Succeeds
    <2>1. pc'[0] = "idle"
      BY <1>9, OwnerGoes DEF Succeeds
    <2>2. \A l \in Lines : transformed[l] = 1
      BY <1>9, DecideComplete DEF Succeeds
    <2> QED
      BY <2>1, <2>2, <1>9 DEF Succeeds
  <1>10. CASE Fails
    <2>1. pc'[0] = "join" /\ \A v \in Peers : pc'[v] = pc[v]
      BY <1>10, OwnerGoes DEF Fails
    <2> QED
      BY <2>1, <1>10, WorkersPeers DEF Fails
  <1>11. CASE Destroy
    <2>1. pc'[0] = "join" /\ \A v \in Peers : pc'[v] = pc[v]
      BY <1>11, OwnerGoes DEF Destroy
    <2> QED
      BY <2>1, <1>11, WorkersPeers DEF Destroy
  <1>12. CASE ShutDown
    <2>1. pc'[0] = "wake" /\ \A v \in Peers : pc'[v] = pc[v]
      BY <1>12, OwnerGoes DEF ShutDown
    <2> QED
      BY <2>1, <1>12, WorkersPeers DEF ShutDown
  <1>13. CASE WakeAll
    <2>1. pc'[0] = "joining" /\ \A v \in Peers : pc'[v] = pc[v]
      BY <1>13, OwnerGoes DEF WakeAll
    <2> QED
      BY <2>1, <1>13, WorkersPeers DEF WakeAll
  <1>14. CASE Joined
    <2>1. pc'[0] = "closed" /\ \A v \in Peers : pc'[v] = pc[v]
      BY <1>14, OwnerGoes DEF Joined
    <2> QED
      BY <2>1, <1>14, WorkersPeers DEF Joined
  <1>15. CASE PollsAbort
    BY <1>15 DEF PollsAbort
  <1>16. ASSUME NEW w \in Workers, Enters(w) PROVE Outcome'
    <2>1. /\ pc'[w] = "call"
          /\ \A v \in Workers \ {w} : pc'[v] = pc[v]
      BY <1>16, GotoEffect DEF Enters
    <2> QED
      BY <2>1, <1>16, WorkersPeers DEF Enters
  <1>17. ASSUME NEW w \in Workers, Transforms(w) PROVE Outcome'
    <2>1. /\ pc'[w] = "check"
          /\ \A v \in Workers \ {w} : pc'[v] = pc[v]
      BY <1>17, GotoEffect DEF Transforms
    <2>2. \A v \in Workers \ {w} : position'[v] = position[v]
      BY <1>17 DEF Transforms, TypeOK
    <2>3. pc[0] \in Calling /\ pc'[0] \in Calling
      BY <2>1, <1>17, WorkersPeers DEF Transforms, Generations, QuietOutsideCall
    <2> QED
      BY <2>1, <2>2, <2>3, <1>17, WorkersPeers DEF Transforms
  <1>18. ASSUME NEW w \in Workers, CallFails(w) PROVE Outcome'
    <2>1. /\ pc'[w] = (IF w = 0 THEN "wait" ELSE "report")
          /\ \A v \in Workers \ {w} : pc'[v] = pc[v]
      BY <1>18, GotoEffect DEF CallFails, Ended
    <2>2. pc[0] \in Calling /\ pc'[0] \in Calling
      BY <2>1, <1>18, WorkersPeers DEF CallFails, Generations, QuietOutsideCall
    <2> QED
      BY <2>1, <2>2, <1>18 DEF CallFails
  <1>19. ASSUME NEW w \in Workers, Returns(w) PROVE Outcome'
    <2>1. /\ pc'[w] = (IF w = 0 THEN "wait" ELSE "report")
          /\ \A v \in Workers \ {w} : pc'[v] = pc[v]
      BY <1>19, GotoEffect DEF Returns, Ended
    <2> QED
      BY <2>1, <1>19, WorkersPeers DEF Returns
  <1>20. ASSUME NEW w \in Peers, Sleeps(w) PROVE Outcome'
    BY <1>20 DEF Sleeps
  <1>21. ASSUME NEW w \in Peers, Takes(w) PROVE Outcome'
    <2>1. /\ pc'[w] = "check" /\ pc'[0] = pc[0]
          /\ \A v \in Peers \ {w} : pc'[v] = pc[v]
      BY <1>21, PeerGoes DEF Takes
    <2> QED
      BY <2>1, <1>21, WorkersPeers DEF Takes, TypeOK
  <1>22. ASSUME NEW w \in Peers, Reports(w) PROVE Outcome'
    <2>1. /\ pc'[w] = "parked" /\ pc'[0] = pc[0]
          /\ \A v \in Peers \ {w} : pc'[v] = pc[v]
      BY <1>22, PeerGoes DEF Reports
    <2> QED
      BY <2>1, <1>22, WorkersPeers DEF Reports
  <1>23. ASSUME NEW w \in Peers, Exits(w) PROVE Outcome'
    <2>1. /\ pc'[w] = "exited" /\ pc'[0] = pc[0]
          /\ \A v \in Peers \ {w} : pc'[v] = pc[v]
      BY <1>23, PeerGoes DEF Exits
    <2> QED
      BY <2>1, <1>23, WorkersPeers DEF Exits
  <1>24. CASE Stop \/ Expire \/ UNCHANGED vars
    BY <1>24 DEF Stop, Expire, vars
  <1> QED
    BY <1>1, <1>2, <1>3, <1>4, <1>5, <1>6, <1>7, <1>8, <1>9, <1>10, <1>11,
       <1>12, <1>13, <1>14, <1>15, <1>16, <1>17, <1>18, <1>19, <1>20, <1>21,
       <1>22, <1>23, <1>24
       DEF Next, Construction, Running, Joining, Kernel, Entry

(* The invariant holds at first.                                           *)
LEMMA Initially == ASSUME Init PROVE IInv
  <1>1. TypeOK
    <2>1. position \in [Workers -> 0..LineCount]
      BY FirstType, TeamAssumption DEF Init, Workers
    <2>2. /\ finished \in 0..Count - 1 /\ created \in 0..Count - 1
          /\ generation \in 0..MaxRuns /\ seen \in [Peers -> 0..MaxRuns]
      BY TeamAssumption DEF Init
    <2>3. transformed \in [Lines -> Nat] /\ failures \subseteq Workers
          /\ asleep \subseteq Peers
      BY DEF Init
    <2> QED
      BY <2>1, <2>2, <2>3 DEF Init, TypeOK
  <1>2. pc[0] = "create" /\ \A w \in Peers : pc[w] = "unborn"
    BY WorkersPeers DEF Init
  <1>3. \A w \in Peers : w > 0
    BY DEF Peers
  <1>4. Roles /\ Generations /\ Stalled /\ Outcome
    BY <1>2, <1>3, WorkersPeers
       DEF Init, Roles, Generations, Stalled, Outcome, QuietOutsideCall,
           SuccessComplete, Over, Calling, Closing, InCall
  <1>5. Shares
    <2> SUFFICES ASSUME NEW w \in Workers
                 PROVE  /\ First(w) \in First(w)..End(w)
                        /\ Share(w) \subseteq Lines
                        /\ \A l \in Share(w) : ~(l < First(w))
      BY DEF Init, Shares
    <2>1. w \in 0..Count /\ w + 1 \in 0..Count /\ w <= w + 1
      BY TeamAssumption DEF Workers
    <2>2. First(w) \in Nat /\ End(w) \in Nat /\ First(w) <= End(w)
      BY <2>1, FirstType, FirstMonotone, EndIsNext
    <2> QED
      BY <2>2, ShareLines DEF Share
  <1> QED
    BY <1>1, <1>4, <1>5 DEF IInv

(* Every step keeps it.                                                    *)
LEMMA Inductive == ASSUME IInv, [Next]_vars PROVE IInv'
  BY TypeStep, RolesStep, GenerationsStep, SharesStep, StalledStep, OutcomeStep
     DEF IInv

(* Every reachable state of a team satisfies the invariant.                *)
THEOREM Invariance == Spec => []IInv
  <1>1. Init => IInv
    BY Initially
  <1>2. IInv /\ [Next]_vars => IInv'
    BY Inductive
  <1> QED
    BY <1>1, <1>2, PTL DEF Spec

-----------------------------------------------------------------------------
(* The state of a team is always well typed.                               *)
THEOREM TypeCorrect == Spec => []TypeOK
  <1>1. IInv => TypeOK
    BY DEF IInv
  <1> QED
    BY <1>1, Invariance, PTL

(* No line is transformed twice in a call, whatever the number of threads  *)
(* and the shape (AxisJob::run).                                           *)
THEOREM LinesExclusive == Spec => []Exclusive
  <1>1. IInv => Exclusive
    <2> SUFFICES ASSUME IInv, NEW l \in Lines PROVE transformed[l] <= 1
      BY DEF Exclusive
    <2>1. PICK w \in Workers : l \in Share(w)
      BY SharesCover
    <2>2. transformed[l] \in {0, 1}
      BY <2>1 DEF IInv, Shares
    <2> QED
      BY <2>2
  <1> QED
    BY <1>1, Invariance, PTL

(* A call that returned success transformed every line (FftAccess::run).   *)
THEOREM SuccessIsComplete == Spec => []SuccessComplete
  <1>1. IInv => SuccessComplete
    BY DEF IInv, Outcome
  <1> QED
    BY <1>1, Invariance, PTL

(* No peer uses the job while the owner may rewrite it (Storage::entry).   *)
THEOREM OwnerAlone == Spec => []QuietOutsideCall
  <1>1. IInv => QuietOutsideCall
    BY DEF IInv, Generations
  <1> QED
    BY <1>1, Invariance, PTL

(* A failed team is joined and never called again (FftAccess::run, join).  *)
THEOREM FailureCloses == Spec => []FailedIsClosed
  <1>1. IInv => FailedIsClosed
    BY DEF IInv, Outcome, Roles, FailedIsClosed, Closing
  <1> QED
    BY <1>1, Invariance, PTL

-----------------------------------------------------------------------------
(* The refinement.                                                         *)

(* The lines of a call in progress that are transformed were not before.   *)
LEMMA TransformIsAbstract ==
  ASSUME IInv, NEW STATE w, w \in Workers,
         w \notin failures, NEW STATE S, S \in SUBSET Group(w),
         transformed' = [l \in Lines |-> IF l \in S THEN transformed[l] + 1
                                                    ELSE transformed[l]]
  PROVE  \E R \in SUBSET {l \in Lines : transformed[l] = 0} :
           transformed' = [l \in Lines |-> IF l \in R THEN 1
                                                      ELSE transformed[l]]
  <1>1. Group(w) \subseteq Share(w) /\ position[w] \in Nat
    BY GroupWithin DEF IInv, Shares, TypeOK
  <1>2. \A l \in Group(w) : ~(l < position[w])
    BY <1>1 DEF Group
  <1>3. \A l \in S : l \in Lines /\ transformed[l] = 0
    BY <1>1, <1>2, ShareLines DEF IInv, Shares
  <1>4. transformed' = [l \in Lines |-> IF l \in S THEN 1 ELSE transformed[l]]
    BY <1>3
  <1> QED
    BY <1>3, <1>4

(* A step of the team that changes nothing the caller can tell.            *)
LEMMA Stutters ==
  ASSUME CallPhase' = CallPhase, UNCHANGED transformed
  PROVE  UNCHANGED Abstract!vars
  BY DEF Abstract!vars

(* Every step of the team is a step of a fork-join, or changes nothing its *)
(* caller can tell.                                                        *)
LEMMA AbstractStep ==
  ASSUME IInv, [Next]_vars
  PROVE  [Abstract!Next]_(Abstract!vars)
  <1> USE DEF lifeVars, jobVars, envVars, Closing, Calling
  <1>1. TypeOK /\ Roles /\ Generations
    BY DEF IInv
  <1>2. CASE Create
    <2>1. created + 1 \in Peers
      BY <1>1, <1>2, TeamAssumption DEF Create, TypeOK, Peers
    <2>2. pc'[0] = pc[0]
      BY <1>1, <2>1, <1>2, PeerGoes DEF Create
    <2> QED
      BY <2>2, <1>2, Stutters DEF Create, CallPhase
  <1>3. CASE Created
    <2>1. pc'[0] = "idle"
      BY <1>1, <1>3, OwnerGoes DEF Created
    <2> QED
      BY <2>1, <1>3, Stutters DEF Created, CallPhase
  <1>4. CASE StartFails
    <2>1. pc'[0] = "join"
      BY <1>1, <1>4, OwnerGoes DEF StartFails
    <2>2. Abstract!Close
      BY <2>1, <1>4 DEF StartFails, CallPhase, Abstract!Close
    <2> QED
      BY <2>2 DEF Abstract!Next
  <1>5. CASE SetUp
    <2>1. pc'[0] = "dispatch"
      BY <1>1, <1>5, OwnerGoes DEF SetUp
    <2>2. Abstract!Begin
      BY <2>1, <1>5 DEF SetUp, CallPhase, Abstract!Begin, Abstract!Fresh
    <2> QED
      BY <2>2 DEF Abstract!Next
  <1>6. CASE Dispatch
    <2>1. pc'[0] = "notify"
      BY <1>1, <1>6, OwnerGoes DEF Dispatch
    <2> QED
      BY <2>1, <1>6, Stutters DEF Dispatch, CallPhase
  <1>7. CASE Notify
    <2>1. pc'[0] = "check"
      BY <1>1, <1>7, OwnerGoes DEF Notify
    <2> QED
      BY <2>1, <1>7, Stutters DEF Notify, CallPhase
  <1>8. CASE WaitPolls
    BY <1>8, Stutters DEF WaitPolls, CallPhase
  <1>9. CASE WaitEnds
    <2>1. pc'[0] = "decide"
      BY <1>1, <1>9, OwnerGoes DEF WaitEnds
    <2> QED
      BY <2>1, <1>9, Stutters DEF WaitEnds, CallPhase
  <1>10. CASE Succeeds
    <2>1. pc'[0] = "idle"
      BY <1>1, <1>10, OwnerGoes DEF Succeeds
    <2>2. \A l \in Lines : transformed[l] = 1
      BY <1>10, DecideComplete DEF Succeeds, IInv
    <2>3. Abstract!Succeed
      BY <2>1, <2>2, <1>10 DEF Succeeds, CallPhase, Abstract!Succeed
    <2> QED
      BY <2>3 DEF Abstract!Next
  <1>11. CASE Fails
    <2>1. pc'[0] = "join"
      BY <1>1, <1>11, OwnerGoes DEF Fails
    <2>2. Abstract!Close
      BY <2>1, <1>11 DEF Fails, CallPhase, Abstract!Close
    <2> QED
      BY <2>2 DEF Abstract!Next
  <1>12. CASE Destroy
    <2>1. pc'[0] = "join"
      BY <1>1, <1>12, OwnerGoes DEF Destroy
    <2>2. Abstract!Close
      BY <2>1, <1>12 DEF Destroy, CallPhase, Abstract!Close
    <2> QED
      BY <2>2 DEF Abstract!Next
  <1>13. CASE ShutDown
    <2>1. pc'[0] = "wake"
      BY <1>1, <1>13, OwnerGoes DEF ShutDown
    <2> QED
      BY <2>1, <1>13, Stutters DEF ShutDown, CallPhase
  <1>14. CASE WakeAll
    <2>1. pc'[0] = "joining"
      BY <1>1, <1>14, OwnerGoes DEF WakeAll
    <2> QED
      BY <2>1, <1>14, Stutters DEF WakeAll, CallPhase
  <1>15. CASE Joined
    <2>1. pc'[0] = "closed"
      BY <1>1, <1>15, OwnerGoes DEF Joined
    <2> QED
      BY <2>1, <1>15, Stutters DEF Joined, CallPhase
  <1>16. CASE PollsAbort
    BY <1>16, Stutters DEF PollsAbort, CallPhase
  <1>17. CASE Stop \/ Expire \/ UNCHANGED vars
    BY <1>17, Stutters DEF Stop, Expire, vars, CallPhase
  <1>18. ASSUME NEW w \in Workers, Enters(w)
        PROVE  [Abstract!Next]_(Abstract!vars)
    <2>1. pc[0] \in Calling /\ pc'[0] \in Calling
      BY <1>1, <1>18, GotoEffect, WorkersPeers
         DEF Enters, Generations, QuietOutsideCall
    <2> QED
      BY <2>1, <1>18, Stutters DEF Enters, CallPhase
  <1>19. ASSUME NEW w \in Workers, Transforms(w)
        PROVE  [Abstract!Next]_(Abstract!vars)
    <2>1. pc[0] \in Calling /\ pc'[0] \in Calling
      BY <1>1, <1>19, GotoEffect, WorkersPeers
         DEF Transforms, Generations, QuietOutsideCall
    <2>2. w \notin failures
      BY <1>19 DEF Transforms, IInv, Stalled
    <2>3. \E R \in SUBSET {l \in Lines : transformed[l] = 0} :
            transformed' = [l \in Lines |-> IF l \in R THEN 1
                                                       ELSE transformed[l]]
      BY <2>2, <1>19, TransformIsAbstract DEF Transforms
    <2>4. Abstract!Transform
      BY <2>1, <2>3 DEF Abstract!Transform, CallPhase
    <2> QED
      BY <2>4 DEF Abstract!Next
  <1>20. ASSUME NEW w \in Workers, CallFails(w)
        PROVE  [Abstract!Next]_(Abstract!vars)
    <2>1. pc[0] \in Calling /\ pc'[0] \in Calling
      BY <1>1, <1>20, GotoEffect, WorkersPeers
         DEF CallFails, Ended, Generations, QuietOutsideCall
    <2>2. w \notin failures
      BY <1>20 DEF CallFails, IInv, Stalled
    <2>3. PICK S \in SUBSET Group(w) :
            transformed' = [l \in Lines |-> IF l \in S THEN transformed[l] + 1
                                                       ELSE transformed[l]]
      BY <1>20 DEF CallFails
    <2>4. \E R \in SUBSET {l \in Lines : transformed[l] = 0} :
            transformed' = [l \in Lines |-> IF l \in R THEN 1
                                                       ELSE transformed[l]]
      BY <2>2, <2>3, TransformIsAbstract
    <2>5. Abstract!Transform
      BY <2>1, <2>4 DEF Abstract!Transform, CallPhase
    <2> QED
      BY <2>5 DEF Abstract!Next
  <1>21. ASSUME NEW w \in Workers, Returns(w)
        PROVE  [Abstract!Next]_(Abstract!vars)
    <2>1. pc[0] \in Calling /\ pc'[0] \in Calling
      BY <1>1, <1>21, GotoEffect, WorkersPeers
         DEF Returns, Ended, Generations, QuietOutsideCall
    <2> QED
      BY <2>1, <1>21, Stutters DEF Returns, CallPhase
  <1>22. ASSUME NEW w \in Peers, Sleeps(w)
        PROVE  [Abstract!Next]_(Abstract!vars)
    BY <1>22, Stutters DEF Sleeps, CallPhase
  <1>23. ASSUME NEW w \in Peers, Takes(w)
        PROVE  [Abstract!Next]_(Abstract!vars)
    <2>1. pc'[0] = pc[0]
      BY <1>1, <1>23, PeerGoes DEF Takes
    <2> QED
      BY <2>1, <1>23, Stutters DEF Takes, CallPhase
  <1>24. ASSUME NEW w \in Peers, Reports(w)
        PROVE  [Abstract!Next]_(Abstract!vars)
    <2>1. pc'[0] = pc[0]
      BY <1>1, <1>24, PeerGoes DEF Reports
    <2> QED
      BY <2>1, <1>24, Stutters DEF Reports, CallPhase
  <1>25. ASSUME NEW w \in Peers, Exits(w)
        PROVE  [Abstract!Next]_(Abstract!vars)
    <2>1. pc'[0] = pc[0]
      BY <1>1, <1>25, PeerGoes DEF Exits
    <2> QED
      BY <2>1, <1>25, Stutters DEF Exits, CallPhase
  <1> QED
    BY <1>2, <1>3, <1>4, <1>5, <1>6, <1>7, <1>8, <1>9, <1>10, <1>11, <1>12,
       <1>13, <1>14, <1>15, <1>16, <1>17, <1>18, <1>19, <1>20, <1>21, <1>22,
       <1>23, <1>24, <1>25
       DEF Next, Construction, Running, Joining, Kernel, Entry

(* A team is a fork-join of its lines (FftAccess::run, Storage::join).     *)
THEOREM Refinement == Spec => IsForkJoin
  <1>1. Init => Abstract!Init
    BY WorkersPeers DEF Init, Abstract!Init, Abstract!Fresh, CallPhase
  <1>2. IInv /\ [Next]_vars => [Abstract!Next]_(Abstract!vars)
    BY AbstractStep
  <1> QED
    BY <1>1, <1>2, Invariance, PTL DEF Spec, IsForkJoin, Abstract!Spec
=============================================================================
