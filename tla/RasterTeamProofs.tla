------------------------- MODULE RasterTeamProofs -------------------------
(***************************************************************************)
(* Safety of the raster team for every number of threads, every mesh and   *)
(* every cap: a round never spends more than the budget has, a raster      *)
(* costs exactly what one thread would pay, and the team refines ForkJoin. *)
(***************************************************************************)
EXTENDS RasterTeam, FiniteSetTheorems, TLAPS

-----------------------------------------------------------------------------
(* Induction, from the least element of a set of numbers.                  *)

(* A nonempty set of numbers has a least element.                          *)
LEMMA LeastElement ==
  ASSUME NEW T \in SUBSET Nat, T # {}
  PROVE  \E m \in T : \A k \in T : m <= k
  <1> DEFINE R == OpToRel(<, Nat)
  <1>1. IsWellFoundedOn(R, Nat)
    BY NatLessThanWellFounded
  <1>2. \A x, y \in Nat : x < y => <<x, y>> \in R
    BY DEF OpToRel
  <1> HIDE DEF R
  <1>3. PICK m \in T : \A y \in T : ~ (<<y, m>> \in R)
    BY <1>1, WFMin
  <1>4. \A y \in T : m \in Nat /\ y \in Nat /\ ~(y < m)
    BY <1>2, <1>3
  <1> QED
    BY <1>4

(* What holds of 0 and passes from each worker to the next holds up to the *)
(* count.                                                                  *)
LEMMA Upward ==
  ASSUME NEW T, 0 \in T, \A n \in Workers : n \in T => n + 1 \in T
  PROVE  \A n \in 0..Count : n \in T
  <1> SUFFICES ASSUME NEW n \in 0..Count, n \notin T PROVE FALSE
    OBVIOUS
  <1> DEFINE U == {k \in 0..Count : k \notin T}
  <1>1. Count \in Nat
    BY RasterAssumption
  <1>2. U \in SUBSET Nat /\ U # {}
    BY <1>1
  <1>3. PICK m \in U : \A k \in U : m <= k
    BY <1>2, LeastElement
  <1>4. m \in Nat /\ m # 0 /\ m <= Count /\ m \notin T
    BY <1>1, <1>3
  <1>5. m - 1 \in Workers /\ m - 1 \in 0..Count /\ ~(m <= m - 1)
    BY <1>1, <1>4 DEF Workers
  <1>6. m - 1 \in T
    BY <1>3, <1>5
  <1>7. (m - 1) + 1 = m
    BY <1>4
  <1> QED
    BY <1>4, <1>5, <1>6, <1>7

-----------------------------------------------------------------------------
(* The sum of costs.                                                       *)

Costs == [work : Nat, visits : Nat]

(* The partial sums of costs: what the loop over the workers computes.     *)
Sums(costs, t) ==
  /\ t \in [0..Count -> Costs]
  /\ t[0] = None
  /\ \A n \in Workers : t[n + 1] = Plus(t[n], costs[n])

(* The total is the last of the partial sums.                              *)
LEMMA TotalIsSum ==
  ASSUME NEW costs \in [Workers -> Costs]
  PROVE  \E t : Sums(costs, t) /\ Total(costs) = t[Count]
  <1> DEFINE F(f) == [n \in 0..Count |->
                        IF n = 0 THEN None ELSE Plus(f[n - 1], costs[n - 1])]
             Begun(m, g) == /\ g = [n \in 0..m |-> g[n]]
                            /\ \A n \in 0..m :
                                 g[n] = IF n = 0 THEN None
                                        ELSE Plus(g[n - 1], costs[n - 1])
             T == {m \in 0..Count : \E g : Begun(m, g)}
             U == {m \in 0..Count : \A f : f = F(f) => f[m] \in Costs}
  <1>1. Count \in Nat
    BY RasterAssumption
  <1>2. 0 \in T
    <2> DEFINE h == [n \in 0..0 |-> None]
    <2>1. h = [n \in 0..0 |-> h[n]] /\ \A n \in 0..0 : n = 0 /\ h[n] = None
      OBVIOUS
    <2>2. Begun(0, h)
      BY <2>1
    <2> HIDE DEF h
    <2>3. \E g : Begun(0, g)
      BY <2>2
    <2> QED
      BY <2>3, <1>1
  <1>3. ASSUME NEW n \in Workers, n \in T PROVE n + 1 \in T
    <2>1. PICK g : Begun(n, g)
      BY <1>3
    <2>2. n \in Nat /\ n + 1 \in 0..Count
      BY <1>1 DEF Workers
    <2> DEFINE h == [k \in 0..n + 1 |-> IF k = n + 1 THEN Plus(g[n], costs[n])
                                        ELSE g[k]]
    <2>3. Begun(n + 1, h)
      <3>1. h = [k \in 0..n + 1 |-> h[k]]
        OBVIOUS
      <3>2. ASSUME NEW k \in 0..n + 1
            PROVE  h[k] = IF k = 0 THEN None ELSE Plus(h[k - 1], costs[k - 1])
        <4>1. CASE k = n + 1
          BY <4>1, <2>2
        <4>2. CASE k \in 0..n
          <5>1. h[k] = g[k] /\ (k # 0 => h[k - 1] = g[k - 1])
            BY <4>2, <2>2
          <5>2. g[k] = IF k = 0 THEN None ELSE Plus(g[k - 1], costs[k - 1])
            BY <4>2, <2>1
          <5> QED
            BY <5>1, <5>2
        <4> QED
          BY <4>1, <4>2, <2>2
      <3> QED
        BY <3>1, <3>2
    <2> QED
      BY <2>2, <2>3
  <1>4. Count \in T
    <2> HIDE DEF T
    <2>1. \A n \in 0..Count : n \in T
      BY <1>2, <1>3, Upward
    <2> QED
      BY <2>1, <1>1
  <1>5. \E f : f = F(f)
    <2>1. PICK g : Begun(Count, g)
      BY <1>4
    <2>2. g = F(g)
      BY <2>1
    <2> QED
      BY <2>2
  <1>6. Total(costs) = (CHOOSE f : f = F(f))[Count]
    BY DEF Total
  <1>7. PICK f : f = F(f) /\ Total(costs) = f[Count]
    <2> HIDE DEF F
    <2> QED
      BY <1>5, <1>6
  <1>8. \A n \in Workers : n \in Nat /\ n + 1 \in 0..Count /\ n \in 0..Count
    BY <1>1 DEF Workers
  <1>9. f[0] = None
    BY <1>1, <1>7
  <1>10. \A n \in Workers : f[n + 1] = Plus(f[n], costs[n])
    <2> SUFFICES ASSUME NEW n \in Workers PROVE f[n + 1] = Plus(f[n], costs[n])
      OBVIOUS
    <2>1. n + 1 # 0 /\ (n + 1) - 1 = n /\ n + 1 \in 0..Count
      BY <1>8
    <2>2. \A k \in 0..Count : f[k] = IF k = 0 THEN None
                                     ELSE Plus(f[k - 1], costs[k - 1])
      BY <1>7
    <2> QED
      BY <2>1, <2>2
  <1>11. \A n \in 0..Count : f[n] \in Costs
    <2> DEFINE V == {n \in 0..Count : f[n] \in Costs}
    <2>1. 0 \in V
      BY <1>1, <1>9 DEF None, Costs
    <2>2. ASSUME NEW n \in Workers, n \in V PROVE n + 1 \in V
      <3>1. f[n] \in Costs /\ costs[n] \in Costs /\ n + 1 \in 0..Count
        BY <2>2, <1>8
      <3>2. f[n + 1] = Plus(f[n], costs[n])
        BY <1>10
      <3> QED
        BY <3>1, <3>2 DEF Plus, Costs
    <2> HIDE DEF V
    <2>3. \A n \in 0..Count : n \in V
      BY <2>1, <2>2, Upward
    <2> QED
      BY <2>3 DEF V
  <1>12. f \in [0..Count -> Costs]
    BY <1>7, <1>11
  <1> QED
    BY <1>7, <1>9, <1>10, <1>12 DEF Sums

(* A total of costs is a cost.                                             *)
LEMMA TotalType ==
  ASSUME NEW costs \in [Workers -> Costs]
  PROVE  Total(costs) \in Costs
  <1>1. PICK t : Sums(costs, t) /\ Total(costs) = t[Count]
    BY TotalIsSum
  <1>2. Count \in 0..Count
    BY RasterAssumption
  <1> QED
    BY <1>1, <1>2 DEF Sums

(* What is summed step by step is summed as a whole.                       *)
LEMMA TotalMonotone ==
  ASSUME NEW a \in [Workers -> Costs], NEW b \in [Workers -> Costs],
         \A w \in Workers : Fits(a[w], b[w])
  PROVE  Fits(Total(a), Total(b))
  <1>1. PICK s : Sums(a, s) /\ Total(a) = s[Count]
    BY TotalIsSum
  <1>2. PICK t : Sums(b, t) /\ Total(b) = t[Count]
    BY TotalIsSum
  <1> DEFINE T == {n \in 0..Count : Fits(s[n], t[n])}
  <1>3. 0 \in T
    BY <1>1, <1>2, RasterAssumption DEF Sums, Fits, None
  <1>4. ASSUME NEW n \in Workers, n \in T PROVE n + 1 \in T
    <2>1. n + 1 \in 0..Count /\ n \in 0..Count
      BY RasterAssumption DEF Workers
    <2>2. /\ s[n] \in Costs /\ t[n] \in Costs /\ a[n] \in Costs /\ b[n] \in Costs
          /\ Fits(a[n], b[n]) /\ Fits(s[n], t[n])
      BY <1>1, <1>2, <1>4, <2>1 DEF Sums
    <2>3. s[n + 1] = Plus(s[n], a[n]) /\ t[n + 1] = Plus(t[n], b[n])
      BY <1>1, <1>2 DEF Sums
    <2>4. Fits(s[n + 1], t[n + 1])
      BY <2>2, <2>3 DEF Fits, Plus, Costs
    <2> QED
      BY <2>1, <2>4
  <1> HIDE DEF T
  <1>5. Count \in T
    BY <1>3, <1>4, Upward, RasterAssumption
  <1> QED
    BY <1>1, <1>2, <1>5 DEF T

(* Nothing adds up to nothing.                                             *)
LEMMA TotalOfNone == Total([w \in Workers |-> None]) = None
  <1> DEFINE a == [w \in Workers |-> None]
  <1>1. a \in [Workers -> Costs] /\ \A w \in Workers : a[w] = None
    BY DEF None, Costs
  <1> HIDE DEF a
  <1>2. PICK s : Sums(a, s) /\ Total(a) = s[Count]
    BY <1>1, TotalIsSum
  <1> DEFINE T == {n \in 0..Count : s[n] = None}
  <1>3. 0 \in T
    BY <1>2, RasterAssumption DEF Sums
  <1>4. ASSUME NEW n \in Workers, n \in T PROVE n + 1 \in T
    <2>1. n + 1 \in 0..Count
      BY RasterAssumption DEF Workers
    <2>2. s[n + 1] = Plus(None, None)
      BY <1>1, <1>2, <1>4 DEF Sums
    <2> QED
      BY <2>1, <2>2 DEF Plus, None
  <1> HIDE DEF T
  <1>5. Count \in T
    BY <1>3, <1>4, Upward, RasterAssumption
  <1>6. Total(a) = None
    BY <1>2, <1>5 DEF T
  <1> QED
    BY <1>6 DEF a

(* One worker spends more: the sum grows by as much.                       *)
LEMMA TotalGrows ==
  ASSUME NEW a \in [Workers -> Costs], NEW w \in Workers, NEW c \in Costs
  PROVE  Total([a EXCEPT ![w] = Plus(@, c)]) = Plus(Total(a), c)
  <1> DEFINE b == [a EXCEPT ![w] = Plus(@, c)]
  <1>1. /\ b \in [Workers -> Costs] /\ b[w] = Plus(a[w], c)
        /\ \A v \in Workers : v # w => b[v] = a[v]
    BY DEF Plus, Costs
  <1> HIDE DEF b
  <1>2. PICK s : Sums(a, s) /\ Total(a) = s[Count]
    BY TotalIsSum
  <1>3. PICK t : Sums(b, t) /\ Total(b) = t[Count]
    BY <1>1, TotalIsSum
  <1> DEFINE T == {n \in 0..Count :
                     t[n] = IF n > w THEN Plus(s[n], c) ELSE s[n]}
  <1>4. w \in Nat /\ w < Count /\ Count \in Nat
    BY RasterAssumption DEF Workers
  <1>5. 0 \in T
    BY <1>2, <1>3, <1>4 DEF Sums
  <1>6. ASSUME NEW n \in Workers, n \in T PROVE n + 1 \in T
    <2>1. n + 1 \in 0..Count /\ n \in 0..Count /\ n \in Nat
      BY RasterAssumption DEF Workers
    <2>2. /\ s[n] \in Costs /\ t[n] \in Costs /\ a[n] \in Costs /\ b[n] \in Costs
          /\ s[n + 1] = Plus(s[n], a[n]) /\ t[n + 1] = Plus(t[n], b[n])
          /\ t[n] = IF n > w THEN Plus(s[n], c) ELSE s[n]
      BY <1>1, <1>2, <1>3, <1>6, <2>1 DEF Sums
    <2>3. t[n + 1] = IF n + 1 > w THEN Plus(s[n + 1], c) ELSE s[n + 1]
      <3>1. CASE n > w
        BY <3>1, <1>1, <1>4, <2>1, <2>2 DEF Plus, Costs
      <3>2. CASE n = w
        BY <3>2, <1>1, <1>4, <2>1, <2>2 DEF Plus, Costs
      <3>3. CASE n < w
        BY <3>3, <1>1, <1>4, <2>1, <2>2 DEF Plus, Costs
      <3> QED
        BY <3>1, <3>2, <3>3, <1>4, <2>1
    <2> QED
      BY <2>1, <2>3
  <1> HIDE DEF T
  <1>7. Count \in T
    BY <1>5, <1>6, <1>4, Upward
  <1>8. Total(b) = Plus(Total(a), c)
    BY <1>2, <1>3, <1>4, <1>7 DEF T
  <1> QED
    BY <1>8 DEF b

-----------------------------------------------------------------------------
(* The division of what is left.                                           *)

Undealt(undone) ==
  [funds |-> budget, waiting |-> Cardinality(undone),
   grants |-> [w \in Workers |-> None]]

ShareOf(prior, w) ==
  Cost(Larger(need[w].work, prior.funds.work \div prior.waiting),
       Larger(need[w].visits, prior.funds.visits \div prior.waiting))

(* One iteration of the loop.                                              *)
Deal(undone, prior, w) ==
  CASE w \notin undone -> prior
    [] w \in undone /\ ~Fits(need[w], prior.funds) ->
         [prior EXCEPT !.waiting = @ - 1]
    [] OTHER ->
         [funds |-> Minus(prior.funds, ShareOf(prior, w)),
          waiting |-> prior.waiting - 1,
          grants |-> [prior.grants EXCEPT ![w] = ShareOf(prior, w)]]

(* A division deals to one worker after the other.                         *)
LEMMA DivisionIsDealt ==
  ASSUME NEW undone \in SUBSET Workers
  PROVE  \E d : /\ d[0] = Undealt(undone)
                /\ \A n \in Workers : d[n + 1] = Deal(undone, d[n], n)
                /\ Division(undone) = d[Count].grants
  <1> DEFINE F(f) == [n \in 0..Count |->
                        IF n = 0 THEN Undealt(undone)
                        ELSE Deal(undone, f[n - 1], n - 1)]
             Begun(m, g) == /\ g = [n \in 0..m |-> g[n]]
                            /\ \A n \in 0..m :
                                 g[n] = IF n = 0 THEN Undealt(undone)
                                        ELSE Deal(undone, g[n - 1], n - 1)
             T == {m \in 0..Count : \E g : Begun(m, g)}
  <1>1. Count \in Nat
    BY RasterAssumption
  <1>2. 0 \in T
    <2> DEFINE h == [n \in 0..0 |-> Undealt(undone)]
    <2>1. /\ h = [n \in 0..0 |-> h[n]]
          /\ \A n \in 0..0 : n = 0 /\ h[n] = Undealt(undone)
      OBVIOUS
    <2>2. Begun(0, h)
      BY <2>1
    <2> HIDE DEF h
    <2>3. \E g : Begun(0, g)
      BY <2>2
    <2> QED
      BY <2>3, <1>1
  <1>3. ASSUME NEW n \in Workers, n \in T PROVE n + 1 \in T
    <2>1. PICK g : Begun(n, g)
      BY <1>3
    <2>2. n \in Nat /\ n + 1 \in 0..Count
      BY <1>1 DEF Workers
    <2> DEFINE h == [k \in 0..n + 1 |->
                       IF k = n + 1 THEN Deal(undone, g[n], n) ELSE g[k]]
    <2>3. Begun(n + 1, h)
      <3>1. h = [k \in 0..n + 1 |-> h[k]]
        OBVIOUS
      <3>2. ASSUME NEW k \in 0..n + 1
            PROVE  h[k] = IF k = 0 THEN Undealt(undone)
                          ELSE Deal(undone, h[k - 1], k - 1)
        <4>1. CASE k = n + 1
          <5>1. h[k] = Deal(undone, g[n], n) /\ h[n] = g[n] /\ k - 1 = n
            BY <4>1, <2>2
          <5>2. k # 0
            BY <4>1, <2>2
          <5> HIDE DEF h
          <5> QED
            BY <5>1, <5>2
        <4>2. CASE k \in 0..n
          <5>1. h[k] = g[k] /\ (k # 0 => h[k - 1] = g[k - 1])
            BY <4>2, <2>2
          <5>2. g[k] = IF k = 0 THEN Undealt(undone)
                       ELSE Deal(undone, g[k - 1], k - 1)
            BY <4>2, <2>1
          <5> QED
            BY <5>1, <5>2
        <4> QED
          BY <4>1, <4>2, <2>2
      <3> QED
        BY <3>1, <3>2
    <2> QED
      BY <2>2, <2>3
  <1>4. Count \in T
    <2> HIDE DEF T
    <2> QED
      BY <1>1, <1>2, <1>3, Upward
  <1>5. \E f : f = F(f)
    <2>1. PICK g : Begun(Count, g)
      BY <1>4
    <2>2. g = F(g)
      BY <2>1
    <2> QED
      BY <2>2
  <1>6. Division(undone) = (CHOOSE f : f = F(f))[Count].grants
    BY DEF Division, Deal, Undealt, ShareOf
  <1>7. PICK f : f = F(f) /\ Division(undone) = f[Count].grants
    <2> HIDE DEF F
    <2> QED
      BY <1>5, <1>6
  <1>8. \A k \in 0..Count : f[k] = IF k = 0 THEN Undealt(undone)
                                   ELSE Deal(undone, f[k - 1], k - 1)
    BY <1>7
  <1>9. f[0] = Undealt(undone)
    BY <1>1, <1>8
  <1>10. ASSUME NEW n \in Workers PROVE f[n + 1] = Deal(undone, f[n], n)
    <2>1. n + 1 # 0 /\ (n + 1) - 1 = n /\ n + 1 \in 0..Count
      BY <1>1 DEF Workers
    <2> QED
      BY <2>1, <1>8
  <1> QED
    BY <1>7, <1>9, <1>10

(* The workers that still wait when the first n have been looked at.       *)
Later(undone, n) == {w \in undone : w >= n}

(* Each worker that waits leaves one waiter less behind it.                *)
LEMMA LaterCount ==
  ASSUME NEW undone \in SUBSET Workers, NEW n \in Workers
  PROVE  /\ Cardinality(Later(undone, n)) \in Nat
         /\ n \in undone =>
              /\ Cardinality(Later(undone, n)) > 0
              /\ Cardinality(Later(undone, n + 1))
                   = Cardinality(Later(undone, n)) - 1
         /\ n \notin undone => Later(undone, n + 1) = Later(undone, n)
  <1>1. IsFiniteSet(Workers) /\ \A w \in Workers : w \in Nat
    BY FS_Interval, RasterAssumption DEF Workers
  <1>2. Later(undone, n) \in SUBSET Workers
    BY DEF Later
  <1>3. IsFiniteSet(Later(undone, n))
    BY <1>1, <1>2, FS_Subset
  <1>4. Cardinality(Later(undone, n)) \in Nat
    BY <1>3, FS_CardinalityType
  <1>5. CASE n \in undone
    <2>1. n \in Later(undone, n)
      BY <1>1, <1>5 DEF Later
    <2>2. Later(undone, n + 1) = Later(undone, n) \ {n}
      BY <1>1 DEF Later
    <2>3. Cardinality(Later(undone, n) \ {n}) = Cardinality(Later(undone, n)) - 1
      BY <1>3, <2>1, FS_RemoveElement
    <2>4. Cardinality(Later(undone, n)) # 0
      BY <1>3, <2>1, FS_EmptySet
    <2> QED
      BY <1>4, <1>5, <2>2, <2>3, <2>4
  <1>6. CASE n \notin undone
    BY <1>1, <1>4, <1>6 DEF Later
  <1> QED
    BY <1>5, <1>6

Deals == [funds : Costs, waiting : Nat, grants : [Workers -> Costs]]

(* A share is at most what is shared.                                      *)
LEMMA DivAtMost ==
  ASSUME NEW a \in Nat, NEW n \in Nat, n > 0
  PROVE  a \div n \in Nat /\ a \div n <= a
  OBVIOUS

(* One iteration takes from what is left what it grants.                   *)
LEMMA DealFits ==
  ASSUME NEW undone \in SUBSET Workers, NEW n \in Workers, NEW prior \in Deals,
         n \in undone => prior.waiting > 0,
         \A w \in Workers : w >= n => prior.grants[w] = None,
         need[n] \in Costs
  PROVE  LET d == Deal(undone, prior, n)
         IN  /\ d \in Deals
             /\ d.waiting = IF n \in undone THEN prior.waiting - 1
                            ELSE prior.waiting
             /\ \A w \in Workers : w # n => d.grants[w] = prior.grants[w]
             /\ prior.funds = Plus(d.funds, d.grants[n])
  <1>1. n \in Nat
    BY RasterAssumption DEF Workers
  <1>2. CASE n \notin undone
    BY <1>1, <1>2 DEF Deal, Deals, Plus, None, Costs
  <1>3. CASE n \in undone /\ ~Fits(need[n], prior.funds)
    <2>1. Deal(undone, prior, n) =
            [funds |-> prior.funds, waiting |-> prior.waiting - 1,
             grants |-> prior.grants]
      BY <1>3 DEF Deal, Deals
    <2>2. prior.waiting - 1 \in Nat
      BY <1>3 DEF Deals
    <2> QED
      BY <2>1, <2>2, <1>1, <1>3 DEF Deals, Plus, None, Costs
  <1>4. CASE n \in undone /\ Fits(need[n], prior.funds)
    <2> DEFINE share == ShareOf(prior, n)
    <2>1. /\ prior.funds.work \div prior.waiting \in Nat
          /\ prior.funds.work \div prior.waiting <= prior.funds.work
          /\ prior.funds.visits \div prior.waiting \in Nat
          /\ prior.funds.visits \div prior.waiting <= prior.funds.visits
      BY <1>4, DivAtMost DEF Deals, Costs
    <2>2. share \in Costs /\ Fits(share, prior.funds)
      BY <2>1, <1>4 DEF Deals, ShareOf, Cost, Larger, Fits, Costs
    <2>3. Deal(undone, prior, n) =
            [funds |-> Minus(prior.funds, share),
             waiting |-> prior.waiting - 1,
             grants |-> [prior.grants EXCEPT ![n] = share]]
      BY <1>4 DEF Deal
    <2>5. prior.waiting - 1 \in Nat /\ prior.grants \in [Workers -> Costs]
      BY <1>4 DEF Deals
    <2> HIDE DEF share
    <2>4. /\ Minus(prior.funds, share) \in Costs
          /\ prior.funds = Plus(Minus(prior.funds, share), share)
      BY <2>2 DEF Deals, Minus, Plus, Fits, Costs
    <2> QED
      BY <2>2, <2>3, <2>4, <2>5, <1>4 DEF Deals
  <1> QED
    BY <1>2, <1>3, <1>4

(* The grants of a round fit in what is left (RasterAccess::run).          *)
LEMMA DivisionFits ==
  ASSUME NEW undone \in SUBSET Workers, budget \in Costs,
         \A w \in Workers : need[w] \in Costs
  PROVE  /\ Division(undone) \in [Workers -> Costs]
         /\ Fits(Total(Division(undone)), budget)
  <1>1. PICK d : /\ d[0] = Undealt(undone)
                 /\ \A n \in Workers : d[n + 1] = Deal(undone, d[n], n)
                 /\ Division(undone) = d[Count].grants
    BY DivisionIsDealt
  <1>2. Count \in Nat /\ \A w \in Workers : w \in Nat /\ w < Count
    BY RasterAssumption DEF Workers
  <1> DEFINE Dealt(n) ==
        /\ d[n] \in Deals
        /\ d[n].waiting = Cardinality(Later(undone, n))
        /\ \A w \in Workers : w >= n => d[n].grants[w] = None
        /\ \A costs \in [Workers -> Costs] : \A t :
             /\ Sums(costs, t)
             /\ \A w \in Workers : w < n => costs[w] = d[n].grants[w]
             => budget = Plus(d[n].funds, t[n])
      T == {n \in 0..Count : Dealt(n)}
  <1>3. 0 \in T
    <2>1. Later(undone, 0) = undone
      BY <1>2 DEF Later
    <2>2. \A costs, t : Sums(costs, t) => t[0] = None
      BY DEF Sums
    <2>3. Plus(budget, None) = budget
      BY DEF Plus, None, Costs
    <2>7. Cardinality(undone) \in Nat
      <3>1. IsFiniteSet(Workers)
        BY FS_Interval, RasterAssumption DEF Workers
      <3> QED
        BY <3>1, FS_Subset, FS_CardinalityType
    <2>4. [w \in Workers |-> None] \in [Workers -> Costs]
      BY DEF None, Costs
    <2>5. d[0] \in Deals
      BY <1>1, <2>1, <2>4, <2>7 DEF Undealt, Deals
    <2>6. Dealt(0)
      BY <1>1, <2>1, <2>2, <2>3, <2>5 DEF Undealt
    <2> QED
      BY <2>6, <1>2
  <1>4. ASSUME NEW n \in Workers, n \in T PROVE n + 1 \in T
    <2>1. n \in Nat /\ n + 1 \in 0..Count /\ n \in 0..Count
      BY <1>2
    <2>2. Dealt(n)
      BY <1>4
    <2>3. /\ Cardinality(Later(undone, n)) \in Nat
          /\ n \in undone => Cardinality(Later(undone, n)) > 0
          /\ Cardinality(Later(undone, n + 1)) =
               IF n \in undone THEN Cardinality(Later(undone, n)) - 1
               ELSE Cardinality(Later(undone, n))
      BY LaterCount
    <2>4. /\ d[n + 1] \in Deals
          /\ d[n + 1].waiting = IF n \in undone THEN d[n].waiting - 1
                                ELSE d[n].waiting
          /\ \A w \in Workers : w # n => d[n + 1].grants[w] = d[n].grants[w]
          /\ d[n].funds = Plus(d[n + 1].funds, d[n + 1].grants[n])
      <3>1. d[n + 1] = Deal(undone, d[n], n)
        BY <1>1
      <3>2. n \in undone => d[n].waiting > 0
        BY <2>2, <2>3
      <3>3. /\ d[n] \in Deals /\ need[n] \in Costs
            /\ \A w \in Workers : w >= n => d[n].grants[w] = None
        BY <2>2
      <3>4. LET e == Deal(undone, d[n], n)
            IN  /\ e \in Deals
                /\ e.waiting = IF n \in undone THEN d[n].waiting - 1
                               ELSE d[n].waiting
                /\ \A w \in Workers : w # n => e.grants[w] = d[n].grants[w]
                /\ d[n].funds = Plus(e.funds, e.grants[n])
        <4>1. PICK prior : prior = d[n]
          OBVIOUS
        <4>2. /\ prior \in Deals /\ need[n] \in Costs
              /\ n \in undone => prior.waiting > 0
              /\ \A w \in Workers : w >= n => prior.grants[w] = None
          BY <3>2, <3>3, <4>1
        <4>3. /\ Deal(undone, prior, n) \in Deals
              /\ Deal(undone, prior, n).waiting =
                   IF n \in undone THEN prior.waiting - 1 ELSE prior.waiting
              /\ \A w \in Workers : w # n =>
                   Deal(undone, prior, n).grants[w] = prior.grants[w]
              /\ prior.funds = Plus(Deal(undone, prior, n).funds,
                                    Deal(undone, prior, n).grants[n])
          BY <4>2, DealFits
        <4> QED
          BY <4>1, <4>3
      <3> QED
        BY <3>1, <3>4
    <2>5. \A w \in Workers : w >= n + 1 => d[n + 1].grants[w] = None
      BY <2>1, <2>2, <2>4, <1>2
    <2>6. ASSUME NEW costs \in [Workers -> Costs], NEW t, Sums(costs, t),
                 \A w \in Workers : w < n + 1 => costs[w] = d[n + 1].grants[w]
          PROVE  budget = Plus(d[n + 1].funds, t[n + 1])
      <3>1. \A w \in Workers : w < n => costs[w] = d[n].grants[w]
        <4> SUFFICES ASSUME NEW w \in Workers, w < n
                     PROVE  costs[w] = d[n].grants[w]
          OBVIOUS
        <4>1. w # n /\ w < n + 1
          BY <2>1, <1>2
        <4> QED
          BY <4>1, <2>4, <2>6
      <3>2. budget = Plus(d[n].funds, t[n])
        BY <3>1, <2>2, <2>6
      <3>3. costs[n] = d[n + 1].grants[n] /\ costs[n] \in Costs
        BY <2>1, <2>6
      <3>4. t[n + 1] = Plus(t[n], costs[n]) /\ t[n] \in Costs
        BY <2>1, <2>6 DEF Sums
      <3>5. d[n + 1].funds \in Costs
        BY <2>4 DEF Deals
      <3> QED
        BY <3>2, <3>3, <3>4, <3>5, <2>4 DEF Plus, Costs
    <2>7. Dealt(n + 1)
      BY <2>2, <2>3, <2>4, <2>5, <2>6
    <2> QED
      BY <2>1, <2>7
  <1>5. Dealt(Count)
    <2> HIDE DEF T
    <2>1. Count \in T
      BY <1>2, <1>3, <1>4, Upward
    <2> QED
      BY <2>1 DEF T
  <1>6. Division(undone) \in [Workers -> Costs]
    BY <1>1, <1>5 DEF Deals
  <1>7. PICK t : Sums(Division(undone), t) /\ Total(Division(undone)) = t[Count]
    BY <1>6, TotalIsSum
  <1>8. budget = Plus(d[Count].funds, t[Count]) /\ d[Count].funds \in Costs
    BY <1>1, <1>5, <1>6, <1>7 DEF Deals
  <1>9. t[Count] \in Costs
    BY <1>2, <1>7 DEF Sums
  <1> QED
    BY <1>6, <1>7, <1>8, <1>9 DEF Fits, Plus, Costs
-----------------------------------------------------------------------------
(* The inductive invariant.                                                *)

Round == {"notify", "cursor", "wait"}

Closing == {"join", "wake", "joining", "closed"}

Funded == Round \cup {"dispatch", "settle"}

Busy == Funded \cup {"prepare", "divide"}

Between == {"create", "idle", "prepare"}

(* Each thread is in a state of its own kind, and exactly those created    *)
(* exist.                                                                  *)
Roles ==
  /\ pc[0] \in {"create", "idle"} \cup Busy \cup Closing
  /\ \A w \in Peers : pc[w] \in {"unborn", "parked", "cursor", "report", "exited"}
  /\ \A w \in Peers : pc[w] = "unborn" <=> w > created
  /\ pc[0] \notin {"create"} \cup Closing => created = Count - 1
  /\ shutdown <=> pc[0] \in Closing \ {"join"}
  /\ \A w \in Peers : pc[w] = "exited" => shutdown

Reported == {w \in Peers : seen[w] = generation /\ pc[w] = "parked"}

(* finished counts the peers that ended the current round; outside a round *)
(* no peer runs a cursor and each has seen the last generation.            *)
Turns ==
  /\ \A w \in Peers : pc[w] \in {"cursor", "report"} =>
                        seen[w] = generation /\ pc[0] \in Round
  /\ pc[0] \notin Round => \A w \in Peers : seen[w] = generation
  /\ pc[0] \in Round => finished = Cardinality(Reported)

(* The grants of a round fit in what is left, and what each cursor spent   *)
(* in its grant.                                                           *)
Funds ==
  pc[0] \in Funded =>
    /\ Fits(Total(grant), budget)
    /\ \A w \in Workers : Fits(spent[w], grant[w])

Own(w) == {i \in Items : Batch[i[1]] = batch /\ Owner(i) = w}

(* A cursor has passed the items of its share in their order.              *)
Places ==
  pc[0] \in {"create", "idle"} \cup Busy =>
    /\ \A w \in Workers :
         /\ left[w] \subseteq Own(w)
         /\ \A i \in left[w], j \in Own(w) : Before(i, j) => j \in left[w]
         /\ pending[w] => left[w] # {}
    /\ pc[0] \in Between => \A w \in Workers : left[w] = {}
    /\ pc[0] \notin Between => \A w \in done : left[w] = {}

Looked == {i \in Items : \/ passed[i] = 1
                          \/ (pending[Owner(i)] /\ i = Current(Owner(i)))}

Tested == {i \in TestsNeeded : passed[i] = 1}

(* What has been passed, what it tagged, and which test is due.            *)
Progress ==
  pc[0] \in Busy =>
    /\ \A i \in Items :
         passed[i] = IF Batch[i[1]] <= batch /\ i \notin left[Owner(i)]
                     THEN 1 ELSE 0
    /\ \A c \in Cells :
         c \in boundary <=> \E i \in Items : /\ passed[i] = 1 /\ i[2] = c
                                           /\ c \in Touch[i[1]]
    /\ \A w \in Workers : pending[w] => Current(w) \in TestsNeeded

Described == {f \in Faces : Batch[f] <= batch}

Used ==
  Cost(FaceWork * Cardinality(Described) + LookupWork * Cardinality(Looked)
         + TestWork * Cardinality(Tested),
       Cardinality(Looked))

(* The books: what is left and what was used make up what there was.       *)
Ledger ==
  pc[0] \in Busy =>
    Plus(budget, Used) =
      IF pc[0] \in Funded THEN Plus(limits, Total(spent)) ELSE limits

Over(w) ==
  IF w = 0 THEN pc[0] \in {"wait", "settle"}
           ELSE /\ pc[0] \in Round \cup {"settle"}
                /\ seen[w] = generation
                /\ pc[w] \in {"report", "parked"}

(* A cursor that ended its part of a round and not its share says what its *)
(* next primitive needs, unless the round is given up.                     *)
Waiting ==
  \A w \in Workers :
    Over(w) /\ ~abort /\ ~stopped =>
      w \in done \/ (left[w] # {} /\ need[w] = NextPrimitive(w))

(* A raster has a result only when it has returned.                        *)
Unresolved == pc[0] \in {"create"} \cup Busy => result = "none"

RasterInv ==
  /\ TypeOK /\ Roles /\ Turns /\ Funds /\ Places /\ Progress /\ Ledger
  /\ Waiting /\ Unresolved /\ CapsAreExact

-----------------------------------------------------------------------------
(* How the threads move.                                                   *)

(* The coordinator is the thread 0, the others are its peers.              *)
LEMMA WorkersPeers ==
  /\ Workers = {0} \cup Peers
  /\ 0 \notin Peers
  /\ 0 \in Workers
  /\ \A w \in Workers : w \in Nat
  BY RasterAssumption DEF Workers, Peers

(* A step to a place moves one thread.                                     *)
LEMMA GotoEffect ==
  ASSUME TypeOK, NEW STATE w, w \in Workers, NEW STATE s, Goto(w, s)
  PROVE  /\ pc'[w] = s
         /\ \A v \in Workers \ {w} : pc'[v] = pc[v]
  BY DEF Goto, TypeOK

Alone(state) == pc'[0] = state /\ \A w \in Peers : pc'[w] = pc[w]

(* The coordinator moves alone.                                            *)
LEMMA OwnerGoes ==
  ASSUME TypeOK, NEW STATE s, Goto(0, s)
  PROVE  Alone(s)
  BY GotoEffect, WorkersPeers DEF Alone

(* The coordinator moves alone.                                            *)
LEMMA OwnerMoves ==
  ASSUME TypeOK
  PROVE  /\ Created => Alone("idle")
         /\ StartFails => Alone("join")
         /\ Begin => Alone("prepare")
         /\ Prepare => Alone("divide")
         /\ PrepareFails => Alone("join")
         /\ Succeeds => Alone("idle")
         /\ Divide => Alone("dispatch")
         /\ BatchDone => Alone("prepare")
         /\ Dispatch => Alone("notify")
         /\ Notify => Alone("cursor")
         /\ WaitEnds => Alone("settle")
         /\ NextRound => Alone("divide")
         /\ RoundFails => Alone("join")
         /\ Destroy => Alone("join")
         /\ ShutDown => Alone("wake")
         /\ WakeAll => Alone("joining")
         /\ Joined => Alone("closed")
  <1>1. Created => Alone("idle")
    BY OwnerGoes DEF Created
  <1>2. StartFails => Alone("join")
    BY OwnerGoes DEF StartFails
  <1>3. Begin => Alone("prepare")
    BY OwnerGoes DEF Begin
  <1>4. Prepare => Alone("divide")
    BY OwnerGoes DEF Prepare
  <1>5. PrepareFails => Alone("join")
    BY OwnerGoes DEF PrepareFails, Fail
  <1>6. Succeeds => Alone("idle")
    BY OwnerGoes DEF Succeeds
  <1>7. Divide => Alone("dispatch")
    BY OwnerGoes DEF Divide
  <1>8. BatchDone => Alone("prepare")
    BY OwnerGoes DEF BatchDone
  <1>9. Dispatch => Alone("notify")
    BY OwnerGoes DEF Dispatch
  <1>10. Notify => Alone("cursor")
    BY OwnerGoes DEF Notify
  <1>11. WaitEnds => Alone("settle")
    BY OwnerGoes DEF WaitEnds
  <1>12. NextRound => Alone("divide")
    BY OwnerGoes DEF NextRound
  <1>13. RoundFails => Alone("join")
    BY OwnerGoes DEF RoundFails, Fail
  <1>14. Destroy => Alone("join")
    BY OwnerGoes DEF Destroy
  <1>15. ShutDown => Alone("wake")
    BY OwnerGoes DEF ShutDown
  <1>16. WakeAll => Alone("joining")
    BY OwnerGoes DEF WakeAll
  <1>17. Joined => Alone("closed")
    BY OwnerGoes DEF Joined
  <1> QED
    BY <1>1, <1>2, <1>3, <1>4, <1>5, <1>6, <1>7, <1>8, <1>9,
       <1>10, <1>11, <1>12, <1>13, <1>14, <1>15, <1>16, <1>17

Moves(w, state) == pc'[w] = state /\ \A v \in Workers \ {w} : pc'[v] = pc[v]

Rests(w) == Moves(w, IF w = 0 THEN "wait" ELSE "report")

(* A cursor that ends its part of a round.                                 *)
LEMMA CursorMoves ==
  ASSUME TypeOK, NEW STATE w, w \in Workers
  PROVE  /\ WaitsForFunds(w) => Rests(w)
         /\ Finishes(w) => Rests(w)
         /\ CursorFails(w) => Rests(w)
         /\ Interrupts(w) => Rests(w)
  <1>1. WaitsForFunds(w) => Rests(w)
    BY GotoEffect DEF WaitsForFunds, Ended, Rests, Moves
  <1>2. Finishes(w) => Rests(w)
    BY GotoEffect DEF Finishes, Ended, Rests, Moves
  <1>3. CursorFails(w) => Rests(w)
    BY GotoEffect DEF CursorFails, Ended, Rests, Moves
  <1>4. Interrupts(w) => Rests(w)
    BY GotoEffect DEF Interrupts, Ended, Rests, Moves
  <1> QED
    BY <1>1, <1>2, <1>3, <1>4

(* A peer moves alone.                                                     *)
LEMMA PeerMoves ==
  ASSUME TypeOK, NEW STATE w, w \in Peers
  PROVE  /\ Takes(w) => Moves(w, "cursor")
         /\ Reports(w) => Moves(w, "parked")
         /\ Exits(w) => Moves(w, "exited")
         /\ w \in Workers /\ w # 0
  BY GotoEffect, WorkersPeers DEF Takes, Reports, Exits, Moves

(* A creation adds the next thread, parked.                                *)
LEMMA CreateMoves ==
  ASSUME TypeOK, Create
  PROVE  /\ created' = created + 1 /\ created' \in Peers /\ created \in Nat
         /\ Moves(created', "parked")
  <1>1. created' = created + 1 /\ created' \in Peers /\ created \in Nat
    <2>1. created' = created + 1 /\ created < Count - 1
      BY DEF Create
    <2>2. created \in 0..Count - 1
      BY DEF TypeOK
    <2> QED
      BY <2>1, <2>2, RasterAssumption DEF Peers
  <1>2. Goto(created', "parked")
    BY <1>1 DEF Create
  <1>3. created' \in Workers
    BY <1>1, WorkersPeers
  <1>4. Moves(created', "parked")
    BY <1>2, <1>3 DEF Goto, TypeOK, Moves
  <1> QED
    BY <1>1, <1>4

(* Threads move within their kind.                                         *)
LEMMA RolesStep ==
  ASSUME TypeOK, Roles, Turns, Next \/ UNCHANGED vars
  PROVE  Roles'
  <1> USE DEF Roles, Round, Busy, Funded, Closing, parkVars, lifeVars, envVars,
    cursorVars, callVars
  <1>1. CASE Create
    <2>1. created' = created + 1 /\ created' \in Peers /\ created \in Nat
          /\ Moves(created', "parked") /\ \A v \in Peers : v \in Nat
      BY <1>1, CreateMoves, WorkersPeers
    <2> QED
      BY <2>1, <1>1, WorkersPeers DEF Create, Moves
  <1>2. CASE Created
    BY <1>2, OwnerMoves DEF Created, Alone
  <1>3. CASE StartFails
    BY <1>3, OwnerMoves DEF StartFails, Alone
  <1>4. CASE Begin
    BY <1>4, OwnerMoves DEF Begin, Alone
  <1>5. CASE Prepare
    BY <1>5, OwnerMoves DEF Prepare, Alone
  <1>6. CASE PrepareFails
    BY <1>6, OwnerMoves DEF PrepareFails, Alone
  <1>7. CASE Succeeds
    BY <1>7, OwnerMoves DEF Succeeds, Alone
  <1>8. CASE Divide
    BY <1>8, OwnerMoves DEF Divide, Alone
  <1>9. CASE BatchDone
    BY <1>9, OwnerMoves DEF BatchDone, Alone
  <1>10. CASE Dispatch
    BY <1>10, OwnerMoves DEF Dispatch, Alone
  <1>11. CASE Notify
    BY <1>11, OwnerMoves DEF Notify, Alone
  <1>12. CASE WaitEnds
    BY <1>12, OwnerMoves DEF WaitEnds, Alone
  <1>13. CASE NextRound
    BY <1>13, OwnerMoves DEF NextRound, Alone
  <1>14. CASE RoundFails
    BY <1>14, OwnerMoves DEF RoundFails, Alone
  <1>15. CASE Destroy
    BY <1>15, OwnerMoves DEF Destroy, Alone
  <1>16. CASE ShutDown
    BY <1>16, OwnerMoves DEF ShutDown, Alone
  <1>17. CASE WakeAll
    BY <1>17, OwnerMoves DEF WakeAll, Alone
  <1>18. CASE Joined
    BY <1>18, OwnerMoves DEF Joined, Alone
  <1>19. CASE WaitPolls
    BY <1>19 DEF WaitPolls
  <1>20. ASSUME NEW w \in Workers, LooksUp(w) PROVE Roles'
    BY <1>20 DEF LooksUp
  <1>21. ASSUME NEW w \in Workers, Tests(w) PROVE Roles'
    BY <1>21 DEF Tests
  <1>22. ASSUME NEW w \in Workers, WaitsForFunds(w) PROVE Roles'
    BY <1>22, CursorMoves, WorkersPeers DEF WaitsForFunds, Rests, Moves
  <1>23. ASSUME NEW w \in Workers, Finishes(w) PROVE Roles'
    BY <1>23, CursorMoves, WorkersPeers DEF Finishes, Rests, Moves
  <1>24. ASSUME NEW w \in Workers, CursorFails(w) PROVE Roles'
    BY <1>24, CursorMoves, WorkersPeers DEF CursorFails, Rests, Moves
  <1>25. ASSUME NEW w \in Workers, Interrupts(w) PROVE Roles'
    <2>1. Rests(w) /\ pc[w] = "cursor" /\ UNCHANGED <<created, shutdown>>
      BY <1>25, CursorMoves DEF Interrupts
    <2> QED
      BY <2>1, WorkersPeers DEF Rests, Moves
  <1>26. ASSUME NEW w \in Peers, Sleeps(w) PROVE Roles'
    BY <1>26 DEF Sleeps
  <1>27. ASSUME NEW w \in Peers, Takes(w) PROVE Roles'
    BY <1>27, PeerMoves, WorkersPeers DEF Takes, Moves
  <1>28. ASSUME NEW w \in Peers, Reports(w) PROVE Roles'
    BY <1>28, PeerMoves, WorkersPeers DEF Reports, Moves
  <1>29. ASSUME NEW w \in Peers, Exits(w) PROVE Roles'
    BY <1>29, PeerMoves, WorkersPeers DEF Exits, Moves
  <1>30. CASE Stop \/ Expire \/ UNCHANGED vars
    BY <1>30 DEF Stop, Expire, vars
  <1> QED
    BY <1>1, <1>2, <1>3, <1>4, <1>5, <1>6, <1>7, <1>8, <1>9, <1>10, <1>11,
       <1>12, <1>13, <1>14, <1>15, <1>16, <1>17, <1>18, <1>19, <1>20, <1>21,
       <1>22, <1>23, <1>24, <1>25, <1>26, <1>27, <1>28, <1>29, <1>30
       DEF Next, Construction, Running, Joining, Cursor, Entry

(* The peers are counted.                                                  *)
LEMMA PeersFinite == IsFiniteSet(Peers) /\ Cardinality(Peers) = Count - 1
  <1>1. Count - 1 \in Int /\ 1 \in Int /\ Count - 1 >= 1
    BY RasterAssumption
  <1>2. /\ Cardinality(1..Count - 1) = (Count - 1) - 1 + 1
        /\ IsFiniteSet(1..Count - 1)
    BY <1>1, FS_Interval
  <1> QED
    BY <1>1, <1>2 DEF Peers

(* When every peer has reported, each is parked and has seen the last      *)
(* generation.                                                             *)
LEMMA AllReported ==
  ASSUME TypeOK, Turns, pc[0] \in Round, finished = Count - 1
  PROVE  \A w \in Peers : seen[w] = generation /\ pc[w] = "parked"
  <1>1. IsFiniteSet(Peers) /\ Cardinality(Peers) = Count - 1
    BY PeersFinite
  <1>2. Reported \in SUBSET Peers
    BY DEF Reported
  <1>3. Cardinality(Reported) = Count - 1
    BY DEF Turns
  <1>4. Reported = Peers
    BY <1>1, <1>2, <1>3, FS_Subset
  <1> QED
    BY <1>4 DEF Reported

(* A report is counted once, and there are never more than peers.          *)
LEMMA ReportCounts ==
  ASSUME TypeOK, Turns, NEW STATE w, w \in Peers, Reports(w)
  PROVE  /\ finished' = Cardinality(Reported')
         /\ finished' \in 0..Count - 1
  <1>1. Count - 1 \in Nat
    BY RasterAssumption
  <1>2. IsFiniteSet(Peers) /\ Cardinality(Peers) = Count - 1
    BY PeersFinite
  <1>3. /\ pc'[w] = "parked" /\ \A v \in Peers \ {w} : pc'[v] = pc[v]
        /\ UNCHANGED <<seen, generation>>
    BY PeerMoves, WorkersPeers DEF Reports, Moves
  <1>4. seen[w] = generation /\ w \notin Reported /\ pc[0] \in Round
    BY DEF Reports, Turns, Reported
  <1>5. Reported' = Reported \cup {w}
    BY <1>3, <1>4 DEF Reported
  <1>6. IsFiniteSet(Reported) /\ Reported' \in SUBSET Peers
    BY <1>2, FS_Subset DEF Reported
  <1>7. Cardinality(Reported') = Cardinality(Reported) + 1
    BY <1>4, <1>5, <1>6, FS_AddElement
  <1>8. Cardinality(Reported') <= Count - 1
    BY <1>2, <1>6, FS_Subset
  <1>9. finished' = finished + 1 /\ finished = Cardinality(Reported)
        /\ finished \in Nat
    BY <1>4 DEF Reports, Turns, TypeOK
  <1> QED
    BY <1>1, <1>7, <1>8, <1>9

(* The generation of a new round is not the last one's.                    *)
LEMMA NextGeneration ==
  ASSUME TypeOK, Dispatch
  PROVE  generation' \in 0..Generations - 1 /\ generation' # generation
  <1>1. Generations \in Nat /\ Generations >= 2 /\ generation \in 0..Generations - 1
    BY RasterAssumption DEF TypeOK
  <1>2. generation' = (generation + 1) % Generations
    BY DEF Dispatch
  <1>3. CASE generation + 1 = Generations
    <2>1. Generations % Generations = 0
      BY <1>1
    <2> QED
      BY <1>1, <1>2, <1>3, <2>1
  <1>4. CASE generation + 1 < Generations
    <2>1. (generation + 1) % Generations = generation + 1
      BY <1>1, <1>4
    <2> QED
      BY <1>1, <1>2, <1>4, <2>1
  <1> QED
    BY <1>1, <1>3, <1>4

(* Generations are taken and reported one by one.                          *)
LEMMA TurnsStep ==
  ASSUME TypeOK, Roles, Turns, Next \/ UNCHANGED vars
  PROVE  Turns'
  <1> USE DEF Turns, Round, Closing, parkVars, lifeVars, envVars, cursorVars, callVars
  <1>1. CASE Create
    <2>1. created' = created + 1 /\ created' \in Peers /\ created \in Nat
          /\ Moves(created', "parked") /\ \A v \in Peers : v \in Nat
      BY <1>1, CreateMoves, WorkersPeers
    <2> QED
      BY <2>1, <1>1, WorkersPeers DEF Create, Moves
  <1>2. CASE Created
    BY <1>2, OwnerMoves DEF Created, Alone
  <1>3. CASE StartFails
    BY <1>3, OwnerMoves DEF StartFails, Alone
  <1>4. CASE Begin
    BY <1>4, OwnerMoves DEF Begin, Alone
  <1>5. CASE Prepare
    BY <1>5, OwnerMoves DEF Prepare, Alone
  <1>6. CASE PrepareFails
    BY <1>6, OwnerMoves DEF PrepareFails, Alone
  <1>7. CASE Succeeds
    BY <1>7, OwnerMoves DEF Succeeds, Alone
  <1>8. CASE Divide
    BY <1>8, OwnerMoves DEF Divide, Alone
  <1>9. CASE BatchDone
    BY <1>9, OwnerMoves DEF BatchDone, Alone
  <1>10. CASE Dispatch
    <2>1. generation' # generation /\ finished' = 0 /\ seen' = seen
          /\ Alone("notify") /\ pc[0] = "dispatch"
      BY <1>10, NextGeneration, OwnerMoves DEF Dispatch
    <2>2. Reported' = {}
      BY <2>1 DEF Reported, Alone
    <2>3. Cardinality(Reported') = 0
      BY <2>2, FS_EmptySet
    <2> QED
      BY <2>1, <2>3 DEF Alone
  <1>11. CASE Notify
    BY <1>11, OwnerMoves DEF Notify, Alone, Reported
  <1>12. CASE WaitEnds
    <2>1. created = Count - 1
      BY <1>12 DEF WaitEnds, Roles, Closing
    <2>2. \A v \in Peers : seen[v] = generation /\ pc[v] = "parked"
      BY <1>12, <2>1, AllReported DEF WaitEnds
    <2> QED
      BY <2>2, <1>12, OwnerMoves DEF WaitEnds, Alone
  <1>13. CASE NextRound
    BY <1>13, OwnerMoves DEF NextRound, Alone
  <1>14. CASE RoundFails
    BY <1>14, OwnerMoves DEF RoundFails, Alone
  <1>15. CASE Destroy
    BY <1>15, OwnerMoves DEF Destroy, Alone
  <1>16. CASE ShutDown
    BY <1>16, OwnerMoves DEF ShutDown, Alone
  <1>17. CASE WakeAll
    BY <1>17, OwnerMoves DEF WakeAll, Alone
  <1>18. CASE Joined
    BY <1>18, OwnerMoves DEF Joined, Alone
  <1>19. CASE WaitPolls
    BY <1>19 DEF WaitPolls, Reported
  <1>20. ASSUME NEW w \in Workers, LooksUp(w) PROVE Turns'
    BY <1>20 DEF LooksUp, Reported
  <1>21. ASSUME NEW w \in Workers, Tests(w) PROVE Turns'
    BY <1>21 DEF Tests, Reported
  <1>22. ASSUME NEW w \in Workers, WaitsForFunds(w) PROVE Turns'
    BY <1>22, CursorMoves, WorkersPeers, ZenonT(60)
       DEF WaitsForFunds, Rests, Moves, Reported
  <1>23. ASSUME NEW w \in Workers, Finishes(w) PROVE Turns'
    BY <1>23, CursorMoves, WorkersPeers, ZenonT(60)
       DEF Finishes, Rests, Moves, Reported
  <1>24. ASSUME NEW w \in Workers, CursorFails(w) PROVE Turns'
    BY <1>24, CursorMoves, WorkersPeers, ZenonT(60)
       DEF CursorFails, Rests, Moves, Reported
  <1>25. ASSUME NEW w \in Workers, Interrupts(w) PROVE Turns'
    BY <1>25, CursorMoves, WorkersPeers, ZenonT(60)
       DEF Interrupts, Rests, Moves, Reported
  <1>26. ASSUME NEW w \in Peers, Sleeps(w) PROVE Turns'
    BY <1>26 DEF Sleeps, Reported
  <1>27. ASSUME NEW w \in Peers, Takes(w) PROVE Turns'
    <2>1. /\ pc'[w] = "cursor" /\ pc'[0] = pc[0]
          /\ \A v \in Peers \ {w} : pc'[v] = pc[v]
      BY <1>27, PeerMoves, WorkersPeers DEF Takes, Moves
    <2>2. /\ seen'[w] = generation /\ generation' = generation
          /\ \A v \in Peers \ {w} : seen'[v] = seen[v]
          /\ finished' = finished
      BY <1>27 DEF Takes, TypeOK
    <2>3. seen[w] # generation /\ pc[0] \in Round
      BY <1>27 DEF Takes
    <2>4. Reported' = Reported
      BY <2>1, <2>2, <2>3 DEF Reported
    <2> QED
      BY <2>1, <2>2, <2>3, <2>4
  <1>28. ASSUME NEW w \in Peers, Reports(w) PROVE Turns'
    <2>1. /\ pc'[w] = "parked" /\ pc'[0] = pc[0]
          /\ \A v \in Peers \ {w} : pc'[v] = pc[v]
      BY <1>28, PeerMoves, WorkersPeers DEF Reports, Moves
    <2>2. finished' = Cardinality(Reported')
      BY <1>28, ReportCounts
    <2> QED
      BY <2>1, <2>2, <1>28 DEF Reports
  <1>29. ASSUME NEW w \in Peers, Exits(w) PROVE Turns'
    <2>1. /\ pc'[w] = "exited" /\ pc'[0] = pc[0]
          /\ \A v \in Peers \ {w} : pc'[v] = pc[v]
      BY <1>29, PeerMoves, WorkersPeers DEF Exits, Moves
    <2>2. pc[0] \notin Round
      BY <1>29 DEF Exits, Roles, Closing
    <2> QED
      BY <2>1, <2>2, <1>29 DEF Exits
  <1>30. CASE Stop \/ Expire \/ UNCHANGED vars
    BY <1>30 DEF Stop, Expire, vars, Reported
  <1> QED
    BY <1>1, <1>2, <1>3, <1>4, <1>5, <1>6, <1>7, <1>8, <1>9, <1>10, <1>11,
       <1>12, <1>13, <1>14, <1>15, <1>16, <1>17, <1>18, <1>19, <1>20, <1>21,
       <1>22, <1>23, <1>24, <1>25, <1>26, <1>27, <1>28, <1>29, <1>30
       DEF Next, Construction, Running, Joining, Cursor, Entry

-----------------------------------------------------------------------------
(* The funds of a round.                                                   *)

(* Every sum on the books is a cost.                                       *)
LEMMA CostTypes ==
  ASSUME TypeOK
  PROVE  /\ {need, grant, spent} \subseteq [Workers -> Costs]
         /\ \A w \in Workers : {need[w], grant[w], spent[w]} \subseteq Costs
         /\ budget \in Costs /\ limits \in Costs
         /\ None \in Costs /\ Lookup \in Costs /\ Test \in Costs
         /\ First \in Costs
  <1>1. {FaceWork, LookupWork, TestWork} \subseteq Nat
    BY RasterAssumption
  <1> QED
    BY <1>1 DEF TypeOK, Costs, None, Lookup, Test, First, Cost

(* A cursor runs only in a round.                                          *)
LEMMA CursorInRound ==
  ASSUME Roles, Turns, NEW STATE w, w \in Workers, pc[w] = "cursor"
  PROVE  pc[0] \in Round
  BY WorkersPeers DEF Turns, Round

(* Fitting is transitive.                                                  *)
LEMMA FitsTrans ==
  ASSUME NEW a \in Costs, NEW b \in Costs, NEW c \in Costs,
         Fits(a, b), Fits(b, c)
  PROVE  Fits(a, c)
  BY DEF Costs, Fits

(* What a round has spent fits in what was left when it began.             *)
LEMMA SpentFits ==
  ASSUME TypeOK, Funds, pc[0] \in Funded
  PROVE  Fits(Total(spent), budget)
  <1>1. /\ Total(spent) \in Costs /\ Total(grant) \in Costs /\ budget \in Costs
        /\ Fits(Total(spent), Total(grant))
    BY CostTypes, TotalType, TotalMonotone DEF Funds
  <1>2. Fits(Total(grant), budget)
    BY DEF Funds
  <1> QED
    BY <1>1, <1>2, FitsTrans

(* A primitive that the grant funds is spent within it.                    *)
LEMMA SpendFits ==
  ASSUME TypeOK, NEW STATE w, w \in Workers, NEW STATE c, c \in Costs,
         Fits(spent[w], grant[w]), Fits(c, Unspent(w)), Spends(w, c)
  PROVE  /\ spent' \in [Workers -> Costs] /\ need' \in [Workers -> Costs]
         /\ Fits(spent'[w], grant[w])
         /\ \A v \in Workers \ {w} : spent'[v] = spent[v]
         /\ Total(spent') = Plus(Total(spent), c)
  <1>1. spent \in [Workers -> Costs] /\ need \in [Workers -> Costs]
        /\ spent[w] \in Costs /\ grant[w] \in Costs
    BY CostTypes
  <1>2. Plus(spent[w], c) \in Costs /\ Fits(Plus(spent[w], c), grant[w])
    BY <1>1 DEF Costs, Fits, Plus, Minus, Unspent
  <1>3. spent' = [spent EXCEPT ![w] = Plus(@, c)]
        /\ need' = [need EXCEPT ![w] = c]
    BY DEF Spends
  <1>4. Total(spent') = Plus(Total(spent), c)
    BY <1>1, <1>3, TotalGrows
  <1> QED
    BY <1>1, <1>2, <1>3, <1>4

(* Every cursor keeps to its grant.                                        *)
LEMMA FundsStep ==
  ASSUME TypeOK, Roles, Turns, Funds, Next \/ UNCHANGED vars
  PROVE  Funds'
  <1> USE DEF Funds, Funded, Round, parkVars, lifeVars, envVars, cursorVars, callVars
  <1>1. CASE Create
    BY <1>1, CreateMoves, WorkersPeers DEF Create, Moves
  <1>2. CASE Created
    BY <1>2, OwnerMoves DEF Created, Alone
  <1>3. CASE StartFails
    BY <1>3, OwnerMoves DEF StartFails, Alone
  <1>4. CASE Begin
    BY <1>4, OwnerMoves DEF Begin, Alone
  <1>5. CASE Prepare
    BY <1>5, OwnerMoves DEF Prepare, Alone
  <1>6. CASE PrepareFails
    BY <1>6, OwnerMoves DEF PrepareFails, Alone
  <1>7. CASE Succeeds
    BY <1>7, OwnerMoves DEF Succeeds, Alone
  <1>8. CASE Divide
    <2>1. Workers \ done \in SUBSET Workers /\ budget \in Costs
          /\ \A w \in Workers : need[w] \in Costs
      BY CostTypes
    <2>2. grant' = Division(Workers \ done) /\ budget' = budget
          /\ spent' = [w \in Workers |-> None]
      BY <1>8 DEF Divide
    <2>3. grant' \in [Workers -> Costs] /\ Fits(Total(grant'), budget')
      BY <2>1, <2>2, DivisionFits
    <2>4. ASSUME NEW w \in Workers PROVE Fits(spent'[w], grant'[w])
      <3>1. grant'[w] \in Costs
        BY <2>3
      <3>2. spent'[w] = None
        BY <2>2
      <3>3. spent'[w].work = 0 /\ spent'[w].visits = 0
        BY <3>2 DEF None
      <3>4. grant'[w].work \in Nat /\ grant'[w].visits \in Nat
        BY <3>1 DEF Costs
      <3> QED
        BY <3>3, <3>4 DEF Fits
    <2> QED
      BY <2>3, <2>4
  <1>9. CASE BatchDone
    BY <1>9, OwnerMoves DEF BatchDone, Alone
  <1>10. CASE Dispatch
    BY <1>10, OwnerMoves DEF Dispatch, Alone
  <1>11. CASE Notify
    BY <1>11, OwnerMoves DEF Notify, Alone
  <1>12. CASE WaitEnds
    BY <1>12, OwnerMoves DEF WaitEnds, Alone
  <1>13. CASE NextRound
    BY <1>13, OwnerMoves DEF NextRound, Alone
  <1>14. CASE RoundFails
    BY <1>14, OwnerMoves DEF RoundFails, Alone
  <1>15. CASE Destroy
    BY <1>15, OwnerMoves DEF Destroy, Alone
  <1>16. CASE ShutDown
    BY <1>16, OwnerMoves DEF ShutDown, Alone
  <1>17. CASE WakeAll
    BY <1>17, OwnerMoves DEF WakeAll, Alone
  <1>18. CASE Joined
    BY <1>18, OwnerMoves DEF Joined, Alone
  <1>19. CASE WaitPolls
    BY <1>19 DEF WaitPolls
  <1>20. ASSUME NEW w \in Workers, LooksUp(w) PROVE Funds'
    <2>1. pc[0] \in Funded /\ UNCHANGED <<grant, budget>>
      BY <1>20, CursorInRound DEF LooksUp
    <2>2. Fits(Lookup, Unspent(w)) /\ Spends(w, Lookup) /\ Lookup \in Costs
      BY <1>20, CostTypes DEF LooksUp
    <2>3. /\ Fits(spent'[w], grant[w])
          /\ \A v \in Workers \ {w} : spent'[v] = spent[v]
      BY <2>1, <2>2, SpendFits
    <2> QED
      BY <2>1, <2>3
  <1>21. ASSUME NEW w \in Workers, Tests(w) PROVE Funds'
    <2>1. pc[0] \in Funded /\ UNCHANGED <<grant, budget>>
      BY <1>21, CursorInRound DEF Tests
    <2>2. Fits(Test, Unspent(w)) /\ Spends(w, Test) /\ Test \in Costs
      BY <1>21, CostTypes DEF Tests
    <2>3. /\ Fits(spent'[w], grant[w])
          /\ \A v \in Workers \ {w} : spent'[v] = spent[v]
      BY <2>1, <2>2, SpendFits
    <2> QED
      BY <2>1, <2>3
  <1>22. ASSUME NEW w \in Workers, WaitsForFunds(w) PROVE Funds'
    BY <1>22, CursorMoves, WorkersPeers DEF WaitsForFunds, Rests, Moves
  <1>23. ASSUME NEW w \in Workers, Finishes(w) PROVE Funds'
    BY <1>23, CursorMoves, WorkersPeers DEF Finishes, Rests, Moves
  <1>24. ASSUME NEW w \in Workers, CursorFails(w) PROVE Funds'
    BY <1>24, CursorMoves, WorkersPeers DEF CursorFails, Rests, Moves
  <1>25. ASSUME NEW w \in Workers, Interrupts(w) PROVE Funds'
    BY <1>25, CursorMoves, WorkersPeers DEF Interrupts, Rests, Moves
  <1>26. ASSUME NEW w \in Peers, Sleeps(w) PROVE Funds'
    BY <1>26 DEF Sleeps
  <1>27. ASSUME NEW w \in Peers, Takes(w) PROVE Funds'
    BY <1>27, PeerMoves, WorkersPeers DEF Takes, Moves
  <1>28. ASSUME NEW w \in Peers, Reports(w) PROVE Funds'
    BY <1>28, PeerMoves, WorkersPeers DEF Reports, Moves
  <1>29. ASSUME NEW w \in Peers, Exits(w) PROVE Funds'
    BY <1>29, PeerMoves, WorkersPeers DEF Exits, Moves
  <1>30. CASE Stop \/ Expire \/ UNCHANGED vars
    BY <1>30 DEF Stop, Expire, vars
  <1> QED
    BY <1>1, <1>2, <1>3, <1>4, <1>5, <1>6, <1>7, <1>8, <1>9, <1>10, <1>11,
       <1>12, <1>13, <1>14, <1>15, <1>16, <1>17, <1>18, <1>19, <1>20, <1>21,
       <1>22, <1>23, <1>24, <1>25, <1>26, <1>27, <1>28, <1>29, <1>30
       DEF Next, Construction, Running, Joining, Cursor, Entry

-----------------------------------------------------------------------------
(* Types.                                                                  *)

(* An item is a face and a cell of its box.                                *)
LEMMA ItemTypes ==
  ASSUME NEW i \in Items
  PROVE  /\ i[1] \in Faces /\ i[1] \in Nat /\ i[2] \in Box[i[1]]
         /\ i[2] \in Nat \X Nat /\ i[2][1] \in Nat /\ i[2][2] \in Nat
         /\ i = <<i[1], i[2]>> /\ i[2] = <<i[2][1], i[2][2]>>
         /\ i[2] \in Cells
  <1>1. PICK f \in Faces : i \in {f} \X Box[f]
    BY DEF Items
  <1>2. i[1] = f /\ i[2] \in Box[f] /\ i = <<i[1], i[2]>>
    BY <1>1
  <1>3. f \in Nat /\ Box[f] \subseteq Nat \X Nat
    BY RasterAssumption
  <1>4. i[2] \in Nat \X Nat
    BY <1>2, <1>3
  <1> QED
    BY <1>2, <1>3, <1>4 DEF Cells

(* Every item belongs to the share of a worker.                            *)
LEMMA OwnerType == \A i \in Items : Owner(i) \in Workers
  <1> SUFFICES ASSUME NEW i \in Items PROVE Owner(i) \in Workers
    OBVIOUS
  <1>1. i[2][1] \in Nat /\ Count \in Nat \ {0}
    BY ItemTypes, RasterAssumption
  <1> QED
    BY <1>1 DEF Owner, Workers

(* The items of a cursor have a first.                                     *)
LEMMA FirstItem ==
  ASSUME NEW S \in SUBSET Items, S # {}
  PROVE  \E i \in S : \A j \in S : Before(i, j)
  <1> DEFINE F == {i[1] : i \in S}
  <1>1. F \in SUBSET Nat /\ F # {}
    BY ItemTypes
  <1>2. PICK f \in F : \A k \in F : f <= k
    BY <1>1, LeastElement
  <1> DEFINE A == {i \in S : i[1] = f}
             R == {i[2][1] : i \in A}
  <1>3. R \in SUBSET Nat /\ R # {}
    BY <1>2, ItemTypes
  <1>4. PICK r \in R : \A k \in R : r <= k
    BY <1>3, LeastElement
  <1> DEFINE B == {i \in A : i[2][1] = r}
             C == {i[2][2] : i \in B}
  <1>5. C \in SUBSET Nat /\ C # {}
    BY <1>4, ItemTypes
  <1>6. PICK c \in C : \A k \in C : c <= k
    BY <1>5, LeastElement
  <1>7. PICK i \in B : i[2][2] = c
    BY <1>6
  <1>8. i \in S /\ i[1] = f /\ i[2][1] = r
    BY <1>7
  <1>9. ASSUME NEW j \in S PROVE Before(i, j)
    <2>1. f <= j[1] /\ f \in Nat /\ j[1] \in Nat
      BY <1>1, <1>2
    <2>2. CASE f < j[1]
      BY <2>2, <1>8 DEF Before
    <2>3. CASE f = j[1]
      <3>1. j \in A /\ r <= j[2][1] /\ r \in Nat /\ j[2][1] \in Nat
        BY <2>3, <1>3, <1>4
      <3>2. CASE r < j[2][1]
        BY <2>3, <3>2, <1>8 DEF Before
      <3>3. CASE r = j[2][1]
        <4>1. j \in B /\ c <= j[2][2]
          BY <3>1, <3>3, <1>6
        <4> QED
          BY <2>3, <3>3, <4>1, <1>7, <1>8 DEF Before
      <3> QED
        BY <3>1, <3>2, <3>3
    <2> QED
      BY <2>1, <2>2, <2>3
  <1> QED
    BY <1>8, <1>9

(* The current item of a cursor is the first of those left.                *)
LEMMA CurrentIsFirst ==
  ASSUME TypeOK, NEW STATE w, w \in Workers, left[w] # {}
  PROVE  /\ Current(w) \in left[w] /\ Current(w) \in Items
         /\ \A j \in left[w] : Before(Current(w), j)
  <1>1. left[w] \in SUBSET Items
    BY DEF TypeOK
  <1>2. \E i \in left[w] : \A j \in left[w] : Before(i, j)
    BY <1>1, FirstItem
  <1> QED
    BY <1>1, <1>2 DEF Current

(* Passing an item keeps the types.                                        *)
LEMMA PassTypes ==
  ASSUME TypeOK, NEW STATE w, w \in Workers, left[w] # {}, Passes(w)
  PROVE  left' \in [Workers -> SUBSET Items] /\ passed' \in [Items -> Nat]
  <1>1. PICK i \in Items : i = Current(w)
    BY CurrentIsFirst
  <1>2. left' = [left EXCEPT ![w] = @ \ {i}]
        /\ passed' = [passed EXCEPT ![i] = @ + 1]
    BY <1>1 DEF Passes
  <1> QED
    BY <1>2 DEF TypeOK

(* Describing a batch costs a number.                                      *)
LEMMA PrepareCostType == \A b \in Nat : PrepareCost(b) \in Nat
  <1> SUFFICES ASSUME NEW b \in Nat PROVE PrepareCost(b) \in Nat
    OBVIOUS
  <1>1. {f \in Faces : Batch[f] = b} \in SUBSET Faces /\ IsFiniteSet(Faces)
        /\ FaceWork \in Nat
    BY RasterAssumption
  <1>2. Cardinality({f \in Faces : Batch[f] = b}) \in Nat
    BY <1>1, FS_Subset, FS_CardinalityType
  <1> QED
    BY <1>1, <1>2 DEF PrepareCost

(* What remains and what was spent are the budget.                         *)
LEMMA RemainingType ==
  ASSUME TypeOK, Funds, pc[0] \in Funded
  PROVE  Remaining \in Costs /\ budget = Plus(Remaining, Total(spent))
  <1>1. Fits(Total(spent), budget) /\ Total(spent) \in Costs /\ budget \in Costs
    BY SpentFits, CostTypes, TotalType
  <1> QED
    BY <1>1 DEF Remaining, Minus, Plus, Fits, Costs

(* Every variable keeps its type.                                          *)
LEMMA TypeStep ==
  ASSUME TypeOK, Roles, Turns, Funds, Next \/ UNCHANGED vars
  PROVE  TypeOK'
  <1> USE DEF TypeOK, Goto, parkVars, lifeVars, envVars, cursorVars, callVars
  <1>1. CASE Create
    <2>1. created' \in 0..Count - 1
      BY <1>1, RasterAssumption DEF Create
    <2> QED
      BY <2>1, <1>1 DEF Create
  <1>2. CASE Created
    BY <1>2 DEF Created
  <1>3. CASE StartFails
    BY <1>3 DEF StartFails
  <1>4. CASE Begin
    <2>1. budget' \in Costs /\ limits' \in Costs
      BY <1>4, RasterAssumption DEF Begin, Cost, Costs
    <2>2. runs' \in 0..MaxRuns
      BY <1>4, RasterAssumption DEF Begin
    <2> QED
      BY <2>1, <2>2, <1>4 DEF Begin, Costs
  <1>5. CASE Prepare
    <2>1. batch + 1 \in Nat /\ PrepareCost(batch + 1) \in Nat
          /\ PrepareCost(batch + 1) <= budget.work /\ budget \in Costs
      BY <1>5, PrepareCostType, CostTypes DEF Prepare
    <2>2. budget' \in Costs
      BY <1>5, <2>1 DEF Prepare, Minus, Cost, Costs
    <2>3. need' \in [Workers -> Costs] /\ left' \in [Workers -> SUBSET Items]
      BY <1>5, CostTypes DEF Prepare
    <2>4. /\ pending' \in [Workers -> BOOLEAN] /\ batch' \in Nat /\ abort' = FALSE
          /\ failures' = {} /\ done' = {}
      BY <1>5, <2>1 DEF Prepare
    <2>5. UNCHANGED <<asleep, seen, generation, finished, created, shutdown,
                      stopped, late, grant, spent, boundary, passed, runs,
                      limits, result>>
      BY <1>5 DEF Prepare
    <2>6. pc' = [pc EXCEPT ![0] = "divide"]
      BY <1>5 DEF Prepare
    <2> QED
      BY <2>2, <2>3, <2>4, <2>5, <2>6 DEF Costs
  <1>6. CASE PrepareFails
    BY <1>6 DEF PrepareFails, Fail
  <1>7. CASE Succeeds
    BY <1>7 DEF Succeeds
  <1>8. CASE Divide
    <2>1. Workers \ done \in SUBSET Workers /\ budget \in Costs
          /\ \A w \in Workers : need[w] \in Costs
      BY CostTypes
    <2>2. grant' \in [Workers -> Costs]
      BY <1>8, <2>1, DivisionFits DEF Divide
    <2>3. spent' \in [Workers -> Costs]
      BY <1>8, CostTypes DEF Divide
    <2> QED
      BY <2>2, <2>3, <1>8, ZenonT(60) DEF Divide, Costs
  <1>9. CASE BatchDone
    BY <1>9 DEF BatchDone
  <1>10. CASE Dispatch
    <2>1. generation' \in 0..Generations - 1
      BY <1>10, NextGeneration
    <2>2. finished' \in 0..Count - 1
      BY <1>10, RasterAssumption DEF Dispatch
    <2> QED
      BY <2>1, <2>2, <1>10 DEF Dispatch
  <1>11. CASE Notify
    BY <1>11 DEF Notify
  <1>12. CASE WaitEnds
    BY <1>12 DEF WaitEnds
  <1>13. CASE NextRound
    <2>1. Remaining \in Costs
      BY <1>13, RemainingType DEF NextRound, Funded
    <2> QED
      BY <2>1, <1>13 DEF NextRound, Costs
  <1>14. CASE RoundFails
    <2>1. Remaining \in Costs
      BY <1>14, RemainingType DEF RoundFails, Funded
    <2> QED
      BY <2>1, <1>14 DEF RoundFails, Fail, Costs
  <1>15. CASE Destroy
    BY <1>15 DEF Destroy
  <1>16. CASE ShutDown
    BY <1>16 DEF ShutDown
  <1>17. CASE WakeAll
    BY <1>17 DEF WakeAll
  <1>18. CASE Joined
    BY <1>18 DEF Joined
  <1>19. CASE WaitPolls
    BY <1>19 DEF WaitPolls
  <1>20. ASSUME NEW w \in Workers, LooksUp(w) PROVE TypeOK'
    <2>1. pc[0] \in Funded
      BY <1>20, CursorInRound DEF LooksUp, Funded
    <2>2. Fits(Lookup, Unspent(w)) /\ Spends(w, Lookup) /\ Lookup \in Costs
          /\ Fits(spent[w], grant[w])
      BY <1>20, <2>1, CostTypes DEF LooksUp, Funds
    <2>3. spent' \in [Workers -> Costs] /\ need' \in [Workers -> Costs]
      BY <2>2, SpendFits
    <2>4. /\ left' \in [Workers -> SUBSET Items] /\ passed' \in [Items -> Nat]
          /\ pending' \in [Workers -> BOOLEAN] /\ boundary' = boundary
      <3>1. CASE Tagged(w)
        BY <1>20, <3>1, PassTypes DEF LooksUp
      <3>2. CASE ~Tagged(w)
        BY <1>20, <3>2 DEF LooksUp
      <3> QED
        BY <3>1, <3>2
    <2>5. UNCHANGED <<pc, asleep, seen, generation, finished, created, shutdown,
                      abort, stopped, late, failures, done, batch, grant,
                      budget, runs, limits, result>>
      BY <1>20 DEF LooksUp
    <2> QED
      BY <2>3, <2>4, <2>5 DEF Costs
  <1>21. ASSUME NEW w \in Workers, Tests(w) PROVE TypeOK'
    <2>1. pc[0] \in Funded
      BY <1>21, CursorInRound DEF Tests, Funded
    <2>2. Fits(Test, Unspent(w)) /\ Spends(w, Test) /\ Test \in Costs
          /\ Fits(spent[w], grant[w])
      BY <1>21, <2>1, CostTypes DEF Tests, Funds
    <2>3. spent' \in [Workers -> Costs] /\ need' \in [Workers -> Costs]
      BY <2>2, SpendFits
    <2>4. /\ left' \in [Workers -> SUBSET Items] /\ passed' \in [Items -> Nat]
          /\ pending' \in [Workers -> BOOLEAN] /\ boundary' \subseteq Cells
      <3>1. Current(w)[2] \in Cells
        BY <1>21, CurrentIsFirst, ItemTypes DEF Tests
      <3>2. left' \in [Workers -> SUBSET Items] /\ passed' \in [Items -> Nat]
        BY <1>21, PassTypes DEF Tests
      <3>3. boundary' \subseteq Cells
        BY <1>21, <3>1 DEF Tests
      <3>4. pending' \in [Workers -> BOOLEAN]
        BY <1>21 DEF Tests
      <3> QED
        BY <3>2, <3>3, <3>4
    <2>5. UNCHANGED <<pc, asleep, seen, generation, finished, created, shutdown,
                      abort, stopped, late, failures, done, batch, grant,
                      budget, runs, limits, result>>
      BY <1>21 DEF Tests
    <2> QED
      BY <2>3, <2>4, <2>5 DEF Costs
  <1>22. ASSUME NEW w \in Workers, WaitsForFunds(w) PROVE TypeOK'
    <2>1. NextPrimitive(w) \in Costs
      BY CostTypes DEF NextPrimitive
    <2>2. need' \in [Workers -> Costs]
      BY <1>22, <2>1, CostTypes DEF WaitsForFunds
    <2> QED
      BY <2>2, <1>22 DEF WaitsForFunds, Ended, Costs
  <1>23. ASSUME NEW w \in Workers, Finishes(w) PROVE TypeOK'
    BY <1>23 DEF Finishes, Ended
  <1>24. ASSUME NEW w \in Workers, CursorFails(w) PROVE TypeOK'
    BY <1>24 DEF CursorFails, Ended
  <1>25. ASSUME NEW w \in Workers, Interrupts(w) PROVE TypeOK'
    BY <1>25 DEF Interrupts, Ended
  <1>26. ASSUME NEW w \in Peers, Sleeps(w) PROVE TypeOK'
    BY <1>26 DEF Sleeps
  <1>27. ASSUME NEW w \in Peers, Takes(w) PROVE TypeOK'
    BY <1>27 DEF Takes
  <1>28. ASSUME NEW w \in Peers, Reports(w) PROVE TypeOK'
    <2>1. finished' \in 0..Count - 1
      BY <1>28, ReportCounts
    <2> QED
      BY <2>1, <1>28 DEF Reports
  <1>29. ASSUME NEW w \in Peers, Exits(w) PROVE TypeOK'
    BY <1>29 DEF Exits
  <1>30. CASE Stop \/ Expire \/ UNCHANGED vars
    BY <1>30 DEF Stop, Expire, vars
  <1> QED
    BY <1>1, <1>2, <1>3, <1>4, <1>5, <1>6, <1>7, <1>8, <1>9, <1>10, <1>11,
       <1>12, <1>13, <1>14, <1>15, <1>16, <1>17, <1>18, <1>19, <1>20, <1>21,
       <1>22, <1>23, <1>24, <1>25, <1>26, <1>27, <1>28, <1>29, <1>30
       DEF Next, Construction, Running, Joining, Cursor, Entry

-----------------------------------------------------------------------------
(* The places of the cursors.                                              *)

(* Items are ordered.                                                      *)
LEMMA BeforeAntisymmetric ==
  \A i, j \in Items : Before(i, j) /\ Before(j, i) => i = j
  <1> SUFFICES ASSUME NEW i \in Items, NEW j \in Items, Before(i, j),
                      Before(j, i)
               PROVE  i = j
    OBVIOUS
  <1>1. /\ i[1] \in Nat /\ j[1] \in Nat /\ i[2][1] \in Nat /\ j[2][1] \in Nat
        /\ i[2][2] \in Nat /\ j[2][2] \in Nat
        /\ i = <<i[1], i[2]>> /\ i[2] = <<i[2][1], i[2][2]>>
        /\ j = <<j[1], j[2]>> /\ j[2] = <<j[2][1], j[2][2]>>
    BY ItemTypes
  <1>2. i[1] = j[1] /\ i[2][1] = j[2][1] /\ i[2][2] = j[2][2]
    BY <1>1 DEF Before
  <1> QED
    BY <1>1, <1>2

(* The item a running cursor is at.                                        *)
LEMMA AtItem ==
  ASSUME TypeOK, Roles, Turns, Places, NEW STATE w, w \in Workers,
         pc[w] = "cursor", left[w] # {}
  PROVE  /\ pc[0] \in Round
         /\ Current(w) \in left[w] /\ Current(w) \in Items
         /\ \A j \in left[w] : Before(Current(w), j)
         /\ Batch[Current(w)[1]] = batch /\ Owner(Current(w)) = w
         /\ left[w] \subseteq Own(w)
         /\ \A i \in left[w], j \in Own(w) : Before(i, j) => j \in left[w]
  <1>1. pc[0] \in Round
    BY CursorInRound
  <1>2. left[w] \subseteq Own(w)
        /\ \A i \in left[w], j \in Own(w) : Before(i, j) => j \in left[w]
    BY <1>1 DEF Places, Busy, Funded
  <1>3. /\ Current(w) \in left[w] /\ Current(w) \in Items
        /\ \A j \in left[w] : Before(Current(w), j)
    BY CurrentIsFirst
  <1> QED
    BY <1>1, <1>2, <1>3 DEF Own

(* A cursor that passes its item keeps to the order of its share.          *)
LEMMA PassKeepsOrder ==
  ASSUME TypeOK, Roles, Turns, Places, NEW STATE w, w \in Workers,
         pc[w] = "cursor", left[w] # {}, Passes(w), batch' = batch
  PROVE  /\ left' = [left EXCEPT ![w] = @ \ {Current(w)}]
         /\ \A v \in Workers : v # w => left'[v] = left[v]
         /\ left'[w] = left[w] \ {Current(w)}
         /\ left'[w] \subseteq Own(w)
         /\ \A k \in left'[w], j \in Own(w) : Before(k, j) => j \in left'[w]
  <1>1. left' = [left EXCEPT ![w] = @ \ {Current(w)}]
    BY DEF Passes
  <1>2. left'[w] = left[w] \ {Current(w)}
        /\ \A v \in Workers : v # w => left'[v] = left[v]
    BY <1>1 DEF TypeOK
  <1>3. ASSUME NEW k \in left'[w], NEW j \in Own(w), Before(k, j)
        PROVE  j \in left'[w]
    <2>1. k \in left[w] /\ k # Current(w) /\ k \in Items
      BY <1>2 DEF TypeOK
    <2>2. j \in left[w] /\ Before(Current(w), k) /\ Current(w) \in Items
      BY <1>3, <2>1, AtItem
    <2>3. j # Current(w)
      BY <1>3, <2>1, <2>2, BeforeAntisymmetric
    <2> QED
      BY <1>2, <2>2, <2>3
  <1> QED
    BY <1>1, <1>2, <1>3, AtItem

(* Passing an item keeps the cursors in order.                             *)
LEMMA PassedPlaces ==
  ASSUME TypeOK, Places, pc[0] \in Round, NEW STATE w, w \in Workers, left[w] # {},
         UNCHANGED <<pc, done, batch>>,
         \A v \in Workers : v # w => left'[v] = left[v],
         left'[w] \subseteq Own(w),
         \A k \in left'[w], j \in Own(w) : Before(k, j) => j \in left'[w],
         \A v \in Workers : pending'[v] => v # w /\ pending[v]
  PROVE  Places'
  <1>1. /\ pc'[0] = pc[0] /\ done' = done /\ \A v \in Workers : Own(v)' = Own(v)
        /\ pc[0] \in Busy /\ pc[0] \notin Between
    BY DEF Own, Round, Busy, Funded, Between
  <1>2. /\ \A v \in Workers :
             /\ left[v] \subseteq Own(v)
             /\ \A i \in left[v], j \in Own(v) : Before(i, j) => j \in left[v]
             /\ pending[v] => left[v] # {}
        /\ \A v \in done : left[v] = {}
    BY <1>1 DEF Places
  <1>3. ASSUME NEW v \in Workers
        PROVE  /\ left'[v] \subseteq Own(v)'
               /\ \A i \in left'[v], j \in Own(v)' :
                    Before(i, j) => j \in left'[v]
               /\ pending'[v] => left'[v] # {}
    <2>1. CASE v = w
      BY <1>1, <2>1
    <2>2. CASE v # w
      BY <1>1, <1>2, <2>2
    <2> QED
      BY <2>1, <2>2
  <1>4. \A v \in done' : v # w /\ left[v] = {}
    BY <1>1, <1>2
  <1>5. \A v \in done' : left'[v] = {}
    BY <1>1, <1>4 DEF TypeOK
  <1> QED
    BY <1>1, <1>3, <1>5 DEF Places

(* Every cursor passes its share in order.                                 *)
LEMMA PlacesStep ==
  ASSUME TypeOK, Roles, Turns, Places, Next \/ UNCHANGED vars
  PROVE  Places'
  <1> USE DEF Places, Busy, Funded, Round, Between, Closing, parkVars, lifeVars,
    envVars, cursorVars, callVars
  <1>1. CASE Create
    BY <1>1, CreateMoves, WorkersPeers DEF Create, Moves, Own
  <1>2. CASE Created
    BY <1>2, OwnerMoves DEF Created, Alone, Own
  <1>3. CASE StartFails
    BY <1>3, OwnerMoves DEF StartFails, Alone, Own
  <1>4. CASE Begin
    BY <1>4, OwnerMoves DEF Begin, Alone, Own
  <1>5. CASE Prepare
    <2>1. /\ left' = [w \in Workers |->
                        {i \in Items : Batch[i[1]] = batch' /\ Owner(i) = w}]
          /\ pending' = [w \in Workers |-> FALSE] /\ done' = {}
      BY <1>5 DEF Prepare
    <2>2. pc'[0] = "divide"
      BY <1>5, OwnerMoves DEF Alone
    <2>3. \A w \in Workers : left'[w] = Own(w)'
      BY <2>1 DEF Own
    <2> QED
      BY <2>1, <2>2, <2>3
  <1>6. CASE PrepareFails
    BY <1>6, OwnerMoves DEF PrepareFails, Alone, Own
  <1>7. CASE Succeeds
    BY <1>7, OwnerMoves DEF Succeeds, Alone, Own
  <1>8. CASE Divide
    BY <1>8, OwnerMoves DEF Divide, Alone, Own
  <1>9. CASE BatchDone
    BY <1>9, OwnerMoves DEF BatchDone, Alone, Own
  <1>10. CASE Dispatch
    BY <1>10, OwnerMoves DEF Dispatch, Alone, Own
  <1>11. CASE Notify
    BY <1>11, OwnerMoves DEF Notify, Alone, Own
  <1>12. CASE WaitEnds
    BY <1>12, OwnerMoves DEF WaitEnds, Alone, Own
  <1>13. CASE NextRound
    BY <1>13, OwnerMoves DEF NextRound, Alone, Own
  <1>14. CASE RoundFails
    BY <1>14, OwnerMoves DEF RoundFails, Alone, Own
  <1>15. CASE Destroy
    BY <1>15, OwnerMoves DEF Destroy, Alone, Own
  <1>16. CASE ShutDown
    BY <1>16, OwnerMoves DEF ShutDown, Alone, Own
  <1>17. CASE WakeAll
    BY <1>17, OwnerMoves DEF WakeAll, Alone, Own
  <1>18. CASE Joined
    BY <1>18, OwnerMoves DEF Joined, Alone, Own
  <1>19. CASE WaitPolls
    BY <1>19 DEF WaitPolls, Own
  <1>20. ASSUME NEW w \in Workers, LooksUp(w) PROVE Places'
    <2>1. /\ pc[0] \in Round /\ left[w] # {} /\ ~pending[w]
          /\ UNCHANGED <<pc, done, batch>>
      BY <1>20, CursorInRound DEF LooksUp
    <2>4. \A v \in Workers : Own(v)' = Own(v)
      BY <1>20 DEF LooksUp, Own
    <2>2. CASE Tagged(w)
      <3>1. Passes(w) /\ UNCHANGED pending
        BY <1>20, <2>2 DEF LooksUp
      <3>2. /\ \A v \in Workers : v # w => left'[v] = left[v]
            /\ left'[w] \subseteq Own(w)
            /\ \A k \in left'[w], j \in Own(w) : Before(k, j) => j \in left'[w]
        BY <1>20, <2>1, <3>1, PassKeepsOrder DEF LooksUp
      <3> QED
        BY <2>1, <3>1, <3>2, PassedPlaces
    <2>3. CASE ~Tagged(w)
      <3>1. left' = left /\ \A v \in Workers : v # w => pending'[v] = pending[v]
        BY <1>20, <2>3 DEF LooksUp, TypeOK
      <3> QED
        BY <2>1, <2>4, <3>1
    <2> QED
      BY <2>2, <2>3
  <1>21. ASSUME NEW w \in Workers, Tests(w) PROVE Places'
    <2>1. pc[0] \in Round /\ UNCHANGED <<pc, done, batch>> /\ left[w] # {}
      BY <1>21, CursorInRound DEF Tests
    <2>2. /\ \A v \in Workers : v # w => left'[v] = left[v]
          /\ left'[w] \subseteq Own(w)
          /\ \A k \in left'[w], j \in Own(w) : Before(k, j) => j \in left'[w]
      BY <1>21, <2>1, PassKeepsOrder DEF Tests
    <2>3. \A v \in Workers : pending'[v] => v # w /\ pending[v]
      BY <1>21 DEF Tests, TypeOK
    <2> QED
      BY <2>1, <2>2, <2>3, PassedPlaces
  <1>22. ASSUME NEW w \in Workers, WaitsForFunds(w) PROVE Places'
    BY <1>22, CursorMoves, WorkersPeers DEF WaitsForFunds, Rests, Moves, Own
  <1>23. ASSUME NEW w \in Workers, Finishes(w) PROVE Places'
    BY <1>23, CursorMoves, WorkersPeers DEF Finishes, Rests, Moves, Own
  <1>24. ASSUME NEW w \in Workers, CursorFails(w) PROVE Places'
    BY <1>24, CursorMoves, WorkersPeers DEF CursorFails, Rests, Moves, Own
  <1>25. ASSUME NEW w \in Workers, Interrupts(w) PROVE Places'
    BY <1>25, CursorMoves, WorkersPeers DEF Interrupts, Rests, Moves, Own
  <1>26. ASSUME NEW w \in Peers, Sleeps(w) PROVE Places'
    BY <1>26 DEF Sleeps, Own
  <1>27. ASSUME NEW w \in Peers, Takes(w) PROVE Places'
    BY <1>27, PeerMoves, WorkersPeers DEF Takes, Moves, Own
  <1>28. ASSUME NEW w \in Peers, Reports(w) PROVE Places'
    BY <1>28, PeerMoves, WorkersPeers DEF Reports, Moves, Own
  <1>29. ASSUME NEW w \in Peers, Exits(w) PROVE Places'
    BY <1>29, PeerMoves, WorkersPeers DEF Exits, Moves, Own
  <1>30. CASE Stop \/ Expire \/ UNCHANGED vars
    BY <1>30 DEF Stop, Expire, vars, Own
  <1> QED
    BY <1>1, <1>2, <1>3, <1>4, <1>5, <1>6, <1>7, <1>8, <1>9, <1>10, <1>11,
       <1>12, <1>13, <1>14, <1>15, <1>16, <1>17, <1>18, <1>19, <1>20, <1>21,
       <1>22, <1>23, <1>24, <1>25, <1>26, <1>27, <1>28, <1>29, <1>30
       DEF Next, Construction, Running, Joining, Cursor, Entry

-----------------------------------------------------------------------------
(* What has been passed.                                                   *)

(* The item a cursor is at has not been passed.                            *)
LEMMA AtUnpassed ==
  ASSUME TypeOK, Roles, Turns, Places, Progress, NEW STATE w, w \in Workers,
         pc[w] = "cursor", left[w] # {}
  PROVE  passed[Current(w)] = 0
  BY AtItem DEF Progress, Busy, Funded

(* The items of a cell are passed by one cursor in the order of the faces. *)
LEMMA EarlierPassed ==
  ASSUME TypeOK, Roles, Turns, Places, Progress, NEW STATE w, w \in Workers,
         pc[w] = "cursor", left[w] # {}, NEW STATE j, j \in Items,
         j[2] = Current(w)[2], j[1] < Current(w)[1]
  PROVE  passed[j] = 1
  <1>1. PICK i \in Items : i = Current(w)
    BY AtItem
  <1>2. /\ Batch[i[1]] = batch /\ Owner(i) = w /\ i[1] \in Nat /\ i[1] \in Faces
        /\ j[1] \in Nat /\ j[1] \in Faces
    BY <1>1, AtItem, ItemTypes
  <1>3. Batch[j[1]] <= batch /\ Owner(j) = w
    BY <1>1, <1>2, RasterAssumption DEF Owner
  <1>4. j \notin left[w]
    <2>1. ~Before(i, j)
      BY <1>1, <1>2 DEF Before
    <2> QED
      BY <1>1, <2>1, AtItem
  <1> QED
    BY <1>3, <1>4, AtItem DEF Progress, Busy, Funded

(* In the cell of a cursor no later face was looked up.                    *)
LEMMA LaterUnpassed ==
  ASSUME TypeOK, Roles, Turns, Places, Progress, NEW STATE w, w \in Workers,
         pc[w] = "cursor", left[w] # {}, NEW STATE j, j \in Items,
         j[2] = Current(w)[2], ~(j[1] < Current(w)[1])
  PROVE  passed[j] = 0
  <1>1. PICK i \in Items : i = Current(w)
    BY AtItem
  <1>2. /\ Batch[i[1]] = batch /\ Owner(i) = w /\ i[1] \in Nat /\ i[1] \in Faces
        /\ j[1] \in Nat /\ j[1] \in Faces /\ batch \in Nat
        /\ Batch[j[1]] \in Nat /\ pc[0] \in Busy
        /\ i[2][1] \in Nat /\ i[2][2] \in Nat
    BY <1>1, AtItem, ItemTypes, RasterAssumption DEF TypeOK, Busy, Funded
  <1>3. Owner(j) = w /\ i[1] <= j[1]
    BY <1>1, <1>2 DEF Owner
  <1>4. batch <= Batch[j[1]]
    BY <1>2, <1>3, RasterAssumption
  <1>5. CASE batch < Batch[j[1]]
    BY <1>2, <1>5 DEF Progress
  <1>6. CASE batch = Batch[j[1]]
    <2>1. Before(i, j) /\ j \in Own(w)
      BY <1>1, <1>2, <1>3, <1>6 DEF Before, Own
    <2>2. j \in left[w]
      BY <1>1, <2>1, AtItem
    <2> QED
      BY <1>2, <1>3, <2>2 DEF Progress
  <1> QED
    BY <1>2, <1>4, <1>5, <1>6

(* A test is due exactly when a raster by one thread would make it.        *)
LEMMA DueTest ==
  ASSUME TypeOK, Roles, Turns, Places, Progress, NEW STATE w, w \in Workers,
         pc[w] = "cursor", left[w] # {}
  PROVE  Tagged(w) <=> Current(w) \notin TestsNeeded
  <1>1. PICK i \in Items : i = Current(w)
    BY AtItem
  <1>2. i[2] \in Cells /\ LookupWork \in Nat /\ pc[0] \in Busy
    BY ItemTypes, RasterAssumption, AtItem DEF Busy, Funded
  <1>3. i[2] \in boundary <=>
          \E j \in Items : passed[j] = 1 /\ j[2] = i[2] /\ i[2] \in Touch[j[1]]
    BY <1>2 DEF Progress
  <1>4. \A j \in Items : j[2] = i[2] => (passed[j] = 1 <=> j[1] < i[1])
    BY <1>1, EarlierPassed, LaterUnpassed
  <1>5. i[2] \in boundary <=>
          \E j \in Items : j[2] = i[2] /\ j[1] < i[1] /\ i[2] \in Touch[j[1]]
    BY <1>3, <1>4
  <1>6. i \in TestsNeeded <=>
          \/ LookupWork = 0
          \/ ~\E j \in Items : j[2] = i[2] /\ j[1] < i[1] /\ i[2] \in Touch[j[1]]
    BY DEF TestsNeeded
  <1> QED
    BY <1>1, <1>2, <1>5, <1>6 DEF Tagged

(* Steps that move no cursor keep the progress.                            *)
LEMMA ProgressKept ==
  ASSUME Progress, pc'[0] \in Busy => pc[0] \in Busy,
         UNCHANGED <<passed, left, batch, boundary, pending>>
  PROVE  Progress'
  <1>1. \A v \in Workers : Current(v)' = Current(v)
    BY DEF Current
  <1> QED
    BY <1>1 DEF Progress

(* A cursor passes its item: it counts as passed, no other does.           *)
LEMMA PassCounts ==
  ASSUME TypeOK, Roles, Turns, Places, Progress, NEW STATE w, w \in Workers,
         pc[w] = "cursor", left[w] # {}, Passes(w), UNCHANGED <<pc, batch>>
  PROVE  /\ passed'[Current(w)] = 1
         /\ \A i \in Items : i # Current(w) => passed'[i] = passed[i]
         /\ \A i \in Items :
              passed'[i] = IF Batch[i[1]] <= batch /\ i \notin left'[Owner(i)]
                           THEN 1 ELSE 0
  <1>1. PICK k \in Items : k = Current(w)
    BY AtItem
  <1>2. /\ passed' = [passed EXCEPT ![k] = @ + 1]
        /\ left' = [left EXCEPT ![w] = @ \ {k}]
        /\ passed[k] = 0 /\ Owner(k) = w /\ Batch[k[1]] = batch /\ batch \in Nat
        /\ pc[0] \in Busy
    BY <1>1, AtUnpassed, AtItem DEF Passes, TypeOK, Busy, Funded
  <1>3. passed'[k] = 1 /\ \A i \in Items : i # k => passed'[i] = passed[i]
    BY <1>2 DEF TypeOK
  <1>4. /\ left'[w] = left[w] \ {k}
        /\ \A v \in Workers : v # w => left'[v] = left[v]
    BY <1>2 DEF TypeOK
  <1>5. ASSUME NEW i \in Items
        PROVE  passed'[i] = IF Batch[i[1]] <= batch /\ i \notin left'[Owner(i)]
                            THEN 1 ELSE 0
    <2>1. CASE i = k
      BY <1>2, <1>3, <1>4, <2>1
    <2>2. CASE i # k
      <3>1. Owner(i) \in Workers
        BY OwnerType
      <3>2. i \in left'[Owner(i)] <=> i \in left[Owner(i)]
        BY <1>4, <2>2, <3>1
      <3>3. passed[i] = IF Batch[i[1]] <= batch /\ i \notin left[Owner(i)]
                        THEN 1 ELSE 0
        BY <1>2 DEF Progress
      <3> QED
        BY <1>3, <2>2, <3>2, <3>3
    <2> QED
      BY <2>1, <2>2
  <1> QED
    BY <1>1, <1>3, <1>5

(* Every item is passed once, in the order that one thread would tag.      *)
LEMMA ProgressStep ==
  ASSUME TypeOK, Roles, Turns, Places, Progress, Next \/ UNCHANGED vars
  PROVE  Progress'
  <1> USE DEF Busy, Funded, Round, Closing, parkVars, lifeVars, envVars, cursorVars,
    callVars
  <1>1. CASE Create
    BY <1>1, CreateMoves, WorkersPeers, ProgressKept DEF Create, Moves
  <1>2. CASE Created
    BY <1>2, OwnerMoves, ProgressKept DEF Created, Alone
  <1>3. CASE StartFails
    BY <1>3, OwnerMoves, ProgressKept DEF StartFails, Alone
  <1>4. CASE Begin
    <2>1. /\ passed' = [i \in Items |-> 0] /\ batch' = 0 /\ boundary' = {}
          /\ pending' = pending
          /\ \A v \in Workers : ~pending[v]
      BY <1>4 DEF Begin, Places, Between
    <2>2. \A i \in Items : Batch[i[1]] \in Nat \ {0}
      BY ItemTypes, RasterAssumption
    <2> QED
      BY <2>1, <2>2 DEF Progress
  <1>5. CASE Prepare
    <2>1. /\ left' = [v \in Workers |->
                        {i \in Items : Batch[i[1]] = batch + 1 /\ Owner(i) = v}]
          /\ pending' = [v \in Workers |-> FALSE] /\ batch' = batch + 1
          /\ boundary' = boundary /\ passed' = passed
          /\ \A v \in Workers : left[v] = {}
      BY <1>5 DEF Prepare, Places, Between
    <2>2. \A i \in Items : Batch[i[1]] \in Nat /\ Owner(i) \in Workers
      BY ItemTypes, OwnerType, RasterAssumption
    <2>3. batch \in Nat /\ pc[0] \in Busy
      BY <1>5 DEF TypeOK, Prepare
    <2>4. \A i \in Items : passed[i] = IF Batch[i[1]] <= batch THEN 1 ELSE 0
      BY <2>1, <2>2, <2>3 DEF Progress
    <2>5. ASSUME NEW i \in Items
          PROVE  passed'[i] = IF Batch[i[1]] <= batch' /\ i \notin left'[Owner(i)]
                              THEN 1 ELSE 0
      <3>1. i \in left'[Owner(i)] <=> Batch[i[1]] = batch + 1
        BY <2>1, <2>2
      <3> QED
        BY <2>1, <2>2, <2>3, <2>4, <3>1
    <2>6. \A c \in Cells :
            c \in boundary' <=> \E i \in Items : /\ passed'[i] = 1 /\ i[2] = c
                                                /\ c \in Touch[i[1]]
      BY <2>1, <2>3 DEF Progress
    <2> QED
      BY <2>1, <2>5, <2>6 DEF Progress
  <1>6. CASE PrepareFails
    BY <1>6, OwnerMoves, ProgressKept DEF PrepareFails, Alone
  <1>7. CASE Succeeds
    BY <1>7, OwnerMoves, ProgressKept DEF Succeeds, Alone
  <1>8. CASE Divide
    BY <1>8, OwnerMoves, ProgressKept DEF Divide, Alone
  <1>9. CASE BatchDone
    BY <1>9, OwnerMoves, ProgressKept DEF BatchDone, Alone
  <1>10. CASE Dispatch
    BY <1>10, OwnerMoves, ProgressKept DEF Dispatch, Alone
  <1>11. CASE Notify
    BY <1>11, OwnerMoves, ProgressKept DEF Notify, Alone
  <1>12. CASE WaitEnds
    BY <1>12, OwnerMoves, ProgressKept DEF WaitEnds, Alone
  <1>13. CASE NextRound
    BY <1>13, OwnerMoves, ProgressKept DEF NextRound, Alone
  <1>14. CASE RoundFails
    BY <1>14, OwnerMoves, ProgressKept DEF RoundFails, Alone
  <1>15. CASE Destroy
    BY <1>15, OwnerMoves, ProgressKept DEF Destroy, Alone
  <1>16. CASE ShutDown
    BY <1>16, OwnerMoves, ProgressKept DEF ShutDown, Alone
  <1>17. CASE WakeAll
    BY <1>17, OwnerMoves, ProgressKept DEF WakeAll, Alone
  <1>18. CASE Joined
    BY <1>18, OwnerMoves, ProgressKept DEF Joined, Alone
  <1>19. CASE WaitPolls
    BY <1>19, ProgressKept DEF WaitPolls
  <1>20. ASSUME NEW w \in Workers, LooksUp(w) PROVE Progress'
    <2>1. /\ pc[w] = "cursor" /\ left[w] # {} /\ ~pending[w]
          /\ UNCHANGED <<pc, batch, boundary>>
      BY <1>20 DEF LooksUp
    <2>2. pc[0] \in Busy
      BY <2>1, CursorInRound
    <2>3. CASE Tagged(w)
      <3>1. Passes(w) /\ pending' = pending
        BY <1>20, <2>3 DEF LooksUp
      <3>2. /\ passed'[Current(w)] = 1
            /\ \A i \in Items : i # Current(w) => passed'[i] = passed[i]
            /\ \A i \in Items :
                 passed'[i] = IF Batch[i[1]] <= batch /\ i \notin left'[Owner(i)]
                              THEN 1 ELSE 0
        BY <2>1, <3>1, PassCounts
      <3>3. ASSUME NEW c \in Cells
            PROVE  c \in boundary' <=>
                     \E i \in Items : /\ passed'[i] = 1 /\ i[2] = c
                                      /\ c \in Touch[i[1]]
        <4>1. c \in boundary <=>
                \E i \in Items : passed[i] = 1 /\ i[2] = c /\ c \in Touch[i[1]]
          BY <2>2 DEF Progress
        <4>2. passed[Current(w)] = 0 /\ Current(w)[2] \in boundary
          BY <2>1, <2>3, AtUnpassed DEF Tagged
        <4>3. ASSUME c \in boundary
              PROVE  \E i \in Items : passed'[i] = 1 /\ i[2] = c /\ c \in Touch[i[1]]
          BY <4>1, <4>2, <4>3, <3>2
        <4>4. ASSUME NEW i \in Items, passed'[i] = 1, i[2] = c, c \in Touch[i[1]]
              PROVE  c \in boundary
          BY <4>1, <4>2, <4>4, <3>2
        <4> QED
          BY <2>1, <4>3, <4>4
      <3>4. ASSUME NEW v \in Workers, pending'[v] PROVE Current(v)' \in TestsNeeded
        <4>1. v # w /\ pending[v]
          BY <2>1, <3>1, <3>4
        <4>2. left'[v] = left[v]
          BY <4>1, <3>1 DEF Passes, TypeOK
        <4> QED
          BY <4>1, <4>2, <2>2 DEF Current, Progress
      <3> QED
        BY <2>1, <3>2, <3>3, <3>4 DEF Progress
    <2>4. CASE ~Tagged(w)
      <3>1. UNCHANGED <<left, passed>>
            /\ \A v \in Workers : v # w => pending'[v] = pending[v]
        BY <1>20, <2>4 DEF LooksUp, TypeOK
      <3>2. Current(w) \in TestsNeeded
        BY <2>1, <2>4, DueTest
      <3>3. \A v \in Workers : Current(v)' = Current(v)
        BY <3>1 DEF Current
      <3> QED
        BY <2>1, <2>2, <3>1, <3>2, <3>3 DEF Progress
    <2> QED
      BY <2>3, <2>4
  <1>21. ASSUME NEW w \in Workers, Tests(w) PROVE Progress'
    <2>1. /\ pc[w] = "cursor" /\ left[w] # {} /\ pending[w] /\ Passes(w)
          /\ UNCHANGED <<pc, batch>>
      BY <1>21 DEF Tests
    <2>2. pc[0] \in Busy
      BY <2>1, CursorInRound
    <2>3. /\ passed'[Current(w)] = 1
          /\ \A i \in Items : i # Current(w) => passed'[i] = passed[i]
          /\ \A i \in Items :
               passed'[i] = IF Batch[i[1]] <= batch /\ i \notin left'[Owner(i)]
                            THEN 1 ELSE 0
      BY <2>1, PassCounts
    <2>4. PICK k \in Items : k = Current(w) /\ passed[k] = 0
      BY <2>1, AtItem, AtUnpassed
    <2>5. boundary' = IF k[2] \in Touch[k[1]] THEN boundary \cup {k[2]}
                      ELSE boundary
      BY <1>21, <2>4 DEF Tests
    <2>6. ASSUME NEW c \in Cells
          PROVE  c \in boundary' <=>
                   \E i \in Items : /\ passed'[i] = 1 /\ i[2] = c
                                    /\ c \in Touch[i[1]]
      <3>1. c \in boundary <=>
              \E i \in Items : passed[i] = 1 /\ i[2] = c /\ c \in Touch[i[1]]
        BY <2>2 DEF Progress
      <3>2. passed'[k] = 1 /\ \A i \in Items : i # k => passed'[i] = passed[i]
        BY <2>3, <2>4
      <3>3. ASSUME c \in boundary'
            PROVE  \E i \in Items : passed'[i] = 1 /\ i[2] = c /\ c \in Touch[i[1]]
        <4>1. CASE c \in boundary
          BY <4>1, <3>1, <3>2, <2>4
        <4>2. CASE c = k[2] /\ k[2] \in Touch[k[1]]
          BY <4>2, <3>2
        <4> QED
          BY <3>3, <4>1, <4>2, <2>5
      <3>4. ASSUME NEW i \in Items, passed'[i] = 1, i[2] = c, c \in Touch[i[1]]
            PROVE  c \in boundary'
        <4>1. CASE i = k
          BY <4>1, <3>4, <2>5
        <4>2. CASE i # k
          BY <4>2, <3>4, <3>1, <3>2, <2>5
        <4> QED
          BY <4>1, <4>2
      <3> QED
        BY <3>3, <3>4
    <2>7. ASSUME NEW v \in Workers, pending'[v] PROVE Current(v)' \in TestsNeeded
      <3>1. v # w /\ pending[v]
        BY <1>21, <2>7 DEF Tests, TypeOK
      <3>2. left'[v] = left[v]
        BY <2>1, <3>1 DEF Passes, TypeOK
      <3> QED
        BY <3>1, <3>2, <2>2 DEF Current, Progress
    <2> QED
      BY <2>1, <2>3, <2>6, <2>7 DEF Progress
  <1>22. ASSUME NEW w \in Workers, WaitsForFunds(w) PROVE Progress'
    BY <1>22, CursorMoves, WorkersPeers, ProgressKept
       DEF WaitsForFunds, Rests, Moves
  <1>23. ASSUME NEW w \in Workers, Finishes(w) PROVE Progress'
    BY <1>23, CursorMoves, WorkersPeers, ProgressKept
       DEF Finishes, Rests, Moves
  <1>24. ASSUME NEW w \in Workers, CursorFails(w) PROVE Progress'
    BY <1>24, CursorMoves, WorkersPeers, ProgressKept
       DEF CursorFails, Rests, Moves
  <1>25. ASSUME NEW w \in Workers, Interrupts(w) PROVE Progress'
    BY <1>25, CursorMoves, WorkersPeers, ProgressKept
       DEF Interrupts, Rests, Moves
  <1>26. ASSUME NEW w \in Peers, Sleeps(w) PROVE Progress'
    BY <1>26, ProgressKept DEF Sleeps
  <1>27. ASSUME NEW w \in Peers, Takes(w) PROVE Progress'
    BY <1>27, PeerMoves, WorkersPeers, ProgressKept DEF Takes, Moves
  <1>28. ASSUME NEW w \in Peers, Reports(w) PROVE Progress'
    BY <1>28, PeerMoves, WorkersPeers, ProgressKept DEF Reports, Moves
  <1>29. ASSUME NEW w \in Peers, Exits(w) PROVE Progress'
    BY <1>29, PeerMoves, WorkersPeers, ProgressKept DEF Exits, Moves
  <1>30. CASE Stop \/ Expire \/ UNCHANGED vars
    BY <1>30, ProgressKept DEF Stop, Expire, vars
  <1> QED
    BY <1>1, <1>2, <1>3, <1>4, <1>5, <1>6, <1>7, <1>8, <1>9, <1>10, <1>11,
       <1>12, <1>13, <1>14, <1>15, <1>16, <1>17, <1>18, <1>19, <1>20, <1>21,
       <1>22, <1>23, <1>24, <1>25, <1>26, <1>27, <1>28, <1>29, <1>30
       DEF Next, Construction, Running, Joining, Cursor, Entry

-----------------------------------------------------------------------------
(* What a cursor waits for.                                                *)

(* A cursor that rests says what it waits for.                             *)
LEMMA WaitingStep ==
  ASSUME TypeOK, Roles, Turns, Waiting, Next \/ UNCHANGED vars
  PROVE  Waiting'
  <1> USE DEF Waiting, Over, NextPrimitive, Round, Funded, Busy, Closing, parkVars,
    lifeVars, envVars, cursorVars, callVars
  <1>1. CASE Create
    BY <1>1, CreateMoves, WorkersPeers DEF Create, Moves
  <1>2. CASE Created
    BY <1>2, OwnerMoves, WorkersPeers DEF Created, Alone
  <1>3. CASE StartFails
    BY <1>3, OwnerMoves, WorkersPeers DEF StartFails, Alone
  <1>4. CASE Begin
    BY <1>4, OwnerMoves, WorkersPeers DEF Begin, Alone
  <1>5. CASE Prepare
    BY <1>5, OwnerMoves, WorkersPeers DEF Prepare, Alone
  <1>6. CASE PrepareFails
    BY <1>6, OwnerMoves, WorkersPeers DEF PrepareFails, Alone
  <1>7. CASE Succeeds
    BY <1>7, OwnerMoves, WorkersPeers DEF Succeeds, Alone
  <1>8. CASE Divide
    BY <1>8, OwnerMoves, WorkersPeers DEF Divide, Alone
  <1>9. CASE BatchDone
    BY <1>9, OwnerMoves, WorkersPeers DEF BatchDone, Alone
  <1>10. CASE Dispatch
    <2>1. generation' # generation /\ seen' = seen /\ pc[0] = "dispatch"
      BY <1>10, NextGeneration DEF Dispatch
    <2>2. \A v \in Peers : seen'[v] # generation'
      BY <2>1 DEF Turns
    <2> QED
      BY <1>10, <2>2, OwnerMoves, WorkersPeers DEF Alone
  <1>11. CASE Notify
    BY <1>11, OwnerMoves, WorkersPeers DEF Notify, Alone
  <1>12. CASE WaitEnds
    BY <1>12, OwnerMoves, WorkersPeers DEF WaitEnds, Alone
  <1>13. CASE NextRound
    BY <1>13, OwnerMoves, WorkersPeers DEF NextRound, Alone
  <1>14. CASE RoundFails
    BY <1>14, OwnerMoves, WorkersPeers DEF RoundFails, Alone
  <1>15. CASE Destroy
    BY <1>15, OwnerMoves, WorkersPeers DEF Destroy, Alone
  <1>16. CASE ShutDown
    BY <1>16, OwnerMoves, WorkersPeers DEF ShutDown, Alone
  <1>17. CASE WakeAll
    BY <1>17, OwnerMoves, WorkersPeers DEF WakeAll, Alone
  <1>18. CASE Joined
    BY <1>18, OwnerMoves, WorkersPeers DEF Joined, Alone
  <1>19. CASE WaitPolls
    BY <1>19, WorkersPeers DEF WaitPolls
  <1>20. ASSUME NEW w \in Workers, LooksUp(w) PROVE Waiting'
    <2>1. pc[0] \in Round /\ ~Over(w)' /\ UNCHANGED <<pc, seen, generation, done,
                                                      abort, stopped>>
      BY <1>20, CursorInRound, WorkersPeers DEF LooksUp
    <2>2. \A v \in Workers : v # w => /\ left'[v] = left[v] /\ need'[v] = need[v]
                                     /\ pending'[v] = pending[v]
      BY <1>20 DEF LooksUp, Passes, Spends, TypeOK
    <2> QED
      BY <2>1, <2>2
  <1>21. ASSUME NEW w \in Workers, Tests(w) PROVE Waiting'
    <2>1. pc[0] \in Round /\ ~Over(w)' /\ UNCHANGED <<pc, seen, generation, done,
                                                      abort, stopped>>
      BY <1>21, CursorInRound, WorkersPeers DEF Tests
    <2>2. \A v \in Workers : v # w => /\ left'[v] = left[v] /\ need'[v] = need[v]
                                     /\ pending'[v] = pending[v]
      BY <1>21 DEF Tests, Passes, Spends, TypeOK
    <2> QED
      BY <2>1, <2>2
  <1>22. ASSUME NEW w \in Workers, WaitsForFunds(w) PROVE Waiting'
    <2>1. Rests(w) /\ pc[0] \in Round
      BY <1>22, CursorMoves, CursorInRound DEF WaitsForFunds
    <2>2. \A v \in Workers : v # w => (Over(v)' => Over(v))
      BY <1>22, <2>1, WorkersPeers DEF WaitsForFunds, Rests, Moves
    <2>3. \A v \in Workers : v # w => /\ left'[v] = left[v] /\ need'[v] = need[v]
                                     /\ pending'[v] = pending[v]
      BY <1>22 DEF WaitsForFunds, TypeOK
    <2>4. done \subseteq done' /\ (abort => abort') /\ stopped' = stopped
      BY <1>22 DEF WaitsForFunds
    <2>5. left'[w] # {} /\ need'[w] = NextPrimitive(w)'
      BY <1>22 DEF WaitsForFunds, TypeOK
    <2> QED
      BY <2>2, <2>3, <2>4, <2>5
  <1>23. ASSUME NEW w \in Workers, Finishes(w) PROVE Waiting'
    <2>1. Rests(w) /\ pc[0] \in Round
      BY <1>23, CursorMoves, CursorInRound DEF Finishes
    <2>2. \A v \in Workers : v # w => (Over(v)' => Over(v))
      BY <1>23, <2>1, WorkersPeers DEF Finishes, Rests, Moves
    <2>3. \A v \in Workers : v # w => /\ left'[v] = left[v] /\ need'[v] = need[v]
                                     /\ pending'[v] = pending[v]
      BY <1>23 DEF Finishes, TypeOK
    <2>4. done \subseteq done' /\ (abort => abort') /\ stopped' = stopped
      BY <1>23 DEF Finishes
    <2>5. w \in done'
      BY <1>23 DEF Finishes, TypeOK
    <2> QED
      BY <2>2, <2>3, <2>4, <2>5
  <1>24. ASSUME NEW w \in Workers, CursorFails(w) PROVE Waiting'
    <2>1. Rests(w) /\ pc[0] \in Round
      BY <1>24, CursorMoves, CursorInRound DEF CursorFails
    <2>2. \A v \in Workers : v # w => (Over(v)' => Over(v))
      BY <1>24, <2>1, WorkersPeers DEF CursorFails, Rests, Moves
    <2>3. \A v \in Workers : v # w => /\ left'[v] = left[v] /\ need'[v] = need[v]
                                     /\ pending'[v] = pending[v]
      BY <1>24 DEF CursorFails, TypeOK
    <2>4. done \subseteq done' /\ (abort => abort') /\ stopped' = stopped
      BY <1>24 DEF CursorFails
    <2>5. abort'
      BY <1>24 DEF CursorFails, TypeOK
    <2> QED
      BY <2>2, <2>3, <2>4, <2>5
  <1>25. ASSUME NEW w \in Workers, Interrupts(w) PROVE Waiting'
    <2>1. Rests(w) /\ pc[0] \in Round
      BY <1>25, CursorMoves, CursorInRound DEF Interrupts
    <2>2. \A v \in Workers : v # w => (Over(v)' => Over(v))
      BY <1>25, <2>1, WorkersPeers DEF Interrupts, Rests, Moves
    <2>3. \A v \in Workers : v # w => /\ left'[v] = left[v] /\ need'[v] = need[v]
                                     /\ pending'[v] = pending[v]
      BY <1>25 DEF Interrupts, TypeOK
    <2>4. done \subseteq done' /\ (abort => abort') /\ stopped' = stopped
      BY <1>25 DEF Interrupts
    <2>5. abort' \/ stopped'
      BY <1>25 DEF Interrupts, Interrupted
    <2> QED
      BY <2>2, <2>3, <2>4, <2>5
  <1>26. ASSUME NEW w \in Peers, Sleeps(w) PROVE Waiting'
    BY <1>26, WorkersPeers DEF Sleeps
  <1>27. ASSUME NEW w \in Peers, Takes(w) PROVE Waiting'
    <2>1. /\ pc'[w] = "cursor" /\ pc'[0] = pc[0] /\ w # 0 /\ w \in Workers
          /\ \A v \in Workers : v # w => pc'[v] = pc[v]
      BY <1>27, PeerMoves, WorkersPeers DEF Takes, Moves
    <2>2. /\ \A v \in Peers : v # w => seen'[v] = seen[v]
          /\ generation' = generation
      BY <1>27 DEF Takes, TypeOK
    <2>3. \A v \in Workers : Over(v)' => Over(v)
      BY <2>1, <2>2, WorkersPeers
    <2>4. UNCHANGED <<left, need, pending, done, abort, stopped>>
      BY <1>27 DEF Takes
    <2> QED
      BY <2>3, <2>4
  <1>28. ASSUME NEW w \in Peers, Reports(w) PROVE Waiting'
    BY <1>28, PeerMoves, WorkersPeers DEF Reports, Moves
  <1>29. ASSUME NEW w \in Peers, Exits(w) PROVE Waiting'
    BY <1>29, PeerMoves, WorkersPeers DEF Exits, Moves
  <1>30. CASE Stop \/ Expire \/ UNCHANGED vars
    BY <1>30 DEF Stop, Expire, vars
  <1> QED
    BY <1>1, <1>2, <1>3, <1>4, <1>5, <1>6, <1>7, <1>8, <1>9, <1>10, <1>11,
       <1>12, <1>13, <1>14, <1>15, <1>16, <1>17, <1>18, <1>19, <1>20, <1>21,
       <1>22, <1>23, <1>24, <1>25, <1>26, <1>27, <1>28, <1>29, <1>30
       DEF Next, Construction, Running, Joining, Cursor, Entry

-----------------------------------------------------------------------------
(* The books.                                                              *)

(* There are finitely many items.                                          *)
LEMMA ItemsFinite == IsFiniteSet(Items)
  <1> DEFINE T == {{f} \X Box[f] : f \in Faces}
             g == [f \in Faces |-> {f} \X Box[f]]
  <1>1. g \in Surjection(Faces, T)
    BY DEF Surjection
  <1>2. IsFiniteSet(Faces) /\ \A f \in Faces : IsFiniteSet(Box[f])
    BY RasterAssumption
  <1>3. IsFiniteSet(T)
    BY <1>1, <1>2, FS_Surjection
  <1>4. \A f \in Faces : IsFiniteSet({f} \X Box[f])
    BY <1>2, FS_Singleton, FS_Product
  <1>5. \A S \in T : IsFiniteSet(S)
    BY <1>4
  <1> HIDE DEF T
  <1>6. IsFiniteSet(UNION T)
    BY <1>3, <1>5, FS_UNION
  <1> QED
    BY <1>6 DEF Items, T

(* Sets of faces and sets of items can be counted.                         *)
LEMMA Finite ==
  /\ \A D \in SUBSET Faces : IsFiniteSet(D) /\ Cardinality(D) \in Nat
  /\ \A L \in SUBSET Items : IsFiniteSet(L) /\ Cardinality(L) \in Nat
  <1>1. IsFiniteSet(Faces)
    BY RasterAssumption
  <1> QED
    BY <1>1, ItemsFinite, FS_Subset, FS_CardinalityType

(* What was described, looked up and tested.                               *)
LEMMA UsedSets ==
  /\ Described \in SUBSET Faces /\ Looked \in SUBSET Items
  /\ Tested \in SUBSET Items /\ Tested \in SUBSET TestsNeeded
  /\ TestsNeeded \in SUBSET Items
  BY DEF Described, Looked, Tested, TestsNeeded

(* The cost of describing d faces, looking n cells up and testing m.       *)
CostOf(d, n, m) == Cost(FaceWork * d + LookupWork * n + TestWork * m, n)

(* The cost grows by what each step adds.                                  *)
LEMMA CostGrows ==
  ASSUME NEW d \in Nat, NEW n \in Nat, NEW m \in Nat, NEW e \in Nat
  PROVE  /\ CostOf(d, n, m) \in Costs
         /\ CostOf(d, n + 1, m) = Plus(CostOf(d, n, m), Lookup)
         /\ CostOf(d, n, m + 1) = Plus(CostOf(d, n, m), Test)
         /\ CostOf(d + e, n, m) = Plus(CostOf(d, n, m), Cost(FaceWork * e, 0))
         /\ FaceWork * e \in Nat
         /\ CostOf(0, 0, 0) = None
  <1>1. FaceWork \in Nat /\ LookupWork \in Nat /\ TestWork \in Nat
    BY RasterAssumption
  <1>2. /\ FaceWork * d \in Nat /\ LookupWork * n \in Nat /\ TestWork * m \in Nat
        /\ FaceWork * e \in Nat
    BY <1>1
  <1>3. /\ LookupWork * (n + 1) = LookupWork * n + LookupWork
        /\ TestWork * (m + 1) = TestWork * m + TestWork
        /\ FaceWork * (d + e) = FaceWork * d + FaceWork * e
        /\ FaceWork * 0 = 0 /\ LookupWork * 0 = 0 /\ TestWork * 0 = 0
    BY <1>1
  <1>4. CostOf(d, n, m) \in Costs
    BY <1>2 DEF CostOf, Cost, Costs
  <1>5. CostOf(d, n + 1, m) = Plus(CostOf(d, n, m), Lookup)
    BY <1>1, <1>2, <1>3 DEF CostOf, Cost, Plus, Lookup
  <1>6. CostOf(d, n, m + 1) = Plus(CostOf(d, n, m), Test)
    BY <1>1, <1>2, <1>3 DEF CostOf, Cost, Plus, Test
  <1>7. CostOf(d + e, n, m) = Plus(CostOf(d, n, m), Cost(FaceWork * e, 0))
    BY <1>1, <1>2, <1>3 DEF CostOf, Cost, Plus
  <1>8. CostOf(0, 0, 0) = None
    BY <1>3 DEF CostOf, Cost, None
  <1> QED
    BY <1>2, <1>4, <1>5, <1>6, <1>7, <1>8

(* Who does more pays more.                                                *)
LEMMA CostMonotone ==
  ASSUME NEW d \in Nat, NEW n \in Nat, NEW m \in Nat,
         NEW D \in Nat, NEW N \in Nat, NEW M \in Nat,
         d <= D, n <= N, m <= M
  PROVE  Fits(CostOf(d, n, m), CostOf(D, N, M))
  <1>1. FaceWork \in Nat /\ LookupWork \in Nat /\ TestWork \in Nat
    BY RasterAssumption
  <1>2. \A k, a, b \in Nat : a <= b => k * a \in Nat /\ k * b \in Nat /\ k * a <= k * b
    <2> SUFFICES ASSUME NEW k \in Nat, NEW a \in Nat, NEW b \in Nat, a <= b
                 PROVE  k * a \in Nat /\ k * b \in Nat /\ k * a <= k * b
      OBVIOUS
    <2> QED
      OBVIOUS
  <1>3. /\ FaceWork * d \in Nat /\ FaceWork * D \in Nat
        /\ FaceWork * d <= FaceWork * D
    BY <1>1, <1>2
  <1>4. /\ LookupWork * n \in Nat /\ LookupWork * N \in Nat
        /\ LookupWork * n <= LookupWork * N
    BY <1>1, <1>2
  <1>5. /\ TestWork * m \in Nat /\ TestWork * M \in Nat
        /\ TestWork * m <= TestWork * M
    BY <1>1, <1>2
  <1> QED
    BY <1>3, <1>4, <1>5 DEF CostOf, Cost, Fits

Looks == Cardinality(Looked)

(* The work used, as counts.                                               *)
LEMMA UsedIs ==
  /\ Used = CostOf(Cardinality(Described), Looks, Cardinality(Tested))
  /\ Cardinality(Described) \in Nat /\ Looks \in Nat
  /\ Cardinality(Tested) \in Nat /\ Used \in Costs
  <1>1. /\ Cardinality(Described) \in Nat /\ Looks \in Nat
        /\ Cardinality(Tested) \in Nat
    BY Finite, UsedSets DEF Looks
  <1>2. Used = CostOf(Cardinality(Described), Looks, Cardinality(Tested))
    BY DEF Used, CostOf, Looks
  <1> QED
    BY <1>1, <1>2, CostGrows

(* The work of one thread, as counts.                                      *)
LEMMA SerialIs ==
  /\ SerialNeed = CostOf(Cardinality(Faces), Cardinality(Items),
                         Cardinality(TestsNeeded))
  /\ Cardinality(Faces) \in Nat /\ Cardinality(Items) \in Nat
  /\ Cardinality(TestsNeeded) \in Nat /\ SerialNeed \in Costs
  <1>1. /\ Cardinality(Faces) \in Nat /\ Cardinality(Items) \in Nat
        /\ Cardinality(TestsNeeded) \in Nat
    BY Finite, UsedSets
  <1>2. SerialNeed = CostOf(Cardinality(Faces), Cardinality(Items),
                            Cardinality(TestsNeeded))
    BY DEF SerialNeed, CostOf
  <1> QED
    BY <1>1, <1>2, CostGrows

(* Only passing an item and describing a batch use work.                   *)
LEMMA UsedKept ==
  ASSUME UNCHANGED <<passed, pending, left, batch>>
  PROVE  Used' = Used
  <1>1. Described' = Described /\ Tested' = Tested
    BY DEF Described, Tested
  <1>2. \A v \in Workers : Current(v)' = Current(v)
    BY DEF Current
  <1>3. Looked' = Looked
    BY <1>2, OwnerType DEF Looked
  <1> QED
    BY <1>1, <1>3 DEF Used

(* Steps that use no work keep the books.                                  *)
LEMMA LedgerKept ==
  ASSUME Ledger, UNCHANGED <<passed, pending, left, batch, budget, limits, spent>>,
         pc'[0] \in Busy => /\ pc[0] \in Busy
                            /\ pc'[0] \in Funded <=> pc[0] \in Funded
  PROVE  Ledger'
  BY UsedKept DEF Ledger

(* A primitive that is spent shows in both columns of the books.           *)
LEMMA LedgerSpends ==
  ASSUME TypeOK, Ledger, Funds, pc[0] \in Funded, NEW STATE w, w \in Workers,
         NEW STATE c, c \in Costs, Fits(c, Unspent(w)), Spends(w, c),
         Used' = Plus(Used, c), UNCHANGED <<pc, budget, limits>>
  PROVE  Ledger'
  <1>1. Total(spent') = Plus(Total(spent), c)
    BY SpendFits DEF Funds
  <1>2. /\ Total(spent) \in Costs /\ budget \in Costs /\ limits \in Costs
        /\ Used \in Costs
    BY CostTypes, TotalType, UsedIs
  <1>3. Plus(budget, Used) = Plus(limits, Total(spent))
    BY DEF Ledger, Busy
  <1>4. Plus(budget, Plus(Used, c)) = Plus(limits, Plus(Total(spent), c))
    BY <1>2, <1>3 DEF Plus, Costs
  <1> QED
    BY <1>1, <1>4 DEF Ledger

(* Whatever is spent is on the books.                                      *)
LEMMA LedgerStep ==
  ASSUME TypeOK, Roles, Turns, Funds, Places, Progress, Ledger,
         Next \/ UNCHANGED vars
  PROVE  Ledger'
  <1> USE DEF Busy, Funded, Round, Closing, parkVars, lifeVars, envVars, cursorVars,
    callVars
  <1>1. CASE Create
    BY <1>1, CreateMoves, WorkersPeers, LedgerKept DEF Create, Moves
  <1>2. CASE Created
    BY <1>2, OwnerMoves, LedgerKept DEF Created, Alone
  <1>3. CASE StartFails
    BY <1>3, OwnerMoves, LedgerKept DEF StartFails, Alone
  <1>4. CASE Begin
    <2>1. /\ passed' = [i \in Items |-> 0] /\ batch' = 0 /\ budget' = limits'
          /\ pending' = pending /\ \A v \in Workers : ~pending[v]
      BY <1>4 DEF Begin, Places, Between
    <2>2. Described' = {}
      <3>1. \A f \in Faces : Batch[f] \in Nat /\ ~(Batch[f] <= 0)
        BY RasterAssumption
      <3> QED
        BY <2>1, <3>1 DEF Described
    <2>3. Looked' = {} /\ Tested' = {}
      BY <2>1, OwnerType, UsedSets DEF Looked, Tested
    <2>4. Used' = None
      BY <2>2, <2>3, FS_EmptySet, CostGrows DEF Used, CostOf
    <2>5. budget' \in Costs
      BY <1>4, RasterAssumption DEF Begin, Cost, Costs
    <2>6. Plus(budget', None) = limits'
      BY <2>1, <2>5 DEF Plus, None, Costs
    <2> QED
      BY <1>4, <2>4, <2>6, OwnerMoves DEF Alone, Ledger
  <1>5. CASE Prepare
    <2>1. /\ pending' = [v \in Workers |-> FALSE] /\ batch' = batch + 1
          /\ passed' = passed /\ limits' = limits
          /\ budget' = Minus(budget, Cost(PrepareCost(batch + 1), 0))
          /\ PrepareCost(batch + 1) <= budget.work
          /\ \A v \in Workers : ~pending[v]
      BY <1>5 DEF Prepare, Places, Between
    <2> DEFINE next == {f \in Faces : Batch[f] = batch + 1}
    <2>2. /\ batch \in Nat /\ \A f \in Faces : Batch[f] \in Nat
          /\ IsFiniteSet(Described) /\ IsFiniteSet(next)
          /\ Cardinality(next) \in Nat
      BY Finite, UsedSets, RasterAssumption DEF TypeOK
    <2>3. Described' = Described \cup next /\ Described \cap next = {}
      BY <2>1, <2>2 DEF Described
    <2>4. Cardinality(Described') = Cardinality(Described) + Cardinality(next)
      <3>1. Cardinality(Described \cup next) =
              Cardinality(Described) + Cardinality(next)
                - Cardinality(Described \cap next)
        BY <2>2, FS_Union
      <3>2. Cardinality(Described \cap next) = 0
        BY <2>3, FS_EmptySet
      <3> HIDE DEF next
      <3> QED
        BY <2>2, <2>3, <3>1, <3>2, UsedIs
    <2>5. Looked' = Looked /\ Tested' = Tested
      BY <2>1, OwnerType DEF Looked, Tested
    <2>6. PrepareCost(batch + 1) = FaceWork * Cardinality(next)
      BY DEF PrepareCost
    <2>7. Used' = CostOf(Cardinality(Described) + Cardinality(next), Looks,
                         Cardinality(Tested))
      BY <2>4, <2>5 DEF Used, CostOf, Looks
    <2>8. Used' = Plus(Used, Cost(PrepareCost(batch + 1), 0))
          /\ PrepareCost(batch + 1) \in Nat
      BY <2>2, <2>6, <2>7, UsedIs, CostGrows
    <2>9. Plus(budget, Used) = limits /\ budget \in Costs /\ Used \in Costs
      BY <1>5, UsedIs, CostTypes DEF Ledger, Prepare
    <2>10. Plus(budget', Used') = limits'
      BY <2>1, <2>8, <2>9 DEF Plus, Minus, Cost, Costs
    <2> QED
      BY <1>5, <2>10, OwnerMoves DEF Alone, Ledger
  <1>6. CASE PrepareFails
    BY <1>6, OwnerMoves, LedgerKept DEF PrepareFails, Alone
  <1>7. CASE Succeeds
    BY <1>7, OwnerMoves, LedgerKept DEF Succeeds, Alone
  <1>8. CASE Divide
    <2>1. /\ spent' = [v \in Workers |-> None] /\ Used' = Used
          /\ UNCHANGED <<budget, limits>>
      BY <1>8, UsedKept DEF Divide
    <2>2. Total(spent') = None
      BY <2>1, TotalOfNone
    <2>3. Plus(limits, None) = limits
      BY CostTypes DEF Plus, None, Costs
    <2> QED
      BY <1>8, <2>1, <2>2, <2>3, OwnerMoves DEF Alone, Ledger, Divide
  <1>9. CASE BatchDone
    BY <1>9, OwnerMoves, LedgerKept DEF BatchDone, Alone
  <1>10. CASE Dispatch
    BY <1>10, OwnerMoves, LedgerKept DEF Dispatch, Alone
  <1>11. CASE Notify
    BY <1>11, OwnerMoves, LedgerKept DEF Notify, Alone
  <1>12. CASE WaitEnds
    BY <1>12, OwnerMoves, LedgerKept DEF WaitEnds, Alone
  <1>13. CASE NextRound
    <2>1. Used' = Used /\ budget' = Remaining /\ limits' = limits
      BY <1>13, UsedKept DEF NextRound
    <2>2. /\ Remaining \in Costs /\ budget = Plus(Remaining, Total(spent))
          /\ Total(spent) \in Costs /\ Used \in Costs /\ limits \in Costs
      BY <1>13, RemainingType, CostTypes, TotalType, UsedIs DEF NextRound
    <2>3. Plus(budget, Used) = Plus(limits, Total(spent))
      BY <1>13 DEF NextRound, Ledger
    <2>4. Plus(Remaining, Used) = limits
      BY <2>2, <2>3 DEF Plus, Costs
    <2> QED
      BY <1>13, <2>1, <2>4, OwnerMoves DEF Alone, Ledger
  <1>14. CASE RoundFails
    BY <1>14, OwnerMoves DEF Alone, Ledger
  <1>15. CASE Destroy
    BY <1>15, OwnerMoves, LedgerKept DEF Destroy, Alone
  <1>16. CASE ShutDown
    BY <1>16, OwnerMoves, LedgerKept DEF ShutDown, Alone
  <1>17. CASE WakeAll
    BY <1>17, OwnerMoves, LedgerKept DEF WakeAll, Alone
  <1>18. CASE Joined
    BY <1>18, OwnerMoves, LedgerKept DEF Joined, Alone
  <1>19. CASE WaitPolls
    BY <1>19, LedgerKept DEF WaitPolls
  <1>20. ASSUME NEW w \in Workers, LooksUp(w) PROVE Ledger'
    <2>1. /\ pc[w] = "cursor" /\ left[w] # {} /\ ~pending[w]
          /\ UNCHANGED <<pc, batch, boundary>>
      BY <1>20 DEF LooksUp
    <2>2. PICK k \in Items : k = Current(w) /\ passed[k] = 0 /\ Owner(k) = w
                             /\ k \notin Looked
      BY <2>1, AtItem, AtUnpassed DEF Looked
    <2>3. Looked' = Looked \cup {k} /\ Tested' = Tested
      <3>1. CASE Tagged(w)
        <4>1. Passes(w) /\ pending' = pending
          BY <1>20, <3>1 DEF LooksUp
        <4>2. passed'[k] = 1 /\ \A i \in Items : i # k => passed'[i] = passed[i]
          BY <2>1, <2>2, <4>1, PassCounts
        <4>3. \A v \in Workers : v # w => Current(v)' = Current(v)
          BY <4>1 DEF Passes, TypeOK, Current
        <4>4. k \notin TestsNeeded
          BY <2>1, <2>2, <3>1, DueTest
        <4>5. Looked' = Looked \cup {k}
          BY <2>1, <2>2, <4>1, <4>2, <4>3, OwnerType DEF Looked
        <4>6. Tested' = Tested
          BY <4>2, <4>4, UsedSets DEF Tested
        <4> QED
          BY <4>5, <4>6
      <3>2. CASE ~Tagged(w)
        <4>1. /\ UNCHANGED <<left, passed>> /\ pending'[w] = TRUE
              /\ \A v \in Workers : v # w => pending'[v] = pending[v]
          BY <1>20, <3>2 DEF LooksUp, TypeOK
        <4>2. \A v \in Workers : Current(v)' = Current(v)
          BY <4>1 DEF Current
        <4>3. Looked' = Looked \cup {k}
          BY <2>1, <2>2, <4>1, <4>2, OwnerType DEF Looked
        <4> QED
          BY <4>1, <4>3 DEF Tested
      <3> QED
        BY <3>1, <3>2
    <2>4. Described' = Described
      BY <2>1 DEF Described
    <2>5. Looks' = Looks + 1
      BY <2>2, <2>3, Finite, UsedSets, FS_AddElement DEF Looks
    <2>6. Used' = CostOf(Cardinality(Described), Looks + 1, Cardinality(Tested))
      BY <2>3, <2>4, <2>5 DEF Used, CostOf, Looks
    <2>7. Used' = Plus(Used, Lookup)
      BY <2>6, UsedIs, CostGrows
    <2>8. pc[0] \in Funded /\ Lookup \in Costs
      BY <2>1, CursorInRound, CostTypes
    <2>9. Fits(Lookup, Unspent(w)) /\ Spends(w, Lookup)
          /\ UNCHANGED <<budget, limits>>
      BY <1>20 DEF LooksUp
    <2> QED
      BY <2>1, <2>7, <2>8, <2>9, LedgerSpends
  <1>21. ASSUME NEW w \in Workers, Tests(w) PROVE Ledger'
    <2>1. /\ pc[w] = "cursor" /\ left[w] # {} /\ pending[w] /\ Passes(w)
          /\ UNCHANGED <<pc, batch>>
          /\ pending' = [pending EXCEPT ![w] = FALSE]
      BY <1>21 DEF Tests
    <2>2. pc[0] \in Funded /\ Test \in Costs
      BY <2>1, CursorInRound, CostTypes
    <2>3. PICK k \in Items : k = Current(w) /\ passed[k] = 0 /\ Owner(k) = w
      BY <2>1, AtItem, AtUnpassed
    <2>4. k \in Looked /\ k \in TestsNeeded /\ k \notin Tested
      BY <2>1, <2>2, <2>3 DEF Looked, Tested, Progress
    <2>5. passed'[k] = 1 /\ \A i \in Items : i # k => passed'[i] = passed[i]
      BY <2>1, <2>3, PassCounts
    <2>6. /\ \A v \in Workers : v # w => Current(v)' = Current(v)
          /\ \A v \in Workers : v # w => pending'[v] = pending[v]
          /\ ~pending'[w]
      BY <2>1 DEF Passes, TypeOK, Current
    <2>7. Looked' = Looked
      <3>1. ASSUME NEW i \in Items PROVE i \in Looked' <=> i \in Looked
        <4>1. CASE i = k
          BY <4>1, <2>4, <2>5 DEF Looked
        <4>2. CASE i # k /\ Owner(i) = w
          BY <4>2, <2>3, <2>5, <2>6 DEF Looked
        <4>3. CASE i # k /\ Owner(i) # w
          BY <4>3, <2>5, <2>6, OwnerType DEF Looked
        <4> QED
          BY <4>1, <4>2, <4>3
      <3> QED
        BY <3>1 DEF Looked
    <2>8. Tested' = Tested \cup {k}
      BY <2>4, <2>5, UsedSets DEF Tested
    <2>9. Cardinality(Tested') = Cardinality(Tested) + 1
      BY <2>4, <2>8, Finite, UsedSets, FS_AddElement
    <2>10. Described' = Described
      BY <2>1 DEF Described
    <2>11. Used' = CostOf(Cardinality(Described), Looks, Cardinality(Tested) + 1)
      BY <2>7, <2>9, <2>10 DEF Used, CostOf, Looks
    <2>12. Used' = Plus(Used, Test)
      BY <2>11, UsedIs, CostGrows
    <2>13. Fits(Test, Unspent(w)) /\ Spends(w, Test)
           /\ UNCHANGED <<budget, limits>>
      BY <1>21 DEF Tests
    <2> QED
      BY <2>1, <2>2, <2>12, <2>13, LedgerSpends
  <1>22. ASSUME NEW w \in Workers, WaitsForFunds(w) PROVE Ledger'
    BY <1>22, CursorMoves, WorkersPeers, LedgerKept
       DEF WaitsForFunds, Rests, Moves
  <1>23. ASSUME NEW w \in Workers, Finishes(w) PROVE Ledger'
    BY <1>23, CursorMoves, WorkersPeers, LedgerKept
       DEF Finishes, Rests, Moves
  <1>24. ASSUME NEW w \in Workers, CursorFails(w) PROVE Ledger'
    BY <1>24, CursorMoves, WorkersPeers, LedgerKept
       DEF CursorFails, Rests, Moves
  <1>25. ASSUME NEW w \in Workers, Interrupts(w) PROVE Ledger'
    BY <1>25, CursorMoves, WorkersPeers, LedgerKept
       DEF Interrupts, Rests, Moves
  <1>26. ASSUME NEW w \in Peers, Sleeps(w) PROVE Ledger'
    BY <1>26, LedgerKept DEF Sleeps
  <1>27. ASSUME NEW w \in Peers, Takes(w) PROVE Ledger'
    BY <1>27, PeerMoves, WorkersPeers, LedgerKept DEF Takes, Moves
  <1>28. ASSUME NEW w \in Peers, Reports(w) PROVE Ledger'
    BY <1>28, PeerMoves, WorkersPeers, LedgerKept DEF Reports, Moves
  <1>29. ASSUME NEW w \in Peers, Exits(w) PROVE Ledger'
    BY <1>29, PeerMoves, WorkersPeers, LedgerKept DEF Exits, Moves
  <1>30. CASE Stop \/ Expire \/ UNCHANGED vars
    BY <1>30, LedgerKept DEF Stop, Expire, vars
  <1> QED
    BY <1>1, <1>2, <1>3, <1>4, <1>5, <1>6, <1>7, <1>8, <1>9, <1>10, <1>11,
       <1>12, <1>13, <1>14, <1>15, <1>16, <1>17, <1>18, <1>19, <1>20, <1>21,
       <1>22, <1>23, <1>24, <1>25, <1>26, <1>27, <1>28, <1>29, <1>30
       DEF Next, Construction, Running, Joining, Cursor, Entry
(* A raster that has not returned has no result.                           *)
LEMMA UnresolvedStep ==
  ASSUME TypeOK, Roles, Turns, Unresolved, Next \/ UNCHANGED vars
  PROVE  Unresolved'
  <1> USE DEF Unresolved, Busy, Funded, Round, Closing, parkVars, lifeVars, envVars,
    cursorVars, callVars
  <1>1. CASE Create
    BY <1>1, CreateMoves, WorkersPeers DEF Create, Moves
  <1>2. CASE Created
    BY <1>2, OwnerMoves DEF Created, Alone
  <1>3. CASE StartFails
    BY <1>3, OwnerMoves DEF StartFails, Alone
  <1>4. CASE Begin
    BY <1>4, OwnerMoves DEF Begin, Alone
  <1>5. CASE Prepare
    BY <1>5, OwnerMoves DEF Prepare, Alone
  <1>6. CASE PrepareFails
    BY <1>6, OwnerMoves DEF Alone
  <1>7. CASE Succeeds
    BY <1>7, OwnerMoves DEF Succeeds, Alone
  <1>8. CASE Divide
    BY <1>8, OwnerMoves DEF Divide, Alone
  <1>9. CASE BatchDone
    BY <1>9, OwnerMoves DEF BatchDone, Alone
  <1>10. CASE Dispatch
    BY <1>10, OwnerMoves DEF Dispatch, Alone
  <1>11. CASE Notify
    BY <1>11, OwnerMoves DEF Notify, Alone
  <1>12. CASE WaitEnds
    BY <1>12, OwnerMoves DEF WaitEnds, Alone
  <1>13. CASE NextRound
    BY <1>13, OwnerMoves DEF NextRound, Alone
  <1>14. CASE RoundFails
    BY <1>14, OwnerMoves DEF Alone
  <1>15. CASE Destroy
    BY <1>15, OwnerMoves DEF Destroy, Alone
  <1>16. CASE ShutDown
    BY <1>16, OwnerMoves DEF ShutDown, Alone
  <1>17. CASE WakeAll
    BY <1>17, OwnerMoves DEF WakeAll, Alone
  <1>18. CASE Joined
    BY <1>18, OwnerMoves DEF Joined, Alone
  <1>19. CASE WaitPolls
    BY <1>19 DEF WaitPolls
  <1>20. ASSUME NEW w \in Workers, LooksUp(w) PROVE Unresolved'
    BY <1>20 DEF LooksUp
  <1>21. ASSUME NEW w \in Workers, Tests(w) PROVE Unresolved'
    BY <1>21 DEF Tests
  <1>22. ASSUME NEW w \in Workers, WaitsForFunds(w) PROVE Unresolved'
    BY <1>22, CursorMoves, WorkersPeers DEF WaitsForFunds, Rests, Moves
  <1>23. ASSUME NEW w \in Workers, Finishes(w) PROVE Unresolved'
    BY <1>23, CursorMoves, WorkersPeers DEF Finishes, Rests, Moves
  <1>24. ASSUME NEW w \in Workers, CursorFails(w) PROVE Unresolved'
    BY <1>24, CursorMoves, WorkersPeers DEF CursorFails, Rests, Moves
  <1>25. ASSUME NEW w \in Workers, Interrupts(w) PROVE Unresolved'
    BY <1>25, CursorMoves, WorkersPeers DEF Interrupts, Rests, Moves
  <1>26. ASSUME NEW w \in Peers, Sleeps(w) PROVE Unresolved'
    BY <1>26 DEF Sleeps
  <1>27. ASSUME NEW w \in Peers, Takes(w) PROVE Unresolved'
    BY <1>27, PeerMoves, WorkersPeers DEF Takes, Moves
  <1>28. ASSUME NEW w \in Peers, Reports(w) PROVE Unresolved'
    BY <1>28, PeerMoves, WorkersPeers DEF Reports, Moves
  <1>29. ASSUME NEW w \in Peers, Exits(w) PROVE Unresolved'
    BY <1>29, PeerMoves, WorkersPeers DEF Exits, Moves
  <1>30. CASE Stop \/ Expire \/ UNCHANGED vars
    BY <1>30 DEF Stop, Expire, vars
  <1> QED
    BY <1>1, <1>2, <1>3, <1>4, <1>5, <1>6, <1>7, <1>8, <1>9, <1>10, <1>11,
       <1>12, <1>13, <1>14, <1>15, <1>16, <1>17, <1>18, <1>19, <1>20, <1>21,
       <1>22, <1>23, <1>24, <1>25, <1>26, <1>27, <1>28, <1>29, <1>30
       DEF Next, Construction, Running, Joining, Cursor, Entry

-----------------------------------------------------------------------------
(* The caps.                                                               *)

(* The work of some faces, cells and tests is within a serial raster's.    *)
LEMMA WithinSerial ==
  ASSUME NEW D \in SUBSET Faces, NEW L \in SUBSET Items,
         NEW T \in SUBSET TestsNeeded
  PROVE  /\ Fits(CostOf(Cardinality(D), Cardinality(L), Cardinality(T)),
                 SerialNeed)
         /\ CostOf(Cardinality(D), Cardinality(L), Cardinality(T)) \in Costs
  <1>1. IsFiniteSet(Faces) /\ IsFiniteSet(Items) /\ IsFiniteSet(TestsNeeded)
    BY Finite, UsedSets, RasterAssumption, ItemsFinite
  <1>2. /\ Cardinality(D) \in Nat /\ Cardinality(D) <= Cardinality(Faces)
        /\ Cardinality(L) \in Nat /\ Cardinality(L) <= Cardinality(Items)
        /\ Cardinality(T) \in Nat /\ Cardinality(T) <= Cardinality(TestsNeeded)
    BY <1>1, FS_Subset, FS_CardinalityType
  <1> QED
    BY <1>2, SerialIs, CostMonotone, CostGrows

(* What exceeds what is left, on top of what was used, exceeds the caps.   *)
LEMMA TooMuch ==
  ASSUME NEW funds \in Costs, NEW used \in Costs, NEW c \in Costs,
         NEW whole \in Costs, NEW all \in Costs,
         Plus(funds, used) = whole, Fits(Plus(used, c), all), ~Fits(c, funds)
  PROVE  ~Fits(all, whole)
  BY DEF Plus, Fits, Costs

(* The last batch is behind: nothing is left of the raster.                *)
LEMMA WholeRaster ==
  ASSUME TypeOK, Places, Progress, pc[0] = "prepare", batch + 1 \notin Batches
  PROVE  /\ \A i \in Items : passed[i] = 1
         /\ Described = Faces /\ Looked = Items /\ Tested = TestsNeeded
         /\ Used = SerialNeed
  <1>1. ASSUME NEW f \in Faces PROVE Batch[f] <= batch
    <2> SUFFICES ASSUME ~(Batch[f] <= batch) PROVE FALSE
      OBVIOUS
    <2>1. Batch[f] \in Nat /\ batch \in Nat
      BY RasterAssumption DEF TypeOK
    <2>2. batch + 1 \in 1..Batch[f]
      BY <2>1
    <2>3. PICK g \in Faces : Batch[g] = batch + 1
      BY <2>2, RasterAssumption
    <2> QED
      BY <2>3 DEF Batches
  <1>2. \A i \in Items : passed[i] = 1
    BY <1>1, ItemTypes, OwnerType DEF Places, Progress, Busy, Between
  <1>3. Described = Faces /\ Looked = Items /\ Tested = TestsNeeded
    BY <1>1, <1>2, UsedSets DEF Described, Looked, Tested
  <1> QED
    BY <1>2, <1>3, UsedIs, SerialIs DEF Looks

(* The faces of a batch do not fit: a serial raster would not, either.     *)
LEMMA PrepareExceeds ==
  ASSUME TypeOK, Places, Progress, Ledger, pc[0] = "prepare",
         PrepareCost(batch + 1) > budget.work
  PROVE  ~Fits(SerialNeed, limits)
  <1> DEFINE next == {f \in Faces : Batch[f] = batch + 1}
             c == Cost(PrepareCost(batch + 1), 0)
  <1>1. /\ batch \in Nat /\ \A f \in Faces : Batch[f] \in Nat
        /\ IsFiniteSet(Described) /\ IsFiniteSet(next)
        /\ Cardinality(next) \in Nat /\ Described \cup next \in SUBSET Faces
    BY Finite, UsedSets, RasterAssumption DEF TypeOK
  <1>2. Described \cap next = {}
    BY <1>1 DEF Described
  <1>3. Cardinality(Described \cup next) = Cardinality(Described) + Cardinality(next)
    <2>1. Cardinality(Described \cup next) =
            Cardinality(Described) + Cardinality(next)
              - Cardinality(Described \cap next)
      BY <1>1, FS_Union
    <2>2. Cardinality(Described \cap next) = 0
      BY <1>2, FS_EmptySet
    <2> HIDE DEF next
    <2> QED
      BY <1>1, <2>1, <2>2, UsedIs
  <1>4. PrepareCost(batch + 1) = FaceWork * Cardinality(next)
        /\ PrepareCost(batch + 1) \in Nat
    BY <1>1, PrepareCostType DEF PrepareCost
  <1>5. CostOf(Cardinality(Described \cup next), Looks, Cardinality(Tested))
          = Plus(Used, c)
    BY <1>1, <1>3, <1>4, UsedIs, CostGrows
  <1>6. Fits(Plus(Used, c), SerialNeed)
    <2> HIDE DEF next, c
    <2> QED
      BY <1>1, <1>5, UsedSets, WithinSerial DEF Looks
  <1>7. c \in Costs /\ ~Fits(c, budget) /\ budget \in Costs /\ limits \in Costs
        /\ Used \in Costs /\ SerialNeed \in Costs
    BY <1>4, CostTypes, UsedIs, SerialIs DEF Costs, Cost, Fits
  <1>8. Plus(budget, Used) = limits
    BY DEF Ledger, Busy, Funded, Round
  <1> HIDE DEF c
  <1> QED
    BY <1>6, <1>7, <1>8, TooMuch

(* A starved round: the next primitive of a cursor would not fit serially. *)
LEMMA StarvedExceeds ==
  ASSUME TypeOK, Roles, Turns, Funds, Places, Progress, Ledger, Waiting,
         pc[0] = "settle", ~abort, ~stopped, Starved
  PROVE  ~Fits(SerialNeed, limits)
  <1>1. pc[0] \in Busy /\ pc[0] \in Funded /\ pc[0] \notin Round
        /\ pc[0] \notin Between /\ pc[0] \notin Closing /\ pc[0] # "create"
    BY DEF Busy, Funded, Round, Between, Closing
  <1>2. PICK w \in Workers \ done : ~Fits(need[w], Remaining)
    BY DEF Starved, TypeOK
  <1>3. Over(w)
    <2>1. CASE w = 0
      BY <2>1 DEF Over
    <2>2. CASE w \in Peers
      <3>1. created = Count - 1 /\ ~(w > Count - 1) /\ ~shutdown
        BY <1>1, <2>2, RasterAssumption DEF Roles, Peers
      <3>2. pc[w] = "parked" /\ seen[w] = generation
        BY <1>1, <2>2, <3>1 DEF Roles, Turns
      <3> QED
        BY <2>2, <3>2, WorkersPeers DEF Over
    <2> QED
      BY <2>1, <2>2, WorkersPeers
  <1>4. left[w] # {} /\ need[w] = NextPrimitive(w)
    BY <1>2, <1>3 DEF Waiting
  <1>5. PICK k \in Items : k = Current(w) /\ k \in left[w] /\ Owner(k) = w
                           /\ passed[k] = 0
    <2>1. Current(w) \in left[w] /\ Current(w) \in Items
      BY <1>4, CurrentIsFirst
    <2>2. Owner(Current(w)) = w
      BY <1>1, <2>1 DEF Places, Own
    <2> QED
      BY <1>1, <2>1, <2>2 DEF Progress
  <1>6. /\ Remaining \in Costs /\ budget = Plus(Remaining, Total(spent))
        /\ Total(spent) \in Costs /\ Used \in Costs /\ limits \in Costs
        /\ Lookup \in Costs /\ Test \in Costs /\ SerialNeed \in Costs
    BY <1>1, RemainingType, CostTypes, TotalType, UsedIs, SerialIs
  <1>7. Plus(Remaining, Used) = limits
    <2>1. Plus(budget, Used) = Plus(limits, Total(spent))
      BY <1>1 DEF Ledger
    <2> QED
      BY <1>6, <2>1 DEF Plus, Costs
  <1>8. CASE pending[w]
    <2>1. need[w] = Test /\ k \in TestsNeeded /\ k \notin Tested
      BY <1>1, <1>4, <1>5, <1>8 DEF NextPrimitive, Progress, Tested
    <2>2. Cardinality(Tested \cup {k}) = Cardinality(Tested) + 1
      BY <2>1, Finite, UsedSets, FS_AddElement
    <2>3. CostOf(Cardinality(Described), Looks, Cardinality(Tested \cup {k}))
            = Plus(Used, Test)
      BY <2>2, UsedIs, CostGrows
    <2>4. Tested \cup {k} \in SUBSET TestsNeeded
      BY <2>1, UsedSets
    <2>5. Fits(Plus(Used, Test), SerialNeed)
      BY <2>3, <2>4, UsedSets, WithinSerial DEF Looks
    <2> QED
      BY <1>2, <1>6, <1>7, <2>1, <2>5, TooMuch
  <1>9. CASE ~pending[w]
    <2>1. need[w] = Lookup /\ k \notin Looked
      BY <1>4, <1>5, <1>9 DEF NextPrimitive, Looked
    <2>2. Cardinality(Looked \cup {k}) = Looks + 1
      BY <2>1, Finite, UsedSets, FS_AddElement DEF Looks
    <2>3. CostOf(Cardinality(Described), Cardinality(Looked \cup {k}),
                 Cardinality(Tested))
            = Plus(Used, Lookup)
      BY <2>2, UsedIs, CostGrows
    <2>4. Looked \cup {k} \in SUBSET Items
      BY UsedSets
    <2>5. Fits(Plus(Used, Lookup), SerialNeed)
      BY <2>3, <2>4, UsedSets, WithinSerial
    <2> QED
      BY <1>2, <1>6, <1>7, <2>1, <2>5, TooMuch
  <1> QED
    BY <1>8, <1>9

(* The verdict on the caps stays until the next call.                      *)
LEMMA CapsKept ==
  ASSUME CapsAreExact, UNCHANGED <<budget, limits, result>>,
         pc'[0] \in {"idle", "join"} => pc[0] \in {"idle", "join"}
  PROVE  CapsAreExact'
  BY DEF CapsAreExact

(* A raster costs what one thread would pay, and fails when one would.     *)
LEMMA CapsStep ==
  ASSUME TypeOK, Roles, Turns, Funds, Places, Progress, Ledger, Waiting,
         Unresolved, CapsAreExact, Next \/ UNCHANGED vars
  PROVE  CapsAreExact'
  <1> USE DEF parkVars, lifeVars, envVars, cursorVars, callVars
  <1>1. CASE Create
    BY <1>1, CreateMoves, WorkersPeers, CapsKept DEF Create, Moves
  <1>2. CASE Created
    BY <1>2, OwnerMoves DEF Created, Unresolved, CapsAreExact
  <1>3. CASE StartFails
    BY <1>3, OwnerMoves DEF StartFails, CapsAreExact
  <1>4. CASE Begin
    BY <1>4, OwnerMoves DEF Alone, CapsAreExact
  <1>5. CASE Prepare
    BY <1>5, OwnerMoves DEF Alone, CapsAreExact
  <1>6. CASE PrepareFails
    <2>1. CASE PrepareCost(batch + 1) > budget.work
      <3>1. ~Fits(SerialNeed, limits)
        BY <1>6, <2>1, PrepareExceeds DEF PrepareFails
      <3>2. result' # "success" /\ UNCHANGED limits
        BY <1>6 DEF PrepareFails, Fail
      <3> QED
        BY <3>1, <3>2 DEF CapsAreExact
    <2>2. CASE ~(PrepareCost(batch + 1) > budget.work)
      <3>1. result' \in {"interrupted", "failure"}
        BY <1>6, <2>2 DEF PrepareFails, Fail
      <3> QED
        BY <3>1 DEF CapsAreExact
    <2> QED
      BY <2>1, <2>2
  <1>7. CASE Succeeds
    <2>1. Used = SerialNeed
      BY <1>7, WholeRaster DEF Succeeds
    <2>2. Plus(budget, Used) = limits
      BY <1>7 DEF Succeeds, Ledger, Busy, Funded, Round
    <2>3. Minus(limits, budget) = SerialNeed
      BY <2>1, <2>2, CostTypes, SerialIs DEF Plus, Minus, Costs
    <2>4. result' = "success" /\ UNCHANGED <<budget, limits>>
      BY <1>7 DEF Succeeds
    <2> QED
      BY <2>3, <2>4 DEF CapsAreExact
  <1>8. CASE Divide
    BY <1>8, OwnerMoves DEF Alone, CapsAreExact
  <1>9. CASE BatchDone
    BY <1>9, OwnerMoves, CapsKept DEF BatchDone, Alone
  <1>10. CASE Dispatch
    BY <1>10, OwnerMoves, CapsKept DEF Dispatch, Alone
  <1>11. CASE Notify
    BY <1>11, OwnerMoves, CapsKept DEF Notify, Alone
  <1>12. CASE WaitEnds
    BY <1>12, OwnerMoves, CapsKept DEF WaitEnds, Alone
  <1>13. CASE NextRound
    BY <1>13, OwnerMoves DEF Alone, CapsAreExact
  <1>14. CASE RoundFails
    <2>1. CASE failures = {} /\ ~abort /\ ~stopped /\ Starved
      <3>1. ~Fits(SerialNeed, limits)
        BY <1>14, <2>1, StarvedExceeds DEF RoundFails
      <3>2. result' # "success" /\ UNCHANGED limits
        BY <1>14 DEF RoundFails, Fail
      <3> QED
        BY <3>1, <3>2 DEF CapsAreExact
    <2>2. CASE ~(failures = {} /\ ~abort /\ ~stopped /\ Starved)
      <3>1. result' \in {"interrupted", "failure"}
        BY <1>14, <2>2 DEF RoundFails, Fail
      <3> QED
        BY <3>1 DEF CapsAreExact
    <2> QED
      BY <2>1, <2>2
  <1>15. CASE Destroy
    BY <1>15, OwnerMoves, CapsKept DEF Destroy, Alone
  <1>16. CASE ShutDown
    BY <1>16, OwnerMoves, CapsKept DEF ShutDown, Alone
  <1>17. CASE WakeAll
    BY <1>17, OwnerMoves, CapsKept DEF WakeAll, Alone
  <1>18. CASE Joined
    BY <1>18, OwnerMoves, CapsKept DEF Joined, Alone
  <1>19. CASE WaitPolls
    BY <1>19, CapsKept DEF WaitPolls
  <1>20. ASSUME NEW w \in Workers, LooksUp(w) PROVE CapsAreExact'
    BY <1>20, CapsKept DEF LooksUp
  <1>21. ASSUME NEW w \in Workers, Tests(w) PROVE CapsAreExact'
    BY <1>21, CapsKept DEF Tests
  <1>22. ASSUME NEW w \in Workers, WaitsForFunds(w) PROVE CapsAreExact'
    BY <1>22, CursorMoves, WorkersPeers, CapsKept
       DEF WaitsForFunds, Rests, Moves
  <1>23. ASSUME NEW w \in Workers, Finishes(w) PROVE CapsAreExact'
    BY <1>23, CursorMoves, WorkersPeers, CapsKept
       DEF Finishes, Rests, Moves
  <1>24. ASSUME NEW w \in Workers, CursorFails(w) PROVE CapsAreExact'
    BY <1>24, CursorMoves, WorkersPeers, CapsKept
       DEF CursorFails, Rests, Moves
  <1>25. ASSUME NEW w \in Workers, Interrupts(w) PROVE CapsAreExact'
    BY <1>25, CursorMoves, WorkersPeers, CapsKept
       DEF Interrupts, Rests, Moves
  <1>26. ASSUME NEW w \in Peers, Sleeps(w) PROVE CapsAreExact'
    BY <1>26, CapsKept DEF Sleeps
  <1>27. ASSUME NEW w \in Peers, Takes(w) PROVE CapsAreExact'
    BY <1>27, PeerMoves, WorkersPeers, CapsKept DEF Takes, Moves
  <1>28. ASSUME NEW w \in Peers, Reports(w) PROVE CapsAreExact'
    BY <1>28, PeerMoves, WorkersPeers, CapsKept DEF Reports, Moves
  <1>29. ASSUME NEW w \in Peers, Exits(w) PROVE CapsAreExact'
    BY <1>29, PeerMoves, WorkersPeers, CapsKept DEF Exits, Moves
  <1>30. CASE Stop \/ Expire \/ UNCHANGED vars
    BY <1>30, CapsKept DEF Stop, Expire, vars
  <1> QED
    BY <1>1, <1>2, <1>3, <1>4, <1>5, <1>6, <1>7, <1>8, <1>9, <1>10, <1>11,
       <1>12, <1>13, <1>14, <1>15, <1>16, <1>17, <1>18, <1>19, <1>20, <1>21,
       <1>22, <1>23, <1>24, <1>25, <1>26, <1>27, <1>28, <1>29, <1>30
       DEF Next, Construction, Running, Joining, Cursor, Entry

-----------------------------------------------------------------------------
(* The invariant holds at first.                                           *)
LEMMA Initially == ASSUME Init PROVE RasterInv
  <1>1. pc[0] = "create" /\ \A w \in Peers : pc[w] = "unborn"
    BY WorkersPeers DEF Init
  <1>2. /\ None \in [work : Nat, visits : Nat] /\ Generations \in Nat
        /\ 0 \in 0..Generations - 1 /\ 0 \in 0..Count - 1 /\ 0 \in 0..MaxRuns
    BY RasterAssumption DEF None
  <1>3. TypeOK
    <2>1. /\ {need, grant, spent} \subseteq [Workers -> [work : Nat, visits : Nat]]
          /\ {budget, limits} \subseteq [work : Nat, visits : Nat]
      BY <1>2 DEF Init
    <2>2. /\ seen \in [Peers -> 0..Generations - 1]
          /\ generation \in 0..Generations - 1
          /\ finished \in 0..Count - 1 /\ created \in 0..Count - 1
          /\ runs \in 0..MaxRuns /\ batch \in Nat
      BY <1>2 DEF Init
    <2> QED
      BY <2>1, <2>2 DEF Init, TypeOK
  <1>4. \A w \in Peers : w > 0
    BY DEF Peers
  <1>5. Roles /\ Turns /\ Funds /\ Waiting /\ Unresolved /\ CapsAreExact
    BY <1>1, <1>4, WorkersPeers
       DEF Init, Roles, Turns, Funds, Waiting, Over, Unresolved, CapsAreExact,
           Busy, Funded, Round, Closing
  <1>6. Places
    BY DEF Init, Places, Between, Own
  <1>7. Progress /\ Ledger
    BY <1>1 DEF Progress, Ledger, Busy, Funded, Round
  <1> QED
    BY <1>3, <1>5, <1>6, <1>7 DEF RasterInv

(* Every step keeps it.                                                    *)
LEMMA Inductive == ASSUME RasterInv, [Next]_vars PROVE RasterInv'
  BY TypeStep, RolesStep, TurnsStep, FundsStep, PlacesStep, ProgressStep,
     LedgerStep, WaitingStep, UnresolvedStep, CapsStep DEF RasterInv

(* Every reachable state of a team satisfies the invariant.                *)
THEOREM RasterInvariant == Spec => []RasterInv
  <1>1. Init => RasterInv
    BY Initially
  <1>2. RasterInv /\ [Next]_vars => RasterInv'
    BY Inductive
  <1> QED
    BY <1>1, <1>2, PTL DEF Spec

(* The state of a team is always well typed.                               *)
THEOREM RasterTypes == Spec => []TypeOK
  <1>1. RasterInv => TypeOK
    BY DEF RasterInv
  <1> QED
    BY <1>1, RasterInvariant, PTL

(* However the threads interleave, a round spends no more than the budget  *)
(* had left (RasterAccess::run): committing it is never refused.           *)
THEOREM RoundsAreFunded == Spec => []NeverOverspends
  <1>1. RasterInv => NeverOverspends
    BY SpentFits DEF RasterInv, NeverOverspends, Funded, Round
  <1> QED
    BY <1>1, RasterInvariant, PTL

(* Dividing the work strands none of it, whatever the mesh, the batches,   *)
(* the caps and the number of threads (RasterAccess::run).                 *)
THEOREM CapsHold == Spec => []CapsAreExact
  <1>1. RasterInv => CapsAreExact
    BY DEF RasterInv
  <1> QED
    BY <1>1, RasterInvariant, PTL

-----------------------------------------------------------------------------
(* The refinement.                                                         *)

(* A step that changes nothing the caller can tell.                        *)
LEMMA Stutters ==
  ASSUME CallPhase' = CallPhase, UNCHANGED passed
  PROVE  [Abstract!Next]_(Abstract!vars)
  BY DEF Abstract!vars

(* Passing an item does one item of the promise, or a step it does not     *)
(* see.                                                                    *)
LEMMA PassIsAbstract ==
  ASSUME RasterInv, NEW STATE w, w \in Workers, pc[w] = "cursor",
         left[w] # {}, Passes(w), UNCHANGED pc
  PROVE  [Abstract!Next]_(Abstract!vars)
  <1>1. TypeOK /\ Roles /\ Turns /\ Places /\ Progress
    BY DEF RasterInv
  <1>2. PICK k \in Items : k = Current(w) /\ passed[k] = 0
    BY <1>1, AtItem, AtUnpassed
  <1>3. CallPhase = "busy" /\ CallPhase' = CallPhase
    BY <1>1, CursorInRound DEF CallPhase, Round
  <1>4. passed' = [i \in Items |-> IF i \in {k} THEN 1 ELSE passed[i]]
    <2>1. /\ passed' = [passed EXCEPT ![k] = @ + 1]
          /\ passed \in [Items -> Nat]
      BY <1>1, <1>2 DEF Passes, TypeOK
    <2>2. /\ DOMAIN passed' = Items
          /\ \A i \in Items : passed'[i] = IF i \in {k} THEN 1 ELSE passed[i]
      BY <2>1, <1>2
    <2>3. passed' = [i \in Items |-> passed'[i]]
      BY <2>1
    <2> QED
      BY <2>2, <2>3, Zenon
  <1>5. {k} \in SUBSET {i \in Items : passed[i] = 0}
    BY <1>2
  <1>6. Abstract!Transform
    BY <1>3, <1>4, <1>5 DEF Abstract!Transform
  <1> QED
    BY <1>6 DEF Abstract!Next

(* Every step of the team is a step of a fork-join, or changes nothing its *)
(* caller can tell.                                                        *)
LEMMA AbstractStep ==
  ASSUME RasterInv, [Next]_vars
  PROVE  [Abstract!Next]_(Abstract!vars)
  <1> USE DEF parkVars, lifeVars, envVars, cursorVars, callVars
  <1>a. TypeOK /\ Roles /\ Turns
    BY DEF RasterInv
  <1>1. CASE Create
    BY <1>1, <1>a, CreateMoves, WorkersPeers, Stutters DEF Create, Moves, CallPhase
  <1>2. CASE Created
    BY <1>2, <1>a, OwnerMoves, Stutters DEF Created, Alone, CallPhase
  <1>3. CASE StartFails
    <2>1. Abstract!Close
      BY <1>3, <1>a, OwnerMoves DEF StartFails, Alone, CallPhase, Abstract!Close
    <2> QED
      BY <2>1 DEF Abstract!Next
  <1>4. CASE Begin
    <2>1. Abstract!Begin
      BY <1>4, <1>a, OwnerMoves
         DEF Begin, Alone, CallPhase, Abstract!Begin, Abstract!Fresh
    <2> QED
      BY <2>1 DEF Abstract!Next
  <1>5. CASE Prepare
    BY <1>5, <1>a, OwnerMoves, Stutters DEF Prepare, Alone, CallPhase
  <1>6. CASE PrepareFails
    <2>1. Abstract!Close
      BY <1>6, <1>a, OwnerMoves DEF PrepareFails, Alone, CallPhase, Abstract!Close
    <2> QED
      BY <2>1 DEF Abstract!Next
  <1>7. CASE Succeeds
    <2>1. \A i \in Items : passed[i] = 1
      BY <1>7, WholeRaster DEF Succeeds, RasterInv
    <2>2. Abstract!Succeed
      BY <1>7, <1>a, <2>1, OwnerMoves
         DEF Succeeds, Alone, CallPhase, Abstract!Succeed
    <2> QED
      BY <2>2 DEF Abstract!Next
  <1>8. CASE Divide
    BY <1>8, <1>a, OwnerMoves, Stutters DEF Divide, Alone, CallPhase
  <1>9. CASE BatchDone
    BY <1>9, <1>a, OwnerMoves, Stutters DEF BatchDone, Alone, CallPhase
  <1>10. CASE Dispatch
    BY <1>10, <1>a, OwnerMoves, Stutters DEF Dispatch, Alone, CallPhase
  <1>11. CASE Notify
    BY <1>11, <1>a, OwnerMoves, Stutters DEF Notify, Alone, CallPhase
  <1>12. CASE WaitEnds
    BY <1>12, <1>a, OwnerMoves, Stutters DEF WaitEnds, Alone, CallPhase
  <1>13. CASE NextRound
    BY <1>13, <1>a, OwnerMoves, Stutters DEF NextRound, Alone, CallPhase
  <1>14. CASE RoundFails
    <2>1. Abstract!Close
      BY <1>14, <1>a, OwnerMoves DEF RoundFails, Alone, CallPhase, Abstract!Close
    <2> QED
      BY <2>1 DEF Abstract!Next
  <1>15. CASE Destroy
    <2>1. Abstract!Close
      BY <1>15, <1>a, OwnerMoves DEF Destroy, Alone, CallPhase, Abstract!Close
    <2> QED
      BY <2>1 DEF Abstract!Next
  <1>16. CASE ShutDown
    BY <1>16, <1>a, OwnerMoves, Stutters DEF ShutDown, Alone, CallPhase
  <1>17. CASE WakeAll
    BY <1>17, <1>a, OwnerMoves, Stutters DEF WakeAll, Alone, CallPhase
  <1>18. CASE Joined
    BY <1>18, <1>a, OwnerMoves, Stutters DEF Joined, Alone, CallPhase
  <1>19. CASE WaitPolls
    BY <1>19, Stutters DEF WaitPolls, CallPhase
  <1>20. ASSUME NEW w \in Workers, LooksUp(w) PROVE [Abstract!Next]_(Abstract!vars)
    <2>1. CASE Tagged(w)
      BY <1>20, <2>1, PassIsAbstract DEF LooksUp
    <2>2. CASE ~Tagged(w)
      BY <1>20, <2>2, Stutters DEF LooksUp, CallPhase
    <2> QED
      BY <2>1, <2>2
  <1>21. ASSUME NEW w \in Workers, Tests(w) PROVE [Abstract!Next]_(Abstract!vars)
    BY <1>21, PassIsAbstract DEF Tests
  <1>22. ASSUME NEW w \in Workers, WaitsForFunds(w) PROVE [Abstract!Next]_(Abstract!vars)
    <2>1. CallPhase' = CallPhase
      BY <1>22, <1>a, CursorMoves, CursorInRound, WorkersPeers
         DEF WaitsForFunds, Rests, Moves, CallPhase, Round
    <2> QED
      BY <1>22, <2>1, Stutters DEF WaitsForFunds
  <1>23. ASSUME NEW w \in Workers, Finishes(w) PROVE [Abstract!Next]_(Abstract!vars)
    <2>1. CallPhase' = CallPhase
      BY <1>23, <1>a, CursorMoves, CursorInRound, WorkersPeers
         DEF Finishes, Rests, Moves, CallPhase, Round
    <2> QED
      BY <1>23, <2>1, Stutters DEF Finishes
  <1>24. ASSUME NEW w \in Workers, CursorFails(w) PROVE [Abstract!Next]_(Abstract!vars)
    <2>1. CallPhase' = CallPhase
      BY <1>24, <1>a, CursorMoves, CursorInRound, WorkersPeers
         DEF CursorFails, Rests, Moves, CallPhase, Round
    <2> QED
      BY <1>24, <2>1, Stutters DEF CursorFails
  <1>25. ASSUME NEW w \in Workers, Interrupts(w) PROVE [Abstract!Next]_(Abstract!vars)
    <2>1. CallPhase' = CallPhase
      BY <1>25, <1>a, CursorMoves, CursorInRound, WorkersPeers
         DEF Interrupts, Rests, Moves, CallPhase, Round
    <2> QED
      BY <1>25, <2>1, Stutters DEF Interrupts
  <1>26. ASSUME NEW w \in Peers, Sleeps(w) PROVE [Abstract!Next]_(Abstract!vars)
    BY <1>26, Stutters DEF Sleeps, CallPhase
  <1>27. ASSUME NEW w \in Peers, Takes(w) PROVE [Abstract!Next]_(Abstract!vars)
    BY <1>27, <1>a, PeerMoves, WorkersPeers, Stutters DEF Takes, Moves, CallPhase
  <1>28. ASSUME NEW w \in Peers, Reports(w) PROVE [Abstract!Next]_(Abstract!vars)
    BY <1>28, <1>a, PeerMoves, WorkersPeers, Stutters DEF Reports, Moves, CallPhase
  <1>29. ASSUME NEW w \in Peers, Exits(w) PROVE [Abstract!Next]_(Abstract!vars)
    BY <1>29, <1>a, PeerMoves, WorkersPeers, Stutters DEF Exits, Moves, CallPhase
  <1>30. CASE Stop \/ Expire \/ UNCHANGED vars
    BY <1>30, Stutters DEF Stop, Expire, vars, CallPhase
  <1> QED
    BY <1>1, <1>2, <1>3, <1>4, <1>5, <1>6, <1>7, <1>8, <1>9, <1>10, <1>11,
       <1>12, <1>13, <1>14, <1>15, <1>16, <1>17, <1>18, <1>19, <1>20, <1>21,
       <1>22, <1>23, <1>24, <1>25, <1>26, <1>27, <1>28, <1>29, <1>30
       DEF Next, Construction, Running, Joining, Cursor, Entry

(* A raster team is a fork-join of the items (RasterAccess::run).          *)
THEOREM RasterRefinement == Spec => RasterIsForkJoin
  <1>1. Init => Abstract!Init
    BY WorkersPeers DEF Init, Abstract!Init, Abstract!Fresh, CallPhase
  <1>2. RasterInv /\ [Next]_vars => [Abstract!Next]_(Abstract!vars)
    BY AbstractStep
  <1> QED
    BY <1>1, <1>2, RasterInvariant, PTL DEF Spec, RasterIsForkJoin, Abstract!Spec
=============================================================================
