----------------------------- MODULE BinProofs -----------------------------
(***************************************************************************)
(* What a merge's bins promise for every run, every verdict of the sizing  *)
(* search, every sampled load, every noise and every interior point: a     *)
(* plan covers its run, its prefix vector is monotone and stays inside its *)
(* window; the schedule of two bound plans reads every bin once, in order, *)
(* and is at all times a prefix of what the pinned loop fetches.           *)
(*                                                                         *)
(* The planner.  The invariant Planner is inductive; its parts say how the *)
(* phases of the call hand their results on.  Its heart is Filled: the     *)
(* bins cut the run at the running totals of the loads, clipped to the     *)
(* run, so that totals that reach the run (LoadsSuffice) make the last bin *)
(* end with it.                                                            *)
(*                                                                         *)
(* The dyadic sums.  DyadicSums is inductive beside Planner: from one      *)
(* entry to the next the bits of its number carry (Carry), and the level   *)
(* they carry into takes over what the levels below it hold.               *)
(*                                                                         *)
(* The schedule.  Until the source is exhausted, the schedule and the      *)
(* pinned loop take the same step.  From then on both have nothing but     *)
(* bins of the target to take, in the same order, so that the loop can be  *)
(* ahead of the schedule but never beside it (Ahead).  That the schedule   *)
(* is complete when the scan ends is a count: a side has read one bin more *)
(* than points of it have arrived, as long as it has bins (Fed).           *)
(*                                                                         *)
(* The interior points.  Drawn says that each is a record of its own bin,  *)
(* so that only bins without a real block arrive out of their order;       *)
(* Turns, that every point is there before the first one is scanned.       *)
(***************************************************************************)
EXTENDS BinSchedule, IntegerSets, FiniteSetTheorems, SequenceTheorems

-----------------------------------------------------------------------------
(* The inductive invariant. *)

Even(n) == n % 2 = 0

\* The bounds of the search are even and close in on the capacity.
Search ==
  /\ phase = "idle" => tails = <<>>
  /\ phase # "idle" =>
       /\ lower >= 2 /\ upper >= 2 /\ capacity >= 2
       /\ Even(lower) /\ Even(upper) /\ Even(capacity)
       /\ lower <= upper
       /\ capacity = upper \/ (tails[capacity] /\ lower = capacity + 2)
       /\ upper \in DOMAIN tails => ~tails[upper]
  /\ phase \notin {"idle", "sizing"} => upper <= lower + 2

\* What a phase has not reached is as it was.
Fresh ==
  /\ phase \in {"idle", "sizing"} => loads = <<>>
  /\ phase \in {"idle", "sizing", "sampling", "strayLoad", "insufficient"} =>
       prefix = <<0>> /\ addedError = 0
  /\ phase \in {"idle", "sizing", "sampling", "strayLoad", "insufficient", "prefix"} =>
       bins = <<>>

\* The totals are the running sums of the loads.
Summed ==
  /\ totals[1] = 0
  /\ \A n \in 1..Len(loads) : totals[n + 1] = totals[n] + loads[n] /\ loads[n] <= capacity

Counted ==
  /\ phase \in {"prefix", "filling", "refused"} => Len(loads) = BinCount /\ LoadsSuffice
  /\ phase = "prefix" =>
       /\ Len(prefix) <= BinCount + 1
       /\ blockSums \in [0..(Levels - 1) -> Int]
       /\ noisySums \in [0..(Levels - 1) -> Int]

Filled ==
  /\ Len(bins) <= Len(loads)
  /\ \A k \in 1..Len(bins) :
       /\ bins[k].start = Smaller(totals[k], blocks)
       /\ bins[k].stop = Smaller(totals[k + 1], blocks)
  /\ phase # "refused"
  /\ phase = "planned" => Consumed = blocks

Windowed ==
  /\ Len(prefix) <= Len(totals)
  /\ \A m, n \in 1..Len(prefix) : m <= n => prefix[m] <= prefix[n]
  /\ \A t \in 1..Len(prefix) : Distance(totals[t], prefix[t]) <= addedError
  /\ addedError <= capacity

Planner == TypeOK /\ Search /\ Fresh /\ Summed /\ Counted /\ Filled /\ Windowed

-----------------------------------------------------------------------------
(* Arithmetic of the code's formulas. *)

\* Between even bounds that are more than two apart the rounded middle is
\* even and at least two away from both.
LEMMA MiddleInside ==
  ASSUME NEW l \in Nat, NEW u \in Nat, Even(l), Even(u), l + 2 < u
  PROVE  /\ ToEvenUp((l + u) \div 2) \in Nat
         /\ Even(ToEvenUp((l + u) \div 2))
         /\ l + 2 <= ToEvenUp((l + u) \div 2) /\ ToEvenUp((l + u) \div 2) <= u - 2
BY DEF Even, ToEvenUp

\* The ceiling of a quotient, multiplied back, is no less than the dividend.
LEMMA CeilDivCovers ==
  ASSUME NEW a \in Nat, NEW b \in Nat \ {0}
  PROVE  CeilDiv(a, b) \in Nat /\ CeilDiv(a, b) * b >= a
BY DEF CeilDiv

\* The number of bins is a number once there is a capacity.
LEMMA BinCountType ==
  ASSUME blocks \in Nat, capacity \in Nat \ {0}
  PROVE  BinCount \in Nat
<1>1. 2 * blocks * DecayDen \in Nat
  BY DecayAssumption
<1>2. capacity * DecayNum \in Nat \ {0}
  <2>1. \A x, y \in Nat \ {0} : x * y \in Nat \ {0} OBVIOUS
  <2> QED BY <2>1, DecayAssumption
<1> HIDE DEF CeilDiv
<1> QED BY <1>1, <1>2, CeilDivCovers DEF BinCount

\* The number of dyadic levels is a number.
LEMMA LevelsType ==
  ASSUME BinCount \in Nat
  PROVE  Levels \in Nat
<1> DEFINE L == {n \in 0..BinCount : Pow2[n] <= BinCount}
<1>1. IsFiniteSet(0..BinCount) BY FS_Interval
<1>2. L \subseteq 0..BinCount OBVIOUS
<1>3. IsFiniteSet(L)
  <2> HIDE DEF L
  <2> QED BY <1>1, <1>2, FS_Subset
<1>4. Levels = Cardinality(L) BY DEF Levels
<1> HIDE DEF L
<1> QED BY <1>3, <1>4, FS_CardinalityType

-----------------------------------------------------------------------------
(* Powers of two and the bits of an index. *)

\* The powers of two: the recursion has a solution, as it has one up to every n
\* and two of these agree where both are defined.
LEMMA Doubling ==
  Pow2[0] = 1 /\ \A n \in Nat : Pow2[n + 1] = 2 * Pow2[n]
<1> DEFINE Rec(N, g) == g = [n \in 0..N |-> IF n = 0 THEN 1 ELSE 2 * g[n - 1]]
           G(N) == CHOOSE g : Rec(N, g)
           h == [n \in Nat |-> G(n)[n]]
           F(g) == g = [n \in Nat |-> IF n = 0 THEN 1 ELSE 2 * g[n - 1]]
<1>1. ASSUME NEW N \in Nat, NEW g, Rec(N, g), NEW n \in 0..N
      PROVE  g[n] = IF n = 0 THEN 1 ELSE 2 * g[n - 1]
  BY <1>1
<1> DEFINE Solved(N) == \E g : Rec(N, g)
<1>2. \A N \in Nat : Solved(N)
  <2> DEFINE T == {N \in Nat : ~Solved(N)}
  <2> SUFFICES ASSUME T # {} PROVE FALSE
    <3> HIDE DEF Solved
    <3> QED OBVIOUS
  <2>1. PICK N \in T : \A m \in T : N <= m
    <3>1. T \in SUBSET Nat OBVIOUS
    <3> HIDE DEF T
    <3> QED BY <3>1, LeastNat
  <2>2. CASE N = 0
    <3> DEFINE g == [n \in 0..0 |-> 1]
    <3>1. g = [n \in 0..0 |-> IF n = 0 THEN 1 ELSE 2 * g[n - 1]] OBVIOUS
    <3>2. Rec(N, g) BY <2>2, <3>1
    <3> QED BY <2>1, <3>2
  <2>3. CASE N # 0
    <3>1. N - 1 \in Nat /\ N - 1 \notin T
      <4> HIDE DEF Solved
      <4> QED BY <2>1, <2>3
    <3>2. PICK g : Rec(N - 1, g) BY <3>1
    <3> DEFINE k == [n \in 0..N |-> IF n = 0 THEN 1 ELSE 2 * g[n - 1]]
    <3>3. ASSUME NEW n \in 0..N, n # 0 PROVE k[n - 1] = g[n - 1]
      <4>1. n - 1 \in 0..(N - 1) /\ n - 1 \in 0..N BY <3>1, <3>3
      <4>2. g[n - 1] = IF n - 1 = 0 THEN 1 ELSE 2 * g[(n - 1) - 1] BY <1>1, <3>1, <3>2, <4>1
      <4> QED BY <4>1, <4>2
    <3>4. \A n \in 0..N : k[n] = IF n = 0 THEN 1 ELSE 2 * k[n - 1] BY <3>3
    <3>5. k = [n \in 0..N |-> k[n]] OBVIOUS
    <3> HIDE DEF k
    <3>6. Rec(N, k) BY <3>4, <3>5
    <3> QED BY <2>1, <3>6
  <2> QED BY <2>2, <2>3
<1>3. ASSUME NEW N \in Nat PROVE Rec(N, G(N))
  <2> HIDE DEF Rec
  <2> QED BY <1>2, Zenon
<1>4. ASSUME NEW N \in Nat, NEW n \in 0..N
      PROVE  G(N)[n] = IF n = 0 THEN 1 ELSE 2 * G(N)[n - 1]
  <2> HIDE DEF Rec, G
  <2> QED BY <1>1, <1>3
<1> HIDE DEF Rec, G
<1>5. ASSUME NEW N \in Nat, NEW M \in Nat, NEW n \in Nat, n <= N, n <= M
      PROVE  G(N)[n] = G(M)[n]
  <2> DEFINE T == {m \in Nat : m <= N /\ m <= M /\ G(N)[m] # G(M)[m]}
  <2> SUFFICES ASSUME T # {} PROVE FALSE BY <1>5
  <2>1. PICK m \in T : \A l \in T : m <= l
    <3>1. T \in SUBSET Nat OBVIOUS
    <3> HIDE DEF T
    <3> QED BY <3>1, LeastNat
  <2>2. m \in 0..N /\ m \in 0..M /\ G(N)[m] # G(M)[m] BY <2>1
  <2>3. /\ G(N)[m] = IF m = 0 THEN 1 ELSE 2 * G(N)[m - 1]
        /\ G(M)[m] = IF m = 0 THEN 1 ELSE 2 * G(M)[m - 1]
    BY <1>4, <2>2
  <2>4. m # 0 BY <2>2, <2>3
  <2>5. m - 1 \in Nat /\ m - 1 <= N /\ m - 1 <= M /\ m - 1 \notin T BY <2>1, <2>2, <2>4
  <2>6. G(N)[m - 1] = G(M)[m - 1] BY <2>5
  <2> QED BY <2>2, <2>3, <2>6
<1>6. ASSUME NEW n \in Nat PROVE h[n] = IF n = 0 THEN 1 ELSE 2 * h[n - 1]
  <2>1. G(n)[n] = IF n = 0 THEN 1 ELSE 2 * G(n)[n - 1] BY <1>4
  <2>2. ASSUME n # 0 PROVE n - 1 \in Nat /\ G(n)[n - 1] = G(n - 1)[n - 1]
    <3>1. n - 1 \in Nat /\ n - 1 <= n /\ n - 1 <= n - 1 BY <2>2
    <3> QED BY <1>5, <3>1
  <2> QED BY <2>1, <2>2
<1>7. F(h)
  <2>1. h = [n \in Nat |-> h[n]] OBVIOUS
  <2> HIDE DEF h
  <2> QED BY <1>6, <2>1
<1> HIDE DEF h
<1>8. F(Pow2)
  <2>1. Pow2 = CHOOSE g : F(g) BY DEF Pow2
  <2>2. \E g : F(g) BY <1>7
  <2> HIDE DEF F
  <2> QED BY <2>1, <2>2, Zenon
<1>9. \A n \in Nat : Pow2[n] = IF n = 0 THEN 1 ELSE 2 * Pow2[n - 1] BY <1>8
<1>10. Pow2[0] = 1 BY <1>9
<1>11. ASSUME NEW n \in Nat PROVE Pow2[n + 1] = 2 * Pow2[n]
  <2>1. n + 1 \in Nat /\ n + 1 # 0 /\ (n + 1) - 1 = n OBVIOUS
  <2> QED BY <1>9, <2>1
<1> QED BY <1>10, <1>11

\* They grow, and faster than their exponents.
LEMMA PowerGrows ==
  \A n \in Nat : Pow2[n] \in Nat /\ Pow2[n] > n
<1> DEFINE T == {n \in Nat : ~(Pow2[n] \in Nat /\ Pow2[n] > n)}
<1> SUFFICES ASSUME T # {} PROVE FALSE OBVIOUS
<1>1. PICK n \in T : \A m \in T : n <= m
  <2>1. T \in SUBSET Nat OBVIOUS
  <2> HIDE DEF T
  <2> QED BY <2>1, LeastNat
<1>2. n \in Nat /\ n # 0 BY <1>1, Doubling
<1>3. n - 1 \in Nat /\ n - 1 \notin T BY <1>1, <1>2
<1>4. Pow2[n - 1] \in Nat /\ Pow2[n - 1] > n - 1 BY <1>3
<1>5. Pow2[n] = 2 * Pow2[n - 1]
  <2>1. (n - 1) + 1 = n BY <1>2
  <2> QED BY <1>3, <2>1, Doubling
<1> QED BY <1>1, <1>2, <1>4, <1>5

LEMMA PowerMonotone ==
  ASSUME NEW m \in Nat, NEW n \in Nat, m <= n
  PROVE  Pow2[m] <= Pow2[n]
<1> DEFINE T == {k \in Nat : m <= k /\ ~(Pow2[m] <= Pow2[k])}
<1> SUFFICES ASSUME T # {} PROVE FALSE OBVIOUS
<1>1. PICK k \in T : \A l \in T : k <= l
  <2>1. T \in SUBSET Nat OBVIOUS
  <2> HIDE DEF T
  <2> QED BY <2>1, LeastNat
<1>2. k \in Nat /\ m <= k /\ ~(Pow2[m] <= Pow2[k]) BY <1>1
<1>3. Pow2[m] \in Nat BY PowerGrows
<1>4. k # m BY <1>2, <1>3
<1>5. k - 1 \in Nat /\ m <= k - 1 /\ k - 1 \notin T BY <1>1, <1>2, <1>4
<1>6. Pow2[m] <= Pow2[k - 1] /\ Pow2[k - 1] \in Nat BY <1>5, PowerGrows
<1>7. Pow2[k] = 2 * Pow2[k - 1]
  <2>1. (k - 1) + 1 = k BY <1>2
  <2> QED BY <1>5, <2>1, Doubling
<1> QED BY <1>2, <1>3, <1>6, <1>7

\* Shifting by one more place halves.
LEMMA ShiftHalves ==
  ASSUME NEW t \in Nat
  PROVE  /\ t \div Pow2[0] = t
         /\ \A l \in Nat : /\ t \div Pow2[l] \in Nat
                           /\ t \div Pow2[l + 1] = (t \div Pow2[l]) \div 2
<1>1. t \div Pow2[0] = t BY Doubling
<1>2. ASSUME NEW l \in Nat
      PROVE  t \div Pow2[l] \in Nat /\ t \div Pow2[l + 1] = (t \div Pow2[l]) \div 2
  <2> DEFINE p == Pow2[l]
  <2>1. p \in Nat \ {0} BY PowerGrows
  <2>2. Pow2[l + 1] = 2 * p BY Doubling
  <2> HIDE DEF p
  <2>3. \A a \in Nat : \A b \in Nat \ {0} : a \div b \in Nat OBVIOUS
  <2>4. t \div p \in Nat BY <2>1, <2>3
  <2>5. t \div (2 * p) = (t \div p) \div 2 BY <2>1
  <2> QED BY <2>2, <2>4, <2>5 DEF p
<1> QED BY <1>1, <1>2

\* A bit is a level of the accumulators of as many bins.
LEMMA BitFits ==
  ASSUME BinCount \in Nat, NEW t \in 1..BinCount, NEW l \in Nat, Bit(t, l)
  PROVE  l \in 0..(Levels - 1)
<1> DEFINE L == {n \in 0..BinCount : Pow2[n] <= BinCount}
<1>1. t \in Nat /\ t <= BinCount OBVIOUS
<1>2. Pow2[l] \in Nat /\ Pow2[l] > l BY PowerGrows
<1>3. Pow2[l] <= t
  <2>1. \A b \in Nat : b > t => t \div b = 0 BY <1>1
  <2>2. ASSUME Pow2[l] > t PROVE FALSE
    <3>1. t \div Pow2[l] = 0 BY <1>2, <2>1, <2>2
    <3> QED BY <3>1 DEF Bit
  <2> QED BY <1>1, <1>2, <2>2
<1>4. 0..l \subseteq L
  <2> SUFFICES ASSUME NEW j \in 0..l PROVE j \in 0..BinCount /\ Pow2[j] <= BinCount OBVIOUS
  <2>1. j \in Nat /\ j <= l OBVIOUS
  <2>2. Pow2[j] <= Pow2[l] /\ Pow2[j] \in Nat BY <2>1, PowerMonotone, PowerGrows
  <2> QED BY <1>1, <1>2, <1>3, <2>1, <2>2
<1>5. IsFiniteSet(L)
  <2>1. IsFiniteSet(0..BinCount) BY FS_Interval
  <2>2. L \subseteq 0..BinCount OBVIOUS
  <2> HIDE DEF L
  <2> QED BY <2>1, <2>2, FS_Subset
<1>6. Levels = Cardinality(L) BY DEF Levels
<1> HIDE DEF L
<1>7. Cardinality(0..l) <= Cardinality(L) BY <1>4, <1>5, FS_Subset
<1>8. Cardinality(0..l) = l + 1
  <2>1. 0 \in Int /\ l \in Int /\ 0 <= l OBVIOUS
  <2>2. Cardinality(0..l) = IF 0 > l THEN 0 ELSE l - 0 + 1 BY <2>1, FS_Interval
  <2> QED BY <2>1, <2>2
<1>9. Levels \in Nat BY LevelsType
<1> QED BY <1>6, <1>7, <1>8, <1>9

\* An index other than 0 has a lowest bit.
LEMMA LowestBit ==
  ASSUME NEW t \in Nat \ {0}
  PROVE  /\ TrailingZeros(t) \in Nat /\ Bit(t, TrailingZeros(t))
         /\ \A m \in Nat : m < TrailingZeros(t) => ~Bit(t, m)
<1> DEFINE H(n) == t \div Pow2[n]
           Z == {n \in Nat : H(n) = 0}
           B == {n \in Nat : n <= t /\ Bit(t, n)}
<1>1. /\ H(0) = t
      /\ \A l \in Nat : H(l) \in Nat /\ H(l + 1) = H(l) \div 2
  BY ShiftHalves
<1>2. \A n \in Nat : Bit(t, n) <=> H(n) % 2 = 1 BY DEF Bit
<1>3. t \in Z
  <2>1. Pow2[t] \in Nat /\ Pow2[t] > t BY PowerGrows
  <2>2. \A b \in Nat : b > t => t \div b = 0 OBVIOUS
  <2> QED BY <2>1, <2>2
<1> HIDE DEF H
<1>4. PICK n \in Z : \A m \in Z : n <= m
  <2>1. Z \in SUBSET Nat OBVIOUS
  <2> HIDE DEF Z
  <2> QED BY <1>3, <2>1, LeastNat
<1>5. n \in Nat /\ H(n) = 0 /\ n # 0 /\ n <= t BY <1>1, <1>3, <1>4
<1>6. n - 1 \in Nat /\ n - 1 \notin Z /\ (n - 1) + 1 = n BY <1>4, <1>5
<1>7. H(n - 1) \in Nat /\ H(n - 1) # 0 /\ H(n) = H(n - 1) \div 2
  <2>1. H((n - 1) + 1) = H(n - 1) \div 2 BY <1>1, <1>6
  <2> QED BY <1>1, <1>6, <2>1
<1>8. H(n - 1) % 2 = 1 BY <1>5, <1>7
<1>9. n - 1 \in B BY <1>2, <1>5, <1>6, <1>8
<1>10. PICK b \in B : \A m \in B : b <= m
  <2>1. B \in SUBSET Nat OBVIOUS
  <2> HIDE DEF B
  <2> QED BY <1>9, <2>1, LeastNat
<1>11. b \in 0..t /\ Bit(t, b) /\ \A m \in 0..(b - 1) : ~Bit(t, m)
  <2>1. b \in Nat /\ b <= t /\ Bit(t, b) BY <1>10
  <2>2. \A m \in 0..(b - 1) : m \in Nat /\ m <= t /\ ~(b <= m) BY <2>1
  <2> QED BY <1>10, <2>1, <2>2
<1> DEFINE i == TrailingZeros(t)
<1>12. i \in 0..t /\ Bit(t, i) /\ \A m \in 0..(i - 1) : ~Bit(t, m)
  BY <1>11 DEF TrailingZeros
<1> HIDE DEF i
<1>13. \A m \in Nat : m < i => m \in 0..(i - 1) BY <1>12
<1> QED BY <1>12, <1>13 DEF i

\* Counting on by one turns the ones below the lowest bit of the new index into
\* zeros, the zero at it into a one, and leaves the rest.
LEMMA Carry ==
  ASSUME NEW t \in Nat \ {0}, NEW l \in Nat
  PROVE  /\ l < TrailingZeros(t) => Bit(t - 1, l)
         /\ l = TrailingZeros(t) => ~Bit(t - 1, l)
         /\ l > TrailingZeros(t) => (Bit(t - 1, l) <=> Bit(t, l))
<1> DEFINE i == TrailingZeros(t)
           H(n) == t \div Pow2[n]
           K(n) == (t - 1) \div Pow2[n]
           Good(n) == K(n) = IF n <= i THEN H(n) - 1 ELSE H(n)
           T == {n \in Nat : ~Good(n)}
<1>1. t \in Nat /\ t - 1 \in Nat OBVIOUS
<1>2. /\ H(0) = t
      /\ \A n \in Nat : H(n) \in Nat /\ H(n + 1) = H(n) \div 2
  BY <1>1, ShiftHalves
<1>3. /\ K(0) = t - 1
      /\ \A n \in Nat : K(n) \in Nat /\ K(n + 1) = K(n) \div 2
  BY <1>1, ShiftHalves
<1>4. \A n \in Nat : (Bit(t, n) <=> H(n) % 2 = 1) /\ (Bit(t - 1, n) <=> K(n) % 2 = 1)
  BY DEF Bit
<1>5. /\ i \in Nat /\ H(i) % 2 = 1
      /\ \A m \in Nat : m < i => H(m) % 2 # 1
  BY <1>4, LowestBit
<1> HIDE DEF H, K, i
<1>6. ASSUME NEW n \in Nat PROVE Good(n)
  <2> SUFFICES ASSUME T # {} PROVE FALSE BY <1>6
  <2>1. PICK m \in T : \A k \in T : m <= k
    <3>1. T \in SUBSET Nat OBVIOUS
    <3> HIDE DEF T
    <3> QED BY <3>1, LeastNat
  <2>2. m \in Nat /\ ~Good(m) BY <2>1
  <2>3. m # 0 BY <1>1, <1>2, <1>3, <1>5, <2>2
  <2> DEFINE k == m - 1
  <2>4. k \in Nat /\ k + 1 = m /\ Good(k) BY <2>1, <2>2, <2>3
  <2>5. /\ H(k) \in Nat /\ K(k) \in Nat /\ H(m) = H(k) \div 2 /\ K(m) = K(k) \div 2
    <3>1. H(k + 1) = H(k) \div 2 /\ K(k + 1) = K(k) \div 2 BY <1>2, <1>3, <2>4
    <3> QED BY <1>2, <1>3, <2>4, <3>1
  <2> HIDE DEF k
  <2>6. CASE k < i
    <3>1. K(k) = H(k) - 1 /\ H(k) % 2 # 1 /\ m <= i BY <1>5, <2>4, <2>6
    <3>2. (H(k) - 1) \div 2 = H(k) \div 2 - 1 BY <2>5, <3>1
    <3> QED BY <2>2, <2>5, <3>1, <3>2
  <2>7. CASE k = i
    <3>1. K(k) = H(k) - 1 /\ H(k) % 2 = 1 /\ ~(m <= i) BY <1>5, <2>4, <2>7
    <3>2. (H(k) - 1) \div 2 = H(k) \div 2 BY <2>5, <3>1
    <3> QED BY <2>2, <2>5, <3>1, <3>2
  <2>8. CASE k > i
    <3>1. K(k) = H(k) /\ ~(m <= i) BY <1>5, <2>4, <2>8
    <3> QED BY <2>2, <2>5, <3>1
  <2> QED BY <1>5, <2>4, <2>6, <2>7, <2>8
<1>7. H(l) \in Nat /\ K(l) \in Nat BY <1>2, <1>3
<1>8. ASSUME l < i PROVE K(l) % 2 = 1
  <2>1. K(l) = H(l) - 1 /\ H(l) % 2 # 1 BY <1>5, <1>6, <1>8
  <2> QED BY <1>7, <2>1
<1>9. ASSUME l = i PROVE K(l) % 2 # 1
  <2>1. K(l) = H(l) - 1 /\ H(l) % 2 = 1 BY <1>5, <1>6, <1>9
  <2> QED BY <1>7, <2>1
<1>10. ASSUME l > i PROVE K(l) = H(l)
  <2>1. ~(l <= i) BY <1>5, <1>10
  <2> QED BY <1>6, <2>1
<1> QED BY <1>4, <1>8, <1>9, <1>10 DEF i

-----------------------------------------------------------------------------
(* Every action preserves the invariant. *)

\* The planner starts in it.
LEMMA InitPlanner == Idle => Planner
<1> SUFFICES ASSUME Idle PROVE Planner
  OBVIOUS
<1> USE DEF Idle
<1>1. TypeOK BY DEF TypeOK, Phases
<1>2. Search /\ Fresh BY DEF Search, Fresh
<1>3. Summed BY DEF Summed
<1>4. Counted BY DEF Counted
<1>5. Filled BY DEF Filled
<1>6. Windowed BY DEF Windowed, Distance
<1> QED BY <1>1, <1>2, <1>3, <1>4, <1>5, <1>6 DEF Planner

\* A request sets the bounds of the search, both even.
LEMMA BeginStep ==
  ASSUME Planner, NEW n \in BlockCounts, NEW u \in Uppers, Begin(n, u)
  PROVE  Planner'
<1> USE DEF Planner, Begin, sampling, prefixing
<1>1. n \in Nat /\ u \in Nat /\ Even(u) BY CountsAssumption, UppersAssumption DEF Even
<1>2. Larger(2, u) \in Nat /\ Even(Larger(2, u)) /\ Larger(2, u) >= 2
  BY <1>1 DEF Larger, Even
<1>3. TypeOK' BY <1>1, <1>2 DEF TypeOK, Phases
<1>4. Search' BY <1>1, <1>2 DEF Search, Even
<1>5. Fresh' BY DEF Fresh
<1>6. Summed' BY DEF Summed, Fresh, TypeOK
<1>7. Counted' BY DEF Counted
<1>8. Filled' BY DEF Filled, Fresh
<1>9. Windowed' BY <1>2 DEF Windowed, Fresh, TypeOK, Distance
<1> QED BY <1>3, <1>4, <1>5, <1>6, <1>7, <1>8, <1>9

\* One turn of the search keeps the bounds even and the capacity beside them.
LEMMA ProbeStep ==
  ASSUME Planner, NEW fails \in BOOLEAN, Probe(fails)
  PROVE  Planner'
<1> USE DEF Planner, Probe, sampling, prefixing
<1> DEFINE m == ToEvenUp((lower + upper) \div 2)
<1>1. /\ lower \in Nat /\ upper \in Nat /\ lower >= 2 /\ upper >= 2
      /\ Even(lower) /\ Even(upper) /\ lower + 2 < upper /\ phase = "sizing"
  BY DEF Searching, TypeOK, Search
<1>2. m \in Nat /\ Even(m) /\ lower + 2 <= m /\ m <= upper - 2
  BY <1>1, MiddleInside
<1>3. Middle = m /\ capacity' = m BY DEF Middle
<1> HIDE DEF m
<1>4. /\ lower' = IF fails THEN m + 2 ELSE lower
      /\ upper' = IF fails THEN upper ELSE m
  BY <1>3 DEF Narrow
<1>5. /\ DOMAIN tails' = DOMAIN tails \cup {m}
      /\ tails'[m] = fails
      /\ upper \in DOMAIN tails => tails'[upper] = tails[upper]
  BY <1>1, <1>2, <1>3
<1>6. TypeOK' BY <1>1, <1>2, <1>3, <1>4 DEF TypeOK
<1>7. Search'
  <2>1. phase' = "sizing" BY <1>1
  <2>2. /\ lower' >= 2 /\ upper' >= 2 /\ capacity' >= 2
        /\ Even(lower') /\ Even(upper') /\ Even(capacity') /\ lower' <= upper'
    BY <1>1, <1>2, <1>3, <1>4 DEF Even
  <2>3. capacity' = upper' \/ (tails'[capacity'] /\ lower' = capacity' + 2)
    BY <1>3, <1>4, <1>5
  <2>4. ASSUME upper' \in DOMAIN tails' PROVE ~tails'[upper']
    <3>1. CASE fails
      <4>1. upper' = upper /\ upper # m BY <3>1, <1>1, <1>2, <1>4
      <4>2. upper \in DOMAIN tails BY <2>4, <4>1, <1>5
      <4>3. ~tails[upper] BY <1>1, <4>2 DEF Search
      <4> QED BY <4>1, <4>2, <4>3, <1>5
    <3>2. CASE ~fails
      BY <3>2, <1>4, <1>5
    <3> QED BY <3>1, <3>2
  <2> QED BY <2>1, <2>2, <2>3, <2>4 DEF Search
<1>8. Fresh' BY DEF Fresh
<1>9. Summed' BY <1>1 DEF Summed, Fresh, TypeOK
<1>10. Counted' BY <1>1 DEF Counted
<1>11. Filled' BY <1>1 DEF Filled, Fresh
<1>12. Windowed'
  <2>1. prefix = <<0>> /\ addedError = 0 /\ totals[1] = 0
    BY <1>1 DEF Fresh, Summed
  <2> QED BY <2>1, <1>2, <1>3 DEF Windowed, TypeOK, Distance
<1> QED BY <1>6, <1>7, <1>8, <1>9, <1>10, <1>11, <1>12

\* The end of the search keeps what it found.
LEMMA SizeStep ==
  ASSUME Planner, Size
  PROVE  Planner'
<1> USE DEF Planner, Size, search, sampling, prefixing
<1>1. TypeOK' BY DEF TypeOK, Phases
<1>2. Search' BY DEF Search, Searching, TypeOK
<1>3. Fresh' BY DEF Fresh
<1>4. Summed' BY DEF Summed
<1>5. Counted' BY DEF Counted
<1>6. Filled' BY DEF Filled, Fresh, Consumed
<1>7. Windowed' BY DEF Windowed
<1> QED BY <1>1, <1>2, <1>3, <1>4, <1>5, <1>6, <1>7

\* A sampled load extends the running totals by itself.
LEMMA SampleStep ==
  ASSUME Planner, NEW load \in 0..(capacity + 1), Sample(load)
  PROVE  Planner'
<1> USE DEF Planner, Sample, search, sampling, prefixing
<1>0. load \in Nat /\ capacity \in Nat /\ loads \in Seq(Nat) /\ totals \in Seq(Nat)
      /\ Len(totals) = Len(loads) + 1
  BY DEF TypeOK
<1>1. TypeOK'
  <2>1. totals[Len(totals)] + load \in Nat BY <1>0
  <2>2. CASE Stray(load) BY <2>2 DEF TypeOK, Phases
  <2>3. CASE ~Stray(load)
    <3> DEFINE sum == totals[Len(totals)] + load
    <3>1. loads' = Append(loads, load) /\ totals' = Append(totals, sum)
      BY <2>3
    <3>2. sum \in Nat BY <2>1
    <3> HIDE DEF sum
    <3>3. loads' \in Seq(Nat) /\ Len(loads') = Len(loads) + 1
      BY <1>0, <3>1
    <3>4. totals' \in Seq(Nat) /\ Len(totals') = Len(totals) + 1
      BY <1>0, <3>1, <3>2
    <3>5. Len(totals') = Len(loads') + 1
      BY <1>0, <3>3, <3>4
    <3> QED BY <3>3, <3>4, <3>5, <2>3 DEF TypeOK
  <2> QED BY <2>2, <2>3
<1>2. Search' BY DEF Search
<1>3. Fresh' BY DEF Fresh
<1>4. Summed'
  <2>1. CASE Stray(load) BY <2>1 DEF Summed
  <2>2. CASE ~Stray(load)
    <3>1. /\ loads' = Append(loads, load)
          /\ totals' = Append(totals, totals[Len(totals)] + load)
          /\ load <= capacity /\ capacity' = capacity
      BY <2>2, <1>0 DEF Stray
    <3>2. Len(loads') = Len(loads) + 1 BY <1>0, <3>1
    <3>3. totals'[1] = 0 BY <1>0, <3>1 DEF Summed
    <3>4. ASSUME NEW k \in 1..Len(loads')
          PROVE  totals'[k + 1] = totals'[k] + loads'[k] /\ loads'[k] <= capacity
      <4>1. CASE k \in 1..Len(loads)
        <5>1. k \in 1..Len(totals) /\ k + 1 \in 1..Len(totals)
          <6>1. Len(loads) \in Nat /\ Len(totals) = Len(loads) + 1 BY <1>0
          <6> QED BY <4>1, <6>1
        <5>2. totals'[k] = totals[k] /\ totals'[k + 1] = totals[k + 1]
          <6>1. totals[Len(totals)] + load \in Nat BY <5>1, <1>0, SMTT(30)
          <6> QED BY <5>1, <6>1, <1>0, <3>1, SMTT(30)
        <5>3. loads'[k] = loads[k] BY <4>1, <1>0, <3>1
        <5> QED BY <4>1, <5>2, <5>3 DEF Summed
      <4>2. CASE k = Len(loads) + 1
        BY <4>2, <1>0, <3>1
      <4> QED BY <3>2, <4>1, <4>2, <1>0
    <3> QED BY <3>1, <3>3, <3>4 DEF Summed
  <2> QED BY <2>1, <2>2
<1>5. Counted' BY DEF Counted
<1>6. Filled'
  <2>1. bins = <<>> /\ bins' = <<>> BY DEF Fresh
  <2> QED BY <2>1, <1>0, <1>1 DEF Filled, TypeOK
<1>7. Windowed'
  <2>1. prefix' = <<0>> /\ addedError' = 0 /\ capacity' = capacity BY DEF Fresh
  <2>2. totals'[1] = 0 BY <1>4 DEF Summed
  <2>3. Len(totals') >= 1 BY <1>1 DEF TypeOK
  <2> QED BY <2>1, <2>2, <2>3, <1>0 DEF Windowed, Distance
<1> QED BY <1>1, <1>2, <1>3, <1>4, <1>5, <1>6, <1>7

\* The totals are checked before any bin is filled, and the prefix vector
\* starts with an accumulator for every dyadic level.
LEMMA CheckLoadsStep ==
  ASSUME Planner, CheckLoads
  PROVE  Planner'
<1> USE DEF Planner, CheckLoads, search, sampling
<1>1. TypeOK' BY DEF TypeOK, Phases
<1>2. Search' BY DEF Search
<1>3. Fresh' BY DEF Fresh
<1>4. Summed' BY DEF Summed
<1>5. Counted'
  <2>1. BinCount' = BinCount /\ Levels' = Levels /\ (LoadsSuffice <=> LoadsSuffice')
    BY DEF BinCount, CeilDiv, Levels, LoadsSuffice
  <2>2. CASE LoadsSuffice
    <3>1. /\ phase' = "prefix" /\ loads' = loads /\ prefix' = prefix
          /\ blockSums' = [level \in 0..(Levels - 1) |-> 0]
          /\ noisySums' = [level \in 0..(Levels - 1) |-> 0]
      BY <2>2
    <3>2. Len(prefix) = 1 BY DEF Fresh
    <3>3. BinCount \in Nat BY DEF TypeOK
    <3> HIDE DEF BinCount, Levels, LoadsSuffice
    <3>4. blockSums' \in [0..(Levels' - 1) -> Int] /\ noisySums' \in [0..(Levels' - 1) -> Int]
      BY <3>1, <2>1
    <3> QED BY <2>1, <2>2, <3>1, <3>2, <3>3, <3>4 DEF Counted
  <2>3. CASE ~LoadsSuffice
    BY <2>3 DEF Counted
  <2> QED BY <2>2, <2>3
<1>6. Filled' BY DEF Filled
<1>7. Windowed' BY DEF Windowed
<1> QED BY <1>1, <1>2, <1>3, <1>4, <1>5, <1>6, <1>7

\* Merged levels hold integers again.
LEMMA MergeType ==
  ASSUME NEW N \in Nat, NEW sums \in [0..(N - 1) -> Int], NEW index, NEW value \in Int
  PROVE  MergeLevels(sums, index, value) \in [0..(N - 1) -> Int]
BY DEF MergeLevels

\* The sum of some of the levels is an integer.
LEMMA LevelSumType ==
  ASSUME NEW N \in Nat, NEW sums \in [0..(N - 1) -> Int], NEW T \in SUBSET (0..(N - 1))
  PROVE  SumUpTo(sums, T) \in Int
<1>1. IsFiniteSet(T)
  <2>1. IsFiniteSet(0..(N - 1)) BY FS_Interval
  <2>2. T \subseteq 0..(N - 1) OBVIOUS
  <2> QED BY <2>1, <2>2, FS_Subset
<1>2. \A x \in T : sums[x] \in Int OBVIOUS
<1>3. SumOver(sums, T) \in Int BY <1>1, <1>2, SumInt
<1> QED BY <1>3 DEF SumUpTo, SumOver

\* Clipping keeps an estimate that is no less than the previous entry there,
\* because the window never moves down.
LEMMA ClipKeeps ==
  ASSUME NEW estimate \in Nat, NEW previous \in Nat, NEW before \in Nat, NEW current \in Nat,
         capacity \in Nat, before <= current, Distance(before, previous) <= capacity
  PROVE  LET entry == Clip(Monotone(estimate, previous), current)
         IN  entry \in Nat /\ previous <= entry /\ Distance(current, entry) <= capacity
BY DEF Clip, Monotone, Larger, Distance

LEMMA LargerBounds ==
  ASSUME NEW a \in Nat, NEW b \in Nat, NEW c \in Nat, a <= c, b <= c
  PROVE  Larger(a, b) \in Nat /\ a <= Larger(a, b) /\ b <= Larger(a, b) /\ Larger(a, b) <= c
BY DEF Larger

LEMMA DistanceType ==
  ASSUME NEW a \in Nat, NEW b \in Nat
  PROVE  Distance(a, b) \in Nat
BY DEF Distance

\* A cast prefix is a natural number.
LEMMA CastType ==
  ASSUME NEW units \in Int
  PROVE  PinnedCast(units) \in Nat
<1>1. Scale \in Nat \ {0} /\ CastMax \in Nat BY NoiseAssumption
<1>2. CASE units <= 0 BY <1>2 DEF PinnedCast
<1>3. CASE units > 0
  <2>1. units \div Scale \in Nat BY <1>1, <1>3
  <2> QED BY <2>1, <1>1, <1>3 DEF PinnedCast
<1> QED BY <1>2, <1>3

\* One more entry of the prefix vector: whatever the sums hold, the entry is a
\* number, no less than the one before and inside its window.
LEMMA AddPrefixStep ==
  ASSUME Planner, NEW noise \in Noises, AddPrefix(noise)
  PROVE  Planner'
<1> USE DEF Planner
<1> DEFINE t == Len(prefix)
           index == TrailingZeros(t)
           target == Merged(t, index)
           current == totals[t + 1]
           sum == SumUpTo(noisySums', {l \in DOMAIN noisySums : Bit(t, l)})
           entry == Clip(Monotone(PinnedCast(sum), prefix[t]), current)
<1>1. /\ phase = "prefix" /\ t <= BinCount
      /\ blockSums' = MergeLevels(blockSums, index, target)
      /\ noisySums' = MergeLevels(noisySums, index, target * Scale + noise)
      /\ prefix' = Append(prefix, entry)
      /\ addedError' = Larger(addedError, Distance(current, prefix'[t + 1]))
      /\ UNCHANGED <<phase, blocks, lower, upper, capacity, tails, loads, totals, bins>>
  BY DEF AddPrefix, search, sampling
<1>2. /\ blocks \in Nat /\ capacity \in Nat \ {0} /\ loads \in Seq(Nat) /\ totals \in Seq(Nat)
      /\ prefix \in Seq(Nat) /\ addedError \in Nat /\ Len(totals) = Len(loads) + 1
      /\ t \in 1..Len(loads) /\ Len(loads) = BinCount
  <2>1. /\ blocks \in Nat /\ capacity \in Nat \ {0} /\ loads \in Seq(Nat) /\ totals \in Seq(Nat)
        /\ prefix \in Seq(Nat) /\ addedError \in Nat /\ Len(totals) = Len(loads) + 1
        /\ Len(prefix) >= 1
    <3>1. /\ blocks \in Nat /\ capacity \in Nat /\ loads \in Seq(Nat) /\ totals \in Seq(Nat)
          /\ prefix \in Seq(Nat) /\ prefix # <<>> /\ addedError \in Nat
          /\ Len(totals) = Len(loads) + 1
      BY DEF TypeOK
    <3>2. capacity >= 2 BY <1>1 DEF Search
    <3>3. capacity # 0 BY <3>1, <3>2
    <3>4. Len(prefix) \in Nat /\ Len(prefix) # 0 BY <3>1, EmptySeq
    <3>5. Len(prefix) >= 1 BY <3>4
    <3> QED BY <3>1, <3>3, <3>5
  <2>2. Len(loads) = BinCount BY <1>1 DEF Counted
  <2> QED BY <2>1, <2>2, <1>1
<1>3. BinCount \in Nat /\ Levels \in Nat
  BY <1>2, BinCountType, LevelsType
<1>4. blockSums \in [0..(Levels - 1) -> Int] /\ noisySums \in [0..(Levels - 1) -> Int]
  BY <1>1 DEF Counted
<1>5. target \in Int
  <2> DEFINE T == {level \in DOMAIN blockSums : level < index}
  <2>1. T \in SUBSET (0..(Levels - 1)) BY <1>4
  <2>2. SumUpTo(blockSums, T) \in Int
    <3> HIDE DEF T, index
    <3> QED BY <2>1, <1>3, <1>4, LevelSumType
  <2>3. loads[t] \in Nat BY <1>2
  <2> HIDE DEF index, t
  <2> QED BY <2>2, <2>3 DEF Merged
<1> HIDE DEF target
<1>6. noisySums' \in [0..(Levels - 1) -> Int] /\ blockSums' \in [0..(Levels - 1) -> Int]
  <2>1. target * Scale + noise \in Int BY <1>5, NoiseAssumption
  <2> HIDE DEF index
  <2>2. MergeLevels(noisySums, index, target * Scale + noise) \in [0..(Levels - 1) -> Int]
    BY <2>1, <1>3, <1>4, MergeType
  <2>3. MergeLevels(blockSums, index, target) \in [0..(Levels - 1) -> Int]
    BY <1>3, <1>4, <1>5, MergeType
  <2> QED BY <1>1, <2>2, <2>3
<1>7. PinnedCast(sum) \in Nat
  <2> DEFINE T == {l \in DOMAIN noisySums : Bit(t, l)}
  <2>1. T \in SUBSET (0..(Levels - 1)) BY <1>4
  <2>2. SumUpTo(noisySums', T) \in Int
    <3> HIDE DEF T
    <3> QED BY <2>1, <1>3, <1>6, LevelSumType
  <2> QED BY <2>2, CastType
<1> HIDE DEF sum
<1>8. t = Len(prefix) /\ t \in Nat \ {0}
  BY <1>2
<1> HIDE DEF t
<1>9. /\ prefix[t] \in Nat /\ totals[t] \in Nat /\ current \in Nat
      /\ \A m \in 1..t : prefix[m] \in Nat /\ totals[m] \in Nat
  <2>1. \A m \in 1..t : prefix[m] \in Nat BY <1>2, <1>8, SMTT(30)
  <2>2. \A m \in 1..t : totals[m] \in Nat
    <3>1. \A m \in 1..t : m \in 1..Len(totals) BY <1>2, <1>8
    <3> QED BY <3>1, <1>2
  <2>3. current \in Nat
    <3>1. t + 1 \in 1..Len(totals) BY <1>2, <1>8
    <3> QED BY <3>1, <1>2
  <2> QED BY <1>8, <2>1, <2>2, <2>3
<1>10. totals[t] <= current
  <2>1. loads[t] \in Nat BY <1>2
  <2>2. current = totals[t] + loads[t] BY <1>2 DEF Summed
  <2> QED BY <2>1, <2>2, <1>9
<1>11. \A m \in 1..t : /\ Distance(totals[m], prefix[m]) \in Nat
                       /\ Distance(totals[m], prefix[m]) <= addedError
  BY <1>8, <1>9, DistanceType DEF Windowed
<1>12. addedError <= capacity
  BY DEF Windowed
<1>13. Distance(totals[t], prefix[t]) <= capacity
  <2>1. t \in 1..t BY <1>8
  <2> QED BY <2>1, <1>2, <1>11, <1>12
<1>14. entry \in Nat /\ prefix[t] <= entry /\ Distance(current, entry) <= capacity
  BY <1>2, <1>7, <1>9, <1>10, <1>13, ClipKeeps
<1> HIDE DEF entry
<1>15. /\ prefix' \in Seq(Nat) /\ Len(prefix') = t + 1 /\ prefix'[t + 1] = entry
       /\ \A m \in 1..t : prefix'[m] = prefix[m]
  BY <1>1, <1>2, <1>8, <1>14
<1>16. /\ addedError' \in Nat /\ addedError <= addedError' /\ addedError' <= capacity
       /\ Distance(current, entry) <= addedError'
  <2> DEFINE d == Distance(current, entry)
  <2>1. d \in Nat BY <1>9, <1>14, DistanceType
  <2>2. addedError' = Larger(addedError, d) BY <1>1, <1>15
  <2>3. d <= capacity BY <1>14
  <2> HIDE DEF d
  <2>4. addedError' \in Nat /\ addedError <= addedError' /\ addedError' <= capacity /\ d <= addedError'
    BY <1>2, <1>12, <2>1, <2>2, <2>3, LargerBounds
  <2> QED BY <2>4 DEF d
<1>17. TypeOK'
  <2>1. prefix' # <<>> BY <1>8, <1>15
  <2> QED BY <2>1, <1>1, <1>2, <1>15, <1>16 DEF TypeOK
<1>18. Search' BY <1>1 DEF Search
<1>19. Fresh' BY <1>1 DEF Fresh
<1>20. Summed' BY <1>1 DEF Summed
<1>21. Counted'
  <2>1. BinCount' = BinCount /\ Levels' = Levels /\ (LoadsSuffice <=> LoadsSuffice')
    BY <1>1 DEF BinCount, CeilDiv, Levels, LoadsSuffice
  <2> HIDE DEF BinCount, Levels, LoadsSuffice
  <2>2. LoadsSuffice BY <1>1 DEF Counted
  <2>3. Len(loads') = BinCount' /\ LoadsSuffice' /\ phase' = "prefix" BY <2>1, <2>2, <1>1, <1>2
  <2>4. Len(prefix') <= BinCount' + 1 BY <2>1, <1>1, <1>2, <1>15
  <2>5. blockSums' \in [0..(Levels' - 1) -> Int] /\ noisySums' \in [0..(Levels' - 1) -> Int]
    BY <2>1, <1>6
  <2> QED BY <2>3, <2>4, <2>5 DEF Counted
<1>22. Filled' BY <1>1 DEF Filled
<1>23. Windowed'
  <2>1. Len(prefix') <= Len(totals') BY <1>1, <1>2, <1>15
  <2>2. ASSUME NEW m \in 1..Len(prefix'), NEW n \in 1..Len(prefix'), m <= n
        PROVE  prefix'[m] <= prefix'[n]
    <3>1. CASE n \in 1..t
      <4>1. m \in 1..t BY <3>1, <2>2, <1>8, <1>15
      <4> QED BY <4>1, <3>1, <2>2, <1>8, <1>15 DEF Windowed
    <3>2. CASE n = t + 1 /\ m \in 1..t
      <4>1. prefix[m] <= prefix[t] BY <3>2, <1>8 DEF Windowed
      <4>2. prefix[m] \in Nat BY <3>2, <1>9
      <4> QED BY <4>1, <4>2, <3>2, <1>9, <1>14, <1>15
    <3>3. CASE n = t + 1 /\ m = t + 1
      BY <3>3, <1>14, <1>15
    <3> QED BY <3>1, <3>2, <3>3, <2>2, <1>2, <1>8, <1>15
  <2>3. ASSUME NEW m \in 1..Len(prefix')
        PROVE  Distance(totals'[m], prefix'[m]) <= addedError'
    <3>1. CASE m \in 1..t
      <4>1. totals'[m] = totals[m] /\ prefix'[m] = prefix[m] BY <3>1, <1>1, <1>15
      <4>2. /\ Distance(totals[m], prefix[m]) \in Nat
            /\ Distance(totals[m], prefix[m]) <= addedError
        BY <3>1, <1>11
      <4> HIDE DEF Distance
      <4> QED BY <4>1, <4>2, <1>2, <1>16
    <3>2. CASE m = t + 1
      BY <3>2, <1>1, <1>15, <1>16
    <3> QED BY <3>1, <3>2, <1>2, <1>8, <1>15
  <2> QED BY <2>1, <2>2, <2>3, <1>1, <1>16 DEF Windowed
<1> QED BY <1>17, <1>18, <1>19, <1>20, <1>21, <1>22, <1>23

\* The vector is complete.
LEMMA EndPrefixStep ==
  ASSUME Planner, EndPrefix
  PROVE  Planner'
<1> USE DEF Planner, EndPrefix, search, sampling, prefixing
<1>1. TypeOK' BY DEF TypeOK, Phases
<1>2. Search' BY DEF Search
<1>3. Fresh' BY DEF Fresh
<1>4. Summed' BY DEF Summed
<1>5. Counted' BY DEF Counted, BinCount, CeilDiv, LoadsSuffice
<1>6. Filled' BY DEF Filled
<1>7. Windowed' BY DEF Windowed
<1> QED BY <1>1, <1>2, <1>3, <1>4, <1>5, <1>6, <1>7

\* A bin takes what its load and the run leave it: it ends at the running
\* total, or with the run.
LEMMA FillBinStep ==
  ASSUME Planner, FillBin
  PROVE  Planner'
<1> USE DEF Planner
<1> DEFINE k == Len(bins) + 1
<1>1. /\ phase = "filling" /\ Len(bins) < BinCount
      /\ bins' = Append(bins, [start |-> Consumed, stop |-> Consumed + RealCount(loads[k])])
      /\ UNCHANGED <<phase, blocks, lower, upper, capacity, tails, loads, totals,
                     blockSums, noisySums, prefix, addedError>>
  BY DEF FillBin, search, sampling, prefixing
<1>2. /\ blocks \in Nat /\ loads \in Seq(Nat) /\ totals \in Seq(Nat)
      /\ bins \in Seq([start : Nat, stop : Nat]) /\ Len(totals) = Len(loads) + 1
  BY DEF TypeOK
<1>3. k \in 1..Len(loads)
  <2>1. Len(loads) = BinCount BY <1>1 DEF Counted
  <2> HIDE DEF BinCount
  <2> QED BY <2>1, <1>1, <1>2
<1>4. /\ totals[k] \in Nat /\ loads[k] \in Nat
      /\ totals[k + 1] = totals[k] + loads[k]
  <2>1. k \in 1..Len(totals) BY <1>2, <1>3
  <2>2. totals[k] \in Nat BY <2>1, <1>2
  <2>3. loads[k] \in Nat BY <1>2, <1>3
  <2>4. totals[k + 1] = totals[k] + loads[k]
    <3> HIDE DEF k
    <3> QED BY <1>3 DEF Summed
  <2> QED BY <2>2, <2>3, <2>4
<1>5. Consumed = Smaller(totals[k], blocks)
  <2>1. CASE bins = <<>>
    <3>1. k = 1 /\ totals[1] = 0 BY <2>1 DEF Summed
    <3> QED BY <2>1, <3>1, <1>2 DEF Consumed, Smaller
  <2>2. CASE bins # <<>>
    <3>1. Len(bins) \in 1..Len(bins) BY <2>2, <1>2
    <3>2. bins[Len(bins)].stop = Smaller(totals[Len(bins) + 1], blocks) BY <3>1 DEF Filled
    <3> QED BY <2>2, <3>2 DEF Consumed
  <2> QED BY <2>1, <2>2
<1>6. Consumed + RealCount(loads[k]) = Smaller(totals[k + 1], blocks)
  <2>1. \A t, n, b \in Nat :
          Smaller(t, b) + Smaller(n, b - Smaller(t, b)) = Smaller(t + n, b)
    BY DEF Smaller
  <2>2. RealCount(loads[k]) = Smaller(loads[k], blocks - Smaller(totals[k], blocks))
    BY <1>5 DEF RealCount
  <2> HIDE DEF k
  <2>3. Smaller(totals[k], blocks) + Smaller(loads[k], blocks - Smaller(totals[k], blocks))
          = Smaller(totals[k] + loads[k], blocks)
    BY <1>2, <1>4, <2>1
  <2> QED BY <1>4, <1>5, <2>2, <2>3
<1> DEFINE bin == [start |-> Consumed, stop |-> Consumed + RealCount(loads[k])]
<1>7. /\ bin \in [start : Nat, stop : Nat]
      /\ bin.start = Smaller(totals[k], blocks) /\ bin.stop = Smaller(totals[k + 1], blocks)
  <2>1. Smaller(totals[k], blocks) \in Nat /\ Smaller(totals[k + 1], blocks) \in Nat
    <3> HIDE DEF k
    <3>1. totals[k] \in Nat /\ totals[k] + loads[k] \in Nat /\ blocks \in Nat
      <4>1. totals[k] + loads[k] \in Nat BY <1>4
      <4>2. blocks \in Nat BY <1>2
      <4> QED BY <4>1, <4>2, <1>4
    <3>2. totals[k + 1] \in Nat BY <3>1, <1>4
    <3>3. \A a, b \in Nat : Smaller(a, b) \in Nat BY DEF Smaller
    <3> QED BY <3>1, <3>2, <3>3
  <2>2. bin = [start |-> Smaller(totals[k], blocks), stop |-> Smaller(totals[k + 1], blocks)]
    BY <1>5, <1>6
  <2> HIDE DEF bin, k
  <2> QED BY <2>1, <2>2
<1>8. bins' = Append(bins, bin) BY <1>1
<1> HIDE DEF bin
<1>9. /\ bins' \in Seq([start : Nat, stop : Nat]) /\ Len(bins') = k /\ bins'[k] = bin
      /\ \A m \in 1..Len(bins) : bins'[m] = bins[m]
  BY <1>2, <1>7, <1>8
<1>10. TypeOK' BY <1>1, <1>9 DEF TypeOK
<1>11. Search' BY <1>1 DEF Search
<1>12. Fresh' BY <1>1 DEF Fresh
<1>13. Summed' BY <1>1 DEF Summed
<1>14. Counted' BY <1>1 DEF Counted, BinCount, CeilDiv, LoadsSuffice
<1>15. Filled'
  <2>1. Len(bins') <= Len(loads') BY <1>1, <1>2, <1>3, <1>9
  <2>2. ASSUME NEW m \in 1..Len(bins')
        PROVE  /\ bins'[m].start = Smaller(totals'[m], blocks')
               /\ bins'[m].stop = Smaller(totals'[m + 1], blocks')
    <3>1. CASE m \in 1..Len(bins)
      BY <3>1, <1>1, <1>9 DEF Filled
    <3>2. CASE m = k
      BY <3>2, <1>1, <1>7, <1>9
    <3> QED BY <3>1, <3>2, <1>2, <1>9
  <2> QED BY <2>1, <2>2, <1>1 DEF Filled
<1>16. Windowed' BY <1>1 DEF Windowed
<1> QED BY <1>10, <1>11, <1>12, <1>13, <1>14, <1>15, <1>16

\* The last bin ends with the run, so the plan's own check passes.
LEMMA PlanStep ==
  ASSUME Planner, Plan
  PROVE  Planner'
<1> USE DEF Planner
<1>1. /\ phase = "filling" /\ Len(bins) = BinCount
      /\ phase' = IF Consumed = blocks THEN "planned" ELSE "refused"
      /\ UNCHANGED <<blocks, lower, upper, capacity, tails, loads, totals,
                     blockSums, noisySums, prefix, addedError, bins>>
  BY DEF Plan, search, sampling, prefixing
<1>2. /\ blocks \in Nat /\ loads \in Seq(Nat) /\ totals \in Seq(Nat)
      /\ bins \in Seq([start : Nat, stop : Nat]) /\ Len(totals) = Len(loads) + 1
  BY DEF TypeOK
<1>3. Len(loads) = BinCount /\ totals[Len(totals)] >= blocks
  BY <1>1 DEF Counted, LoadsSuffice
<1>4. Consumed = blocks
  <2>1. CASE bins = <<>>
    <3>1. Len(totals) = 1 /\ totals[1] = 0 BY <2>1, <1>1, <1>2, <1>3 DEF Summed
    <3> QED BY <2>1, <3>1, <1>2, <1>3 DEF Consumed
  <2>2. CASE bins # <<>>
    <3>1. Len(bins) \in 1..Len(bins) BY <2>2, <1>2
    <3>2. bins[Len(bins)].stop = Smaller(totals[Len(bins) + 1], blocks) BY <3>1 DEF Filled
    <3>3. Len(bins) + 1 = Len(totals) BY <1>1, <1>2, <1>3
    <3>4. totals[Len(totals)] \in Nat BY <1>2
    <3>5. Smaller(totals[Len(totals)], blocks) = blocks BY <3>4, <1>2, <1>3 DEF Smaller
    <3> QED BY <2>2, <3>2, <3>3, <3>5 DEF Consumed
  <2> QED BY <2>1, <2>2
<1>5. phase' = "planned" BY <1>1, <1>4
<1>6. TypeOK' BY <1>1, <1>5 DEF TypeOK, Phases
<1>7. Search' BY <1>1, <1>5 DEF Search
<1>8. Fresh' BY <1>1, <1>5 DEF Fresh
<1>9. Summed' BY <1>1 DEF Summed
<1>10. Counted' BY <1>5 DEF Counted
<1>11. Filled' BY <1>1, <1>4, <1>5 DEF Filled, Consumed
<1>12. Windowed' BY <1>1 DEF Windowed
<1> QED BY <1>6, <1>7, <1>8, <1>9, <1>10, <1>11, <1>12

\* A step that changes nothing preserves it.
LEMMA PlannerStutter ==
  ASSUME Planner, UNCHANGED allocVars
  PROVE  Planner'
<1> USE DEF Planner, allocVars, search, sampling, prefixing
<1>1. TypeOK' BY DEF TypeOK
<1>2. Search' BY DEF Search
<1>3. Fresh' BY DEF Fresh
<1>4. Summed' BY DEF Summed
<1>5. Counted' BY DEF Counted, BinCount, CeilDiv, Levels, LoadsSuffice
<1>6. Filled' BY DEF Filled, Consumed
<1>7. Windowed' BY DEF Windowed
<1> QED BY <1>1, <1>2, <1>3, <1>4, <1>5, <1>6, <1>7

\* Every step of the planner preserves the invariant.
LEMMA AllocateStep ==
  ASSUME Planner, Allocate
  PROVE  Planner'
<1>1. CASE \E fails \in BOOLEAN : Probe(fails) BY <1>1, ProbeStep
<1>2. CASE Size BY <1>2, SizeStep
<1>3. CASE \E load \in 0..(capacity + 1) : Sample(load) BY <1>3, SampleStep
<1>4. CASE CheckLoads BY <1>4, CheckLoadsStep
<1>5. CASE \E noise \in Noises : AddPrefix(noise) BY <1>5, AddPrefixStep
<1>6. CASE EndPrefix BY <1>6, EndPrefixStep
<1>7. CASE FillBin BY <1>7, FillBinStep
<1>8. CASE Plan BY <1>8, PlanStep
<1> QED BY <1>1, <1>2, <1>3, <1>4, <1>5, <1>6, <1>7, <1>8 DEF Allocate

\* The parts of the planner's invariant hold in every reachable state.
THEOREM PlannerHolds == Spec => []Planner
<1>1. Init => Planner
  BY InitPlanner DEF Init
<1>2. Planner /\ [Next]_allocVars => Planner'
  <2> SUFFICES ASSUME Planner, [Next]_allocVars PROVE Planner'
    OBVIOUS
  <2>1. CASE Request BY <2>1, BeginStep DEF Request
  <2>2. CASE Allocate BY <2>2, AllocateStep
  <2>3. CASE UNCHANGED allocVars BY <2>3, PlannerStutter
  <2> QED BY <2>1, <2>2, <2>3 DEF Next
<1> QED BY <1>1, <1>2, PTL DEF Spec

-----------------------------------------------------------------------------
(* The properties. *)

\* The search ends with an even capacity that passes the tail test or is at
\* most two steps from one that does.
LEMMA SearchIsClose == Planner => CapacityClose
<1> SUFFICES ASSUME Planner, phase \notin {"idle", "sizing"}
             PROVE  /\ capacity >= 2 /\ capacity % 2 = 0
                    /\ capacity = upper \/ (tails[capacity] /\ upper - capacity \in {2, 4})
                    /\ upper \in DOMAIN tails => ~tails[upper]
  BY DEF CapacityClose
<1>1. lower \in Nat /\ upper \in Nat /\ capacity \in Nat
  BY DEF Planner, TypeOK
<1>2. /\ capacity >= 2 /\ Even(lower) /\ Even(upper) /\ Even(capacity)
      /\ lower <= upper /\ upper <= lower + 2
      /\ capacity = upper \/ (tails[capacity] /\ lower = capacity + 2)
      /\ upper \in DOMAIN tails => ~tails[upper]
  BY DEF Planner, Search
<1>3. lower = capacity + 2 => upper - capacity \in {2, 4}
  BY <1>1, <1>2 DEF Even
<1> QED BY <1>2, <1>3 DEF Even

\* Two running totals, clipped to the run, differ by the load at most.
LEMMA CutBounds ==
  ASSUME NEW total \in Nat, NEW load \in Nat, NEW limit \in Nat
  PROVE  /\ Smaller(total, limit) <= Smaller(total + load, limit)
         /\ Smaller(total + load, limit) <= limit
         /\ Smaller(total + load, limit) - Smaller(total, limit) <= load
BY DEF Smaller

\* The bins tile the run.
LEMMA PlanIsCover == Planner => PlanCovers
<1> SUFFICES ASSUME Planner PROVE PlanCovers
  OBVIOUS
<1>1. /\ blocks \in Nat /\ loads \in Seq(Nat) /\ totals \in Seq(Nat)
      /\ bins \in Seq([start : Nat, stop : Nat]) /\ Len(totals) = Len(loads) + 1
  BY DEF Planner, TypeOK
<1>2. ASSUME NEW k \in 1..Len(bins)
      PROVE  /\ bins[k].start = IF k = 1 THEN 0 ELSE bins[k - 1].stop
             /\ bins[k].start <= bins[k].stop /\ bins[k].stop <= blocks
             /\ bins[k].stop - bins[k].start <= loads[k]
  <2>1. k \in 1..Len(loads) /\ k \in Nat
    <3>1. Len(bins) \in Nat /\ Len(loads) \in Nat BY <1>1
    <3>2. Len(bins) <= Len(loads) BY DEF Planner, Filled
    <3> QED BY <3>1, <3>2
  <2>2. totals[k] \in Nat /\ loads[k] \in Nat /\ totals[k + 1] = totals[k] + loads[k]
    <3>1. k \in 1..Len(totals) BY <1>1, <2>1
    <3>2. totals[k] \in Nat BY <3>1, <1>1
    <3>3. loads[k] \in Nat
      <4>1. loads \in Seq(Nat) BY <1>1
      <4> QED BY <4>1, <2>1
    <3>4. totals[k + 1] = totals[k] + loads[k] BY <2>1 DEF Planner, Summed
    <3> QED BY <3>2, <3>3, <3>4
  <2>3. /\ bins[k].start = Smaller(totals[k], blocks)
        /\ bins[k].stop = Smaller(totals[k + 1], blocks)
    BY DEF Planner, Filled
  <2>4. /\ bins[k].start <= bins[k].stop /\ bins[k].stop <= blocks
        /\ bins[k].stop - bins[k].start <= loads[k]
    BY <2>2, <2>3, <1>1, CutBounds
  <2>5. CASE k = 1
    <3>1. totals[1] = 0 BY DEF Planner, Summed
    <3>2. bins[k].start = 0 BY <2>3, <2>5, <3>1, <1>1 DEF Smaller
    <3> QED BY <2>4, <2>5, <3>2
  <2>6. CASE k # 1
    <3>1. k - 1 \in 1..Len(bins) BY <2>1, <2>6, <1>1
    <3>2. bins[k - 1].stop = Smaller(totals[(k - 1) + 1], blocks)
      BY <3>1 DEF Planner, Filled
    <3>3. (k - 1) + 1 = k BY <2>1
    <3>4. bins[k].start = bins[k - 1].stop BY <3>2, <3>3, <2>3
    <3> QED BY <2>4, <2>6, <3>4
  <2> QED BY <2>5, <2>6
<1>3. phase # "refused" /\ (phase = "planned" => Consumed = blocks)
  BY DEF Planner, Filled
<1> QED BY <1>2, <1>3 DEF PlanCovers

\* Every variable of the planner has its type.
THEOREM TypeCorrect == Spec => []TypeOK
<1>1. Planner => TypeOK BY DEF Planner
<1> QED BY <1>1, PlannerHolds, PTL

\* The capacity a search ends with is close to one that passes the tail test,
\* for every bound of the search and every verdict.
THEOREM CapacityCloseHolds == Spec => []CapacityClose
BY PlannerHolds, SearchIsClose, PTL

\* The plan covers the run with bins that respect their loads, for every run
\* and every sampled load; its own check never fails.
THEOREM PlanCoversHolds == Spec => []PlanCovers
BY PlannerHolds, PlanIsCover, PTL

\* The noisy prefix never decreases, whatever the noise.
THEOREM PrefixMonotoneHolds == Spec => []PrefixMonotone
<1>1. Planner => PrefixMonotone BY DEF Planner, Windowed, PrefixMonotone
<1> QED BY <1>1, PlannerHolds, PTL

\* Every entry stays within one capacity of the true prefix.
THEOREM PrefixInWindowHolds == Spec => []PrefixInWindow
<1>1. Planner => PrefixInWindow BY DEF Planner, Windowed, PrefixInWindow
<1> QED BY <1>1, PlannerHolds, PTL

\* A factor cancels.
LEMMA FactorCancels ==
  ASSUME NEW x \in Nat, NEW y \in Nat, NEW k \in Nat \ {0}, x * k >= y * k
  PROVE  x >= y
OBVIOUS

\* The ceilings of the number of bins and the even capacity leave two slots
\* for every block, because the decay is less than one.
LEMMA SlotsSufficient == Planner => EnoughSlots
<1> SUFFICES ASSUME Planner, phase \notin {"idle", "sizing"} PROVE BinCount * capacity >= 2 * blocks
  BY DEF EnoughSlots
<1>1. blocks \in Nat /\ capacity \in Nat \ {0}
  BY DEF Planner, TypeOK, Search
<1>2. DecayNum \in Nat \ {0} /\ DecayDen \in Nat \ {0} /\ DecayNum < DecayDen
  BY DecayAssumption
<1> DEFINE n == BinCount
<1>3. n \in Nat BY <1>1, BinCountType
<1>4. n * (capacity * DecayNum) >= 2 * blocks * DecayDen
  <2>1. 2 * blocks * DecayDen \in Nat BY <1>1, <1>2
  <2>2. capacity * DecayNum \in Nat \ {0}
    <3>1. \A x, y \in Nat \ {0} : x * y \in Nat \ {0} OBVIOUS
    <3> QED BY <3>1, <1>1, <1>2
  <2> HIDE DEF CeilDiv
  <2> QED BY <2>1, <2>2, CeilDivCovers DEF BinCount
<1> HIDE DEF n
<1>5. 2 * blocks * DecayDen >= (2 * blocks) * DecayNum
  BY <1>1, <1>2
<1>6. n * (capacity * DecayNum) = (n * capacity) * DecayNum
  BY <1>1, <1>2, <1>3
<1>7. n * capacity \in Nat /\ 2 * blocks \in Nat
  BY <1>1, <1>3
<1>8. (n * capacity) * DecayNum >= (2 * blocks) * DecayNum
  <2>1. \A a, b, c \in Nat : a >= b /\ b >= c => a >= c OBVIOUS
  <2> QED BY <2>1, <1>1, <1>2, <1>3, <1>4, <1>5, <1>6
<1> QED BY <1>2, <1>7, <1>8, FactorCancels DEF n

\* A plan has at least two slots for every block of its run.
THEOREM EnoughSlotsHold == Spec => []EnoughSlots
BY PlannerHolds, SlotsSufficient, PTL
-----------------------------------------------------------------------------
(* The dyadic sums. *)

\* One turn of the loop carries the bits of the entry: the levels below index,
\* which the entry before holds, are merged into index, and the levels above
\* it belong to both entries.
LEMMA AddPrefixSums ==
  ASSUME Planner, DyadicSums, NEW noise \in Noises, AddPrefix(noise)
  PROVE  DyadicSums'
<1> DEFINE t == Len(prefix)
           index == TrailingZeros(t)
           D == 0..(Levels - 1)
           Low == {l \in D : l < index}
           High == {l \in D : l > index /\ Bit(t, l)}
           target == Merged(t, index)
<1>1. /\ phase = "prefix" /\ t <= BinCount
      /\ blockSums' = MergeLevels(blockSums, index, target)
      /\ UNCHANGED totals
  BY DEF AddPrefix, sampling
<1>2. /\ prefix \in Seq(Nat) /\ loads \in Seq(Nat) /\ totals \in Seq(Nat)
      /\ Len(totals) = Len(loads) + 1 /\ blocks \in Nat /\ capacity \in Nat
      /\ t \in Nat \ {0} /\ capacity # 0 /\ Len(loads) = BinCount
  <2>1. /\ prefix \in Seq(Nat) /\ prefix # <<>> /\ loads \in Seq(Nat) /\ totals \in Seq(Nat)
        /\ Len(totals) = Len(loads) + 1 /\ blocks \in Nat /\ capacity \in Nat
    BY DEF Planner, TypeOK
  <2>2. capacity >= 2 BY <1>1 DEF Planner, Search
  <2>3. Len(loads) = BinCount BY <1>1 DEF Planner, Counted
  <2>4. t \in Nat \ {0} BY <2>1, EmptySeq
  <2> QED BY <2>1, <2>2, <2>3, <2>4
<1>3. BinCount \in Nat /\ Levels \in Nat BY <1>2, BinCountType, LevelsType
<1>4. t \in 1..BinCount BY <1>1, <1>2, <1>3
<1>5. blockSums \in [D -> Int] BY <1>1 DEF Planner, Counted
<1>6. /\ Len(prefix') = t + 1 /\ phase' = "prefix"
  BY <1>1, <1>2 DEF AddPrefix
<1>7. loads[t] \in Nat /\ totals[t] \in Nat /\ totals[t + 1] = totals[t] + loads[t]
  <2>1. t \in 1..Len(loads) /\ t \in 1..Len(totals) BY <1>2, <1>4
  <2>2. loads[t] \in Nat BY <1>2, <2>1
  <2>3. totals[t] \in Nat BY <1>2, <2>1
  <2>4. totals[t + 1] = totals[t] + loads[t] BY <2>1 DEF Planner, Summed
  <2> QED BY <2>2, <2>3, <2>4
<1> HIDE DEF t
<1>8. /\ index \in Nat /\ Bit(t, index)
      /\ \A m \in Nat : m < index => ~Bit(t, m)
  BY <1>2, LowestBit
<1>9. index \in D BY <1>3, <1>4, <1>8, BitFits
<1>10. \A l \in Nat : /\ l < index => Bit(t - 1, l)
                      /\ l = index => ~Bit(t - 1, l)
                      /\ l > index => (Bit(t - 1, l) <=> Bit(t, l))
  BY <1>2, Carry
<1> HIDE DEF index
<1>11. /\ {l \in D : Bit(t - 1, l)} = Low \cup High
       /\ {l \in D : Bit(t, l)} = High \cup {index}
       /\ Low \cap High = {} /\ index \notin High
       /\ Low \subseteq D /\ High \subseteq D
  <2>1. D \subseteq Nat BY <1>3
  <2> HIDE DEF D
  <2>2. ASSUME NEW l \in D PROVE l < index \/ l = index \/ l > index BY <2>1, <1>8
  <2>3. ASSUME NEW l \in D PROVE Bit(t - 1, l) <=> l \in Low \cup High
    BY <2>1, <2>2, <2>3, <1>8, <1>10
  <2>4. ASSUME NEW l \in D PROVE Bit(t, l) <=> l \in High \cup {index}
    BY <2>1, <2>2, <2>4, <1>8
  <2>5. \A l \in Low : l \notin High BY <2>1, <1>8
  <2>6. index \notin High BY <1>8
  <2> QED BY <2>3, <2>4, <2>5, <2>6, <1>9
<1>12. IsFiniteSet(Low) /\ IsFiniteSet(High)
  <2>1. IsFiniteSet(D) BY <1>3, FS_Interval
  <2> HIDE DEF D, Low, High
  <2> QED BY <2>1, <1>11, FS_Subset
<1>13. SumOver(blockSums, Low) + SumOver(blockSums, High) = totals[t]
  <2>1. SumUpTo(blockSums, {l \in DOMAIN blockSums : Bit(t - 1, l)}) = totals[t]
    BY <1>1, <1>2 DEF DyadicSums, t
  <2>2. SumUpTo(blockSums, Low \cup High) = totals[t]
    <3>1. DOMAIN blockSums = D BY <1>5
    <3> HIDE DEF D, Low, High
    <3> QED BY <2>1, <3>1, <1>11
  <2>3. SumOver(blockSums, Low \cup High) = totals[t] BY <2>2 DEF SumUpTo, SumOver
  <2>4. \A x \in Low \cup High : blockSums[x] \in Int BY <1>5, <1>11
  <2> HIDE DEF Low, High
  <2> QED BY <2>3, <2>4, <1>11, <1>12, SumJoin
<1>14. target = loads[t] + SumOver(blockSums, Low)
  <2>1. DOMAIN blockSums = D BY <1>5
  <2>2. target = loads[t] + SumUpTo(blockSums, {level \in DOMAIN blockSums : level < index})
    BY DEF Merged
  <2>3. {level \in DOMAIN blockSums : level < index} = Low BY <2>1
  <2>4. target = loads[t] + SumUpTo(blockSums, Low) BY <2>2, <2>3
  <2> HIDE DEF Low, target
  <2> QED BY <2>4 DEF SumUpTo, SumOver
<1>15. SumOver(blockSums, Low) \in Int /\ SumOver(blockSums, High) \in Int
  <2>1. (\A x \in Low : blockSums[x] \in Int) /\ (\A x \in High : blockSums[x] \in Int)
    BY <1>5, <1>11
  <2> HIDE DEF Low, High
  <2> QED BY <2>1, <1>12, SumInt
<1> HIDE DEF target
<1>16. /\ DOMAIN blockSums' = D /\ blockSums'[index] = target
       /\ \A x \in High : blockSums'[x] = blockSums[x]
  <2>1. blockSums' = [level \in D |-> IF level < index THEN 0
                                      ELSE IF level = index THEN target ELSE blockSums[level]]
    BY <1>1, <1>5 DEF MergeLevels
  <2>2. \A x \in High : x \in D /\ ~(x < index) /\ x # index
    BY <1>3, <1>8
  <2>3. blockSums'[index] = target BY <2>1, <1>8, <1>9
  <2> HIDE DEF High
  <2> QED BY <2>1, <2>2, <2>3
<1>17. SumOver(blockSums', High) = SumOver(blockSums, High)
  <2> HIDE DEF High
  <2> QED BY <1>12, <1>16, SumSame
<1>18. SumOver(blockSums', High \cup {index}) = target + SumOver(blockSums', High)
  <2>1. target \in Int BY <1>7, <1>14, <1>15
  <2>2. \A x \in High : blockSums[x] \in Int BY <1>5, <1>11
  <2> HIDE DEF High
  <2>3. \A y \in High \cup {index} : blockSums'[y] \in Int BY <2>1, <2>2, <1>16
  <2>4. SumOver(blockSums', High \cup {index}) = blockSums'[index] + SumOver(blockSums', High)
    BY <2>3, <1>11, <1>12, SumAdd
  <2> QED BY <2>4, <1>16
<1>19. SumOver(blockSums', High \cup {index}) = totals[t + 1]
  <2> HIDE DEF High, Low
  <2> QED BY <1>7, <1>13, <1>14, <1>15, <1>17, <1>18
<1>20. SumUpTo(blockSums', {l \in DOMAIN blockSums' : Bit(t, l)}) = totals[t + 1]
  <2>1. {l \in DOMAIN blockSums' : Bit(t, l)} = High \cup {index}
    <3> HIDE DEF High, D
    <3> QED BY <1>11, <1>16
  <2> HIDE DEF High
  <2> QED BY <1>19, <2>1 DEF SumUpTo, SumOver
<1>21. Len(prefix') - 1 = t BY <1>2, <1>6
<1> QED BY <1>1, <1>20, <1>21 DEF DyadicSums

\* The vector starts with no bit, no level and no load.
LEMMA CheckLoadsSums ==
  ASSUME Planner, CheckLoads
  PROVE  DyadicSums'
<1>1. prefix = <<0>> /\ totals[1] = 0 /\ UNCHANGED <<prefix, totals>>
  BY DEF CheckLoads, sampling, Planner, Fresh, Summed
<1>2. \A l \in Nat : ~Bit(0, l)
  <2>1. \A l \in Nat : Pow2[l] \in Nat \ {0} BY PowerGrows
  <2>2. \A b \in Nat \ {0} : 0 \div b = 0 OBVIOUS
  <2>3. \A l \in Nat : 0 \div Pow2[l] = 0 BY <2>1, <2>2
  <2> QED BY <2>3 DEF Bit
<1>3. CASE LoadsSuffice
  <2>1. blockSums' = [level \in 0..(Levels - 1) |-> 0] BY <1>3 DEF CheckLoads
  <2> DEFINE S == {level \in DOMAIN blockSums' : Bit(0, level)}
  <2>2. Levels \in Nat
    <3>1. phase = "sampling" BY DEF CheckLoads
    <3>2. blocks \in Nat /\ capacity \in Nat \ {0}
      BY <3>1 DEF Planner, TypeOK, Search
    <3> QED BY <3>2, BinCountType, LevelsType
  <2>3. S = {} BY <2>1, <2>2, <1>2
  <2>4. SumUpTo(blockSums', {}) = 0
    <3>1. SumOver(blockSums', {}) = 0 BY SumEmpty
    <3> QED BY <3>1 DEF SumUpTo, SumOver
  <2>5. SumUpTo(blockSums', S) = 0 BY <2>3, <2>4
  <2>6. Len(prefix') - 1 = 0 BY <1>1
  <2> QED BY <1>1, <2>5, <2>6 DEF DyadicSums
<1>4. CASE ~LoadsSuffice
  <2>1. phase' = "insufficient" BY <1>4 DEF CheckLoads
  <2> QED BY <2>1 DEF DyadicSums
<1> QED BY <1>3, <1>4

LEMMA AllocateSums ==
  ASSUME Planner, DyadicSums, Allocate
  PROVE  DyadicSums'
<1>1. ASSUME NEW fails \in BOOLEAN, Probe(fails) PROVE DyadicSums'
  BY <1>1 DEF Probe, Searching, DyadicSums
<1>2. CASE Size BY <1>2 DEF Size, DyadicSums
<1>3. ASSUME NEW load \in 0..(capacity + 1), Sample(load) PROVE DyadicSums'
  <2>1. phase' # "prefix" BY <1>3 DEF Sample
  <2> QED BY <2>1 DEF DyadicSums
<1>4. CASE CheckLoads BY <1>4, CheckLoadsSums
<1>5. ASSUME NEW noise \in Noises, AddPrefix(noise) PROVE DyadicSums'
  BY <1>5, AddPrefixSums
<1>6. CASE EndPrefix BY <1>6 DEF EndPrefix, DyadicSums
<1>7. CASE FillBin BY <1>7 DEF FillBin, DyadicSums
<1>8. CASE Plan
  <2>1. phase' # "prefix" BY <1>8 DEF Plan
  <2> QED BY <2>1 DEF DyadicSums
<1> QED BY <1>1, <1>2, <1>3, <1>4, <1>5, <1>6, <1>7, <1>8 DEF Allocate

\* While the prefix vector is computed, the dyadic levels of an entry hold the
\* loads up to it (compute_noisy_prefix_sums), whatever the loads and however
\* many the bins.
THEOREM DyadicSumsHold == Spec => []DyadicSums
<1>1. Init => DyadicSums BY DEF Init, Idle, DyadicSums
<1>2. ASSUME Planner, DyadicSums, [Next]_allocVars PROVE DyadicSums'
  <2>1. CASE Request
    <3>1. phase' = "sizing" BY <2>1 DEF Request, Begin
    <3> QED BY <3>1 DEF DyadicSums
  <2>2. CASE Allocate BY <1>2, <2>2, AllocateSums
  <2>3. CASE UNCHANGED allocVars
    BY <1>2, <2>3 DEF allocVars, sampling, prefixing, DyadicSums
  <2> QED BY <1>2, <2>1, <2>2, <2>3 DEF Next
<1> QED BY <1>1, <1>2, PlannerHolds, PTL DEF Spec

-----------------------------------------------------------------------------
(* The schedule of a merge. *)

\* Nothing is read before the scan.
Quiet ==
  stage \in {"planning", "binding", "sampling", "refused"} =>
    /\ unread = Zero /\ unfetched = Zero /\ reads = <<>> /\ fetched = <<>>
    /\ scanned = [s \in Sides |-> {}]

\* A side that has bins has read one more than points of it have arrived.
Fed ==
  stage \in {"scanning", "scheduled", "badSchedule"} =>
    \A s \in Sides :
      /\ scanned[s] \subseteq 1..BinCountOf(s)
      /\ unread[s] = BinCountOf(s) \/ unread[s] = Cardinality(scanned[s]) + 1

InOrder ==
  /\ Len(reads) = unread["source"] + unread["target"]
  /\ \A s \in Sides : ReadBins(s) = 0..(unread[s] - 1) /\ unread[s] <= BinCountOf(s)
  /\ \A m, n \in 1..Len(reads) :
       m < n /\ reads[m][1] = reads[n][1] => reads[m][2] < reads[n][2]

\* What the pinned loop has fetched beyond the schedule are the next bins of
\* the target.
Ahead ==
  /\ unfetched["source"] = unread["source"]
  /\ unread["target"] <= unfetched["target"] /\ unfetched["target"] <= BinCountOf("target")
  /\ unread["target"] < unfetched["target"] => unread["source"] = BinCountOf("source")
  /\ Len(fetched) = Len(reads) + (unfetched["target"] - unread["target"])
  /\ \A m \in 1..Len(reads) : fetched[m] = reads[m]
  /\ \A m \in (Len(reads) + 1)..Len(fetched) :
       fetched[m] = <<"target", unread["target"] + (m - Len(reads) - 1)>>

Finished ==
  /\ stage # "badSchedule"
  /\ stage = "scheduled" => \A s \in Sides : unread[s] = BinCountOf(s)

Scheduler == ScheduleTypeOK /\ Quiet /\ Fed /\ InOrder /\ Ahead /\ Finished

-----------------------------------------------------------------------------
(* The planner inside the schedule. *)

\* The planner forgets a call by becoming idle again.
LEMMA ForgetStep ==
  ASSUME Forget
  PROVE  Planner'
<1> USE DEF Forget
<1>1. TypeOK' BY DEF TypeOK, Phases
<1>2. Search' /\ Fresh' BY DEF Search, Fresh
<1>3. Summed' BY DEF Summed
<1>4. Counted' BY DEF Counted
<1>5. Filled' BY DEF Filled
<1>6. Windowed' BY DEF Windowed, Distance
<1> QED BY <1>1, <1>2, <1>3, <1>4, <1>5, <1>6 DEF Planner

\* The steps that are not the planner's leave it alone.
LEMMA PlannerStep ==
  ASSUME Planner, [ScheduleNext]_vars
  PROVE  Planner'
<1>1. CASE Ask
  <2>1. PICK n \in BlockCounts, u \in Uppers : Begin(n, u) BY <1>1 DEF Ask
  <2> QED BY <2>1, BeginStep
<1>2. CASE Work BY <1>2, AllocateStep DEF Work
<1>3. CASE Keep BY <1>3, ForgetStep DEF Keep
<1>4. CASE UNCHANGED allocVars BY <1>4, PlannerStutter
<1> QED BY <1>1, <1>2, <1>3, <1>4
  DEF ScheduleNext, Schedule, Bind, SampleReal, SampleEmpty, Refuse, EndSampling, Arrive, Publish, vars

\* The planner's invariant holds throughout the planning of a merge.
THEOREM MergePlannerHolds == ScheduleSpec => []Planner
<1>1. ScheduleInit => Planner BY InitPlanner DEF ScheduleInit
<1>2. Planner /\ [ScheduleNext]_vars => Planner' BY PlannerStep
<1> QED BY <1>1, <1>2, PTL DEF ScheduleSpec

-----------------------------------------------------------------------------
(* The schedule. *)

Waiting == stage \in {"planning", "binding", "sampling", "refused"}

\* Before the scan the parts about reads say nothing more than Quiet.
LEMMA WaitingScheduler == Waiting /\ ScheduleTypeOK /\ Quiet => Scheduler
<1> SUFFICES ASSUME Waiting, ScheduleTypeOK, Quiet PROVE Scheduler
  OBVIOUS
<1>1. unread = Zero /\ unfetched = Zero /\ reads = <<>> /\ fetched = <<>>
  BY DEF Waiting, Quiet
<1>2. \A s \in Sides : unread[s] = 0 /\ unfetched[s] = 0 /\ BinCountOf(s) \in Nat
  BY <1>1 DEF Zero, ScheduleTypeOK, BinCountOf
<1>3. "source" \in Sides /\ "target" \in Sides BY DEF Sides
<1>4. \A s \in Sides : ReadBins(s) = {} BY <1>1 DEF ReadBins
<1>5. Fed BY DEF Fed, Waiting
<1>6. InOrder
  <2>1. Len(reads) = unread["source"] + unread["target"] BY <1>1, <1>2, <1>3
  <2>2. \A s \in Sides : ReadBins(s) = 0..(unread[s] - 1) /\ unread[s] <= BinCountOf(s)
    <3> SUFFICES ASSUME NEW s \in Sides
                 PROVE  ReadBins(s) = 0..(unread[s] - 1) /\ unread[s] <= BinCountOf(s)
      OBVIOUS
    <3>1. unread[s] = 0 /\ BinCountOf(s) \in Nat BY <1>2
    <3>2. 0..(0 - 1) = {} OBVIOUS
    <3>3. ReadBins(s) = {} BY <1>4
    <3>4. ReadBins(s) = 0..(unread[s] - 1) BY <3>1, <3>2, <3>3
    <3> QED BY <3>1, <3>4
  <2>3. 1..Len(reads) = {} BY <1>1
  <2> QED BY <2>1, <2>2, <2>3 DEF InOrder
<1>7. Ahead BY <1>1, <1>2, <1>3 DEF Ahead
<1>8. Finished BY DEF Finished, Waiting
<1> QED BY <1>5, <1>6, <1>7, <1>8 DEF Scheduler

\* The start.
LEMMA InitScheduler == ScheduleInit => Scheduler
<1> SUFFICES ASSUME ScheduleInit PROVE Scheduler
  OBVIOUS
<1>1. Waiting BY DEF ScheduleInit, Waiting
<1>2. ScheduleTypeOK BY DEF ScheduleInit, ScheduleTypeOK, PlanType, Stages, Sides, NoPlan, Zero
<1>3. Quiet BY DEF ScheduleInit, Quiet
<1> QED BY <1>1, <1>2, <1>3, WaitingScheduler

\* Planning, binding and sampling read nothing.
LEMMA WaitingStep ==
  ASSUME Planner, Scheduler,
         \/ Keep
         \/ \E view \in RunViews : Bind(view)
         \/ \E m \in 1..Len(run[side]) : SampleReal(m)
         \/ SampleEmpty
         \/ Refuse
         \/ EndSampling /\ side = "source"
  PROVE  Scheduler'
<1>1. Waiting
  BY DEF Keep, Bind, SampleReal, SampleEmpty, Refuse, EndSampling, Sampling, Waiting
<1>2. UNCHANGED scanning
  BY DEF Keep, Bind, SampleReal, SampleEmpty, Refuse, EndSampling
<1>3. ScheduleTypeOK /\ Quiet BY DEF Scheduler
<1>4. stage' \in {"planning", "binding", "sampling", "refused"} /\ side' \in Sides
  BY <1>3 DEF Keep, Bind, SampleReal, SampleEmpty, Refuse, EndSampling, Sampling, ScheduleTypeOK, Sides
<1>5. plan' \in [Sides -> PlanType]
  <2>1. CASE Keep
    <3>1. [blocks |-> blocks, bins |-> bins] \in PlanType
      BY DEF Planner, TypeOK, PlanType
    <3> QED BY <2>1, <3>1, <1>3 DEF Keep, ScheduleTypeOK, PlanType
  <2>2. CASE UNCHANGED plan BY <2>2, <1>3 DEF ScheduleTypeOK, PlanType
  <2> QED BY <2>1, <2>2 DEF Bind, SampleReal, SampleEmpty, Refuse, EndSampling
<1>6. ScheduleTypeOK' BY <1>2, <1>3, <1>4, <1>5 DEF ScheduleTypeOK, PlanType, Stages, scanning
<1>7. Quiet' BY <1>1, <1>2, <1>3 DEF Quiet, Waiting, scanning, Zero
<1>8. Waiting' BY <1>4 DEF Waiting
<1>9. Waiting' /\ ScheduleTypeOK' /\ Quiet' => Scheduler' BY WaitingScheduler, PTL
<1> QED BY <1>6, <1>7, <1>8, <1>9

\* A step of the planner, or none.
LEMMA SchedulerStutter ==
  ASSUME Scheduler, UNCHANGED scheduleVars
  PROVE  Scheduler'
<1> USE DEF Scheduler, scheduleVars, scanning, binding
<1>1. \A s \in Sides : BinCountOf(s)' = BinCountOf(s) /\ ReadBins(s)' = ReadBins(s)
  BY DEF BinCountOf, ReadBins
<1>2. "source" \in Sides /\ "target" \in Sides BY DEF Sides
<1>3. ScheduleTypeOK' BY DEF ScheduleTypeOK, PlanType
<1>4. Quiet' BY DEF Quiet
<1>5. Fed' BY <1>1 DEF Fed
<1>6. InOrder' BY <1>1 DEF InOrder
<1>7. Ahead' BY <1>1, <1>2 DEF Ahead
<1>8. Finished' BY <1>1 DEF Finished
<1> QED BY <1>3, <1>4, <1>5, <1>6, <1>7, <1>8

\* The names of the sides.
LEMMA TwoSides ==
  "source" \in Sides /\ "target" \in Sides /\ \A s \in Sides : s = "source" \/ s = "target"
BY DEF Sides

\* Sequences of one element, concatenated.
LEMMA PairConcat ==
  ASSUME NEW S, NEW a \in S, NEW b \in S
  PROVE  /\ <<a>> \o <<b>> = <<a, b>>
         /\ <<>> \o <<a>> = <<a>> /\ <<a>> \o <<>> = <<a>>
<1>1. <<a>> \in Seq(S) /\ <<b>> \in Seq(S) /\ <<a, b>> \in Seq(S)
  OBVIOUS
<1>2. /\ <<a>> \o <<b>> \in Seq(S) /\ Len(<<a>> \o <<b>>) = 2
      /\ (<<a>> \o <<b>>)[1] = a /\ (<<a>> \o <<b>>)[2] = b
  BY <1>1, ConcatProperties
<1>3. <<a>> \o <<b>> = <<a, b>>
  <2> DEFINE s == <<a>> \o <<b>>
             t == <<a, b>>
  <2>1. s \in Seq(S) /\ t \in Seq(S) /\ Len(s) = 2 /\ Len(t) = 2 BY <1>1, <1>2
  <2>2. s[1] = t[1] /\ s[2] = t[2] BY <1>2
  <2> HIDE DEF s, t
  <2>3. \A i \in 1..Len(s) : s[i] = t[i]
    <3>1. \A i \in 1..2 : i = 1 \/ i = 2 OBVIOUS
    <3> QED BY <3>1, <2>1, <2>2
  <2>4. s = t BY <2>1, <2>3, SeqEqual
  <2> QED BY <2>4 DEF s, t
<1>4. <<>> \o <<a>> = <<a>> /\ <<a>> \o <<>> = <<a>>
  BY <1>1, ConcatEmptySeq
<1> QED BY <1>3, <1>4

\* Bin 0 of each side that has bins is read before the scan.
LEMMA StartStep ==
  ASSUME Scheduler, EndSampling, side # "source"
  PROVE  Scheduler'
<1> DEFINE S == BinCountOf("source")
           T == BinCountOf("target")
<1>1. /\ stage = "sampling" /\ stage' = "scanning"
      /\ reads' = Preloads /\ fetched' = Preloads
      /\ unread' = [s \in Sides |-> Preloaded(s)] /\ unfetched' = [s \in Sides |-> Preloaded(s)]
      /\ UNCHANGED <<side, scanned, plan>>
  BY DEF EndSampling
<1>2. \A s \in Sides : BinCountOf(s) \in Nat /\ BinCountOf(s)' = BinCountOf(s)
  BY <1>1 DEF Scheduler, ScheduleTypeOK, PlanType, BinCountOf
<1>3. S \in Nat /\ T \in Nat /\ S' = S /\ T' = T BY <1>2, TwoSides
<1> HIDE DEF S, T
<1>4. /\ \A s \in Sides : unread'[s] = Preloaded(s) /\ unfetched'[s] = Preloaded(s)
      /\ Preloaded("source") = IF S > 0 THEN 1 ELSE 0
      /\ Preloaded("target") = IF T > 0 THEN 1 ELSE 0
      /\ \A s \in Sides : Preloaded(s) = IF BinCountOf(s) > 0 THEN 1 ELSE 0
  BY <1>1 DEF Preloaded, S, T
<1>5. reads' = (IF S > 0 THEN << <<"source", 0>> >> ELSE <<>>)
               \o (IF T > 0 THEN << <<"target", 0>> >> ELSE <<>>)
  BY <1>1 DEF Preloads, S, T
<1>6. /\ S > 0 /\ T > 0 => reads' = << <<"source", 0>>, <<"target", 0>> >>
      /\ S > 0 /\ ~(T > 0) => reads' = << <<"source", 0>> >>
      /\ ~(S > 0) /\ T > 0 => reads' = << <<"target", 0>> >>
      /\ ~(S > 0) /\ ~(T > 0) => reads' = <<>>
  <2>1. <<"source", 0>> \in Sides \X Nat /\ <<"target", 0>> \in Sides \X Nat
    BY TwoSides
  <2>2. <<>> \o <<>> = <<>>
    <3>1. <<>> \in Seq(Nat) OBVIOUS
    <3> QED BY <3>1, ConcatEmptySeq
  <2> QED BY <2>1, <2>2, <1>5, PairConcat
<1>7. ScheduleTypeOK'
  <2>1. reads' \in Seq(Sides \X Nat)
    <3> DEFINE A == Sides \X Nat
               p == <<"source", 0>>
               q == <<"target", 0>>
    <3>1. p \in A /\ q \in A BY TwoSides
    <3>2. reads' \in {<<p, q>>, <<p>>, <<q>>, <<>>} BY <1>6
    <3> HIDE DEF A, p, q
    <3>3. <<p, q>> \in Seq(A) /\ <<p>> \in Seq(A) /\ <<q>> \in Seq(A) BY <3>1
    <3>4. <<>> \in Seq(A) OBVIOUS
    <3>5. reads' \in Seq(A)
      <4> DEFINE B == Seq(A)
      <4>1. {<<p, q>>, <<p>>, <<q>>, <<>>} \subseteq B BY <3>3, <3>4
      <4> HIDE DEF B
      <4>2. reads' \in B BY <3>2, <4>1
      <4> QED BY <4>2 DEF B
    <3> QED BY <3>5 DEF A
  <2>2. fetched' = reads' BY <1>1
  <2>3. unread' \in [Sides -> Nat] /\ unfetched' \in [Sides -> Nat] BY <1>1, <1>2, <1>4
  <2> QED BY <2>1, <2>2, <2>3, <1>1 DEF Scheduler, ScheduleTypeOK, PlanType, Stages
<1>8. Quiet' BY <1>1 DEF Quiet
<1>9. Fed'
  <2>1. \A s \in Sides : scanned'[s] = {} BY <1>1 DEF Scheduler, Quiet
  <2> QED BY <2>1, <1>2, <1>4, FS_EmptySet DEF Fed
<1>10. InOrder'
  <2>1. /\ Len(reads') = unread'["source"] + unread'["target"]
        /\ ReadBins("source")' = IF S > 0 THEN {0} ELSE {}
        /\ ReadBins("target")' = IF T > 0 THEN {0} ELSE {}
        /\ \A m, n \in 1..Len(reads') : m < n => reads'[m][1] # reads'[n][1]
    <3>1. CASE S > 0 /\ T > 0
      <4>1. /\ Len(reads') = 2 /\ reads'[1] = <<"source", 0>> /\ reads'[2] = <<"target", 0>>
            /\ unread'["source"] = 1 /\ unread'["target"] = 1
        BY <3>1, <1>4, <1>6, TwoSides
      <4>2. \A n \in 1..2 : n = 1 \/ n = 2 OBVIOUS
      <4>3. ReadBins("source")' = {0} BY <4>1, <4>2 DEF ReadBins
      <4>4. ReadBins("target")' = {0} BY <4>1, <4>2 DEF ReadBins
      <4> QED BY <3>1, <4>1, <4>2, <4>3, <4>4
    <3>2. CASE S > 0 /\ ~(T > 0)
      <4>1. /\ Len(reads') = 1 /\ reads'[1] = <<"source", 0>>
            /\ unread'["source"] = 1 /\ unread'["target"] = 0
        BY <3>2, <1>4, <1>6, TwoSides
      <4>2. \A n \in 1..1 : n = 1 OBVIOUS
      <4>3. ReadBins("source")' = {0} BY <4>1, <4>2 DEF ReadBins
      <4>4. ReadBins("target")' = {} BY <4>1, <4>2 DEF ReadBins
      <4> QED BY <3>2, <4>1, <4>2, <4>3, <4>4
    <3>3. CASE ~(S > 0) /\ T > 0
      <4>1. /\ Len(reads') = 1 /\ reads'[1] = <<"target", 0>>
            /\ unread'["source"] = 0 /\ unread'["target"] = 1
        BY <3>3, <1>4, <1>6, TwoSides
      <4>2. \A n \in 1..1 : n = 1 OBVIOUS
      <4>3. ReadBins("source")' = {} BY <4>1, <4>2 DEF ReadBins
      <4>4. ReadBins("target")' = {0} BY <4>1, <4>2 DEF ReadBins
      <4> QED BY <3>3, <4>1, <4>2, <4>3, <4>4
    <3>4. CASE ~(S > 0) /\ ~(T > 0)
      <4>1. /\ Len(reads') = 0 /\ unread'["source"] = 0 /\ unread'["target"] = 0
        BY <3>4, <1>4, <1>6, TwoSides
      <4>2. \A s \in Sides : ReadBins(s)' = {} BY <4>1 DEF ReadBins
      <4> QED BY <3>4, <4>1, <4>2, TwoSides
    <3> QED BY <3>1, <3>2, <3>3, <3>4
  <2>2. ASSUME NEW s \in Sides
        PROVE  ReadBins(s)' = 0..(unread'[s] - 1) /\ unread'[s] <= BinCountOf(s)'
    <3>1. ReadBins(s)' = IF BinCountOf(s) > 0 THEN {0} ELSE {}
      BY <2>1, TwoSides DEF S, T
    <3>2. CASE BinCountOf(s) > 0
      <4>1. unread'[s] = 1 BY <3>2, <1>4
      <4>2. 0..(1 - 1) = {0} OBVIOUS
      <4> QED BY <3>1, <3>2, <4>1, <4>2, <1>2
    <3>3. CASE ~(BinCountOf(s) > 0)
      <4>1. unread'[s] = 0 BY <3>3, <1>4
      <4>2. 0..(0 - 1) = {} OBVIOUS
      <4> QED BY <3>1, <3>3, <4>1, <4>2, <1>2
    <3> QED BY <3>2, <3>3
  <2> QED BY <2>1, <2>2 DEF InOrder
<1>11. Ahead'
  <2>1. fetched' = reads' BY <1>1
  <2>2. /\ unfetched'["source"] = unread'["source"] /\ unfetched'["target"] = unread'["target"]
        /\ unread'["target"] \in Nat /\ unread'["target"] <= T'
    BY <1>3, <1>4, TwoSides
  <2>3. Len(reads') \in Nat BY <1>7 DEF ScheduleTypeOK, PlanType
  <2> QED BY <2>1, <2>2, <2>3 DEF Ahead, T
<1>12. Finished' BY <1>1 DEF Finished
<1> QED BY <1>7, <1>8, <1>9, <1>10, <1>11, <1>12 DEF Scheduler

\* The check of the finished schedule passes.
LEMMA PublishStep ==
  ASSUME Scheduler, Publish
  PROVE  Scheduler'
<1>1. /\ stage = "scanning" /\ Unscanned = {}
      /\ stage' = IF EveryBinRead THEN "scheduled" ELSE "badSchedule"
      /\ UNCHANGED <<side, plan, unread, unfetched, reads, fetched, scanned>>
  BY DEF Publish, scanning
<1>2. \A s \in Sides : BinCountOf(s) \in Nat /\ unread[s] \in Nat
  BY DEF Scheduler, ScheduleTypeOK, PlanType, BinCountOf
<1>3. ASSUME NEW s \in Sides
      PROVE  unread[s] = BinCountOf(s)
  <2>1. scanned[s] \subseteq 1..BinCountOf(s) BY <1>1 DEF Scheduler, Fed
  <2>2. ASSUME NEW k \in 1..BinCountOf(s) PROVE k \in scanned[s]
    <3> DEFINE high == Larger(BinCountOf("source"), BinCountOf("target"))
    <3>1. k \in 1..high
      <4>1. high \in Nat /\ BinCountOf(s) <= high BY <1>2, TwoSides DEF Larger
      <4> HIDE DEF high
      <4> QED BY <4>1, <1>2
    <3> DEFINE tag == <<s, k>>
    <3>2. tag \in Sides \X (1..high) /\ tag[1] = s /\ tag[2] = k BY <3>1
    <3>3. tag \notin Unscanned BY <1>1
    <3> HIDE DEF tag
    <3> QED BY <3>2, <3>3, <1>2 DEF Unscanned
  <2>3. scanned[s] = 1..BinCountOf(s) BY <2>1, <2>2
  <2>4. Cardinality(scanned[s]) = BinCountOf(s) BY <2>3, <1>2, FS_Interval
  <2>5. unread[s] <= BinCountOf(s) BY DEF Scheduler, InOrder
  <2>6. unread[s] = BinCountOf(s) \/ unread[s] = Cardinality(scanned[s]) + 1
    BY <1>1 DEF Scheduler, Fed
  <2> QED BY <2>4, <2>5, <2>6, <1>2
<1>4. EveryBinRead BY <1>3, TwoSides DEF EveryBinRead, Scheduler, InOrder
<1>5. stage' = "scheduled" BY <1>1, <1>4
<1>6. \A s \in Sides : BinCountOf(s)' = BinCountOf(s) /\ ReadBins(s)' = ReadBins(s)
  BY <1>1 DEF BinCountOf, ReadBins
<1>7. ScheduleTypeOK' BY <1>1, <1>5 DEF Scheduler, ScheduleTypeOK, PlanType, Stages
<1>8. Quiet' BY <1>5 DEF Quiet
<1>9. Fed' BY <1>1, <1>6 DEF Scheduler, Fed
<1>10. InOrder' BY <1>1, <1>6 DEF Scheduler, InOrder
<1>11. Ahead' BY <1>1, <1>6, TwoSides DEF Scheduler, Ahead
<1>12. Finished' BY <1>1, <1>3, <1>5, <1>6 DEF Finished
<1> QED BY <1>7, <1>8, <1>9, <1>10, <1>11, <1>12 DEF Scheduler

-----------------------------------------------------------------------------
(* The arrival of an interior point. *)

\* An arriving point is counted with its side.
LEMMA ArriveCounts ==
  ASSUME Scheduler, NEW tag \in Unscanned, Arrive(tag)
  PROVE  /\ tag[1] \in Sides /\ tag[2] \in 1..BinCountOf(tag[1]) /\ tag[2] \notin scanned[tag[1]]
         /\ stage = "scanning" /\ UNCHANGED <<stage, side, plan>>
         /\ scanned' = [scanned EXCEPT ![tag[1]] = @ \cup {tag[2]}]
         /\ \A s \in Sides : /\ BinCountOf(s) \in Nat /\ BinCountOf(s)' = BinCountOf(s)
                             /\ unread[s] \in Nat /\ unread[s] <= BinCountOf(s)
<1>1. \A s \in Sides : BinCountOf(s) \in Nat /\ unread[s] \in Nat
  BY DEF Scheduler, ScheduleTypeOK, PlanType, BinCountOf
<1>2. UNCHANGED <<stage, side, plan>> /\ stage = "scanning"
      /\ scanned' = [scanned EXCEPT ![tag[1]] = @ \cup {tag[2]}]
  BY DEF Arrive
<1>3. \A s \in Sides : BinCountOf(s)' = BinCountOf(s) BY <1>2 DEF BinCountOf
<1>4. \A s \in Sides : unread[s] <= BinCountOf(s) BY DEF Scheduler, InOrder
<1>5. tag[1] \in Sides /\ tag[2] <= BinCountOf(tag[1]) /\ tag[2] \notin scanned[tag[1]]
  BY DEF Unscanned
<1>6. tag[2] \in 1..BinCountOf(tag[1])
  <2> DEFINE high == Larger(BinCountOf("source"), BinCountOf("target"))
  <2>1. high \in Nat BY <1>1, TwoSides DEF Larger
  <2>2. tag[2] \in 1..high BY DEF Unscanned
  <2> HIDE DEF high
  <2> QED BY <2>1, <2>2, <1>1, <1>5
<1> QED BY <1>1, <1>2, <1>3, <1>4, <1>5, <1>6

\* The schedule takes the side's next bin, if it has one.
LEMMA ArriveReads ==
  ASSUME Scheduler, NEW tag \in Unscanned, Arrive(tag)
  PROVE  /\ InOrder'
         /\ reads' \in Seq(Sides \X Nat) /\ unread' \in [Sides -> Nat]
<1> DEFINE s == tag[1]
<1>1. /\ s \in Sides
      /\ \A r \in Sides : /\ BinCountOf(r) \in Nat /\ BinCountOf(r)' = BinCountOf(r)
                          /\ unread[r] \in Nat /\ unread[r] <= BinCountOf(r)
  BY ArriveCounts
<1>2. reads \in Seq(Sides \X Nat) /\ unread \in [Sides -> Nat]
  BY DEF Scheduler, ScheduleTypeOK, PlanType
<1>3. /\ Len(reads) = unread["source"] + unread["target"]
      /\ \A r \in Sides : ReadBins(r) = 0..(unread[r] - 1)
      /\ \A m, n \in 1..Len(reads) :
           m < n /\ reads[m][1] = reads[n][1] => reads[m][2] < reads[n][2]
  BY DEF Scheduler, InOrder
<1>4. ReadNext(s) BY DEF Arrive
<1> HIDE DEF s
<1>5. CASE HasUnread(s)
  <2> DEFINE u == unread[s]
             next == <<s, u>>
  <2>1. reads' = Append(reads, next) /\ unread' = [unread EXCEPT ![s] = @ + 1]
    BY <1>4, <1>5 DEF ReadNext
  <2>2. u \in Nat /\ u < BinCountOf(s) /\ next \in Sides \X Nat /\ next[1] = s /\ next[2] = u
    BY <1>1, <1>5 DEF HasUnread
  <2>3. unread'[s] = u + 1 /\ \A r \in Sides \ {s} : unread'[r] = unread[r]
    BY <2>1, <1>1, <1>2
  <2>4. unread' \in [Sides -> Nat] BY <2>1, <2>2, <1>1, <1>2
  <2> HIDE DEF next, u
  <2>5. /\ reads' \in Seq(Sides \X Nat) /\ Len(reads') = Len(reads) + 1
        /\ \A m \in 1..Len(reads) : reads'[m] = reads[m]
        /\ reads'[Len(reads) + 1] = next
    <3> DEFINE A == Sides \X Nat
    <3>1. reads \in Seq(A) /\ next \in A BY <1>2, <2>2
    <3> HIDE DEF A
    <3>2. reads' \in Seq(A) /\ Len(reads') = Len(reads) + 1
      BY <3>1, <2>1, AppendProperties
    <3>3. /\ \A m \in 1..Len(reads) : reads'[m] = reads[m]
          /\ reads'[Len(reads) + 1] = next
      BY <3>1, <2>1, AppendProperties
    <3> QED BY <3>2, <3>3 DEF A
  <2>6. Len(reads) \in Nat BY <1>2
  <2>7. Len(reads') = unread'["source"] + unread'["target"]
    <3>1. CASE s = "source" BY <3>1, <1>1, <1>3, <2>2, <2>3, <2>5, TwoSides DEF u
    <3>2. CASE s = "target" BY <3>2, <1>1, <1>3, <2>2, <2>3, <2>5, TwoSides DEF u
    <3> QED BY <3>1, <3>2, <1>1, TwoSides
  <2>8. ASSUME NEW r \in Sides
        PROVE  ReadBins(r)' = 0..(unread'[r] - 1) /\ unread'[r] <= BinCountOf(r)'
    <3>1. ReadBins(r)' = ReadBins(r) \cup (IF r = s THEN {u} ELSE {})
      <4>1. \A m : m \in 1..Len(reads') <=> m \in 1..Len(reads) \/ m = Len(reads) + 1
        BY <2>5, <2>6
      <4>2. ASSUME NEW b
            PROVE  b \in ReadBins(r)' <=> b \in ReadBins(r) \/ (r = s /\ b = u)
        <5>1. b \in ReadBins(r)' <=> \E m \in 1..Len(reads') : reads'[m][1] = r /\ b = reads'[m][2]
          BY DEF ReadBins
        <5>2. b \in ReadBins(r) <=> \E m \in 1..Len(reads) : reads[m][1] = r /\ b = reads[m][2]
          BY DEF ReadBins
        <5>3. /\ \A m \in 1..Len(reads) : reads'[m][1] = reads[m][1] /\ reads'[m][2] = reads[m][2]
              /\ reads'[Len(reads) + 1][1] = s /\ reads'[Len(reads) + 1][2] = u
          BY <2>2, <2>5
        <5> QED BY <4>1, <5>1, <5>2, <5>3
      <4> QED BY <4>2
    <3>2. CASE r = s
      <4>1. 0..((u + 1) - 1) = 0..(u - 1) \cup {u} BY <2>2
      <4> QED BY <4>1, <3>1, <3>2, <2>2, <2>3, <1>1, <1>3 DEF u
    <3>3. CASE r # s
      BY <3>1, <3>3, <2>3, <1>1, <1>3
    <3> QED BY <3>2, <3>3
  <2>9. ASSUME NEW m \in 1..Len(reads'), NEW n \in 1..Len(reads'),
               m < n, reads'[m][1] = reads'[n][1]
        PROVE  reads'[m][2] < reads'[n][2]
    <3>1. CASE n \in 1..Len(reads)
      <4>1. m \in 1..Len(reads) BY <3>1, <2>6, <2>9
      <4> QED BY <3>1, <4>1, <2>5, <2>9, <1>3
    <3>2. CASE n = Len(reads) + 1
      <4>1. m \in 1..Len(reads) BY <3>2, <2>5, <2>6, <2>9
      <4>2. reads[m][1] = s BY <3>2, <4>1, <2>2, <2>5, <2>9
      <4>3. reads[m][2] \in ReadBins(s) BY <4>1, <4>2 DEF ReadBins
      <4>4. reads[m][2] \in 0..(u - 1) BY <4>3, <1>1, <1>3 DEF u
      <4>5. reads'[m][2] = reads[m][2] /\ reads'[n][2] = u BY <3>2, <4>1, <2>2, <2>5
      <4> QED BY <4>4, <4>5, <2>2
    <3> QED BY <3>1, <3>2, <2>5, <2>6
  <2> QED BY <2>4, <2>5, <2>7, <2>8, <2>9 DEF InOrder
<1>6. CASE ~HasUnread(s)
  <2>1. reads' = reads /\ unread' = unread BY <1>4, <1>6 DEF ReadNext
  <2>2. \A r \in Sides : ReadBins(r)' = ReadBins(r) BY <2>1 DEF ReadBins
  <2> QED BY <2>1, <2>2, <1>1, <1>2, <1>3 DEF InOrder
<1> QED BY <1>5, <1>6

\* A cursor that moves one on.
LEMMA OneOn ==
  ASSUME NEW f \in [Sides -> Nat], NEW s \in Sides, NEW n, n = [f EXCEPT ![s] = @ + 1]
  PROVE  n \in [Sides -> Nat] /\ n[s] = f[s] + 1 /\ \A r \in Sides : r # s => n[r] = f[r]
OBVIOUS

\* The pinned loop takes the same bin, or is ahead with one of the target.
LEMMA ArriveFetches ==
  ASSUME Scheduler, NEW tag \in Unscanned, Arrive(tag)
  PROVE  Ahead' /\ fetched' \in Seq(Sides \X Nat) /\ unfetched' \in [Sides -> Nat]
<1> DEFINE s == tag[1]
           A == Sides \X Nat
           R == BinCountOf("source")
           T == BinCountOf("target")
           us == unread["source"]
           ut == unread["target"]
           ft == unfetched["target"]
           lr == Len(reads)
           lf == Len(fetched)
           Behind(k) == <<"target", ut + (k - lr - 1)>>
<1>1. /\ s = "source" \/ s = "target"
      /\ R \in Nat /\ T \in Nat /\ R' = R /\ T' = T
      /\ us \in Nat /\ ut \in Nat /\ us <= R /\ ut <= T
  BY ArriveCounts, TwoSides
<1>2. /\ reads \in Seq(A) /\ fetched \in Seq(A) /\ unread \in [Sides -> Nat]
      /\ unfetched \in [Sides -> Nat] /\ ft \in Nat
  BY TwoSides DEF Scheduler, ScheduleTypeOK, PlanType
<1>3. lr \in Nat /\ lf \in Nat BY <1>2
<1>4. /\ unfetched["source"] = us /\ ut <= ft /\ ft <= T
      /\ ut < ft => us = R
      /\ lf = lr + (ft - ut)
      /\ \A m \in 1..lr : fetched[m] = reads[m]
      /\ \A m \in (lr + 1)..lf : fetched[m] = Behind(m)
  BY DEF Scheduler, Ahead
<1>16. /\ lr \in Nat /\ lf \in Nat /\ us \in Nat /\ ut \in Nat /\ ft \in Nat
       /\ R \in Nat /\ T \in Nat /\ lf = lr + (ft - ut) /\ ut <= ft /\ ft <= T
  BY <1>1, <1>2, <1>3, <1>4
<1>5. /\ reads' \in Seq(A) /\ unread' \in [Sides -> Nat] BY ArriveReads
<1>6. /\ <<"source", us>> \in A /\ <<"target", ut>> \in A /\ <<"target", ft>> \in A
  BY <1>1, <1>2, TwoSides
<1>7. CASE s = "source" /\ us < R
  <2>1. HasUnread("source") /\ HasUnfetched("source")
    BY <1>4, <1>7 DEF HasUnread, HasUnfetched
  <2>2. /\ reads' = Append(reads, <<"source", us>>)
        /\ unread' = [unread EXCEPT !["source"] = @ + 1]
        /\ fetched' = Append(fetched, <<"source", us>>)
        /\ unfetched' = [unfetched EXCEPT !["source"] = @ + 1]
    BY <1>4, <1>7, <2>1 DEF Arrive, ReadNext, PinnedFetch, Fetch
  <2>3. /\ unread'["source"] = us + 1 /\ unread'["target"] = ut
        /\ unfetched'["source"] = us + 1 /\ unfetched'["target"] = ft
        /\ unfetched' \in [Sides -> Nat]
    <3>1. unread' = [unread EXCEPT !["source"] = @ + 1] /\ unread \in [Sides -> Nat]
      BY <1>2, <2>2
    <3>2. unfetched' = [unfetched EXCEPT !["source"] = @ + 1] /\ unfetched \in [Sides -> Nat]
      BY <1>2, <2>2
    <3>3. unread'["source"] = us + 1 /\ unread'["target"] = ut BY <3>1, TwoSides, OneOn
    <3>4. /\ unfetched' \in [Sides -> Nat]
          /\ unfetched'["source"] = unfetched["source"] + 1 /\ unfetched'["target"] = ft
      BY <3>2, TwoSides, OneOn
    <3> QED BY <3>3, <3>4, <1>4
  <2>4. ut = ft
    <3> HIDE DEF R, us, ut, ft
    <3>1. ~(us = R) BY <1>1, <1>7
    <3> QED BY <3>1, <1>1, <1>2, <1>4
  <2>5. reads = fetched
    <3>1. Len(reads) = Len(fetched) BY <1>1, <1>3, <1>4, <2>4
    <3> QED BY <3>1, <1>2, <1>4, SeqEqual
  <2>6. reads' = fetched' BY <2>2, <2>5
  <2>7. Len(reads') \in Nat BY <1>5
  <2>8. Len(fetched') = Len(reads') + (unfetched'["target"] - unread'["target"])
    BY <1>1, <2>3, <2>4, <2>6, <2>7
  <2>9. (Len(reads') + 1)..Len(fetched') = {} BY <2>6, <2>7
  <2>10. unread'["target"] = unfetched'["target"] /\ unfetched'["target"] \in Nat BY <1>2, <2>3, <2>4
  <2> QED BY <1>1, <1>4, <1>5, <2>3, <2>6, <2>8, <2>9, <2>10 DEF Ahead
<1>8. /\ HasUnread("source") <=> us < R
      /\ HasUnread("target") <=> ut < T
      /\ HasUnfetched("source") <=> us < R
      /\ HasUnfetched("target") <=> ft < T
  BY <1>4 DEF HasUnread, HasUnfetched
<1>9. ReadNext(s) /\ PinnedFetch(s) BY DEF Arrive
<1>10. /\ R' = R /\ T' = T BY <1>1
<1> HIDE DEF s, A
\* What the pinned loop fetches when it takes a bin of the target.
<1>11. ASSUME ft < T, fetched' = Append(fetched, <<"target", ft>>),
              unfetched' = [unfetched EXCEPT !["target"] = @ + 1]
       PROVE  /\ unfetched'["source"] = us /\ unfetched'["target"] = ft + 1
              /\ unfetched' \in [Sides -> Nat]
              /\ fetched' \in Seq(A) /\ Len(fetched') = lf + 1
              /\ \A m \in 1..lr : fetched'[m] = reads[m]
              /\ \A m \in (lr + 1)..(lf + 1) : fetched'[m] = Behind(m)
  <2>1. /\ unfetched'["source"] = us /\ unfetched'["target"] = ft + 1
        /\ unfetched' \in [Sides -> Nat]
    <3>1. unfetched' = [unfetched EXCEPT !["target"] = @ + 1] /\ unfetched \in [Sides -> Nat]
      BY <1>2, <1>11
    <3>2. /\ unfetched' \in [Sides -> Nat]
          /\ unfetched'["source"] = unfetched["source"] /\ unfetched'["target"] = ft + 1
      BY <3>1, TwoSides, OneOn
    <3> QED BY <3>2, <1>4
  <2> DEFINE fetch == <<"target", ft>>
  <2>2. fetch \in A /\ fetched' = Append(fetched, fetch) BY <1>6, <1>11
  <2> HIDE DEF fetch
  <2>3. /\ fetched' \in Seq(A) /\ Len(fetched') = lf + 1
        /\ \A m \in 1..lf : fetched'[m] = fetched[m]
        /\ fetched'[lf + 1] = fetch
    BY <1>2, <2>2, AppendProperties
  <2> HIDE DEF lr, lf, ut, ft, us, R, T, Behind
  <2>4. \A m \in 1..lr : m \in 1..lf BY <1>1, <1>2, <1>3, <1>4
  <2>5. \A m \in 1..lr : fetched'[m] = reads[m] BY <1>4, <2>3, <2>4
  <2>6. Behind(lf + 1) = fetch
    <3>1. ut + ((lf + 1) - lr - 1) = ft BY <1>1, <1>2, <1>3, <1>4
    <3>2. Behind(lf + 1) = <<"target", ut + ((lf + 1) - lr - 1)>> BY Zenon DEF Behind
    <3> QED BY <3>1, <3>2, Zenon DEF fetch
  <2>7. \A m \in (lr + 1)..(lf + 1) : m \in (lr + 1)..lf \/ m = lf + 1
    BY <1>3
  <2>8. \A m \in (lr + 1)..lf : m \in 1..lf BY <1>3
  <2>9. \A m \in (lr + 1)..(lf + 1) : fetched'[m] = Behind(m)
    BY <1>4, <2>3, <2>6, <2>7, <2>8
  <2> QED BY <2>1, <2>3, <2>5, <2>9
\* What the schedule reads when it takes a bin of the target that the loop
\* has fetched.
<1>12. ASSUME ut < T, reads' = Append(reads, <<"target", ut>>),
              unread' = [unread EXCEPT !["target"] = @ + 1],
              NEW high \in Nat, lr < high, Len(fetched') = high,
              \A m \in 1..lr : fetched'[m] = reads[m],
              \A m \in (lr + 1)..high : fetched'[m] = Behind(m)
       PROVE  /\ unread'["source"] = us /\ unread'["target"] = ut + 1
              /\ Len(reads') = lr + 1
              /\ \A m \in 1..Len(reads') : fetched'[m] = reads'[m]
              /\ \A m \in (Len(reads') + 1)..Len(fetched') :
                   fetched'[m] = <<"target", unread'["target"] + (m - Len(reads') - 1)>>
  <2>1. unread'["source"] = us /\ unread'["target"] = ut + 1
    BY <1>1, <1>2, <1>12, TwoSides
  <2> DEFINE next == <<"target", ut>>
  <2>2. next \in A /\ reads' = Append(reads, next) BY <1>6, <1>12
  <2> HIDE DEF next
  <2>3. /\ Len(reads') = lr + 1
        /\ \A m \in 1..lr : reads'[m] = reads[m]
        /\ reads'[lr + 1] = next
    BY <1>2, <2>2, AppendProperties
  <2> HIDE DEF lr, lf, ut, ft, us, R, T, Behind
  <2>4. Behind(lr + 1) = next
    <3>1. ut + ((lr + 1) - lr - 1) = ut BY <1>1, <1>3
    <3>2. Behind(lr + 1) = <<"target", ut + ((lr + 1) - lr - 1)>> BY Zenon DEF Behind
    <3> QED BY <3>1, <3>2, Zenon DEF next
  <2>5. lr + 1 \in (lr + 1)..high BY <1>3, <1>12
  <2>6. \A m \in 1..(lr + 1) : m \in 1..lr \/ m = lr + 1 BY <1>3
  <2>7. \A m \in 1..(lr + 1) : fetched'[m] = reads'[m]
    BY <1>12, <2>3, <2>4, <2>5, <2>6
  <2>8. ASSUME NEW m \in ((lr + 1) + 1)..high
        PROVE  fetched'[m] = <<"target", (ut + 1) + (m - (lr + 1) - 1)>>
    <3>1. m \in (lr + 1)..high /\ m \in Int BY <1>3
    <3>2. (ut + 1) + (m - (lr + 1) - 1) = ut + (m - lr - 1) BY <1>1, <1>3, <3>1
    <3>3. fetched'[m] = Behind(m) BY <1>12, <3>1
    <3> QED BY <3>2, <3>3 DEF Behind
  <2> QED BY <1>12, <2>1, <2>3, <2>7, <2>8
<1>13. CASE s = "source" /\ us = R
  <2>1. reads' = reads /\ unread' = unread
    BY <1>1, <1>8, <1>9, <1>13 DEF ReadNext
  <2>2. CASE ft < T
    <3>1. fetched' = Append(fetched, <<"target", ft>>)
          /\ unfetched' = [unfetched EXCEPT !["target"] = @ + 1]
      BY <1>1, <1>8, <1>9, <1>13, <2>2 DEF PinnedFetch, Fetch
    <3>2. /\ unfetched'["source"] = us /\ unfetched'["target"] = ft + 1
          /\ unfetched' \in [Sides -> Nat]
          /\ fetched' \in Seq(A) /\ Len(fetched') = lf + 1
          /\ \A m \in 1..lr : fetched'[m] = reads[m]
          /\ \A m \in (lr + 1)..(lf + 1) : fetched'[m] = Behind(m)
      BY <1>11, <2>2, <3>1
    <3>3. lf + 1 = lr + ((ft + 1) - ut)
      <4> HIDE DEF lr, lf, us, ut, ft, R, T
      <4> QED BY <1>16
    <3>4. unread'["target"] = ut /\ unread'["source"] = us /\ Len(reads') = lr BY <2>1
    <3>5. ft + 1 <= T /\ ut <= ft + 1 BY <1>1, <1>2, <1>4, <2>2
    <3> QED BY <1>10, <1>13, <2>1, <3>2, <3>3, <3>4, <3>5 DEF Ahead, A
  <2>3. CASE ~(ft < T)
    <3>1. fetched' = fetched /\ unfetched' = unfetched
      BY <1>1, <1>8, <1>9, <1>13, <2>3 DEF PinnedFetch
    <3> QED BY <1>2, <1>4, <1>10, <2>1, <3>1 DEF Ahead, A
  <2> QED BY <2>2, <2>3
<1>14. CASE s = "target"
  <2>1. CASE ut < T
    <3>1. /\ reads' = Append(reads, <<"target", ut>>)
          /\ unread' = [unread EXCEPT !["target"] = @ + 1]
      BY <1>8, <1>9, <1>14, <2>1 DEF ReadNext
    <3>2. CASE ft < T
      <4>1. fetched' = Append(fetched, <<"target", ft>>)
            /\ unfetched' = [unfetched EXCEPT !["target"] = @ + 1]
        BY <1>8, <1>9, <1>14, <3>2 DEF PinnedFetch, Fetch
      <4>2. /\ unfetched'["source"] = us /\ unfetched'["target"] = ft + 1
            /\ unfetched' \in [Sides -> Nat]
            /\ fetched' \in Seq(A) /\ Len(fetched') = lf + 1
            /\ \A m \in 1..lr : fetched'[m] = reads[m]
            /\ \A m \in (lr + 1)..(lf + 1) : fetched'[m] = Behind(m)
        BY <1>11, <3>2, <4>1
      <4>3. lf + 1 \in Nat /\ lr < lf + 1
        <5> HIDE DEF lr, lf, us, ut, ft, R, T
        <5> QED BY <1>16
      <4>4. /\ unread'["source"] = us /\ unread'["target"] = ut + 1
            /\ Len(reads') = lr + 1
            /\ \A m \in 1..Len(reads') : fetched'[m] = reads'[m]
            /\ \A m \in (Len(reads') + 1)..Len(fetched') :
                 fetched'[m] = <<"target", unread'["target"] + (m - Len(reads') - 1)>>
        <5> HIDE DEF lr, lf, Behind, us, ut
        <5> QED BY <1>12, <2>1, <3>1, <4>2, <4>3 DEF ut
      <4>5. lf + 1 = (lr + 1) + ((ft + 1) - (ut + 1))
        <5> HIDE DEF lr, lf, us, ut, ft, R, T
        <5> QED BY <1>16
      <4>6. ft + 1 <= T /\ ut + 1 <= ft + 1 /\ (ut + 1 < ft + 1 => us = R)
        BY <1>1, <1>2, <1>4, <3>2
      <4>7. /\ unfetched'["source"] = unread'["source"]
            /\ unread'["target"] <= unfetched'["target"] /\ unfetched'["target"] <= T
            /\ unread'["target"] < unfetched'["target"] => unread'["source"] = R
        BY <4>2, <4>4, <4>6
      <4>8. Len(fetched') = Len(reads') + (unfetched'["target"] - unread'["target"])
        BY <4>2, <4>4, <4>5
      <4>9. \A m \in 1..Len(reads') : fetched'[m] = reads'[m]
        BY <4>4
      <4>10. \A m \in (Len(reads') + 1)..Len(fetched') :
               fetched'[m] = <<"target", unread'["target"] + (m - Len(reads') - 1)>>
        BY <4>4
      <4>11. Ahead'
        BY <1>10, <4>7, <4>8, <4>9, <4>10 DEF Ahead
      <4> QED BY <4>2, <4>11 DEF A
    <3>3. CASE ~(ft < T)
      <4>1. fetched' = fetched /\ unfetched' = unfetched
        BY <1>8, <1>9, <1>14, <3>3 DEF PinnedFetch
      <4>2. ut < ft /\ lf \in Nat /\ lr < lf
        <5> HIDE DEF lr, lf, us, ut, ft, R, T
        <5> QED BY <1>16, <2>1, <3>3
      <4>3. /\ Len(fetched') = lf
            /\ \A m \in 1..lr : fetched'[m] = reads[m]
            /\ \A m \in (lr + 1)..lf : fetched'[m] = Behind(m)
        BY <1>4, <4>1
      <4>4. /\ unread'["source"] = us /\ unread'["target"] = ut + 1
            /\ Len(reads') = lr + 1
            /\ \A m \in 1..Len(reads') : fetched'[m] = reads'[m]
            /\ \A m \in (Len(reads') + 1)..Len(fetched') :
                 fetched'[m] = <<"target", unread'["target"] + (m - Len(reads') - 1)>>
        <5> HIDE DEF lr, lf, Behind, us, ut
        <5> QED BY <1>12, <2>1, <3>1, <4>2, <4>3 DEF ut
      <4>5. lf = (lr + 1) + (ft - (ut + 1))
        <5> HIDE DEF lr, lf, us, ut, ft, R, T
        <5> QED BY <1>16
      <4>6. ut + 1 <= ft /\ (ut + 1 < ft => us = R) BY <1>1, <1>2, <1>4, <4>2
      <4> QED BY <1>2, <1>4, <1>10, <4>1, <4>3, <4>4, <4>5, <4>6 DEF Ahead, A
    <3> QED BY <3>2, <3>3
  <2>2. CASE ~(ut < T)
    <3>1. reads' = reads /\ unread' = unread
      BY <1>8, <1>9, <1>14, <2>2 DEF ReadNext
    <3>2. fetched' = fetched /\ unfetched' = unfetched
      <4>1. ~(ft < T) BY <1>1, <1>2, <1>4, <2>2
      <4> QED BY <1>8, <1>9, <1>14, <4>1 DEF PinnedFetch
    <3> QED BY <1>2, <1>4, <1>10, <3>1, <3>2 DEF Ahead, A
  <2> QED BY <2>1, <2>2
<1>15. us < R \/ us = R BY <1>1
<1> QED BY <1>1, <1>7, <1>13, <1>14, <1>15

\* Every arriving point preserves the invariant.
LEMMA ArriveStep ==
  ASSUME Scheduler, NEW tag \in Unscanned, Arrive(tag)
  PROVE  Scheduler'
<1> DEFINE s == tag[1]
           k == tag[2]
<1>1. /\ s \in Sides /\ k \in 1..BinCountOf(s) /\ k \notin scanned[s]
      /\ stage = "scanning" /\ UNCHANGED <<stage, side, plan>>
      /\ scanned' = [scanned EXCEPT ![s] = @ \cup {k}]
      /\ \A r \in Sides : /\ BinCountOf(r) \in Nat /\ BinCountOf(r)' = BinCountOf(r)
                          /\ unread[r] \in Nat /\ unread[r] <= BinCountOf(r)
  BY ArriveCounts
<1>2. InOrder' /\ reads' \in Seq(Sides \X Nat) /\ unread' \in [Sides -> Nat]
  BY ArriveReads
<1>3. Ahead' /\ fetched' \in Seq(Sides \X Nat) /\ unfetched' \in [Sides -> Nat]
  BY ArriveFetches
<1>4. scanned \in [Sides -> SUBSET Nat] /\ unread \in [Sides -> Nat]
  BY DEF Scheduler, ScheduleTypeOK, PlanType
<1>5. ReadNext(s) BY DEF Arrive
<1> HIDE DEF s, k
<1>6. scanned' \in [Sides -> SUBSET Nat]
  <2>1. k \in Nat BY <1>1
  <2> QED BY <2>1, <1>1, <1>4
<1>7. ScheduleTypeOK' BY <1>1, <1>2, <1>3, <1>6 DEF Scheduler, ScheduleTypeOK, PlanType
<1>8. Quiet' BY <1>1 DEF Quiet
<1>9. Fed'
  <2> SUFFICES ASSUME NEW r \in Sides
               PROVE  /\ scanned'[r] \subseteq 1..BinCountOf(r)'
                      /\ \/ unread'[r] = BinCountOf(r)'
                         \/ unread'[r] = Cardinality(scanned'[r]) + 1
    BY DEF Fed
  <2>1. /\ scanned[r] \subseteq 1..BinCountOf(r)
        /\ unread[r] = BinCountOf(r) \/ unread[r] = Cardinality(scanned[r]) + 1
    BY <1>1 DEF Scheduler, Fed
  <2>2. CASE r # s
    <3>1. scanned'[r] = scanned[r] BY <1>1, <1>4, <2>2
    <3>2. unread'[r] = unread[r] BY <1>4, <1>5, <2>2 DEF ReadNext
    <3> QED BY <3>1, <3>2, <2>1, <1>1
  <2>3. CASE r = s
    <3>1. scanned'[r] = scanned[r] \cup {k} BY <1>1, <1>4, <2>3
    <3>2. scanned'[r] \subseteq 1..BinCountOf(r)' BY <3>1, <2>1, <2>3, <1>1
    <3>3. IsFiniteSet(scanned[r])
      <4>1. IsFiniteSet(1..BinCountOf(r)) BY <1>1, FS_Interval
      <4> QED BY <4>1, <2>1, FS_Subset
    <3>4. /\ Cardinality(scanned[r]) \in Nat
          /\ Cardinality(scanned'[r]) = Cardinality(scanned[r]) + 1
      <4>1. k \notin scanned[r] BY <1>1, <2>3
      <4> QED BY <3>1, <3>3, <4>1, FS_AddElement, FS_CardinalityType
    <3>5. CASE unread[r] < BinCountOf(r)
      <4>1. unread'[r] = unread[r] + 1 BY <3>5, <2>3, <1>4, <1>5 DEF ReadNext, HasUnread
      <4>2. unread[r] = Cardinality(scanned[r]) + 1 BY <3>5, <2>1, <1>1
      <4> QED BY <3>2, <3>4, <4>1, <4>2
    <3>6. CASE unread[r] = BinCountOf(r)
      <4>1. unread' = unread BY <3>6, <2>3, <1>1, <1>5 DEF ReadNext, HasUnread
      <4> QED BY <3>2, <3>6, <4>1, <1>1
    <3> QED BY <3>5, <3>6, <1>1
  <2> QED BY <2>2, <2>3
<1>10. Finished' BY <1>1 DEF Finished
<1> QED BY <1>2, <1>3, <1>7, <1>8, <1>9, <1>10 DEF Scheduler

-----------------------------------------------------------------------------
(* The theorems. *)

\* Every step of the planning of a merge preserves both invariants.
LEMMA SchedulerStep ==
  ASSUME Planner, Scheduler, [ScheduleNext]_vars
  PROVE  Scheduler'
<1>1. CASE UNCHANGED scheduleVars BY <1>1, SchedulerStutter
<1>2. CASE Keep BY <1>2, WaitingStep
<1>3. CASE \E view \in RunViews : Bind(view) BY <1>3, WaitingStep
<1>4. CASE \E m \in 1..Len(run[side]) : SampleReal(m) BY <1>4, WaitingStep
<1>5. CASE SampleEmpty BY <1>5, WaitingStep
<1>6. CASE EndSampling
  <2>1. CASE side = "source" BY <1>6, <2>1, WaitingStep
  <2>2. CASE side # "source" BY <1>6, <2>2, StartStep
  <2> QED BY <2>1, <2>2
<1>7. CASE \E tag \in Unscanned : Arrive(tag) BY <1>7, ArriveStep
<1>8. CASE Publish BY <1>8, PublishStep
<1>9. CASE Refuse BY <1>9, WaitingStep
<1>10. Ask \/ Work \/ UNCHANGED vars => UNCHANGED scheduleVars BY DEF Ask, Work, vars
<1> QED BY <1>1, <1>2, <1>3, <1>4, <1>5, <1>6, <1>7, <1>8, <1>9, <1>10 DEF ScheduleNext, Schedule

\* The invariant of the schedule holds in every reachable state.
THEOREM SchedulerHolds == ScheduleSpec => []Scheduler
<1>1. ScheduleInit => Scheduler BY InitScheduler
<1>2. Planner /\ Scheduler /\ [ScheduleNext]_vars => Scheduler' BY SchedulerStep
<1> QED BY <1>1, <1>2, MergePlannerHolds, PTL DEF ScheduleSpec

\* What the scan reads and counts keeps its type.
THEOREM ScheduleTypeCorrect == ScheduleSpec => []ScheduleTypeOK
<1>1. Scheduler => ScheduleTypeOK BY DEF Scheduler
<1> QED BY <1>1, SchedulerHolds, PTL

\* At the end nothing is left that the pinned loop has fetched and the
\* schedule has not.
LEMMA SchedulerMatches == Scheduler => MatchesPinnedLoop
<1> SUFFICES ASSUME Scheduler PROVE MatchesPinnedLoop
  OBVIOUS
<1>1. /\ reads \in Seq(Sides \X Nat) /\ fetched \in Seq(Sides \X Nat)
      /\ unread["target"] \in Nat /\ unfetched["target"] \in Nat
      /\ BinCountOf("target") \in Nat
  BY TwoSides DEF Scheduler, ScheduleTypeOK, PlanType, BinCountOf
<1>2. /\ unread["target"] <= unfetched["target"] /\ unfetched["target"] <= BinCountOf("target")
      /\ Len(fetched) = Len(reads) + (unfetched["target"] - unread["target"])
      /\ \A m \in 1..Len(reads) : fetched[m] = reads[m]
  BY DEF Scheduler, Ahead
<1>3. Len(reads) \in Nat /\ Len(reads) <= Len(fetched) BY <1>1, <1>2
<1>4. ASSUME stage = "scheduled" PROVE reads = fetched
  <2>1. unread["target"] = BinCountOf("target") BY <1>4, TwoSides DEF Scheduler, Finished
  <2>2. Len(reads) = Len(fetched) BY <2>1, <1>1, <1>2, <1>3
  <2> QED BY <2>2, <1>1, <1>2, SeqEqual
<1> QED BY <1>2, <1>3, <1>4 DEF MatchesPinnedLoop

\* "On well-formed input the projected sequences coincide": for all plans,
\* runs and interior points the schedule is a prefix of the pinned loop's
\* fetches, and equals them at the end.
THEOREM MatchesPinnedLoopHolds == ScheduleSpec => []MatchesPinnedLoop
BY SchedulerHolds, SchedulerMatches, PTL

\* Every bin of every plan is read once and in order, and the check of the
\* finished schedule never fails.
THEOREM EveryBinOnceHolds == ScheduleSpec => []EveryBinOnce
<1>1. Scheduler => EveryBinOnce BY DEF Scheduler, InOrder, Finished, EveryBinOnce
<1> QED BY <1>1, SchedulerHolds, PTL

\* No step of the schedule disturbs the dyadic sums of a call.
LEMMA MergeSumsStep ==
  ASSUME Planner, DyadicSums, [ScheduleNext]_vars
  PROVE  DyadicSums'
<1>1. CASE Ask
  <2>1. phase' = "sizing" BY <1>1 DEF Ask, Begin
  <2> QED BY <2>1 DEF DyadicSums
<1>2. CASE Work BY <1>2, AllocateSums DEF Work
<1>3. CASE Keep
  <2>1. phase' = "idle" BY <1>3 DEF Keep, Forget
  <2> QED BY <2>1 DEF DyadicSums
<1>4. CASE UNCHANGED allocVars BY <1>4 DEF allocVars, sampling, prefixing, DyadicSums
<1> QED BY <1>1, <1>2, <1>3, <1>4
  DEF ScheduleNext, Schedule, Bind, SampleReal, SampleEmpty, Refuse, EndSampling, Arrive, Publish, vars

\* The plans of a merge keep what a single call of the planner promises.
THEOREM MergePlansHold ==
  ScheduleSpec =>
    [](CapacityClose /\ PlanCovers /\ PrefixMonotone /\ PrefixInWindow /\ DyadicSums)
<1>1. Planner => PrefixMonotone /\ PrefixInWindow
  BY DEF Planner, Windowed, PrefixMonotone, PrefixInWindow
<1>2. ScheduleInit => DyadicSums BY DEF ScheduleInit, Idle, DyadicSums
<1>3. Planner /\ DyadicSums /\ [ScheduleNext]_vars => DyadicSums' BY MergeSumsStep
<1> QED BY <1>1, <1>2, <1>3, MergePlannerHolds, SearchIsClose, PlanIsCover, PTL DEF ScheduleSpec

-----------------------------------------------------------------------------
(* The interior points of the bins. *)

\* The bins of a side lie one behind the other.
InRow(cut) ==
  /\ \A k \in 1..Len(cut) : cut[k].start <= cut[k].stop
  /\ \A m, n \in 1..Len(cut) : m < n => cut[m].stop <= cut[n].start

\* What a bin's record holds.
LEMMA CutType ==
  ASSUME NEW cut \in Seq([start : Nat, stop : Nat]), NEW k \in 1..Len(cut)
  PROVE  cut[k].start \in Nat /\ cut[k].stop \in Nat
<1> DEFINE R == [start : Nat, stop : Nat]
<1>1. cut \in Seq(R) /\ k \in 1..Len(cut) OBVIOUS
<1>2. cut[k] \in R
  <2> HIDE DEF R
  <2> QED BY <1>1, ElementOfSeq
<1> QED BY <1>2

\* A point is drawn among its bin's own records, or is the sentinel.
DrawnFrom(s, k) ==
  IF EmptyReal(s, k) THEN points[s][k] = DummyPosInf
  ELSE \E m \in RealRecords(s, k) : points[s][k] = RealPoint(run[s][m])

Increasing(keys) == \A m, n \in 1..Len(keys) : m < n => keys[m] < keys[n]

\* The plans and the runs are in order, and every point there is belongs to its
\* bin.
Drawn ==
  /\ InRow(bins)
  /\ \A s \in Sides : InRow(plan[s].bins) /\ Increasing(run[s])
  /\ run \in [Sides -> Seq(Int)] /\ points \in [Sides -> Seq(Int \X Int)]
  /\ \A s \in Sides : \A k \in 1..Len(points[s]) : DrawnFrom(s, k)

\* A side is bound before its points are drawn, the source first, and all of
\* them are drawn before the scan.
Turns ==
  /\ stage = "planning" => \A s \in Sides : points[s] = <<>>
  /\ stage \in {"binding", "sampling"} =>
       IF side = "source" THEN points["target"] = <<>>
       ELSE Len(points["source"]) = BinCountOf("source")
  /\ stage = "binding" => points[side] = <<>>
  /\ stage \in {"scanning", "scheduled", "badSchedule"} =>
       \A s \in Sides : Len(points[s]) = BinCountOf(s)

LEMMA InitDrawn == ScheduleInit => Drawn /\ Turns
<1> SUFFICES ASSUME ScheduleInit PROVE Drawn /\ Turns
  OBVIOUS
<1>1. /\ bins = <<>> /\ stage = "planning" /\ plan = [s \in Sides |-> NoPlan]
      /\ run = [s \in Sides |-> <<>>] /\ points = [s \in Sides |-> <<>>]
  BY DEF ScheduleInit, Idle
<1>2. InRow(<<>>) /\ Increasing(<<>>) BY DEF InRow, Increasing
<1>3. \A s \in Sides : InRow(plan[s].bins) /\ Increasing(run[s])
  BY <1>1, <1>2 DEF NoPlan
<1>4. run \in [Sides -> Seq(Int)] /\ points \in [Sides -> Seq(Int \X Int)]
  BY <1>1
<1>5. \A s \in Sides : points[s] = <<>> BY <1>1
<1>6. Drawn BY <1>1, <1>2, <1>3, <1>4, <1>5 DEF Drawn
<1> QED BY <1>1, <1>5, <1>6 DEF Turns

\* The planner hands the bins out one behind the other.
LEMMA OrderStays ==
  ASSUME Planner, InRow(bins), [ScheduleNext]_vars
  PROVE  InRow(bins')
<1>1. CASE UNCHANGED bins BY <1>1
<1>2. CASE bins' = <<>> BY <1>2 DEF InRow
<1>3. CASE FillBin
  <2> DEFINE n == Len(bins)
             new == bins'[n + 1]
  <2>1. bins \in Seq([start : Nat, stop : Nat]) BY DEF Planner, TypeOK
  <2>2. bins' \in Seq([start : Nat, stop : Nat])
    <3>1. Planner' BY <1>3, FillBinStep
    <3> QED BY <3>1 DEF Planner, TypeOK
  <2>3. /\ n \in Nat /\ Len(bins') = n + 1
        /\ \A k \in 1..n : bins'[k] = bins[k]
        /\ new.start = Consumed
    BY <1>3, <2>1 DEF FillBin
  <2>4. \A k \in 1..(n + 1) : bins'[k].start <= bins'[k].stop
    <3>1. PlanCovers'
      <4>1. Planner' BY <1>3, FillBinStep
      <4>2. Planner' => PlanCovers' BY PlanIsCover, PTL
      <4> QED BY <4>1, <4>2
    <3> QED BY <3>1, <2>3 DEF PlanCovers
  <2>5. \A k \in 1..n : bins[k].start \in Nat /\ bins[k].stop \in Nat BY <2>1, CutType
  <2>6. \A k \in 1..n : bins[k].stop <= Consumed
    <3> SUFFICES ASSUME NEW k \in 1..n PROVE bins[k].stop <= Consumed OBVIOUS
    <3>1. n # 0 /\ n \in 1..n BY <2>3
    <3>2. bins # <<>> BY <3>1
    <3>3. Consumed = bins[n].stop BY <3>2 DEF Consumed
    <3>4. CASE k = n BY <3>3, <3>4, <2>5
    <3>5. CASE k < n
      <4>1. bins[k].stop <= bins[n].start BY <3>1, <3>5 DEF InRow
      <4>2. bins[n].start <= bins[n].stop BY <3>1 DEF InRow
      <4> QED BY <3>1, <3>3, <4>1, <4>2, <2>5
    <3> QED BY <3>4, <3>5, <2>3
  <2> HIDE DEF n
  <2>7. ASSUME NEW k \in 1..(n + 1), NEW m \in 1..(n + 1), k < m
        PROVE  bins'[k].stop <= bins'[m].start
    <3>1. k \in 1..n BY <2>3, <2>7
    <3>2. CASE m = n + 1 BY <3>1, <3>2, <2>3, <2>6
    <3>3. CASE m \in 1..n BY <3>1, <3>3, <2>3, <2>7 DEF InRow, n
    <3> QED BY <3>2, <3>3, <2>3
  <2> QED BY <2>3, <2>4, <2>7 DEF InRow
<1>4. CASE Ask BY <1>1, <1>4 DEF Ask, Begin
<1>5. CASE Work
  <2>1. FillBin \/ UNCHANGED bins
    BY <1>5 DEF Work, Allocate, Probe, Size, Sample, CheckLoads, AddPrefix, EndPrefix, Plan
  <2> QED BY <1>1, <1>3, <2>1
<1>6. CASE Keep BY <1>2, <1>6 DEF Keep, Forget
<1>7. CASE UNCHANGED allocVars BY <1>1, <1>7 DEF allocVars
<1> QED BY <1>4, <1>5, <1>6, <1>7
  DEF ScheduleNext, Schedule, Bind, SampleReal, SampleEmpty, Refuse, EndSampling, Arrive, Publish, vars

\* A step that touches no plan, no run and no point.
LEMMA DrawnStutter ==
  ASSUME Drawn, InRow(bins'), UNCHANGED <<plan, run, points>>
  PROVE  Drawn'
BY DEF Drawn, DrawnFrom, EmptyReal, RealRecords, BinOf

\* The points that are there when a side gets its plan or its run are of the
\* other side, and every new point belongs to its bin.
LEMMA DrawnStep ==
  ASSUME Planner, Scheduler, Drawn, Turns, [ScheduleNext]_vars
  PROVE  Drawn' /\ Turns'
<1>1. InRow(bins') BY OrderStays DEF Drawn
<1>2. /\ run \in [Sides -> Seq(Int)] /\ points \in [Sides -> Seq(Int \X Int)]
      /\ plan \in [Sides -> PlanType] /\ side \in Sides
  BY DEF Drawn, Scheduler, ScheduleTypeOK
<1>3. CASE UNCHANGED scheduleVars
  <2>1. UNCHANGED <<stage, side, plan, run, points>> BY <1>3 DEF scheduleVars, binding
  <2> QED BY <2>1, <1>1, DrawnStutter DEF Turns, BinCountOf
<1>4. CASE Keep
  <2>1. /\ plan' = [plan EXCEPT ![side] = [blocks |-> blocks, bins |-> bins]]
        /\ UNCHANGED <<run, points>> /\ \A s \in Sides : points[s] = <<>>
        /\ stage' = "planning" \/ (stage' = "binding" /\ side' = "source")
    BY <1>4 DEF Keep, binding, Turns
  <2>2. \A s \in Sides : plan'[s].bins = IF s = side THEN bins ELSE plan[s].bins
    BY <2>1, <1>2
  <2>3. \A s \in Sides : InRow(plan'[s].bins) BY <2>2 DEF Drawn
  <2>4. \A s \in Sides : points'[s] = <<>> BY <2>1
  <2>5. Drawn' BY <2>1, <2>3, <2>4, <1>1 DEF Drawn
  <2> QED BY <2>1, <2>4, <2>5, TwoSides DEF Turns
<1>5. ASSUME NEW view \in RunViews, Bind(view) PROVE Drawn' /\ Turns'
  <2>1. /\ stage = "binding" /\ UNCHANGED <<side, plan, points>> /\ points[side] = <<>>
        /\ \/ stage' = "sampling" /\ run' = [run EXCEPT ![side] = view]
           \/ stage' = "refused" /\ UNCHANGED run
    BY <1>5 DEF Bind, Turns
  <2>2. CASE stage' = "refused" /\ UNCHANGED run
    BY <2>1, <2>2, <1>1, DrawnStutter DEF Turns
  <2>3. CASE stage' = "sampling" /\ run' = [run EXCEPT ![side] = view]
    <3>1. view \in Seq(Int) /\ Increasing(view) BY RunsAssumption DEF Increasing
    <3>2. \A s \in Sides : run'[s] = IF s = side THEN view ELSE run[s] BY <2>3, <1>2
    <3>3. run' \in [Sides -> Seq(Int)] BY <2>3, <3>1, <1>2
    <3>4. \A s \in Sides : Increasing(run'[s]) BY <3>1, <3>2 DEF Drawn
    <3>5. \A s \in Sides : \A k \in 1..Len(points[s]) : s # side BY <2>1
    <3>6. \A s \in Sides : \A k \in 1..Len(points'[s]) : DrawnFrom(s, k)'
      <4> SUFFICES ASSUME NEW s \in Sides, NEW k \in 1..Len(points'[s]) PROVE DrawnFrom(s, k)'
        OBVIOUS
      <4>1. k \in 1..Len(points[s]) /\ s # side BY <2>1, <3>5
      <4>2. run'[s] = run[s] BY <3>2, <4>1
      <4>3. DrawnFrom(s, k) BY <4>1 DEF Drawn
      <4> QED BY <2>1, <4>2, <4>3 DEF DrawnFrom, EmptyReal, RealRecords, BinOf
    <3>7. \A s \in Sides : InRow(plan'[s].bins) BY <2>1 DEF Drawn
    <3>8. Drawn' BY <1>1, <1>2, <2>1, <3>3, <3>4, <3>6, <3>7 DEF Drawn
    <3> QED BY <2>1, <2>3, <3>8 DEF Turns, BinCountOf
  <2> QED BY <2>1, <2>2, <2>3
<1>6. ASSUME NEW point \in Int \X Int,
             Sampling, points' = [points EXCEPT ![side] = Append(@, point)],
             UNCHANGED <<stage, side, plan, run>>,
             IF EmptyReal(side, Len(points[side]) + 1) THEN point = DummyPosInf
             ELSE \E m \in RealRecords(side, Len(points[side]) + 1) :
                    point = RealPoint(run[side][m])
      PROVE  Drawn' /\ Turns'
  <2>1. /\ points' \in [Sides -> Seq(Int \X Int)]
        /\ points'[side] = Append(points[side], point)
        /\ \A s \in Sides : s # side => points'[s] = points[s]
    BY <1>2, <1>6
  <2>2. \A s \in Sides : \A k \in 1..Len(points'[s]) : DrawnFrom(s, k)'
    <3> SUFFICES ASSUME NEW s \in Sides, NEW k \in 1..Len(points'[s]) PROVE DrawnFrom(s, k)'
      OBVIOUS
    <3>1. CASE k \in 1..Len(points[s])
      <4>1. points'[s][k] = points[s][k]
        <5>1. points[side] \in Seq(Int \X Int) BY <1>2
        <5>2. CASE s = side BY <5>1, <5>2, <2>1, <3>1
        <5>3. CASE s # side BY <5>3, <2>1
        <5> QED BY <5>2, <5>3
      <4>2. DrawnFrom(s, k) BY <3>1 DEF Drawn
      <4> QED BY <4>1, <4>2, <1>6 DEF DrawnFrom, EmptyReal, RealRecords, BinOf
    <3>2. CASE k \notin 1..Len(points[s])
      <4>1. s = side BY <2>1, <3>2
      <4>2. points[side] \in Seq(Int \X Int) BY <1>2
      <4>3. k = Len(points[side]) + 1 /\ points'[s][k] = point BY <4>1, <4>2, <2>1, <3>2
      <4> QED BY <4>1, <4>3, <1>6 DEF DrawnFrom, EmptyReal, RealRecords, BinOf
    <3> QED BY <3>1, <3>2
  <2>3. \A s \in Sides : InRow(plan'[s].bins) /\ Increasing(run'[s]) BY <1>6 DEF Drawn
  <2>4. Drawn' BY <1>1, <1>2, <1>6, <2>1, <2>2, <2>3 DEF Drawn
  <2>5. stage = "sampling" BY <1>6 DEF Sampling
  <2> QED BY <1>2, <1>6, <2>1, <2>4, <2>5, TwoSides DEF Turns, BinCountOf
<1>7. ASSUME NEW m \in 1..Len(run[side]), SampleReal(m) PROVE Drawn' /\ Turns'
  <2> DEFINE k == Len(points[side]) + 1
             point == RealPoint(run[side][m])
  <2>1. /\ Sampling /\ m \in RealRecords(side, k)
        /\ points' = [points EXCEPT ![side] = Append(@, point)]
        /\ UNCHANGED <<stage, side, plan, run>>
    BY <1>7 DEF SampleReal
  <2>2. ~EmptyReal(side, k)
    <3>1. k \in 1..BinCountOf(side)
      <4>1. Len(points[side]) \in Nat /\ BinCountOf(side) \in Nat BY <1>2 DEF PlanType, BinCountOf
      <4> QED BY <2>1, <4>1 DEF Sampling
    <3>2. plan[side].bins \in Seq([start : Nat, stop : Nat]) BY <1>2 DEF PlanType
    <3>3. BinOf(side, k).start \in Nat /\ BinOf(side, k).stop \in Nat
      BY <3>1, <3>2, CutType DEF BinOf, BinCountOf
    <3>4. Len(run[side]) \in Nat BY <1>2
    <3> DEFINE a == BinOf(side, k).start * ItemsPerBlock
               z == BinOf(side, k).stop * ItemsPerBlock
    <3>5. a \in Nat /\ z \in Nat BY <3>3, ItemsAssumption
    <3>6. a + 1 <= m /\ m <= Smaller(z, Len(run[side])) BY <2>1 DEF RealRecords
    <3>7. a # z
      <4> HIDE DEF a, z
      <4> QED BY <3>4, <3>5, <3>6 DEF Smaller
    <3> QED BY <3>7 DEF EmptyReal
  <2>3. point \in Int \X Int
    <3>1. run[side][m] \in Int BY <1>2
    <3> QED BY <3>1 DEF RealPoint
  <2>4. \E j \in RealRecords(side, k) : point = RealPoint(run[side][j]) BY <2>1
  <2> HIDE DEF point
  <2> QED BY <1>6, <2>1, <2>2, <2>3, <2>4
<1>8. CASE SampleEmpty
  <2>1. DummyPosInf \in Int \X Int BY DEF DummyPosInf
  <2> QED BY <1>6, <1>8, <2>1 DEF SampleEmpty
<1>9. CASE EndSampling
  <2>1. /\ stage = "sampling" /\ Len(points[side]) = BinCountOf(side)
        /\ UNCHANGED <<plan, run, points>>
        /\ IF side = "source" THEN stage' = "binding" /\ side' = "target"
           ELSE stage' = "scanning" /\ UNCHANGED side
    BY <1>9 DEF EndSampling, binding
  <2>2. Drawn' BY <2>1, <1>1, DrawnStutter
  <2> QED BY <1>2, <2>1, <2>2, TwoSides DEF Turns, BinCountOf
<1>10. CASE (\E tag \in Unscanned : Arrive(tag)) \/ Publish
  <2>1. /\ stage = "scanning" /\ stage' \in {"scanning", "scheduled", "badSchedule"}
        /\ UNCHANGED <<plan, run, points>>
    BY <1>10 DEF Arrive, Publish, binding
  <2>2. Drawn' BY <2>1, <1>1, DrawnStutter
  <2> QED BY <2>1, <2>2 DEF Turns, BinCountOf
<1>11. Ask \/ Work \/ UNCHANGED vars => UNCHANGED scheduleVars BY DEF Ask, Work, vars
<1>12. CASE Refuse
  <2>1. stage' = "refused" /\ UNCHANGED <<plan, run, points>>
    BY <1>12 DEF Refuse, binding
  <2>2. Drawn' BY <2>1, <1>1, DrawnStutter
  <2> QED BY <2>1, <2>2 DEF Turns, BinCountOf
<1> QED BY <1>3, <1>4, <1>5, <1>7, <1>8, <1>9, <1>10, <1>11, <1>12 DEF ScheduleNext, Schedule

\* Every point belongs to its bin in every reachable state.
THEOREM PointsDrawn == ScheduleSpec => [](Drawn /\ Turns)
<1>1. ScheduleInit => Drawn /\ Turns BY InitDrawn
<1>2. Planner /\ Scheduler /\ Drawn /\ Turns /\ [ScheduleNext]_vars => Drawn' /\ Turns'
  BY DrawnStep
<1> QED BY <1>1, <1>2, MergePlannerHolds, SchedulerHolds, PTL DEF ScheduleSpec

\* The point of a bin with real blocks comes before that of every later bin of
\* its side: their keys come later in the run, and the sentinel after all keys.
LEMMA PointsInOrder ==
  ASSUME Scheduler, Drawn, Turns, stage = "scanning", NEW s \in Sides,
         NEW m \in 1..BinCountOf(s), NEW k \in 1..BinCountOf(s), m < k, ~EmptyReal(s, m)
  PROVE  ~Before(<<s, k>>, <<s, m>>)
<1> DEFINE p == points[s][k]
           q == points[s][m]
<1>1. /\ plan[s].bins \in Seq([start : Nat, stop : Nat]) /\ InRow(plan[s].bins)
      /\ run[s] \in Seq(Int) /\ Increasing(run[s]) /\ Len(points[s]) = BinCountOf(s)
  BY DEF Scheduler, ScheduleTypeOK, PlanType, Drawn, Turns
<1>2. DrawnFrom(s, m) /\ DrawnFrom(s, k) BY <1>1 DEF Drawn
<1>3. PICK i \in RealRecords(s, m) : q = RealPoint(run[s][i]) BY <1>2 DEF DrawnFrom
<1>4. /\ BinOf(s, m).stop \in Nat /\ BinOf(s, k).start \in Nat /\ BinOf(s, k).stop \in Nat
      /\ BinOf(s, m).start \in Nat
  BY <1>1, CutType DEF BinOf, BinCountOf
<1>5. BinOf(s, m).stop <= BinOf(s, k).start BY <1>1 DEF InRow, BinOf, BinCountOf
<1>6. i \in Int /\ 1 <= i /\ i <= BinOf(s, m).stop * ItemsPerBlock /\ i <= Len(run[s])
  <2> DEFINE a == BinOf(s, m).start * ItemsPerBlock
             z == BinOf(s, m).stop * ItemsPerBlock
  <2>1. a \in Nat /\ z \in Nat /\ Len(run[s]) \in Nat BY <1>1, <1>4, ItemsAssumption, SMTT(30)
  <2>2. i \in (a + 1)..Smaller(z, Len(run[s])) BY DEF RealRecords
  <2> HIDE DEF a, z
  <2>3. i \in Int /\ 1 <= i /\ i <= z /\ i <= Len(run[s]) BY <2>1, <2>2 DEF Smaller
  <2> QED BY <2>3 DEF z
<1>7. p = DummyPosInf \/ \E key \in Int : p = RealPoint(key) /\ run[s][i] < key
  <2>1. CASE EmptyReal(s, k) BY <1>2, <2>1 DEF DrawnFrom
  <2>2. CASE ~EmptyReal(s, k)
    <3>1. PICK j \in RealRecords(s, k) : p = RealPoint(run[s][j]) BY <1>2, <2>2 DEF DrawnFrom
    <3> DEFINE a == BinOf(s, k).start * ItemsPerBlock
               z == BinOf(s, k).stop * ItemsPerBlock
               b == BinOf(s, m).stop * ItemsPerBlock
    <3>2. a \in Nat /\ z \in Nat /\ b \in Nat /\ b <= a /\ Len(run[s]) \in Nat
      <4>1. \A x, y \in Nat, c \in Nat \ {0} :
              x <= y => x * c \in Nat /\ y * c \in Nat /\ x * c <= y * c
        OBVIOUS
      <4>2. b \in Nat /\ a \in Nat /\ b <= a BY <4>1, <1>4, <1>5, ItemsAssumption
      <4>3. z \in Nat BY <1>4, ItemsAssumption
      <4>4. Len(run[s]) \in Nat BY <1>1
      <4> QED BY <4>2, <4>3, <4>4
    <3>3. j \in (a + 1)..Smaller(z, Len(run[s])) BY DEF RealRecords
    <3>4. i <= b BY <1>6
    <3> HIDE DEF a, z, b
    <3>5. i \in 1..Len(run[s]) /\ j \in 1..Len(run[s]) /\ i < j
      BY <3>2, <3>3, <3>4, <1>6 DEF Smaller
    <3>6. run[s][i] < run[s][j] /\ run[s][j] \in Int BY <3>5, <1>1 DEF Increasing
    <3> QED BY <3>1, <3>6
  <2> QED BY <2>1, <2>2
<1>8. run[s][i] \in Int
  <2>1. i \in 1..Len(run[s]) BY <1>1, <1>6
  <2> QED BY <2>1, <1>1
<1>9. PointOf(<<s, k>>) = p /\ PointOf(<<s, m>>) = q BY DEF PointOf
<1>10. q[1] = 0 /\ q[2] = run[s][i] BY <1>3 DEF RealPoint
<1>11. (p[1] = 1) \/ (p[1] = 0 /\ p[2] \in Int /\ q[2] < p[2])
  BY <1>7, <1>8, <1>10 DEF DummyPosInf, RealPoint
<1> HIDE DEF p, q
<1>12. ~(p[1] < q[1]) /\ ~(p[1] = q[1] /\ p[2] < q[2]) /\ p # q
  BY <1>8, <1>10, <1>11
<1> QED BY <1>9, <1>12 DEF Before

\* The bins before one whose point arrives are empty or have arrived.
LEMMA ArriveInTime ==
  ASSUME Scheduler, Drawn, Turns, NEW tag \in Unscanned, Arrive(tag)
  PROVE  tag[2] <= unread[tag[1]] + EmptiesBefore(tag[1], tag[2])
<1> DEFINE s == tag[1]
           k == tag[2]
           E == {m \in 1..(k - 1) : EmptyReal(s, m)}
           R == {m \in 1..(k - 1) : ~EmptyReal(s, m)}
<1>1. /\ s \in Sides /\ k \in 1..BinCountOf(s) /\ stage = "scanning"
      /\ BinCountOf(s) \in Nat /\ unread[s] \in Nat /\ unread[s] <= BinCountOf(s)
  BY ArriveCounts
<1>2. tag = <<s, k>> BY DEF Unscanned
<1>3. R \subseteq scanned[s]
  <2> SUFFICES ASSUME NEW m \in 1..(k - 1), ~EmptyReal(s, m), m \notin scanned[s] PROVE FALSE
    OBVIOUS
  <2>1. m \in 1..BinCountOf(s) /\ m < k BY <1>1
  <2>2. <<s, m>> \in Unscanned
    <3> DEFINE high == Larger(BinCountOf("source"), BinCountOf("target"))
    <3>1. BinCountOf("source") \in Nat /\ BinCountOf("target") \in Nat
      BY TwoSides, SMTT(30) DEF Scheduler, ScheduleTypeOK, PlanType, BinCountOf
    <3>2. BinCountOf(s) <= high /\ high \in Nat BY <1>1, <3>1, TwoSides DEF Larger
    <3>3. m \in 1..high
      <4> HIDE DEF high
      <4> QED BY <1>1, <2>1, <3>2
    <3>4. <<s, m>> \in Sides \X (1..high) BY <1>1, <3>3
    <3> HIDE DEF s
    <3> QED BY <2>1, <3>4, <1>1 DEF Unscanned
  <2>3. <<s, m>> # tag BY <1>1, <1>2, <2>1
  <2>4. Before(tag, <<s, m>>) BY <2>2, <2>3 DEF Arrive
  <2>5. ~Before(<<s, k>>, <<s, m>>)
    <3> HIDE DEF s, k
    <3> QED BY <1>1, <2>1, PointsInOrder
  <2> HIDE DEF s, k
  <2> QED BY <2>4, <2>5, <1>2
<1>4. scanned[s] \subseteq 1..BinCountOf(s)
      /\ (unread[s] = BinCountOf(s) \/ unread[s] = Cardinality(scanned[s]) + 1)
  BY <1>1 DEF Scheduler, Fed
<1> HIDE DEF s, k
<1>5. /\ IsFiniteSet(1..(k - 1)) /\ Cardinality(1..(k - 1)) = k - 1
      /\ IsFiniteSet(1..BinCountOf(s))
  <2>1. k - 1 \in Nat BY <1>1
  <2>2. IsFiniteSet(1..(k - 1)) /\ IsFiniteSet(1..BinCountOf(s)) BY <2>1, <1>1, FS_Interval
  <2>3. Cardinality(1..(k - 1)) = IF 1 > k - 1 THEN 0 ELSE (k - 1) - 1 + 1
    BY <2>1, FS_Interval
  <2> QED BY <2>1, <2>2, <2>3
<1>6. E \cup R = 1..(k - 1) /\ E \cap R = {} /\ E \subseteq 1..(k - 1) /\ R \subseteq 1..(k - 1)
  OBVIOUS
<1>7. EmptiesBefore(s, k) = Cardinality(E) BY DEF EmptiesBefore
<1> HIDE DEF E, R
<1>8. /\ IsFiniteSet(E) /\ IsFiniteSet(R) /\ IsFiniteSet(scanned[s])
      /\ Cardinality(E) \in Nat /\ Cardinality(R) \in Nat /\ Cardinality(scanned[s]) \in Nat
  BY <1>4, <1>5, <1>6, FS_Subset, FS_CardinalityType
<1>9. Cardinality(R) <= Cardinality(scanned[s]) BY <1>3, <1>8, FS_Subset
<1>10. k - 1 = Cardinality(E) + Cardinality(R)
  <2>1. Cardinality(E \cup R) = Cardinality(E) + Cardinality(R) - Cardinality(E \cap R)
    BY <1>8, FS_Union
  <2>2. Cardinality({}) = 0 BY FS_EmptySet
  <2>3. Cardinality(E \cup R) = k - 1 /\ Cardinality(E \cap R) = 0 BY <2>2, <1>5, <1>6
  <2> QED BY <2>1, <2>3, <1>8
<1>11. k <= unread[s] + EmptiesBefore(s, k)
  BY <1>1, <1>4, <1>7, <1>8, <1>9, <1>10
<1> QED BY <1>11 DEF s, k

\* When the interior point of a bin arrives, the bin has been read, except that
\* every bin without a real block before it may delay it by one read: for all
\* plans, runs and points, and whatever the sampler draws.
THEOREM ReadsBeforeArrival == ScheduleSpec => ReadBeforeArrival
<1>1. ASSUME Planner, Scheduler, Drawn, Turns, [ScheduleNext]_vars,
             NEW s \in Sides, NEW k \in scanned'[s] \ scanned[s]
      PROVE  k <= unread[s] + EmptiesBefore(s, k)
  <2>1. PICK tag \in Unscanned : Arrive(tag)
    <3>1. scanned' # scanned BY <1>1
    <3> QED BY <3>1, <1>1
      DEF ScheduleNext, Schedule, Ask, Work, Keep, Bind, SampleReal, SampleEmpty, Refuse, EndSampling,
          Publish, vars, scheduleVars, scanning
  <2>2. scanned \in [Sides -> SUBSET Nat] BY <1>1 DEF Scheduler, ScheduleTypeOK
  <2>3. s = tag[1] /\ k = tag[2]
    <3>1. scanned' = [scanned EXCEPT ![tag[1]] = @ \cup {tag[2]}] BY <2>1 DEF Arrive
    <3>2. s = tag[1] BY <1>1, <2>2, <3>1
    <3>3. scanned'[s] = scanned[s] \cup {tag[2]} BY <1>1, <2>2, <3>1, <3>2
    <3> QED BY <1>1, <3>2, <3>3
  <2> QED BY <1>1, <2>1, <2>3, ArriveInTime
<1>2. Planner /\ Scheduler /\ Drawn /\ Turns /\ [ScheduleNext]_vars =>
        [\A s \in Sides : \A k \in scanned'[s] \ scanned[s] :
           k <= unread[s] + EmptiesBefore(s, k)]_vars
  BY <1>1
<1> QED BY <1>2, MergePlannerHolds, SchedulerHolds, PointsDrawn, PTL
  DEF ScheduleSpec, ReadBeforeArrival
=============================================================================
