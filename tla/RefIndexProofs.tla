--------------------------- MODULE RefIndexProofs ---------------------------
(***************************************************************************)
(* What the lookups of the reference LETIndex promise for all keys,        *)
(* epsilons, levels and placements: no key is used whose block the lookup  *)
(* has not read, the search finds the position of the key, the newest      *)
(* level that has it answers, and no slot is written twice or read         *)
(* unwritten.                                                              *)
(*                                                                         *)
(* The invariant has a part for each stage of an experiment.  Constructed, *)
(* of PgmProofs, is kept for the index being built, which is what makes    *)
(* its windows hold every position; Built and Windows carry that over to   *)
(* the levels that are kept.  Buffers are what a lookup has fetched.       *)
(* Bracketed is the binary search's own invariant: the position is between *)
(* first and first + left.                                                 *)
(*                                                                         *)
(* The regions of the levels are the partial sums of their sizes (Start).  *)
(* Loaded says that the writes so far fill the regions below the level at  *)
(* hand, a slot for a slot, and that every slot read is in one of them.    *)
(***************************************************************************)
EXTENDS RefIndex, PgmProofs

-----------------------------------------------------------------------------
(* The window of a finished index. *)

GoodIndex(pgm) ==
  /\ pgm.epsilon \in Nat /\ pgm.count \in Nat
  /\ pgm.segments \in Seq(SegmentType)
  /\ pgm.count > 0 => pgm.segments # <<>>

\* The index of the keys added so far is one.
LEMMA BatchIsGood ==
  ASSUME Model
  PROVE  GoodIndex(BatchIndex) /\ BatchIndex.count = Len(keys)
<1>1. /\ keys \in Seq(KeyUniverse) /\ Len(keys) \in Nat /\ epsilon \in Nat
      /\ segments \in Seq(SegmentType)
  BY EpsilonAssumption DEF Model, PgmTypeOK
<1>2. Segments \in Seq(SegmentType) /\ (keys # <<>> => Segments # <<>>)
  <2>1. CASE keys = <<>> BY <2>1 DEF Segments
  <2>2. CASE keys # <<>>
    <3>1. ActiveSegment \in SegmentType BY <2>2, ActiveType
    <3>2. Segments = Append(segments, ActiveSegment) BY <2>2 DEF Segments
    <3> QED BY <1>1, <3>1, <3>2
  <2> QED BY <2>1, <2>2
<1>3. Len(keys) > 0 => keys # <<>> BY <1>1
<1> QED BY <1>1, <1>2, <1>3 DEF GoodIndex, BatchIndex

\* Drawing an integer back to 0..limit keeps the order.
LEMMA ClampedBounds ==
  ASSUME NEW limit \in Nat, NEW value \in Int
  PROVE  Clamped(value, limit) \in 0..limit
BY DEF Clamped

\* A position is a rank, or the number of keys.
LEMMA PositionBounds ==
  ASSUME NEW pgm, GoodIndex(pgm), pgm.count > 0, NEW q \in Int
  PROVE  Position(pgm, q) \in 0..pgm.count
<1>1. /\ pgm.segments \in Seq(SegmentType) /\ Len(pgm.segments) \in Nat \ {0}
      /\ pgm.count \in Nat
  BY DEF GoodIndex
<1>2. \A m \in 1..Len(pgm.segments) :
        /\ pgm.segments[m].startKey \in Int /\ pgm.segments[m].slopeNum \in Int
        /\ pgm.segments[m].slopeDen \in Nat \ {0} /\ pgm.segments[m].intercept \in Int
  <2> SUFFICES ASSUME NEW m \in 1..Len(pgm.segments)
               PROVE  /\ pgm.segments[m].startKey \in Int /\ pgm.segments[m].slopeNum \in Int
                      /\ pgm.segments[m].slopeDen \in Nat \ {0} /\ pgm.segments[m].intercept \in Int
    OBVIOUS
  <2>1. pgm.segments[m] \in SegmentType BY <1>1
  <2> QED BY <2>1, UniverseAssumption DEF SegmentType
<1>3. CASE q < FirstKey(pgm)
  BY <1>1, <1>3 DEF Position
<1>4. CASE ~(q < FirstKey(pgm)) /\ q > LastKey(pgm)
  BY <1>1, <1>4 DEF Position
<1>5. CASE ~(q < FirstKey(pgm)) /\ ~(q > LastKey(pgm))
  <2> DEFINE T == {m \in 1..Len(pgm.segments) : pgm.segments[m].startKey <= q}
             k == Max(T)
             p == Predict(pgm.segments[k], q)
             next == NextIntercept(pgm, k)
  <2>1. 1 \in T BY <1>1, <1>2, <1>5 DEF FirstKey
  <2>2. \A m \in T : m \in 1..Len(pgm.segments) OBVIOUS
  <2>3. SegmentIndex(pgm, q) = k BY DEF SegmentIndex
  <2> HIDE DEF T
  <2>4. T \in SUBSET Int /\ T # {} /\ Len(pgm.segments) \in Int /\ \A m \in T : m <= Len(pgm.segments)
    BY <1>1, <2>1, <2>2
  <2>5. k \in 1..Len(pgm.segments) BY <2>2, <2>4, MaxIsGreatest
  <2>6. Position(pgm, q) = Clamped(IF p > next THEN next ELSE p, pgm.count)
    BY <1>5, <2>3 DEF Position
  <2> HIDE DEF k
  <2>7. next \in Int
    <3>1. CASE k < Len(pgm.segments)
      <4>1. k + 1 \in 1..Len(pgm.segments) BY <1>1, <2>5, <3>1
      <4> QED BY <1>2, <3>1, <4>1 DEF NextIntercept
    <3>2. CASE ~(k < Len(pgm.segments)) BY <1>1, <3>2 DEF NextIntercept
    <3> QED BY <3>1, <3>2
  <2>8. p \in Int
    <3> DEFINE s == pgm.segments[k]
               d == q - s.startKey
               v == DivTrunc(s.slopeNum * d, s.slopeDen)
    <3>1. /\ d \in Int /\ s.slopeNum \in Int /\ s.slopeDen \in Nat \ {0} /\ s.intercept \in Int
      BY <1>2, <2>5
    <3>2. p = IF v + s.intercept > 0 THEN v + s.intercept ELSE 0
      BY DEF Predict
    <3> HIDE DEF s, d
    <3>3. \A a, b \in Int : a * b \in Int OBVIOUS
    <3>4. s.slopeNum * d \in Int BY <3>1, <3>3
    <3>5. v \in Int BY <3>1, <3>4, DivTruncType
    <3> HIDE DEF v, p
    <3>6. v + s.intercept \in Int BY <3>1, <3>5
    <3> QED BY <3>2, <3>6
  <2> HIDE DEF p, next
  <2>9. (IF p > next THEN next ELSE p) \in Int BY <2>7, <2>8
  <2> QED BY <1>1, <2>6, <2>9, ClampedBounds
<1> QED BY <1>3, <1>4, <1>5

\* The window lies inside the run, and it is empty only at its end.
LEMMA WindowBounds ==
  ASSUME NEW pgm, GoodIndex(pgm), NEW q \in Int
  PROVE  /\ Window(pgm, q).lo \in 0..pgm.count /\ Window(pgm, q).hi \in 0..pgm.count
         /\ Window(pgm, q).lo <= Window(pgm, q).hi
         /\ Window(pgm, q).lo = Window(pgm, q).hi => Window(pgm, q).lo = pgm.count
<1>1. pgm.count \in Nat /\ pgm.epsilon \in Nat BY DEF GoodIndex
<1>2. CASE pgm.count = 0
  BY <1>1, <1>2 DEF Window
<1>3. CASE pgm.count # 0
  <2>1. Position(pgm, q) \in 0..pgm.count BY <1>1, <1>3, PositionBounds
  <2>2. Window(pgm, q) = [lo |-> Clamped(Position(pgm, q) - pgm.epsilon, pgm.count),
                          hi |-> Clamped(Position(pgm, q) + pgm.epsilon + 2, pgm.count)]
    BY <1>3 DEF Window
  <2> QED BY <1>1, <1>3, <2>1, <2>2 DEF Clamped
<1> QED BY <1>2, <1>3

-----------------------------------------------------------------------------
(* The levels that are kept, and the search in one of them. *)

GoodLevel(level) ==
  /\ level \in Declared /\ level \in Nat /\ level >= MinLevel
  /\ levels[level].keys = experiment.levels[level]
  /\ levels[level].placement \in [0..(Blocks(level) - 1) -> 0..(Blocks(level) - 1)]
  /\ HasIndex(level) =>
       GoodIndex(levels[level].pgm) /\ levels[level].pgm.count = Items(level)

Built ==
  /\ experiment \in Experiments
  /\ \E bound \in Nat : \A level \in DOMAIN levels : level <= bound
  /\ \A level \in DOMAIN levels : GoodLevel(level)
  /\ building # NoLevel => building \in Declared /\ building >= MinLevel
  /\ query \in Int

Active == phase \in {"probing", "touching", "outcome"}

\* What is at hand was read in this level lookup.
Buffers ==
  /\ fetched \in Seq(Int) /\ probes \in Seq(Int)
  /\ current # NoBlock => current \in FetchedBlocks
  /\ cache \subseteq FetchedBlocks

Ranges ==
  Active =>
    /\ at \in DOMAIN levels
    /\ window.lo \in 0..Items(at) /\ window.hi \in 0..Items(at)
    /\ pos \in 0..Items(at)
    /\ phase = "probing" => first \in Nat /\ left \in Nat \ {0} /\ first + left <= Items(at)
    /\ phase = "touching" => pos # Items(at)

RefInv == Model /\ Built /\ Buffers /\ Ranges /\ ReadBeforeUse

\* The items of a declared level.
LEMMA ItemsType ==
  ASSUME Built, NEW level \in Declared
  PROVE  level \in Nat /\ experiment.levels[level] \in Seq(KeyUniverse)
BY ExperimentAssumption DEF Built, Declared

\* A level that is kept has a number of items.
LEMMA CountType ==
  ASSUME Built, NEW level \in DOMAIN levels
  PROVE  /\ Items(level) \in Nat /\ levels[level].keys \in Seq(KeyUniverse)
         /\ Blocks(level) \in Nat
<1>1. levels[level].keys \in Seq(KeyUniverse)
  BY ItemsType DEF Built, GoodLevel
<1>2. Items(level) \in Nat BY <1>1 DEF Items
<1>3. ItemsPerBlock \in Nat \ {0} BY ProfileAssumption
<1>4. \A a \in Nat : \A b \in Nat \ {0} : a \div b \in Nat OBVIOUS
<1> QED BY <1>1, <1>2, <1>3, <1>4 DEF Blocks, BlockCount

\* A rank of the level lies in one of its blocks.
LEMMA PhysicalType ==
  ASSUME Built, at \in DOMAIN levels, NEW p \in 0..(Items(at) - 1)
  PROVE  Physical(p) \in 0..(Blocks(at) - 1)
<1> DEFINE n == Items(at)
           b == ItemsPerBlock
           l == p \div b
           t == (n + b - 1) \div b
<1>1. n \in Nat /\ b \in Nat \ {0} /\ p \in 0..(n - 1)
  BY CountType, ProfileAssumption
<1>2. Blocks(at) = t BY DEF Blocks, BlockCount
<1>3. levels[at].placement \in [0..(Blocks(at) - 1) -> 0..(Blocks(at) - 1)]
  BY DEF Built, GoodLevel
<1> HIDE DEF n, b
<1>4. l \in 0..(t - 1)
  <2>1. p \in Nat /\ p < n BY <1>1
  <2>2. b * l <= p /\ l \in Nat BY <1>1, <2>1
  <2>3. t \in Nat /\ n + b - 1 < b * t + b BY <1>1
  <2>4. b * l < b * t
    <3> DEFINE u == b * l
               v == b * t
    <3>1. u \in Int /\ v \in Int /\ u <= p /\ n + b - 1 < v + b
      <4>1. \A c, d \in Int : c * d \in Int OBVIOUS
      <4>2. b \in Int /\ l \in Int /\ t \in Int BY <1>1, <2>2, <2>3
      <4> HIDE DEF l, t
      <4> QED BY <2>2, <2>3, <4>1, <4>2
    <3> HIDE DEF u, v
    <3>2. u < v BY <1>1, <2>1, <3>1
    <3> QED BY <3>2 DEF u, v
  <2> HIDE DEF l, t
  <2>5. l < t
    <3>1. \A c \in Nat, x, y \in Nat : x <= y => c * x <= c * y OBVIOUS
    <3>2. t <= l => b * t <= b * l BY <1>1, <2>2, <2>3, <3>1
    <3>3. b * t \in Int /\ b * l \in Int
      <4>1. \A c, d \in Int : c * d \in Int OBVIOUS
      <4> QED BY <1>1, <2>2, <2>3, <4>1
    <3> QED BY <2>2, <2>3, <2>4, <3>2, <3>3
  <2> QED BY <2>2, <2>3, <2>5
<1>5. LogicalBlock(p) = l BY DEF LogicalBlock, b
<1> HIDE DEF l, t
<1> QED BY <1>2, <1>3, <1>4, <1>5 DEF Physical

\* Reading blocks only adds to what was fetched.
LEMMA ReadAdds ==
  ASSUME fetched \in Seq(Int), NEW blocks \in Seq(Int), Read(blocks)
  PROVE  /\ fetched' \in Seq(Int)
         /\ FetchedBlocks \subseteq FetchedBlocks'
         /\ \A n \in 1..Len(blocks) : blocks[n] \in FetchedBlocks'
<1>1. fetched' = fetched \o blocks BY DEF Read
<1>2. /\ fetched' \in Seq(Int) /\ Len(fetched') = Len(fetched) + Len(blocks)
      /\ Len(fetched) \in Nat /\ Len(blocks) \in Nat
      /\ \A n \in 1..(Len(fetched) + Len(blocks)) :
           fetched'[n] = IF n <= Len(fetched) THEN fetched[n] ELSE blocks[n - Len(fetched)]
  BY <1>1, ConcatProperties
<1>3. ASSUME NEW n \in 1..Len(fetched) PROVE fetched[n] \in FetchedBlocks'
  <2>1. n \in 1..Len(fetched') /\ fetched'[n] = fetched[n] BY <1>2
  <2> QED BY <2>1 DEF FetchedBlocks
<1>4. ASSUME NEW n \in 1..Len(blocks) PROVE blocks[n] \in FetchedBlocks'
  <2> DEFINE m == Len(fetched) + n
  <2>1. m \in 1..Len(fetched') /\ ~(m <= Len(fetched)) /\ m - Len(fetched) = n BY <1>2
  <2>2. fetched'[m] = blocks[n] BY <1>2, <2>1
  <2> QED BY <2>1, <2>2 DEF FetchedBlocks
<1>5. FetchedBlocks \subseteq FetchedBlocks' BY <1>3 DEF FetchedBlocks
<1> QED BY <1>2, <1>4, <1>5

\* A block is at hand after it has been obtained.
LEMMA ObtainHas ==
  ASSUME Buffers, NEW p, Physical(p) \in Nat, Obtain(p)
  PROVE  /\ fetched' \in Seq(Int)
         /\ FetchedBlocks \subseteq FetchedBlocks'
         /\ Physical(p) \in FetchedBlocks'
         /\ current' # NoBlock => current' \in FetchedBlocks'
         /\ cache' \subseteq FetchedBlocks'
<1>1. CASE Physical(p) = current \/ Physical(p) \in cache
  <2>1. UNCHANGED <<current, cache, fetched>> BY <1>1 DEF Obtain
  <2>2. FetchedBlocks' = FetchedBlocks BY <2>1 DEF FetchedBlocks
  <2>3. Physical(p) \in FetchedBlocks BY <1>1 DEF Buffers, NoBlock
  <2> QED BY <2>1, <2>2, <2>3 DEF Buffers
<1>2. CASE ~(Physical(p) = current \/ Physical(p) \in cache)
  <2>1. Read(<<Physical(p)>>) /\ current' = Physical(p) /\ cache' = cache
    BY <1>2 DEF Obtain
  <2> DEFINE blocks == <<Physical(p)>>
  <2>2. blocks \in Seq(Int) /\ 1 \in 1..Len(blocks) /\ blocks[1] = Physical(p) OBVIOUS
  <2> HIDE DEF blocks
  <2>3. /\ fetched' \in Seq(Int) /\ FetchedBlocks \subseteq FetchedBlocks'
        /\ Physical(p) \in FetchedBlocks'
    <3>1. Read(blocks) BY <2>1 DEF blocks
    <3> QED BY <2>2, <3>1, ReadAdds DEF Buffers
  <2> QED BY <2>1, <2>3 DEF Buffers
<1> QED BY <1>1, <1>2

\* The run around a block consists of the block and its neighbours.
LEMMA RunHolds ==
  ASSUME NEW p, Blocks(at) \in Nat, Physical(p) \in 0..(Blocks(at) - 1)
  PROVE  /\ RunAround(p) \in Seq(Int)
         /\ \A b \in Neighbours(p) \cup {Physical(p)} :
              \E n \in 1..Len(RunAround(p)) : RunAround(p)[n] = b
         /\ \A n \in 1..Len(RunAround(p)) : RunAround(p)[n] \in 0..(Blocks(at) - 1)
<1> DEFINE mid == Physical(p)
           run == Neighbours(p) \cup {mid}
<1>1. mid \in Nat BY DEF NoBlock
<1>2. PICK lo \in Int, hi \in Int : lo <= hi /\ run = lo..hi
  <2> DEFINE below == IF LogicalBlock(window.lo) < LogicalBlock(p) THEN {mid - 1} ELSE {}
             above == IF LogicalBlock(window.hi) > LogicalBlock(p) THEN {mid + 1} ELSE {}
             all   == 0..(Blocks(at) - 1)
             lo == IF mid - 1 \in below \cap all THEN mid - 1 ELSE mid
             hi == IF mid + 1 \in above \cap all THEN mid + 1 ELSE mid
  <2>1. Neighbours(p) = (below \cup above) \cap all BY DEF Neighbours
  <2>2. below \subseteq {mid - 1} /\ above \subseteq {mid + 1} OBVIOUS
  <2>3. lo \in Int /\ hi \in Int /\ lo <= mid /\ mid <= hi /\ mid - 1 <= lo /\ hi <= mid + 1 BY <1>1
  <2>4. lo = mid - 1 <=> mid - 1 \in below \cap all BY <1>1
  <2>5. hi = mid + 1 <=> mid + 1 \in above \cap all BY <1>1
  <2> HIDE DEF below, above, all, lo, hi
  <2>6. lo..hi = run
    <3>1. ASSUME NEW b \in run PROVE b \in lo..hi
      <4>1. b = mid \/ b = mid - 1 \/ b = mid + 1 BY <2>1, <2>2
      <4>2. CASE b = mid BY <1>1, <2>3, <4>2
      <4>3. CASE b = mid - 1
        <5>1. b # mid /\ b # mid + 1 BY <1>1, <4>3
        <5>2. b \in below \cap all BY <2>1, <2>2, <5>1
        <5> QED BY <1>1, <2>3, <2>4, <4>3, <5>2
      <4>4. CASE b = mid + 1
        <5>1. b # mid /\ b # mid - 1 BY <1>1, <4>4
        <5>2. b \in above \cap all BY <2>1, <2>2, <5>1
        <5> QED BY <1>1, <2>3, <2>5, <4>4, <5>2
      <4> QED BY <4>1, <4>2, <4>3, <4>4
    <3>2. ASSUME NEW b \in lo..hi PROVE b \in run
      <4>1. CASE b = mid BY <4>1
      <4>2. CASE b < mid
        <5>1. b = mid - 1 /\ lo = mid - 1 BY <1>1, <2>3, <3>2, <4>2
        <5> QED BY <2>1, <2>4, <5>1
      <4>3. CASE b > mid
        <5>1. b = mid + 1 /\ hi = mid + 1 BY <1>1, <2>3, <3>2, <4>3
        <5> QED BY <2>1, <2>5, <5>1
      <4>4. b \in Int BY <2>3, <3>2
      <4> QED BY <1>1, <4>1, <4>2, <4>3, <4>4
    <3> HIDE DEF run
    <3> QED BY <3>1, <3>2
  <2>7. lo <= hi BY <1>1, <2>3
  <2> QED BY <2>3, <2>6, <2>7
<1> HIDE DEF run
<1>3. Min(run) = lo
  <2>1. run \in SUBSET Int /\ run # {} /\ \A x \in run : lo <= x /\ lo \in run BY <1>2
  <2>2. Min(run) \in run /\ \A x \in run : Min(run) <= x BY <2>1, MinIsLeast
  <2>3. lo \in run /\ Min(run) \in Int BY <2>1, <2>2, <1>2
  <2>4. Min(run) <= lo /\ lo <= Min(run) BY <2>1, <2>2, <2>3
  <2> QED BY <2>3, <2>4
<1>4. Cardinality(run) = hi - lo + 1
  BY <1>2, FS_Interval
<1> DEFINE k == hi - lo + 1
<1>5. k \in Nat /\ k >= 1 BY <1>2
<1>6. RunAround(p) = [n \in 1..k |-> lo + n - 1]
  BY <1>3, <1>4 DEF RunAround, run
<1>7. RunAround(p) \in Seq(Int) /\ Len(RunAround(p)) = k
  BY <1>2, <1>5, <1>6
<1>8. ASSUME NEW b \in run PROVE \E n \in 1..Len(RunAround(p)) : RunAround(p)[n] = b
  <2>1. b \in lo..hi BY <1>2
  <2>2. b - lo + 1 \in 1..k /\ lo + (b - lo + 1) - 1 = b BY <1>2, <2>1
  <2> HIDE DEF k
  <2>3. RunAround(p)[b - lo + 1] = b BY <1>6, <2>2
  <2> QED BY <1>7, <2>2, <2>3
<1>9. ASSUME NEW n \in 1..Len(RunAround(p)) PROVE RunAround(p)[n] \in 0..(Blocks(at) - 1)
  <2>1. RunAround(p)[n] = lo + n - 1 /\ lo + n - 1 \in lo..hi
    <3>1. n \in 1..k BY <1>7
    <3> HIDE DEF k
    <3>2. RunAround(p)[n] = lo + n - 1 BY <1>6, <3>1
    <3>3. lo + n - 1 \in lo..hi BY <1>2, <3>1 DEF k
    <3> QED BY <3>2, <3>3
  <2>2. run \subseteq 0..(Blocks(at) - 1) BY DEF run, Neighbours
  <2> QED BY <1>2, <2>1, <2>2
<1> QED BY <1>7, <1>8, <1>9 DEF run

\* A prefetch leaves the middle block and its neighbours at hand.
LEMMA PrefetchHas ==
  ASSUME Buffers, NEW p, Blocks(at) \in Nat, Physical(p) \in 0..(Blocks(at) - 1), ObtainAndSave(p)
  PROVE  /\ fetched' \in Seq(Int)
         /\ FetchedBlocks \subseteq FetchedBlocks'
         /\ Physical(p) \in FetchedBlocks'
         /\ current' # NoBlock => current' \in FetchedBlocks'
         /\ cache' \subseteq FetchedBlocks'
<1> DEFINE blocks == RunAround(p)
<1>1. /\ blocks \in Seq(Int)
      /\ \A b \in Neighbours(p) \cup {Physical(p)} : \E n \in 1..Len(blocks) : blocks[n] = b
  BY RunHolds
<1>2. Read(blocks) /\ current' = Physical(p) /\ cache' = Neighbours(p)
  BY DEF ObtainAndSave
<1> HIDE DEF blocks
<1>3. /\ fetched' \in Seq(Int) /\ FetchedBlocks \subseteq FetchedBlocks'
      /\ \A n \in 1..Len(blocks) : blocks[n] \in FetchedBlocks'
  BY <1>1, <1>2, ReadAdds DEF Buffers
<1>4. \A b \in Neighbours(p) \cup {Physical(p)} : b \in FetchedBlocks'
  BY <1>1, <1>3
<1> QED BY <1>2, <1>3, <1>4

-----------------------------------------------------------------------------
(* Every step keeps the invariant. *)

LEMMA SameModel ==
  ASSUME Model, UNCHANGED pgmVars
  PROVE  Model'
BY DEF Model, PgmTypeOK, Older, pgmVars, hull

LEMMA SameLevels ==
  ASSUME Built, UNCHANGED build, query' \in Int
  PROVE  Built'
<1>1. experiment' = experiment /\ building' = building /\ levels' = levels
  BY DEF build
<1>2. ASSUME NEW level \in DOMAIN levels PROVE GoodLevel(level)'
  <2>1. GoodLevel(level) BY DEF Built
  <2> QED BY <1>1, <2>1 DEF GoodLevel, Declared, Items, Blocks
<1> QED BY <1>1, <1>2 DEF Built, Declared

\* A step outside of a level lookup leaves its buffers alone.
LEMMA QuietStep ==
  ASSUME RefInv, UNCHANGED <<pgmVars, build, current, cache, fetched, probes>>, query' \in Int,
         phase' \notin {"probing", "touching", "outcome"}
  PROVE  RefInv'
<1>1. Model' /\ Built' BY SameModel, SameLevels DEF RefInv
<1>2. Buffers' BY DEF RefInv, Buffers, FetchedBlocks
<1>3. Ranges' /\ ReadBeforeUse' BY DEF Ranges, Active, ReadBeforeUse
<1> QED BY <1>1, <1>2, <1>3 DEF RefInv

LEMMA DeclareKeeps ==
  ASSUME RefInv, NEW level \in Declared, Declare(level)
  PROVE  RefInv'
<1>1. UNCHANGED <<pgmVars, experiment, levels, query, current, cache, fetched, probes>>
  BY DEF Declare, lookup, buffers
<1>2. Model' BY <1>1, SameModel DEF RefInv
<1>3. Built'
  <2>1. level \in Nat BY ItemsType DEF RefInv
  <2>2. building' # NoLevel => building' \in Declared /\ building' >= MinLevel
    BY <2>1, ProfileAssumption DEF RefInv, Built, Declare, NoLevel
  <2>3. ASSUME NEW l \in DOMAIN levels PROVE GoodLevel(l)'
    <3>1. GoodLevel(l) BY DEF RefInv, Built
    <3> QED BY <1>1, <3>1 DEF GoodLevel, Declared, Items, Blocks
  <2> QED BY <1>1, <2>2, <2>3 DEF RefInv, Built, Declared
<1>4. phase' \in {"building", "refused"} BY DEF Declare
<1>5. Buffers' BY <1>1 DEF RefInv, Buffers, FetchedBlocks
<1>6. Ranges' /\ ReadBeforeUse' BY <1>4 DEF Ranges, Active, ReadBeforeUse
<1> QED BY <1>2, <1>3, <1>5, <1>6 DEF RefInv

LEMMA FeedKeeps ==
  ASSUME RefInv, Feed
  PROVE  RefInv'
<1>1. UNCHANGED <<phase, build, query, current, cache, fetched, probes>>
  BY DEF Feed, refVars, lookup, buffers
<1> DEFINE x == experiment.levels[building][Len(keys) + 1]
<1>2. AddKey(x) BY DEF Feed
<1> HIDE DEF x
<1>3. x \in KeyUniverse
  BY <1>2 DEF AddKey, FirstPoint, SecondPoint, InsidePoint, OutsidePoint, Increasing
<1>4. Model' BY <1>2, <1>3, AddKeeps DEF RefInv
<1>5. Built' BY <1>1, SameLevels DEF RefInv, Built
<1>6. Buffers' BY <1>1 DEF RefInv, Buffers, FetchedBlocks
<1>7. phase' = "building" BY <1>1 DEF Feed
<1>8. Ranges' /\ ReadBeforeUse' BY <1>7 DEF Ranges, Active, ReadBeforeUse
<1> QED BY <1>4, <1>5, <1>6, <1>8 DEF RefInv

\* A placement is a mapping of the blocks of the level.
LEMMA PlacementType ==
  ASSUME NEW n \in Nat, NEW placement \in Placements(n)
  PROVE  placement \in [0..(n - 1) -> 0..(n - 1)]
BY DEF Placements

LEMMA FinishKeeps ==
  ASSUME RefInv, Finish
  PROVE  RefInv'
<1> DEFINE items == experiment.levels[building]
<1>1. /\ building # NoLevel /\ phase' = "building" /\ building' = NoLevel
      /\ UNCHANGED <<experiment, query, current, cache, fetched, probes>>
  BY DEF Finish, lookup, buffers
<1>2. PICK placement \in Placements(BlockCount(Len(items))) :
        levels' = [level \in DOMAIN levels \cup {building} |->
                     IF level = building
                     THEN [keys |-> items, pgm |-> BatchIndex, placement |-> placement]
                     ELSE levels[level]]
  BY DEF Finish
<1>3. Model'
  <2>1. ResetModel' /\ (epsilon \in Epsilons)'
    BY DEF Finish, ResetModel, RefInv, Model, PgmTypeOK
  <2> QED BY <2>1, ResetGood, PTL
<1>4. building \in Declared /\ building >= MinLevel /\ building \in Nat /\ items \in Seq(KeyUniverse)
  BY <1>1, ItemsType DEF RefInv, Built
<1>5. Built'
  <2>1. ASSUME NEW level \in DOMAIN levels' PROVE GoodLevel(level)'
    <3>1. CASE level = building
      <4>1. levels'[level] = [keys |-> items, pgm |-> BatchIndex, placement |-> placement]
        BY <1>2, <3>1
      <4>2. Items(level)' = Len(items) BY <4>1 DEF Items
      <4>3. Blocks(level)' = BlockCount(Len(items)) BY <4>2 DEF Blocks
      <4>4. BlockCount(Len(items)) \in Nat
        <5>1. Len(items) \in Nat /\ ItemsPerBlock \in Nat \ {0} BY <1>4, ProfileAssumption
        <5>2. \A a \in Nat : \A b \in Nat \ {0} : a \div b \in Nat OBVIOUS
        <5>3. Len(items) + ItemsPerBlock - 1 \in Nat BY <5>1
        <5> QED BY <5>1, <5>2, <5>3 DEF BlockCount
      <4>5. placement \in [0..(BlockCount(Len(items)) - 1) -> 0..(BlockCount(Len(items)) - 1)]
        BY <4>4, PlacementType
      <4>6. HasIndex(level) => GoodIndex(BatchIndex) /\ BatchIndex.count = Len(items)
        <5>1. GoodIndex(BatchIndex) /\ BatchIndex.count = Len(keys) BY BatchIsGood DEF RefInv
        <5>2. Len(keys) \in Nat /\ Len(items) \in Nat BY <1>4, SMTT(30) DEF RefInv, Model, PgmTypeOK
        <5>3. HasIndex(level) => Remaining = 0 BY <3>1 DEF Finish
        <5> QED BY <5>1, <5>2, <5>3 DEF Remaining
      <4> QED BY <1>1, <1>4, <3>1, <4>1, <4>2, <4>3, <4>5, <4>6 DEF GoodLevel, Declared, HasIndex
    <3>2. CASE level # building
      <4>1. level \in DOMAIN levels /\ levels'[level] = levels[level] BY <1>2, <3>2
      <4>2. GoodLevel(level) BY <4>1 DEF RefInv, Built
      <4> QED BY <1>1, <4>1, <4>2 DEF GoodLevel, Declared, HasIndex, Items, Blocks
    <3> QED BY <3>1, <3>2
  <2>2. \E bound \in Nat : \A level \in DOMAIN levels' : level <= bound
    <3>1. PICK bound \in Nat : \A level \in DOMAIN levels : level <= bound
      BY DEF RefInv, Built
    <3>2. \A level \in DOMAIN levels : level \in Nat BY DEF RefInv, Built, GoodLevel
    <3>3. DOMAIN levels' = DOMAIN levels \cup {building} BY <1>2
    <3>4. bound + building \in Nat BY <1>4
    <3>5. \A level \in DOMAIN levels' : level <= bound + building BY <1>4, <3>1, <3>2, <3>3
    <3> QED BY <3>4, <3>5
  <2> QED BY <1>1, <2>1, <2>2 DEF RefInv, Built
<1>6. Buffers' BY <1>1 DEF RefInv, Buffers, FetchedBlocks
<1>7. Ranges' /\ ReadBeforeUse' BY <1>1 DEF Ranges, Active, ReadBeforeUse
<1> QED BY <1>3, <1>5, <1>6, <1>7 DEF RefInv

\* The interval a level lookup starts with.
LEMMA IntervalBounds ==
  ASSUME Built, NEW level \in DOMAIN levels, Items(level) > 0
  PROVE  /\ Interval(level).lo \in 0..Items(level) /\ Interval(level).hi \in 0..Items(level)
         /\ Interval(level).lo <= Interval(level).hi
         /\ Interval(level).lo = Interval(level).hi => Interval(level).lo = Items(level)
<1>1. Items(level) \in Nat /\ query \in Int BY CountType DEF Built
<1>2. CASE HasPgm(level)
  <2>1. Interval(level) = Window(levels[level].pgm, query) BY <1>2 DEF Interval
  <2>2. GoodIndex(levels[level].pgm) /\ levels[level].pgm.count = Items(level)
    BY <1>2 DEF Built, GoodLevel, HasPgm
  <2> QED BY <1>1, <2>1, <2>2, WindowBounds
<1>3. CASE ~HasPgm(level)
  BY <1>1, <1>3 DEF Interval
<1> QED BY <1>2, <1>3

LEMMA EnterKeeps ==
  ASSUME RefInv, Enter
  PROVE  RefInv'
<1> DEFINE w == Interval(at)
<1>1. /\ at \in DOMAIN levels /\ Items(at) > 0
      /\ window' = w /\ first' = w.lo /\ left' = w.hi - w.lo /\ pos' = w.lo
      /\ phase' = IF w.lo = w.hi THEN "outcome" ELSE "probing"
      /\ current' = NoBlock /\ cache' = {} /\ fetched' = <<>> /\ probes' = <<>>
      /\ UNCHANGED <<pgmVars, build, at, query>>
  BY DEF Enter, Stocked, EmptyCache
<1>2. /\ w.lo \in 0..Items(at) /\ w.hi \in 0..Items(at) /\ w.lo <= w.hi
      /\ w.lo = w.hi => w.lo = Items(at)
  BY <1>1, IntervalBounds DEF RefInv
<1>3. levels' = levels /\ at' = at /\ Items(at)' = Items(at) /\ Items(at) \in Nat
  BY <1>1, CountType DEF build, Items, RefInv
<1> HIDE DEF w
<1>4. Model' /\ Built' BY <1>1, SameModel, SameLevels DEF RefInv, Built
<1>5. Buffers' BY <1>1 DEF Buffers
<1>6. Ranges'
  <2>1. w.lo # w.hi => w.hi - w.lo \in Nat \ {0} /\ w.lo + (w.hi - w.lo) <= Items(at)
    BY <1>2, <1>3
  <2>2. w.lo \in Nat BY <1>2
  <2> QED BY <1>1, <1>2, <1>3, <2>1, <2>2 DEF Ranges, Active
<1>7. ReadBeforeUse'
  <2>1. \A n \in 1..Len(probes') : FALSE BY <1>1
  <2>2. phase' = "outcome" => pos' = Items(at)' BY <1>1, <1>2, <1>3
  <2> QED BY <1>1, <1>3, <2>1, <2>2 DEF ReadBeforeUse
<1> QED BY <1>4, <1>5, <1>6, <1>7 DEF RefInv

\* What has been read stays read: the probes so far and a new one.
LEMMA ProbesStayRead ==
  ASSUME RefInv, Active, UNCHANGED <<levels, at>>, NEW p \in Int,
         FetchedBlocks \subseteq FetchedBlocks', Physical(p) \in FetchedBlocks',
         probes' = Append(probes, p) \/ probes' = probes
  PROVE  /\ probes' \in Seq(Int)
         /\ \A n \in 1..Len(probes') : Physical(probes[n])' \in FetchedBlocks'
<1>1. probes \in Seq(Int) /\ Len(probes) \in Nat BY DEF RefInv, Buffers
<1>2. \A n \in 1..Len(probes) : Physical(probes[n]) \in FetchedBlocks
  BY DEF RefInv, ReadBeforeUse, Active
<1>3. ASSUME NEW n \in 1..Len(probes'), n \in 1..Len(probes), probes'[n] = probes[n]
      PROVE  Physical(probes[n])' \in FetchedBlocks'
  <2>1. Physical(probes[n])' = Physical(probes[n]) BY <1>3 DEF Physical, LogicalBlock
  <2> QED BY <1>2, <1>3, <2>1
<1>4. CASE probes' = probes BY <1>1, <1>3, <1>4
<1>5. CASE probes' = Append(probes, p)
  <2>1. /\ probes' \in Seq(Int) /\ Len(probes') = Len(probes) + 1 /\ probes'[Len(probes) + 1] = p
        /\ \A n \in 1..Len(probes) : probes'[n] = probes[n]
    BY <1>1, <1>5
  <2>2. ASSUME NEW n \in 1..Len(probes') PROVE Physical(probes[n])' \in FetchedBlocks'
    <3>1. CASE n = Len(probes) + 1
      <4>1. Physical(probes[n])' = Physical(p) BY <2>1, <3>1 DEF Physical, LogicalBlock
      <4> QED BY <4>1
    <3>2. CASE n # Len(probes) + 1
      <4>1. n \in 1..Len(probes) BY <1>1, <2>1, <3>2
      <4> QED BY <1>3, <2>1, <4>1
    <3> QED BY <3>1, <3>2
  <2> QED BY <2>1, <2>2
<1> QED BY <1>4, <1>5

\* The ranks a search looks at.
LEMMA ProbeBounds ==
  ASSUME RefInv, phase = "probing"
  PROVE  /\ at \in DOMAIN levels /\ Items(at) \in Nat /\ Blocks(at) \in Nat
         /\ first \in 0..(Items(at) - 1) /\ Physical(first) \in 0..(Blocks(at) - 1)
         /\ Probe \in 0..(Items(at) - 1) /\ Physical(Probe) \in 0..(Blocks(at) - 1)
         /\ first <= Probe /\ Probe + HalfLeft = first + left
         /\ left > 1 => HalfLeft \in Nat \ {0} /\ first + HalfLeft <= first + left
                        /\ Probe < first + HalfLeft + 1
<1>1. /\ at \in DOMAIN levels /\ first \in Nat /\ left \in Nat \ {0} /\ first + left <= Items(at)
  BY DEF RefInv, Ranges, Active
<1>2. Items(at) \in Nat /\ Blocks(at) \in Nat BY <1>1, CountType DEF RefInv
<1> DEFINE h == left \div 2
<1>3. h \in Nat /\ h <= left - 1 /\ 2 * h <= left /\ left <= 2 * h + 1 BY <1>1
<1>4. Probe = first + h /\ HalfLeft = left - h BY DEF Probe, HalfLeft
<1> HIDE DEF h
<1>5. first \in 0..(Items(at) - 1) /\ Probe \in 0..(Items(at) - 1) BY <1>1, <1>2, <1>3, <1>4
<1>6. Physical(first) \in 0..(Blocks(at) - 1) /\ Physical(Probe) \in 0..(Blocks(at) - 1)
  BY <1>1, <1>5, PhysicalType DEF RefInv
<1>7. first <= Probe /\ Probe + HalfLeft = first + left BY <1>1, <1>3, <1>4
<1>8. left > 1 => HalfLeft \in Nat \ {0} /\ first + HalfLeft <= first + left
                  /\ Probe < first + HalfLeft + 1
  BY <1>1, <1>3, <1>4
<1> QED BY <1>1, <1>2, <1>5, <1>6, <1>7, <1>8

LEMMA ProbeMiddleKeeps ==
  ASSUME RefInv, ProbeMiddle
  PROVE  RefInv'
<1>1. /\ phase = "probing" /\ left > 1 /\ Halve
      /\ UNCHANGED <<pgmVars, phase, build, query, at, window, pos>>
  BY DEF ProbeMiddle
<1>2. /\ at \in DOMAIN levels /\ Items(at) \in Nat /\ Blocks(at) \in Nat
      /\ first \in 0..(Items(at) - 1)
      /\ Probe \in 0..(Items(at) - 1) /\ Physical(Probe) \in 0..(Blocks(at) - 1)
      /\ Probe + HalfLeft = first + left /\ first <= Probe
      /\ HalfLeft \in Nat \ {0} /\ first + HalfLeft <= first + left
  BY <1>1, ProbeBounds
<1>3. /\ fetched' \in Seq(Int) /\ FetchedBlocks \subseteq FetchedBlocks'
      /\ Physical(Probe) \in FetchedBlocks'
      /\ current' # NoBlock => current' \in FetchedBlocks'
      /\ cache' \subseteq FetchedBlocks'
  <2>1. CASE ObtainAndSave(Probe) BY <1>2, <2>1, PrefetchHas DEF RefInv
  <2>2. CASE Obtain(Probe)
    <3>1. Physical(Probe) \in Nat BY <1>2
    <3> QED BY <2>2, <3>1, ObtainHas DEF RefInv
  <2> QED BY <2>1, <2>2 DEF ProbeMiddle
<1>4. Model' /\ Built' BY <1>1, SameModel, SameLevels DEF RefInv, Built
<1>5. levels' = levels /\ at' = at /\ Items(at)' = Items(at) BY <1>1 DEF build, Items
<1>6. probes' \in Seq(Int) /\ \A n \in 1..Len(probes') : Physical(probes[n])' \in FetchedBlocks'
  <2>1. Probe \in Int /\ probes' = Append(probes, Probe) /\ Active
    BY <1>1, <1>2 DEF Halve, Active
  <2> QED BY <1>3, <1>5, <2>1, ProbesStayRead
<1>7. Buffers' BY <1>3, <1>6 DEF Buffers
<1>8. Ranges'
  <2>1. /\ window.lo \in 0..Items(at) /\ window.hi \in 0..Items(at) /\ pos \in 0..Items(at)
        /\ first \in Nat /\ left \in Nat \ {0} /\ first + left <= Items(at)
    BY <1>1 DEF RefInv, Ranges, Active
  <2>2. first' \in {first, Probe} /\ left' = HalfLeft BY DEF ProbeMiddle, Halve, HalfStart
  <2>3. first' \in Nat /\ left' \in Nat \ {0} /\ first' + left' <= Items(at)
    BY <1>2, <2>1, <2>2
  <2> QED BY <1>1, <1>2, <1>5, <2>1, <2>3 DEF Ranges, Active
<1>9. ReadBeforeUse' BY <1>1, <1>6 DEF ReadBeforeUse
<1> QED BY <1>4, <1>7, <1>8, <1>9 DEF RefInv

LEMMA CompareKeeps ==
  ASSUME RefInv, Compare
  PROVE  RefInv'
<1>1. /\ phase = "probing" /\ left = 1 /\ probes' = Append(probes, first) /\ Obtain(first)
      /\ pos' = Step /\ phase' = IF Step = Items(at) THEN "outcome" ELSE "touching"
      /\ UNCHANGED <<pgmVars, build, query, at, window>>
  BY DEF Compare
<1>2. /\ at \in DOMAIN levels /\ Items(at) \in Nat
      /\ first \in 0..(Items(at) - 1) /\ Physical(first) \in Nat
  BY <1>1, ProbeBounds
<1>3. /\ fetched' \in Seq(Int) /\ FetchedBlocks \subseteq FetchedBlocks'
      /\ Physical(first) \in FetchedBlocks'
      /\ current' # NoBlock => current' \in FetchedBlocks'
      /\ cache' \subseteq FetchedBlocks'
  BY <1>1, <1>2, ObtainHas DEF RefInv
<1>4. Model' /\ Built' BY <1>1, SameModel, SameLevels DEF RefInv, Built
<1>5. levels' = levels /\ at' = at /\ Items(at)' = Items(at) BY <1>1 DEF build, Items
<1>6. probes' \in Seq(Int) /\ \A n \in 1..Len(probes') : Physical(probes[n])' \in FetchedBlocks'
  <2>1. first \in Int /\ Active BY <1>1, <1>2 DEF Active
  <2> QED BY <1>1, <1>3, <1>5, <2>1, ProbesStayRead
<1>7. Buffers' BY <1>3, <1>6 DEF Buffers
<1>8. Ranges'
  <2>1. window.lo \in 0..Items(at) /\ window.hi \in 0..Items(at)
    BY <1>1 DEF RefInv, Ranges, Active
  <2>2. Step \in 0..Items(at) BY <1>2 DEF Step
  <2> QED BY <1>1, <1>2, <1>5, <2>1, <2>2 DEF Ranges, Active
<1>9. ReadBeforeUse' BY <1>1, <1>5, <1>6 DEF ReadBeforeUse
<1> QED BY <1>4, <1>7, <1>8, <1>9 DEF RefInv

LEMMA TouchKeeps ==
  ASSUME RefInv, Touch
  PROVE  RefInv'
<1>1. /\ phase = "touching" /\ Obtain(pos) /\ phase' = "outcome"
      /\ UNCHANGED <<pgmVars, build, query, at, window, pos, probes>>
  BY DEF Touch
<1>2. /\ at \in DOMAIN levels /\ window.lo \in 0..Items(at) /\ window.hi \in 0..Items(at)
      /\ pos \in 0..Items(at) /\ pos # Items(at)
  BY <1>1 DEF RefInv, Ranges, Active
<1>3. Items(at) \in Nat /\ pos \in 0..(Items(at) - 1)
  BY <1>2, CountType DEF RefInv
<1>4. Physical(pos) \in Nat
  <2>1. Physical(pos) \in 0..(Blocks(at) - 1) BY <1>2, <1>3, PhysicalType DEF RefInv
  <2> QED BY <2>1
<1>5. /\ fetched' \in Seq(Int) /\ FetchedBlocks \subseteq FetchedBlocks'
      /\ Physical(pos) \in FetchedBlocks'
      /\ current' # NoBlock => current' \in FetchedBlocks'
      /\ cache' \subseteq FetchedBlocks'
  BY <1>1, <1>4, ObtainHas DEF RefInv
<1>6. Model' /\ Built' BY <1>1, SameModel, SameLevels DEF RefInv, Built
<1>7. levels' = levels /\ at' = at /\ Items(at)' = Items(at) BY <1>1 DEF build, Items
<1>8. probes' \in Seq(Int) /\ \A n \in 1..Len(probes') : Physical(probes[n])' \in FetchedBlocks'
  <2>1. pos \in Int /\ Active BY <1>1, <1>3 DEF Active
  <2> QED BY <1>1, <1>5, <1>7, <2>1, ProbesStayRead
<1>9. Buffers' BY <1>5, <1>8 DEF Buffers
<1>10. Ranges' BY <1>1, <1>2, <1>7 DEF Ranges, Active
<1>11. ReadBeforeUse'
  <2>1. Physical(pos)' = Physical(pos) BY <1>1, <1>7 DEF Physical, LogicalBlock
  <2> QED BY <1>1, <1>5, <1>8, <2>1 DEF ReadBeforeUse
<1> QED BY <1>6, <1>9, <1>10, <1>11 DEF RefInv

LEMMA RefInvInit == RefInit => RefInv
<1> SUFFICES ASSUME RefInit PROVE RefInv OBVIOUS
<1>1. Model BY ResetGood DEF RefInit, PgmInit
<1>2. Built
  <2>1. \A level \in DOMAIN levels : FALSE BY DEF RefInit
  <2>2. experiment \in Experiments /\ building = NoLevel /\ query \in Int BY DEF RefInit
  <2>3. \E bound \in Nat : \A level \in DOMAIN levels : level <= bound
    <3>1. 0 \in Nat OBVIOUS
    <3> QED BY <2>1, <3>1
  <2> QED BY <2>1, <2>2, <2>3 DEF Built
<1>3. Buffers BY DEF RefInit, Buffers
<1>4. phase = "building" BY DEF RefInit
<1>5. Ranges /\ ReadBeforeUse BY <1>4 DEF Ranges, Active, ReadBeforeUse
<1> QED BY <1>1, <1>2, <1>3, <1>5 DEF RefInv

LEMMA RefInvNext == RefInv /\ [RefNext]_vars => RefInv'
<1> SUFFICES ASSUME RefInv, [RefNext]_vars PROVE RefInv' OBVIOUS
<1>1. ASSUME NEW level \in Declared, Declare(level) PROVE RefInv'
  BY <1>1, DeclareKeeps
<1>2. CASE Feed BY <1>2, FeedKeeps
<1>3. CASE Finish BY <1>3, FinishKeeps
<1>4. CASE EndBuild
  <2>1. UNCHANGED <<pgmVars, build, current, cache, fetched, probes, query>> /\ phase' = "loading"
    BY <1>4 DEF EndBuild, lookup, buffers
  <2> QED BY <2>1, QuietStep DEF RefInv, Built
<1>5. CASE Load
  <2>1. /\ UNCHANGED <<pgmVars, build, current, cache, fetched, probes, query>>
        /\ phase' \in {"loading", "idle"}
    BY <1>5 DEF Load, lookup, buffers
  <2> QED BY <2>1, QuietStep DEF RefInv, Built
<1>6. ASSUME NEW q \in QueryKeys, Ask(q) PROVE RefInv'
  <2>1. /\ UNCHANGED <<pgmVars, build, current, cache, fetched, probes>>
        /\ phase' = "scanning" /\ query' \in Int
    BY <1>6, QueryAssumption, UniverseAssumption DEF Ask
  <2> QED BY <2>1, QuietStep
<1>7. CASE Skip
  <2>1. /\ UNCHANGED <<pgmVars, build, current, cache, fetched, probes, query>>
        /\ phase' = "scanning"
    BY <1>7 DEF Skip, lookup, buffers
  <2> QED BY <2>1, QuietStep DEF RefInv, Built
<1>8. CASE Miss
  <2>1. UNCHANGED <<pgmVars, build, current, cache, fetched, probes, query>> /\ phase' = "idle"
    BY <1>8 DEF Miss, Answered, lookup, buffers
  <2> QED BY <2>1, QuietStep DEF RefInv, Built
<1>9. CASE Enter BY <1>9, EnterKeeps
<1>10. CASE ProbeMiddle BY <1>10, ProbeMiddleKeeps
<1>11. CASE Compare BY <1>11, CompareKeeps
<1>12. CASE Touch BY <1>12, TouchKeeps
<1>13. CASE Outcome
  <2>1. /\ UNCHANGED <<pgmVars, build, current, cache, fetched, probes, query>>
        /\ phase' \in {"idle", "scanning"}
    BY <1>13 DEF Outcome, Answered, lookup, buffers
  <2> QED BY <2>1, QuietStep DEF RefInv, Built
<1>14. CASE UNCHANGED vars
  <2>1. UNCHANGED <<pgmVars, build, current, cache, fetched, probes, query, at, window, pos, first, left, phase>>
    BY <1>14 DEF vars, refVars, lookup, buffers
  <2>2. Model' /\ Built' BY <2>1, SameModel, SameLevels DEF RefInv, Built
  <2>3. Buffers' BY <2>1 DEF RefInv, Buffers, FetchedBlocks
  <2>4. levels' = levels /\ at' = at /\ Items(at)' = Items(at) BY <2>1 DEF build, Items
  <2>5. Ranges' BY <2>1, <2>4 DEF RefInv, Ranges, Active
  <2>6. ReadBeforeUse'
    <3>1. \A n \in 1..Len(probes) : Physical(probes[n])' = Physical(probes[n])
      BY <2>1, <2>4 DEF Physical, LogicalBlock
    <3>2. Physical(pos)' = Physical(pos) BY <2>1, <2>4 DEF Physical, LogicalBlock
    <3>3. FetchedBlocks' = FetchedBlocks BY <2>1 DEF FetchedBlocks
    <3> QED BY <2>1, <2>4, <3>1, <3>2, <3>3 DEF RefInv, ReadBeforeUse
  <2> QED BY <2>2, <2>3, <2>5, <2>6 DEF RefInv
<1> QED
  BY <1>1, <1>2, <1>3, <1>4, <1>5, <1>6, <1>7, <1>8, <1>9, <1>10, <1>11, <1>12, <1>13, <1>14
  DEF RefNext, Build, Lookup

\* letindex_ref.py: no key is compared whose block the same level lookup has not
\* read, through all prefetches, for every epsilon, placement and block size.
THEOREM ReadBeforeUseHolds == RefSpec => []ReadBeforeUse
<1>1. RefInv => ReadBeforeUse BY DEF RefInv
<1> QED BY RefInvInit, RefInvNext, <1>1, PTL DEF RefSpec

-----------------------------------------------------------------------------
(* The indexes of an experiment are those of PgmProofs. *)

\* An experiment builds its indexes one key at a time, and each from nothing.
LEMMA ConstructedNext ==
  RefInv /\ Constructed /\ [RefNext]_vars => Constructed'
<1> SUFFICES ASSUME RefInv, Constructed, [RefNext]_vars PROVE Constructed' OBVIOUS
<1>1. CASE Feed
  <2> DEFINE x == experiment.levels[building][Len(keys) + 1]
  <2>1. AddKey(x) BY <1>1 DEF Feed
  <2> HIDE DEF x
  <2>2. x \in KeyUniverse
    BY <2>1 DEF AddKey, FirstPoint, SecondPoint, InsidePoint, OutsidePoint, Increasing
  <2> QED BY <2>1, <2>2, ConstructedStep
<1>2. CASE Finish
  <2>1. ResetModel' /\ (epsilon \in Epsilons)'
    BY <1>2 DEF Finish, ResetModel, RefInv, Model, PgmTypeOK
  <2> QED BY <2>1, ConstructedInit, PTL
<1>3. CASE UNCHANGED pgmVars BY <1>3, ConstructedStays
<1>4. Feed \/ Finish \/ UNCHANGED pgmVars
  BY DEF RefNext, Build, Lookup, Declare, EndBuild, Load, Ask, Skip, Miss, Enter,
         ProbeMiddle, Compare, Touch, Outcome, vars
<1> QED BY <1>1, <1>2, <1>3, <1>4

LEMMA ConstructedAlways == RefSpec => []Constructed
<1>1. RefInit => Constructed BY ConstructedInit DEF RefInit, PgmInit
<1> QED BY <1>1, RefInvInit, RefInvNext, ConstructedNext, PTL DEF RefSpec

\* letindex_ref.py with pgm.py: the four properties of the indexes hold through
\* an experiment, which builds one index after the other.
THEOREM IndexesAreCertified ==
  RefSpec => /\ []CertificateInBand
             /\ []SegmentsMaximal
             /\ []WindowHoldsLowerBound
             /\ []SegmentsTile
<1>1. Constructed => CertificateInBand BY ConstructedInBand
<1>2. Constructed => SegmentsMaximal BY DEF Constructed, Closed
<1>3. Constructed => WindowHoldsLowerBound BY ConstructedWindows
<1>4. Constructed => SegmentsTile BY ConstructedTile
<1> QED BY ConstructedAlways, <1>1, <1>2, <1>3, <1>4, PTL

-----------------------------------------------------------------------------
(* The search finds the position. *)

\* The keys added to the index are those of the level under construction.
Prefix ==
  /\ building = NoLevel => keys = <<>>
  /\ building # NoLevel =>
       /\ Len(keys) <= Len(experiment.levels[building])
       /\ \A n \in 1..Len(keys) : keys[n] = experiment.levels[building][n]

HoldsPosition(w, run, q) == \E n \in w.lo..w.hi : IsLowerBound(run, q, n)

Windows ==
  \A level \in DOMAIN levels :
    HasPgm(level) => \A q \in KeyUniverse :
                       HoldsPosition(Window(levels[level].pgm, q), levels[level].keys, q)

Bracketed ==
  phase = "probing" => HoldsPosition([lo |-> first, hi |-> first + left], levels[at].keys, query)

Landed == phase \in {"touching", "outcome"} => IsLowerBound(levels[at].keys, query, pos)

Queried == phase \in {"scanning", "probing", "touching", "outcome"} => query \in KeyUniverse

SearchInv == RefInv /\ Prefix /\ Windows /\ Bracketed /\ Landed /\ Queried

\* The keys of a level that is kept increase.
LEMMA KeysIncrease ==
  ASSUME Built, NEW level \in DOMAIN levels, NEW m \in 1..Items(level), NEW n \in 1..Items(level), m < n
  PROVE  /\ levels[level].keys[m] \in Int /\ levels[level].keys[n] \in Int
         /\ levels[level].keys[m] < levels[level].keys[n]
<1>1. /\ level \in Declared /\ experiment \in Experiments
      /\ levels[level].keys = experiment.levels[level]
  BY DEF Built, GoodLevel
<1>2. /\ experiment.levels[level] \in Seq(KeyUniverse)
      /\ m \in 1..Len(experiment.levels[level]) /\ n \in 1..Len(experiment.levels[level])
  BY <1>1, ExperimentAssumption DEF Declared, Items
<1>3. experiment.levels[level][m] < experiment.levels[level][n]
  BY <1>1, <1>2, ExperimentAssumption DEF Declared
<1>4. experiment.levels[level][m] \in KeyUniverse /\ experiment.levels[level][n] \in KeyUniverse
  BY <1>2
<1> QED BY <1>1, <1>3, <1>4, UniverseAssumption

\* Every key has a position in a level.
LEMMA PositionExists ==
  ASSUME Built, NEW level \in DOMAIN levels, NEW q \in Int
  PROVE  \E n \in 0..Items(level) : IsLowerBound(levels[level].keys, q, n)
<1> DEFINE run == levels[level].keys
           size == Items(level)
           T == {n \in 0..size : \A k \in (n + 1)..size : run[k] >= q}
<1>1. size \in Nat /\ run \in Seq(KeyUniverse) /\ Len(run) = size
  BY CountType DEF Items
<1>2. \A m, n \in 1..size : m < n => run[m] < run[n] BY KeysIncrease
<1> HIDE DEF run, size
<1>3. \A k \in 1..size : run[k] \in Int
  <2>1. \A k \in 1..Len(run) : run[k] \in KeyUniverse BY <1>1
  <2> QED BY <1>1, <2>1, UniverseAssumption
<1>4. T \in SUBSET Nat BY <1>1
<1>5. T # {}
  <2>1. size \in T BY <1>1
  <2> QED BY <2>1
<1>6. PICK n \in T : \A m \in T : n <= m BY <1>4, <1>5, LeastNat
<1>7. n \in 0..size /\ \A k \in (n + 1)..size : run[k] >= q OBVIOUS
<1>8. ASSUME NEW m \in 1..n, ~(run[m] < q) PROVE FALSE
  <2>1. m \in 1..size /\ m - 1 \in 0..size /\ m - 1 < n BY <1>1, <1>7
  <2>2. ASSUME NEW k \in ((m - 1) + 1)..size PROVE run[k] >= q
    <3>1. k \in 1..size /\ (k = m \/ m < k) BY <1>1, <2>1
    <3>2. run[m] \in Int /\ run[k] \in Int /\ run[m] >= q BY <1>3, <1>8, <2>1, <3>1
    <3>3. m < k => run[m] < run[k] BY <1>2, <2>1, <3>1
    <3> QED BY <3>1, <3>2, <3>3
  <2>3. m - 1 \in T BY <2>1, <2>2
  <2>4. n <= m - 1 BY <1>6, <2>3
  <2> QED BY <1>1, <1>7, <2>1, <2>4
<1>9. IsLowerBound(run, q, n)
  BY <1>1, <1>7, <1>8 DEF IsLowerBound
<1> QED BY <1>7, <1>9 DEF run, size

LEMMA SamePrefix ==
  ASSUME Prefix, UNCHANGED <<pgmVars, build>>
  PROVE  Prefix'
BY DEF Prefix, pgmVars, build

LEMMA SameWindows ==
  ASSUME Windows, UNCHANGED build
  PROVE  Windows'
<1>1. levels' = levels BY DEF build
<1> QED BY <1>1 DEF Windows, HasPgm, Items, HasIndex

\* A step with another phase than the search's.
LEMMA OtherPhase ==
  ASSUME SearchInv, RefInv', Prefix', Windows', phase' \notin {"scanning", "probing", "touching", "outcome"}
  PROVE  SearchInv'
BY DEF SearchInv, Bracketed, Landed, Queried

LEMMA FeedPrefix ==
  ASSUME SearchInv, Feed
  PROVE  Prefix'
<1> DEFINE items == experiment.levels[building]
           x == items[Len(keys) + 1]
<1>1. building # NoLevel /\ UNCHANGED <<experiment, building>> /\ Remaining > 0 /\ AddKey(x)
  BY DEF Feed, refVars, build
<1>2. keys' = Append(keys, x)
  BY <1>1 DEF AddKey, FirstPoint, SecondPoint, InsidePoint, OutsidePoint
<1>3. items \in Seq(KeyUniverse) /\ keys \in Seq(KeyUniverse)
  BY <1>1, ItemsType DEF SearchInv, RefInv, Built, Model, PgmTypeOK
<1>4. Len(items) \in Nat /\ Len(keys) \in Nat /\ Len(keys) < Len(items)
  BY <1>1, <1>3 DEF Remaining
<1>5. x \in KeyUniverse BY <1>3, <1>4
<1>6. \A n \in 1..Len(keys) : keys[n] = items[n] BY <1>1 DEF SearchInv, Prefix
<1>9. experiment'.levels[building'] = items BY <1>1
<1> HIDE DEF items
<1>7. /\ Len(keys') = Len(keys) + 1 /\ keys'[Len(keys) + 1] = x
      /\ \A n \in 1..Len(keys) : keys'[n] = keys[n]
  BY <1>2, <1>3, <1>5
<1>8. ASSUME NEW n \in 1..Len(keys') PROVE keys'[n] = items[n]
  <2>1. CASE n = Len(keys) + 1 BY <1>7, <2>1
  <2>2. CASE n # Len(keys) + 1
    <3>1. n \in 1..Len(keys) BY <1>4, <1>7, <2>2
    <3> QED BY <1>6, <1>7, <3>1
  <2> QED BY <2>1, <2>2
<1> QED BY <1>1, <1>4, <1>7, <1>8, <1>9 DEF Prefix

\* The index that is kept covers the whole level.
LEMMA FinishWindows ==
  ASSUME SearchInv, WindowHoldsLowerBound, Finish
  PROVE  Windows'
<1> DEFINE items == experiment.levels[building]
<1>1. building # NoLevel BY DEF Finish
<1>2. PICK placement \in Placements(BlockCount(Len(items))) :
        levels' = [level \in DOMAIN levels \cup {building} |->
                     IF level = building
                     THEN [keys |-> items, pgm |-> BatchIndex, placement |-> placement]
                     ELSE levels[level]]
  BY DEF Finish
<1>3. items \in Seq(KeyUniverse) /\ keys \in Seq(KeyUniverse)
  BY <1>1, ItemsType DEF SearchInv, RefInv, Built, Model, PgmTypeOK
<1>4. HasIndex(building) => keys = items
  <2> SUFFICES ASSUME HasIndex(building) PROVE keys = items OBVIOUS
  <2>1. Remaining = 0 BY DEF Finish
  <2>2. Len(keys) = Len(items) BY <1>3, <2>1 DEF Remaining
  <2>3. \A n \in 1..Len(keys) : keys[n] = items[n] BY <1>1 DEF SearchInv, Prefix
  <2> HIDE DEF items
  <2> QED BY <1>3, <2>2, <2>3, SeqEqual
<1>5. ASSUME NEW level \in DOMAIN levels', HasPgm(level)', NEW q \in KeyUniverse
      PROVE  HoldsPosition(Window(levels'[level].pgm, q), levels'[level].keys, q)
  <2>1. HasIndex(level) BY <1>5 DEF HasPgm, HasIndex
  <2>2. CASE level = building
    <3>1. levels'[level].pgm = BatchIndex /\ levels'[level].keys = keys
      BY <1>2, <1>4, <2>1, <2>2
    <3>2. HoldsPosition(Window(BatchIndex, q), keys, q)
      BY DEF WindowHoldsLowerBound, HoldsPosition
    <3> QED BY <3>1, <3>2
  <2>3. CASE level # building
    <3>1. level \in DOMAIN levels /\ levels'[level] = levels[level] BY <1>2, <2>3
    <3>2. HasPgm(level) BY <1>5, <3>1 DEF HasPgm, Items, HasIndex
    <3> QED BY <3>1, <3>2 DEF SearchInv, Windows
  <2> QED BY <2>2, <2>3
<1> QED BY <1>5 DEF Windows

\* Entering a level, the position is inside the interval.
LEMMA EnterSearches ==
  ASSUME SearchInv, RefInv', Enter
  PROVE  SearchInv'
<1> DEFINE w == Interval(at)
           run == levels[at].keys
<1>1. /\ phase = "scanning" /\ at \in DOMAIN levels /\ Items(at) > 0
      /\ first' = w.lo /\ left' = w.hi - w.lo /\ pos' = w.lo
      /\ phase' = IF w.lo = w.hi THEN "outcome" ELSE "probing"
      /\ UNCHANGED <<pgmVars, build, at, query>>
  BY DEF Enter, Stocked
<1>2. /\ w.lo \in 0..Items(at) /\ w.hi \in 0..Items(at) /\ w.lo <= w.hi
  BY <1>1, IntervalBounds DEF SearchInv, RefInv
<1>3. query \in KeyUniverse /\ query \in Int
  BY <1>1, UniverseAssumption DEF SearchInv, Queried
<1>4. HoldsPosition(w, run, query)
  <2>1. CASE HasPgm(at)
    <3>1. w = Window(levels[at].pgm, query) BY <2>1 DEF Interval
    <3> QED BY <1>1, <1>3, <2>1, <3>1 DEF SearchInv, Windows
  <2>2. CASE ~HasPgm(at)
    <3>1. w = [lo |-> 0, hi |-> Items(at)] BY <2>2 DEF Interval
    <3>2. \E n \in 0..Items(at) : IsLowerBound(run, query, n)
      BY <1>1, <1>3, PositionExists DEF SearchInv, RefInv
    <3> QED BY <3>1, <3>2 DEF HoldsPosition
  <2> QED BY <2>1, <2>2
<1>5. PICK n \in w.lo..w.hi : IsLowerBound(run, query, n) BY <1>4 DEF HoldsPosition
<1>6. levels'[at'].keys = run /\ query' = query BY <1>1 DEF build
<1>7. Items(at) \in Nat BY <1>1, CountType DEF SearchInv, RefInv
<1> HIDE DEF w, run
<1>8. Bracketed'
  <2>1. first' + left' = w.hi BY <1>1, <1>2, <1>7
  <2>2. n \in first'..(first' + left') BY <1>1, <1>5, <2>1
  <2> QED BY <1>5, <1>6, <2>2 DEF Bracketed, HoldsPosition
<1>9. Landed'
  <2>1. w.lo = w.hi => n = w.lo BY <1>2, <1>5, <1>7
  <2> QED BY <1>1, <1>5, <1>6, <2>1 DEF Landed
<1>10. Prefix' /\ Windows' BY <1>1, SamePrefix, SameWindows DEF SearchInv
<1>11. Queried' BY <1>1, <1>3 DEF Queried
<1> QED BY <1>8, <1>9, <1>10, <1>11 DEF SearchInv

\* A position is right of every smaller key and of no other.
LEMMA PositionSplits ==
  ASSUME NEW run \in Seq(Int), NEW q \in Int, NEW n \in Nat, IsLowerBound(run, q, n),
         NEW k \in 0..(Len(run) - 1)
  PROVE  run[k + 1] < q <=> k < n
<1>1. k + 1 \in 1..Len(run) /\ n \in 0..Len(run) /\ run[k + 1] \in Int BY DEF IsLowerBound
<1>2. CASE k < n
  <2>1. k + 1 \in 1..n BY <1>1, <1>2
  <2> QED BY <1>2, <2>1 DEF IsLowerBound
<1>3. CASE ~(k < n)
  <2>1. k + 1 \in (n + 1)..Len(run) BY <1>1, <1>3
  <2>2. run[k + 1] >= q BY <2>1 DEF IsLowerBound
  <2> QED BY <1>1, <1>3, <2>2
<1> QED BY <1>2, <1>3

LEMMA RunType ==
  ASSUME Built, at \in DOMAIN levels
  PROVE  levels[at].keys \in Seq(Int) /\ Items(at) = Len(levels[at].keys) /\ Items(at) \in Nat
<1>1. levels[at].keys \in Seq(KeyUniverse) BY CountType
<1>2. \A n \in 1..Len(levels[at].keys) : levels[at].keys[n] \in Int
  <2>1. \A n \in 1..Len(levels[at].keys) : levels[at].keys[n] \in KeyUniverse BY <1>1
  <2> QED BY <2>1, UniverseAssumption
<1> QED BY <1>1, <1>2 DEF Items

\* Halving keeps the position in the half that is kept.
LEMMA HalveSearches ==
  ASSUME SearchInv, RefInv', ProbeMiddle
  PROVE  SearchInv'
<1> DEFINE run == levels[at].keys
<1>1. /\ phase = "probing" /\ left > 1
      /\ first' = (IF KeyAt(Probe) < query THEN Probe ELSE first) /\ left' = HalfLeft
      /\ UNCHANGED <<pgmVars, phase, build, query, at, pos>>
  BY DEF ProbeMiddle, Halve, HalfStart
<1>2. /\ at \in DOMAIN levels /\ Probe \in 0..(Items(at) - 1)
      /\ first \in 0..(Items(at) - 1) /\ first <= Probe
      /\ Probe + HalfLeft = first + left /\ HalfLeft \in Nat \ {0}
      /\ Probe < first + HalfLeft + 1
  BY <1>1, ProbeBounds DEF SearchInv
<1>3. query \in Int BY <1>1, UniverseAssumption DEF SearchInv, Queried
<1>4. run \in Seq(Int) /\ Items(at) = Len(run) /\ Items(at) \in Nat
  BY <1>2, RunType DEF SearchInv, RefInv
<1>5. PICK n \in first..(first + left) : IsLowerBound(run, query, n)
  BY <1>1 DEF SearchInv, Bracketed, HoldsPosition
<1>6. left \in Nat /\ n \in Nat /\ first \in Nat
  <2>1. left \in Nat BY <1>1 DEF SearchInv, RefInv, Ranges, Active
  <2> QED BY <1>2, <2>1
<1>7. KeyAt(Probe) < query <=> Probe < n
  BY <1>2, <1>3, <1>4, <1>5, <1>6, PositionSplits DEF KeyAt
<1>8. levels'[at'].keys = run /\ query' = query /\ phase' = "probing" BY <1>1 DEF build
<1> HIDE DEF run
<1>9. n \in first'..(first' + left')
  <2>1. CASE Probe < n
    <3>1. first' = Probe /\ left' = HalfLeft BY <1>1, <1>7, <2>1
    <3> QED BY <1>2, <1>4, <1>5, <1>6, <2>1, <3>1
  <2>2. CASE ~(Probe < n)
    <3>1. first' = first /\ left' = HalfLeft BY <1>1, <1>7, <2>2
    <3> QED BY <1>2, <1>4, <1>5, <1>6, <2>2, <3>1
  <2> QED BY <2>1, <2>2
<1>10. Bracketed' BY <1>5, <1>8, <1>9 DEF Bracketed, HoldsPosition
<1>11. Prefix' /\ Windows' BY <1>1, SamePrefix, SameWindows DEF SearchInv
<1> QED BY <1>8, <1>10, <1>11, <1>1 DEF SearchInv, Landed, Queried

\* The last comparison lands on the position.
LEMMA CompareSearches ==
  ASSUME SearchInv, RefInv', Compare
  PROVE  SearchInv'
<1> DEFINE run == levels[at].keys
<1>1. /\ phase = "probing" /\ left = 1 /\ pos' = Step
      /\ phase' \in {"outcome", "touching"}
      /\ UNCHANGED <<pgmVars, build, query, at>>
  BY DEF Compare
<1>2. at \in DOMAIN levels /\ first \in 0..(Items(at) - 1)
  BY <1>1, ProbeBounds DEF SearchInv
<1>3. query \in Int BY <1>1, UniverseAssumption DEF SearchInv, Queried
<1>4. run \in Seq(Int) /\ Items(at) = Len(run) /\ Items(at) \in Nat
  BY <1>2, RunType DEF SearchInv, RefInv
<1>5. PICK n \in first..(first + left) : IsLowerBound(run, query, n)
  BY <1>1 DEF SearchInv, Bracketed, HoldsPosition
<1>6. n \in {first, first + 1} /\ n \in Nat BY <1>1, <1>2, <1>4, <1>5
<1>7. KeyAt(first) < query <=> first < n
  BY <1>2, <1>3, <1>4, <1>5, <1>6, PositionSplits DEF KeyAt
<1>8. Step = n BY <1>2, <1>4, <1>6, <1>7 DEF Step
<1>9. levels'[at'].keys = run /\ query' = query BY <1>1 DEF build
<1> HIDE DEF run
<1>10. Landed' BY <1>1, <1>5, <1>8, <1>9 DEF Landed
<1>11. Prefix' /\ Windows' BY <1>1, SamePrefix, SameWindows DEF SearchInv
<1> QED BY <1>1, <1>10, <1>11 DEF SearchInv, Bracketed, Queried

LEMMA TouchSearches ==
  ASSUME SearchInv, RefInv', Touch
  PROVE  SearchInv'
<1>1. /\ phase = "touching" /\ phase' = "outcome" /\ UNCHANGED <<pgmVars, build, query, at, pos>>
  BY DEF Touch
<1>2. levels' = levels BY <1>1 DEF build
<1>3. Prefix' /\ Windows' BY <1>1, SamePrefix, SameWindows DEF SearchInv
<1> QED BY <1>1, <1>2, <1>3 DEF SearchInv, Bracketed, Landed, Queried

\* A step that enters no level and asks nothing.
LEMMA ScanSearches ==
  ASSUME SearchInv, RefInv', UNCHANGED <<pgmVars, build, query>>,
         phase \in {"scanning", "outcome"}, phase' \in {"scanning", "idle"}
  PROVE  SearchInv'
<1>1. Prefix' /\ Windows' BY SamePrefix, SameWindows DEF SearchInv
<1> QED BY <1>1 DEF SearchInv, Bracketed, Landed, Queried

LEMMA SearchInvInit == RefInit => SearchInv
<1> SUFFICES ASSUME RefInit PROVE SearchInv OBVIOUS
<1>1. \A level \in DOMAIN levels : FALSE BY DEF RefInit
<1>2. Prefix BY DEF RefInit, PgmInit, ResetModel, Prefix
<1>3. phase = "building" BY DEF RefInit
<1> QED BY RefInvInit, <1>1, <1>2, <1>3 DEF SearchInv, Windows, Bracketed, Landed, Queried

LEMMA SearchInvNext ==
  SearchInv /\ WindowHoldsLowerBound /\ [RefNext]_vars => SearchInv'
<1> SUFFICES ASSUME SearchInv, WindowHoldsLowerBound, [RefNext]_vars PROVE SearchInv' OBVIOUS
<1>0. RefInv' BY RefInvNext DEF SearchInv
<1>1. ASSUME NEW level \in Declared, Declare(level) PROVE SearchInv'
  <2>1. UNCHANGED <<pgmVars, experiment, levels>> /\ phase' \in {"building", "refused"} /\ building = NoLevel
    BY <1>1 DEF Declare
  <2>2. Prefix'
    <3>1. keys' = <<>> BY <2>1 DEF SearchInv, Prefix, pgmVars
    <3>2. building' # NoLevel => building' = level BY <1>1, <2>1 DEF Declare
    <3>3. Len(experiment.levels[level]) \in Nat
      BY ItemsType DEF SearchInv, RefInv
    <3> QED BY <2>1, <3>1, <3>2, <3>3 DEF Prefix
  <2>3. Windows' BY <2>1 DEF SearchInv, Windows, HasPgm, HasIndex, Items
  <2> QED BY <1>0, <2>1, <2>2, <2>3, OtherPhase
<1>2. CASE Feed
  <2>1. UNCHANGED build /\ phase' = "building" BY <1>2 DEF Feed, refVars
  <2> QED BY <1>0, <1>2, <2>1, FeedPrefix, SameWindows, OtherPhase DEF SearchInv
<1>3. CASE Finish
  <2>1. phase' = "building" /\ building' = NoLevel /\ keys' = <<>> BY <1>3 DEF Finish
  <2>2. Prefix' BY <2>1 DEF Prefix
  <2> QED BY <1>0, <1>3, <2>1, <2>2, FinishWindows, OtherPhase
<1>4. CASE EndBuild
  <2>1. UNCHANGED <<pgmVars, build>> /\ phase' = "loading" BY <1>4 DEF EndBuild
  <2> QED BY <1>0, <2>1, SamePrefix, SameWindows, OtherPhase DEF SearchInv
<1>5. CASE Load
  <2>1. UNCHANGED <<pgmVars, build>> /\ phase' \in {"loading", "idle"} BY <1>5 DEF Load
  <2> QED BY <1>0, <2>1, SamePrefix, SameWindows, OtherPhase DEF SearchInv
<1>6. ASSUME NEW q \in QueryKeys, Ask(q) PROVE SearchInv'
  <2>1. UNCHANGED <<pgmVars, build>> /\ phase' = "scanning" /\ query' = q BY <1>6 DEF Ask
  <2>2. Prefix' /\ Windows' BY <2>1, SamePrefix, SameWindows DEF SearchInv
  <2>3. q \in KeyUniverse BY QueryAssumption
  <2> QED BY <1>0, <2>1, <2>2, <2>3 DEF SearchInv, Bracketed, Landed, Queried
<1>7. CASE Skip
  BY <1>0, <1>7, ScanSearches DEF Skip
<1>8. CASE Miss
  BY <1>0, <1>8, ScanSearches DEF Miss, Answered
<1>9. CASE Enter BY <1>0, <1>9, EnterSearches
<1>10. CASE ProbeMiddle BY <1>0, <1>10, HalveSearches
<1>11. CASE Compare BY <1>0, <1>11, CompareSearches
<1>12. CASE Touch BY <1>0, <1>12, TouchSearches
<1>13. CASE Outcome
  BY <1>0, <1>13, ScanSearches DEF Outcome, Answered
<1>14. CASE UNCHANGED vars
  <2>1. UNCHANGED <<pgmVars, build, query, at, pos, first, left, phase>>
    BY <1>14 DEF vars, refVars, lookup
  <2>2. Prefix' /\ Windows' BY <2>1, SamePrefix, SameWindows DEF SearchInv
  <2>3. levels' = levels BY <2>1 DEF build
  <2> QED BY <1>0, <2>1, <2>2, <2>3 DEF SearchInv, Bracketed, Landed, Queried
<1> QED
  BY <1>1, <1>2, <1>3, <1>4, <1>5, <1>6, <1>7, <1>8, <1>9, <1>10, <1>11, <1>12, <1>13, <1>14
  DEF RefNext, Build, Lookup

\* letindex_ref.py: both searches land on the position of the first key that is
\* not smaller than the one queried, in the window of the PGM or the whole level.
THEOREM LookupIsLowerBoundHolds == RefSpec => []LookupIsLowerBound
<1>1. SearchInv => LookupIsLowerBound BY DEF SearchInv, Landed, LookupIsLowerBound
<1> QED BY SearchInvInit, SearchInvNext, IndexesAreCertified, <1>1, PTL DEF RefSpec

-----------------------------------------------------------------------------
(* The newest level answers. *)

Holds(level, q) == q \in {levels[level].keys[n] : n \in 1..Items(level)}

\* The levels before the one at hand do not have the key.
Missed ==
  phase \in {"scanning", "probing", "touching", "outcome"} =>
    \A level \in DOMAIN levels : level < at => ~Holds(level, query)

Unasked == phase \in {"building", "loading", "refused"} => asked = 0

AnswerInv ==
  /\ SearchInv /\ Missed /\ Unasked /\ AnswerIsNewest
  /\ at \in Int /\ asked \in Nat

\* No level at or above UsedLevels holds a key.
LEMMA UsedCovers ==
  ASSUME Built, NEW level \in DOMAIN levels, Items(level) > 0
  PROVE  UsedLevels \in Int /\ level < UsedLevels
<1>1. PICK bound \in Nat : \A l \in DOMAIN levels : l <= bound BY DEF Built
<1>2. level \in NonEmpty /\ NonEmpty \in SUBSET Int /\ \A l \in NonEmpty : l <= bound
  BY <1>1 DEF NonEmpty, Built, GoodLevel
<1>3. NonEmpty # {} /\ bound \in Int BY <1>2
<1>4. Max(NonEmpty) \in NonEmpty /\ level <= Max(NonEmpty)
  BY <1>2, <1>3, MaxIsGreatest
<1> QED BY <1>2, <1>4 DEF UsedLevels

LEMMA EmptyHoldsNothing ==
  ASSUME Built, NEW level \in DOMAIN levels, ~(Items(level) > 0), NEW q
  PROVE  ~Holds(level, q)
<1>1. Items(level) \in Nat BY CountType
<1> QED BY <1>1 DEF Holds

\* A level has the key exactly if the key is at its position.
LEMMA LandedDecides ==
  ASSUME Built, at \in DOMAIN levels, query \in Int, pos \in Nat,
         IsLowerBound(levels[at].keys, query, pos)
  PROVE  Found <=> Holds(at, query)
<1> DEFINE run == levels[at].keys
<1>1. run \in Seq(Int) /\ Items(at) = Len(run) /\ Items(at) \in Nat BY RunType
<1>2. \A m, n \in 1..Items(at) : m < n => run[m] < run[n] BY KeysIncrease
<1>3. pos \in 0..Items(at) BY <1>1 DEF IsLowerBound
<1>4. Found => Holds(at, query)
  <2>1. Found => pos + 1 \in 1..Items(at) BY <1>1, <1>3 DEF Found
  <2> QED BY <2>1 DEF Found, Holds, KeyAt
<1>5. ASSUME NEW n \in 1..Items(at), run[n] = query PROVE Found
  <2>1. pos < n
    <3>1. n \in 1..pos => run[n] < query BY DEF IsLowerBound
    <3>2. ~(n \in 1..pos) BY <1>5, <3>1
    <3> QED BY <1>1, <1>3, <3>2
  <2>2. pos + 1 \in 1..Items(at) /\ pos # Items(at) BY <1>1, <1>3, <2>1
  <2>3. run[pos + 1] \in Int /\ run[pos + 1] >= query
    <3>1. pos + 1 \in 1..Len(run) /\ pos + 1 \in (pos + 1)..Len(run) BY <1>1, <1>3, <2>2
    <3>2. run[pos + 1] \in Int BY <1>1, <3>1
    <3> QED BY <3>1, <3>2 DEF IsLowerBound
  <2>4. n = pos + 1
    <3>1. ASSUME pos + 1 < n PROVE FALSE
      <4>1. run[pos + 1] < run[n] BY <1>2, <2>2, <3>1
      <4> QED BY <1>5, <2>3, <4>1
    <3> QED BY <1>1, <1>3, <2>1, <3>1
  <2> QED BY <1>5, <2>2, <2>4 DEF Found, KeyAt
<1> QED BY <1>4, <1>5 DEF Holds

LEMMA SameHolds ==
  ASSUME UNCHANGED levels, NEW level, NEW q
  PROVE  Holds(level, q)' <=> Holds(level, q)
BY DEF Holds, Items

\* A step of the search keeps the levels and goes on with the scan or answers.
LEMMA ScanMisses ==
  ASSUME AnswerInv, UNCHANGED <<build, query, at>>,
         phase \in {"scanning", "probing", "touching", "outcome"}
  PROVE  Missed'
<1>1. levels' = levels BY DEF build
<1>2. \A level \in DOMAIN levels : level < at => ~Holds(level, query) BY DEF AnswerInv, Missed
<1> QED BY <1>1, <1>2, SameHolds DEF Missed

LEMMA NextMisses ==
  ASSUME AnswerInv, UNCHANGED <<build, query>>, at' = at + 1,
         phase \in {"scanning", "outcome"}, at \in DOMAIN levels => ~Holds(at, query)
  PROVE  Missed'
<1>1. levels' = levels BY DEF build
<1>2. \A level \in DOMAIN levels : level < at => ~Holds(level, query) BY DEF AnswerInv, Missed
<1>3. \A level \in DOMAIN levels : level \in Int
  BY DEF AnswerInv, SearchInv, RefInv, Built, GoodLevel
<1>4. \A level \in DOMAIN levels : level < at + 1 => level < at \/ level = at
  BY <1>3 DEF AnswerInv
<1> QED BY <1>1, <1>2, <1>4, SameHolds DEF Missed

\* The answer read off the first level that has the key.
LEMMA NewestIsLeast ==
  ASSUME AnswerInv, phase \in {"scanning", "outcome"}, at \in DOMAIN levels, Holds(at, query)
  PROVE  /\ {level \in DOMAIN levels : Holds(level, query)} # {}
         /\ Min({level \in DOMAIN levels : Holds(level, query)}) = at
<1> DEFINE holding == {level \in DOMAIN levels : Holds(level, query)}
<1>1. holding \in SUBSET Int /\ at \in holding /\ at \in Int
  BY DEF AnswerInv, SearchInv, RefInv, Built, GoodLevel
<1>2. \A level \in holding : at <= level
  <2>1. \A level \in holding : ~(level < at) BY DEF AnswerInv, Missed
  <2> QED BY <1>1, <2>1
<1> HIDE DEF holding
<1>3. Min(holding) \in holding /\ \A level \in holding : Min(holding) <= level
  BY <1>1, <1>2, MinIsLeast
<1>4. Min(holding) \in Int /\ Min(holding) <= at /\ at <= Min(holding) BY <1>1, <1>2, <1>3
<1>5. Min(holding) = at BY <1>1, <1>4
<1> QED BY <1>1, <1>5 DEF holding

\* AnswerIsNewest, with the test for a key named.
AnswerFits ==
  phase = "idle" /\ asked > 0 =>
    LET holding == {level \in DOMAIN levels : Holds(level, query)}
    IN  answer = IF holding = {} THEN NoAnswer ELSE [found |-> TRUE, level |-> Min(holding)]

LEMMA AnswerRule == AnswerIsNewest <=> AnswerFits
BY DEF AnswerIsNewest, AnswerFits, Holds

\* No answer is given only where no level has the key.
LEMMA MissAnswers ==
  ASSUME AnswerInv, Miss
  PROVE  AnswerIsNewest'
<1>1. /\ phase = "scanning" /\ at >= UsedLevels /\ answer' = NoAnswer
      /\ UNCHANGED <<build, query>>
  BY DEF Miss, Answered
<1>2. ASSUME NEW level \in DOMAIN levels PROVE ~Holds(level, query)
  <2>1. CASE Items(level) > 0
    <3>1. UsedLevels \in Int /\ level < UsedLevels
      BY <2>1, UsedCovers DEF AnswerInv, SearchInv, RefInv
    <3>2. level \in Int BY DEF AnswerInv, SearchInv, RefInv, Built, GoodLevel
    <3>3. level < at BY <1>1, <3>1, <3>2 DEF AnswerInv
    <3> QED BY <1>1, <3>3 DEF AnswerInv, Missed
  <2>2. CASE ~(Items(level) > 0)
    BY <2>2, EmptyHoldsNothing DEF AnswerInv, SearchInv, RefInv
  <2> QED BY <2>1, <2>2
<1>3. levels' = levels /\ query' = query BY <1>1 DEF build
<1>4. {level \in DOMAIN levels' : Holds(level, query)'} = {}
  BY <1>2, <1>3, SameHolds
<1>5. AnswerFits' BY <1>1, <1>4 DEF AnswerFits
<1>6. AnswerIsNewest' <=> AnswerFits' BY AnswerRule, PTL
<1> QED BY <1>5, <1>6

\* A level that has the key answers for all.
LEMMA OutcomeAnswers ==
  ASSUME AnswerInv, Outcome
  PROVE  Missed' /\ AnswerIsNewest' /\ at' \in Int
<1>1. phase = "outcome" /\ UNCHANGED <<build, query, asked>> BY DEF Outcome
<1>2. /\ Built /\ at \in DOMAIN levels /\ pos \in Nat /\ query \in Int
      /\ IsLowerBound(levels[at].keys, query, pos)
  <2>1. Built BY DEF AnswerInv, SearchInv, RefInv
  <2>2. at \in DOMAIN levels /\ pos \in 0..Items(at)
    BY <1>1 DEF AnswerInv, SearchInv, RefInv, Ranges, Active
  <2>3. pos \in Nat BY <2>2
  <2> QED BY <1>1, <2>1, <2>2, <2>3 DEF AnswerInv, SearchInv, Landed, Built
<1>3. Found <=> Holds(at, query) BY <1>2, LandedDecides
<1>4. levels' = levels /\ query' = query BY <1>1 DEF build
<1>5. CASE Found
  <2>1. phase' = "idle" /\ answer' = [found |-> TRUE, level |-> at] /\ at' = at
    BY <1>5 DEF Outcome, Answered
  <2>2. /\ {level \in DOMAIN levels : Holds(level, query)} # {}
        /\ Min({level \in DOMAIN levels : Holds(level, query)}) = at
    BY <1>1, <1>2, <1>3, <1>5, NewestIsLeast
  <2>3. {level \in DOMAIN levels' : Holds(level, query)'} = {level \in DOMAIN levels : Holds(level, query)}
    BY <1>4, SameHolds
  <2>4. AnswerFits' BY <2>1, <2>2, <2>3 DEF AnswerFits
  <2>5. AnswerIsNewest' <=> AnswerFits' BY AnswerRule, PTL
  <2>6. AnswerIsNewest' BY <2>4, <2>5
  <2>7. Missed' BY <2>1 DEF Missed
  <2> QED BY <2>1, <2>6, <2>7 DEF AnswerInv
<1>6. CASE ~Found
  <2>1. phase' = "scanning" /\ at' = at + 1 BY <1>6 DEF Outcome, NextLevel
  <2>2. Missed' BY <1>1, <1>3, <1>6, <2>1, NextMisses
  <2>3. AnswerIsNewest' BY <2>1 DEF AnswerIsNewest
  <2> QED BY <2>1, <2>2, <2>3 DEF AnswerInv
<1> QED BY <1>5, <1>6

LEMMA AnswerInvInit == RefInit => AnswerInv
<1> SUFFICES ASSUME RefInit PROVE AnswerInv OBVIOUS
<1>1. phase = "building" /\ asked = 0 /\ at = MinLevel BY DEF RefInit
<1> QED BY <1>1, SearchInvInit, ProfileAssumption
        DEF AnswerInv, Missed, Unasked, AnswerIsNewest

\* A step of building, or of the search inside a level.
LEMMA NoAnswerStep ==
  ASSUME AnswerInv, SearchInv', Missed', Unasked', at' \in Int, asked' \in Nat,
         phase' # "idle" \/ asked' = 0
  PROVE  AnswerInv'
BY DEF AnswerInv, AnswerIsNewest

LEMMA AnswerInvNext ==
  AnswerInv /\ WindowHoldsLowerBound /\ [RefNext]_vars => AnswerInv'
<1> SUFFICES ASSUME AnswerInv, WindowHoldsLowerBound, [RefNext]_vars PROVE AnswerInv' OBVIOUS
<1>0. SearchInv' BY SearchInvNext DEF AnswerInv
<1>1. ASSUME NEW level \in Declared, Declare(level) PROVE AnswerInv'
  <2>1. phase = "building" /\ phase' \in {"building", "refused"} /\ UNCHANGED <<at, asked>>
    BY <1>1 DEF Declare
  <2> QED BY <1>0, <2>1, NoAnswerStep DEF AnswerInv, Missed, Unasked
<1>2. CASE Feed
  <2>1. phase = "building" /\ phase' = "building" /\ UNCHANGED <<at, asked>>
    BY <1>2 DEF Feed, refVars
  <2> QED BY <1>0, <2>1, NoAnswerStep DEF AnswerInv, Missed, Unasked
<1>3. CASE Finish
  <2>1. phase = "building" /\ phase' = "building" /\ UNCHANGED <<at, asked>> BY <1>3 DEF Finish
  <2> QED BY <1>0, <2>1, NoAnswerStep DEF AnswerInv, Missed, Unasked
<1>4. CASE EndBuild
  <2>1. phase = "building" /\ phase' = "loading" /\ UNCHANGED <<at, asked>> BY <1>4 DEF EndBuild
  <2> QED BY <1>0, <2>1, NoAnswerStep DEF AnswerInv, Missed, Unasked
<1>5. CASE Load
  <2>1. /\ phase = "loading" /\ phase' \in {"loading", "idle"} /\ at' \in {at, at + 1}
        /\ UNCHANGED asked
    BY <1>5 DEF Load
  <2>2. at' \in Int /\ asked = 0 BY <2>1 DEF AnswerInv, Unasked
  <2> QED BY <1>0, <2>1, <2>2, NoAnswerStep DEF AnswerInv, Missed, Unasked
<1>6. ASSUME NEW q \in QueryKeys, Ask(q) PROVE AnswerInv'
  <2>1. /\ phase' = "scanning" /\ asked' = asked + 1 /\ at' = MinLevel /\ UNCHANGED build
    BY <1>6 DEF Ask
  <2>2. ASSUME NEW level \in DOMAIN levels, level < MinLevel PROVE FALSE
    <3>1. level \in Nat /\ level >= MinLevel
      BY DEF AnswerInv, SearchInv, RefInv, Built, GoodLevel
    <3> QED BY <2>2, <3>1, ProfileAssumption
  <2>3. levels' = levels BY <2>1 DEF build
  <2>4. Missed' BY <2>1, <2>2, <2>3 DEF Missed
  <2>5. at' \in Int /\ asked' \in Nat BY <2>1, ProfileAssumption DEF AnswerInv
  <2>6. Unasked' BY <2>1 DEF Unasked
  <2>7. phase' # "idle" BY <2>1
  <2> QED BY <1>0, <2>4, <2>5, <2>6, <2>7, NoAnswerStep
<1>7. CASE Skip
  <2>1. /\ phase = "scanning" /\ phase' = "scanning" /\ at' = at + 1 /\ ~Stocked(at)
        /\ UNCHANGED <<build, query, asked>>
    BY <1>7 DEF Skip, NextLevel
  <2>2. at \in DOMAIN levels => ~Holds(at, query)
    BY <2>1, EmptyHoldsNothing DEF Stocked, AnswerInv, SearchInv, RefInv
  <2>3. Missed' BY <2>1, <2>2, NextMisses
  <2>4. at' \in Int /\ asked' \in Nat BY <2>1 DEF AnswerInv
  <2>5. Unasked' /\ phase' # "idle" BY <2>1 DEF Unasked
  <2> QED BY <1>0, <2>3, <2>4, <2>5, NoAnswerStep
<1>8. CASE Miss
  <2>1. phase' = "idle" /\ UNCHANGED <<at, asked>> BY <1>8 DEF Miss, Answered
  <2>2. AnswerIsNewest' BY <1>8, MissAnswers
  <2> QED BY <1>0, <2>1, <2>2 DEF AnswerInv, Missed, Unasked
<1>9. CASE Enter \/ ProbeMiddle \/ Compare \/ Touch
  <2>1. /\ phase \in {"scanning", "probing", "touching"}
        /\ phase' \in {"probing", "touching", "outcome"}
        /\ UNCHANGED <<build, query, at, asked>>
    BY <1>9 DEF Enter, ProbeMiddle, Compare, Touch
  <2>2. Missed' BY <2>1, ScanMisses
  <2>3. at' \in Int /\ asked' \in Nat BY <2>1 DEF AnswerInv
  <2>4. Unasked' /\ phase' # "idle" BY <2>1 DEF Unasked
  <2> QED BY <1>0, <2>2, <2>3, <2>4, NoAnswerStep
<1>10. CASE Outcome
  <2>1. phase' \in {"idle", "scanning"} /\ UNCHANGED asked BY <1>10 DEF Outcome, Answered
  <2> QED BY <1>0, <1>10, <2>1, OutcomeAnswers DEF AnswerInv, Unasked
<1>11. CASE UNCHANGED vars
  <2>1. UNCHANGED <<build, query, at, asked, phase, answer>> BY <1>11 DEF vars, refVars
  <2>2. levels' = levels BY <2>1 DEF build
  <2>3. Missed' /\ Unasked' BY <2>1, <2>2, SameHolds DEF AnswerInv, Missed, Unasked
  <2>4. AnswerIsNewest' BY <2>1, <2>2 DEF AnswerInv, AnswerIsNewest, Items
  <2> QED BY <1>0, <2>1, <2>3, <2>4 DEF AnswerInv
<1> QED
  BY <1>1, <1>2, <1>3, <1>4, <1>5, <1>6, <1>7, <1>8, <1>9, <1>10, <1>11
  DEF RefNext, Build, Lookup

\* letindex_ref.py: a query is answered from the newest level that has the key,
\* and with nothing only if no level has it.
THEOREM AnswerIsNewestHolds == RefSpec => []AnswerIsNewest
<1>1. AnswerInv => AnswerIsNewest BY DEF AnswerInv
<1> QED BY AnswerInvInit, AnswerInvNext, IndexesAreCertified, <1>1, PTL DEF RefSpec

-----------------------------------------------------------------------------
(* The regions of the levels. *)

\* The blocks of every level, and those of the scanned levels below a limit.
Sizes == [level \in DOMAIN levels |-> Blocks(level)]
Below(limit) == {other \in Scanned : other < limit}
Start(limit) == SumOver(Sizes, Below(limit))

LEMMA LevelsFinite ==
  ASSUME Built
  PROVE  /\ IsFiniteSet(DOMAIN levels) /\ \A level \in DOMAIN levels : level \in Nat
         /\ \A S \in SUBSET (DOMAIN levels) : IsFiniteSet(S)
<1>1. PICK bound \in Nat : \A level \in DOMAIN levels : level <= bound BY DEF Built
<1>2. \A level \in DOMAIN levels : level \in Nat BY DEF Built, GoodLevel
<1>3. IsFiniteSet(DOMAIN levels) BY <1>1, <1>2, FS_BoundedSetOfNaturals
<1> QED BY <1>2, <1>3, FS_Subset

\* A level has a block if it has an item, and none if it has none.
LEMMA SizesType ==
  ASSUME Built, NEW level \in DOMAIN levels
  PROVE  /\ Sizes[level] = Blocks(level) /\ Sizes[level] \in Nat
         /\ IF Items(level) > 0 THEN Sizes[level] > 0 ELSE Sizes[level] = 0
<1> DEFINE n == Items(level)
           b == ItemsPerBlock
<1>1. n \in Nat /\ b \in Nat \ {0} BY CountType, ProfileAssumption
<1>2. Sizes[level] = (n + b - 1) \div b BY DEF Sizes, Blocks, BlockCount
<1>3. Sizes[level] = Blocks(level) /\ Blocks(level) \in Nat BY CountType DEF Sizes
<1> HIDE DEF n, b
<1>4. n > 0 => (n + b - 1) \div b > 0
  <2> SUFFICES ASSUME n > 0 PROVE (n + b - 1) \div b > 0 OBVIOUS
  <2> DEFINE a == n + b - 1
  <2>1. a \in Nat /\ a >= b BY <1>1
  <2> HIDE DEF a
  <2>2. a \div b > 0 BY <1>1, <2>1
  <2> QED BY <2>2 DEF a
<1>5. ~(n > 0) => (n + b - 1) \div b = 0 BY <1>1
<1> QED BY <1>2, <1>3, <1>4, <1>5 DEF n

\* used_levels is above every level that has items, and no less than MinLevel.
LEMMA UsedType ==
  ASSUME Built
  PROVE  UsedLevels \in Int /\ MinLevel <= UsedLevels
<1>1. MinLevel \in Nat BY ProfileAssumption
<1>2. CASE NonEmpty = {} BY <1>1, <1>2 DEF UsedLevels
<1>3. CASE NonEmpty # {}
  <2>1. PICK level \in DOMAIN levels : Items(level) > 0 BY <1>3 DEF NonEmpty
  <2>2. UsedLevels \in Int /\ level < UsedLevels BY <2>1, UsedCovers
  <2>3. level \in Nat /\ level >= MinLevel BY DEF Built, GoodLevel
  <2> QED BY <1>1, <2>2, <2>3
<1> QED BY <1>2, <1>3

\* The sum that RegionStart takes is one over the function Sizes: the recursion
\* behind either is the same.
LEMMA BlocksSum ==
  ASSUME Built, NEW S \in SUBSET (DOMAIN levels)
  PROVE  MapThenSumSet(Blocks, S) = SumOver(Sizes, S)
<1> DEFINE G(g) == g = [s \in SUBSET S |->
                          IF s = {} THEN 0 ELSE Blocks(Chosen(s)) + g[s \ {Chosen(s)}]]
           I == CHOOSE g : G(g)
<1>1. MapThenSumSet(Blocks, S) = I[S] BY DEF MapThenSumSet, MapThenFoldSet, Chosen
<1>2. ASSUME NEW g PROVE G(g) <=> SumRec(Sizes, S, g)
  <2>1. ASSUME NEW s \in SUBSET S, s # {} PROVE Blocks(Chosen(s)) = Sizes[Chosen(s)]
    <3>1. Chosen(s) \in DOMAIN levels BY <2>1 DEF Chosen
    <3> HIDE DEF Blocks
    <3> QED BY <3>1 DEF Sizes
  <2> HIDE DEF Blocks, Chosen
  <2>2. [s \in SUBSET S |-> IF s = {} THEN 0 ELSE Blocks(Chosen(s)) + g[s \ {Chosen(s)}]]
        = [s \in SUBSET S |-> IF s = {} THEN 0 ELSE Sizes[Chosen(s)] + g[s \ {Chosen(s)}]]
    BY <2>1
  <2> QED BY <2>2 DEF SumRec
<1>3. IsFiniteSet(S) BY LevelsFinite
<1>4. SumRec(Sizes, S, I)
  <2>1. \E g : G(g) BY <1>2, <1>3, SumRecExists
  <2> HIDE DEF G
  <2>2. G(I) BY <2>1, Zenon
  <2> HIDE DEF I
  <2> QED BY <1>2, <2>2
<1> HIDE DEF I
<1> QED BY <1>1, <1>3, <1>4, SumRecIs

LEMMA BelowPart ==
  ASSUME Built, NEW limit
  PROVE  /\ Below(limit) \in SUBSET (DOMAIN levels) /\ IsFiniteSet(Below(limit))
         /\ \A level \in Below(limit) : Sizes[level] \in Nat
<1>1. Below(limit) \in SUBSET (DOMAIN levels) BY DEF Below, Scanned
<1>2. IsFiniteSet(Below(limit)) BY <1>1, LevelsFinite
<1>3. \A level \in DOMAIN levels : Sizes[level] \in Nat BY SizesType
<1> QED BY <1>1, <1>2, <1>3

LEMMA StartType ==
  ASSUME Built, NEW limit
  PROVE  Start(limit) \in Nat
BY BelowPart, SumNat DEF Start

\* The code's region starts are these sums, and the whole is the last of them.
LEMMA RegionIsStart ==
  ASSUME Built
  PROVE  /\ \A level : RegionStart(level) = Start(level)
         /\ MapThenSumSet(Blocks, Scanned) = Start(UsedLevels)
<1>1. ASSUME NEW level PROVE RegionStart(level) = Start(level)
  <2>1. Below(level) \in SUBSET (DOMAIN levels) BY BelowPart
  <2>2. MapThenSumSet(Blocks, Below(level)) = SumOver(Sizes, Below(level)) BY <2>1, BlocksSum
  <2> QED BY <2>2 DEF RegionStart, Below, Start
<1>2. Below(UsedLevels) = Scanned BY DEF Below, Scanned
<1>3. Scanned \in SUBSET (DOMAIN levels) BY DEF Scanned
<1>4. MapThenSumSet(Blocks, Scanned) = SumOver(Sizes, Scanned) BY <1>3, BlocksSum
<1> QED BY <1>1, <1>2, <1>4 DEF Start

\* A region begins where the one of the next lower level ends.
LEMMA StartNext ==
  ASSUME Built, NEW level \in Int
  PROVE  Start(level + 1) = Start(level) + (IF level \in Scanned THEN Sizes[level] ELSE 0)
<1>1. \A other \in DOMAIN levels : other \in Int BY LevelsFinite
<1>2. CASE level \in Scanned
  <2>1. Below(level + 1) = Below(level) \cup {level} /\ level \notin Below(level)
    BY <1>1, <1>2 DEF Below, Scanned
  <2>2. IsFiniteSet(Below(level)) /\ \A x \in Below(level) \cup {level} : Sizes[x] \in Int
    <3>1. level \in DOMAIN levels BY <1>2 DEF Scanned
    <3>2. Sizes[level] \in Nat BY <3>1, SizesType
    <3> QED BY <3>2, BelowPart
  <2>3. SumOver(Sizes, Below(level) \cup {level}) = Sizes[level] + SumOver(Sizes, Below(level))
    BY <2>1, <2>2, SumAdd
  <2>4. Sizes[level] \in Int /\ Start(level) \in Nat BY <2>2, StartType
  <2>5. Start(level + 1) = Sizes[level] + Start(level) BY <2>1, <2>3 DEF Start
  <2> QED BY <1>2, <2>4, <2>5
<1>3. CASE level \notin Scanned
  <2>1. Below(level + 1) = Below(level) BY <1>1, <1>3 DEF Below, Scanned
  <2>2. Start(level) \in Nat BY StartType
  <2> QED BY <1>3, <2>1, <2>2 DEF Start
<1> QED BY <1>2, <1>3

\* The region of a scanned level ends inside the whole.
LEMMA RegionInside ==
  ASSUME Built, NEW level \in Scanned
  PROVE  Start(level) + Sizes[level] <= Start(UsedLevels)
<1> DEFINE rest == {other \in Scanned : other > level}
<1>1. level \in DOMAIN levels /\ level \in Int /\ UsedLevels \in Int
  BY LevelsFinite, UsedType DEF Scanned
<1>2. Start(level) + Sizes[level] = Start(level + 1) BY <1>1, StartNext
<1>3. Below(UsedLevels) = Below(level + 1) \cup rest /\ Below(level + 1) \cap rest = {}
  <2>1. \A other \in Scanned : other \in Int /\ other < UsedLevels BY LevelsFinite DEF Scanned
  <2>2. \A other \in Scanned : (other < level + 1) # (other > level) BY <1>1, <2>1
  <2> QED BY <2>1, <2>2 DEF Below
<1>4. IsFiniteSet(rest) /\ \A x \in rest : Sizes[x] \in Nat
  <2>1. rest \in SUBSET (DOMAIN levels) BY DEF Scanned
  <2> HIDE DEF rest
  <2> QED BY <2>1, LevelsFinite, SizesType
<1> HIDE DEF rest
<1>5. SumOver(Sizes, rest) \in Nat BY <1>4, SumNat
<1>6. Start(UsedLevels) = Start(level + 1) + SumOver(Sizes, rest)
  <2>1. \A x \in Below(level + 1) \cup rest : Sizes[x] \in Int BY <1>4, BelowPart
  <2>2. IsFiniteSet(Below(level + 1)) BY BelowPart
  <2> QED BY <1>3, <1>4, <2>1, <2>2, SumJoin DEF Start
<1>7. Start(level + 1) \in Nat BY StartType
<1> QED BY <1>2, <1>5, <1>6, <1>7

-----------------------------------------------------------------------------
(* The slots that are written and read. *)

OperationType == [class : {"BUILD_INITIAL", "BUILD_PGM", "QUERY"}, slots : Seq(Int)]

SlotCounts == [n \in Writes |-> SlotCount(n)]
AllSlots == UNION {SlotsOf(n) : n \in Writes}

\* The slots below the limit have been written, each of them once.
Written(limit) ==
  /\ AllSlots = 0..(limit - 1)
  /\ IsFiniteSet(Writes) /\ SumOver(SlotCounts, Writes) = limit

\* The loading has written the regions of the levels below the one at hand, and
\* in the end all of them; the queries read inside the whole.
Loaded ==
  /\ operations \in Seq(OperationType) /\ events \in Seq(Int)
  /\ phase = "building" => operations = <<>> /\ at = MinLevel
  /\ phase = "loading" =>
       at \in Int /\ MinLevel <= at /\ at <= UsedLevels /\ Written(Start(at))
  /\ phase \in {"building", "refused", "loading"} => events = <<>>
  /\ phase \notin {"building", "refused", "loading"} =>
       /\ Written(Start(UsedLevels))
       /\ \A n \in 1..Len(events) : events[n] \in 0..(Start(UsedLevels) - 1)

\* New operations come behind the old ones, which stay as they are.
LEMMA OperationsGrow ==
  ASSUME operations \in Seq(OperationType), NEW more \in Seq(OperationType),
         operations' = operations \o more
  PROVE  /\ operations' \in Seq(OperationType) /\ Len(operations) \in Nat /\ Len(more) \in Nat
         /\ Len(operations') = Len(operations) + Len(more)
         /\ \A n \in 1..Len(operations) : operations'[n] = operations[n]
         /\ \A m \in 1..Len(more) : operations'[Len(operations) + m] = more[m]
<1>1. /\ operations' \in Seq(OperationType) /\ Len(operations') = Len(operations) + Len(more)
      /\ Len(operations) \in Nat /\ Len(more) \in Nat
      /\ \A n \in 1..(Len(operations) + Len(more)) :
           operations'[n] = IF n <= Len(operations) THEN operations[n]
                            ELSE more[n - Len(operations)]
  <2> HIDE DEF OperationType
  <2> QED BY ConcatProperties
<1>2. ASSUME NEW n \in 1..Len(operations) PROVE operations'[n] = operations[n]
  BY <1>1
<1>3. ASSUME NEW m \in 1..Len(more) PROVE operations'[Len(operations) + m] = more[m]
  <2> DEFINE n == Len(operations) + m
  <2>1. n \in 1..(Len(operations) + Len(more)) /\ ~(n <= Len(operations))
        /\ n - Len(operations) = m
    BY <1>1
  <2> QED BY <1>1, <2>1
<1> QED BY <1>1, <1>2, <1>3

\* The old writes among the grown operations, with what they wrote.
LEMMA WritesStay ==
  ASSUME operations \in Seq(OperationType), NEW more \in Seq(OperationType),
         operations' = operations \o more
  PROVE  /\ \A n \in 1..Len(operations) : n \in Writes' <=> n \in Writes
         /\ \A n \in Writes : SlotCount(n)' = SlotCount(n) /\ SlotsOf(n)' = SlotsOf(n)
<1>1. /\ Len(operations') = Len(operations) + Len(more)
      /\ Len(operations) \in Nat /\ Len(more) \in Nat
      /\ \A n \in 1..Len(operations) : operations'[n] = operations[n]
  BY OperationsGrow
<1>2. ASSUME NEW n \in 1..Len(operations) PROVE n \in Writes' <=> n \in Writes
  <2>1. n \in 1..Len(operations') /\ operations'[n] = operations[n] BY <1>1
  <2> QED BY <2>1 DEF Writes
<1>3. ASSUME NEW n \in Writes PROVE SlotCount(n)' = SlotCount(n) /\ SlotsOf(n)' = SlotsOf(n)
  <2>1. operations'[n] = operations[n] BY <1>1 DEF Writes
  <2> QED BY <2>1 DEF SlotsOf, SlotCount
<1> QED BY <1>2, <1>3

\* What is no write changes nothing of the writes.
LEMMA WritesKept ==
  ASSUME operations \in Seq(OperationType), NEW more \in Seq(OperationType),
         operations' = operations \o more,
         \A m \in 1..Len(more) : more[m].class # "BUILD_INITIAL"
  PROVE  UNCHANGED <<Writes, SlotCounts, AllSlots>>
<1>1. /\ Len(operations') = Len(operations) + Len(more)
      /\ Len(operations) \in Nat /\ Len(more) \in Nat
      /\ \A m \in 1..Len(more) : operations'[Len(operations) + m] = more[m]
  BY OperationsGrow
<1>2. /\ \A n \in 1..Len(operations) : n \in Writes' <=> n \in Writes
      /\ \A n \in Writes : SlotCount(n)' = SlotCount(n) /\ SlotsOf(n)' = SlotsOf(n)
  BY WritesStay
<1>3. ASSUME NEW n \in Writes' PROVE n \in 1..Len(operations)
  <2> SUFFICES ASSUME n \notin 1..Len(operations) PROVE FALSE OBVIOUS
  <2>1. n \in 1..Len(operations') /\ operations'[n].class = "BUILD_INITIAL" BY <1>3 DEF Writes
  <2>2. n - Len(operations) \in 1..Len(more) /\ Len(operations) + (n - Len(operations)) = n
    BY <1>1, <2>1
  <2>3. operations'[n] = more[n - Len(operations)] BY <1>1, <2>2
  <2> QED BY <2>1, <2>2, <2>3
<1>4. \A n \in Writes : n \in 1..Len(operations) BY DEF Writes
<1>5. Writes' = Writes BY <1>2, <1>3, <1>4
<1>6. SlotCounts' = SlotCounts BY <1>2, <1>5 DEF SlotCounts
<1>7. AllSlots' = AllSlots BY <1>2, <1>5 DEF AllSlots
<1> QED BY <1>5, <1>6, <1>7

LEMMA SameOperations ==
  ASSUME UNCHANGED operations
  PROVE  UNCHANGED <<Writes, SlotCounts, AllSlots>>
<1>1. Writes' = Writes BY DEF Writes
<1>2. \A n : SlotCount(n)' = SlotCount(n) /\ SlotsOf(n)' = SlotsOf(n) BY DEF SlotsOf, SlotCount
<1>3. SlotCounts' = SlotCounts BY <1>1, <1>2 DEF SlotCounts
<1>4. AllSlots' = AllSlots BY <1>1, <1>2 DEF AllSlots
<1> QED BY <1>1, <1>3, <1>4

LEMMA SameWritten ==
  ASSUME UNCHANGED <<Writes, SlotCounts, AllSlots>>, NEW limit, Written(limit)
  PROVE  Written(limit)'
BY DEF Written

\* The starts and used_levels depend on the levels alone.
LEMMA SameStarts ==
  ASSUME UNCHANGED levels
  PROVE  UsedLevels' = UsedLevels /\ \A limit : Start(limit)' = Start(limit)
<1>1. \A level : Items(level)' = Items(level) /\ Blocks(level)' = Blocks(level)
  BY DEF Items, Blocks
<1>2. UsedLevels' = UsedLevels BY <1>1 DEF UsedLevels, NonEmpty
<1>3. Sizes' = Sizes BY <1>1 DEF Sizes
<1>4. \A limit : Below(limit)' = Below(limit) BY <1>2 DEF Below, Scanned
<1> QED BY <1>2, <1>3, <1>4 DEF Start

\* A query's operation is no write.
LEMMA QueryRecorded ==
  ASSUME Loaded, operations' = Append(operations, Operation("QUERY", events))
  PROVE  operations' \in Seq(OperationType) /\ UNCHANGED <<Writes, SlotCounts, AllSlots>>
<1> DEFINE op == Operation("QUERY", events)
           more == <<op>>
<1>1. operations \in Seq(OperationType) /\ op \in OperationType /\ op.class = "QUERY"
  BY DEF Loaded, OperationType, Operation
<1> HIDE DEF op, OperationType
<1>2. operations' = operations \o more BY <1>1, AppendIsConcat DEF op
<1>3. more \in Seq(OperationType) /\ Len(more) = 1 /\ more[1] = op BY <1>1
<1>4. \A m \in 1..Len(more) : more[m].class # "BUILD_INITIAL" BY <1>1, <1>3
<1> HIDE DEF more
<1>5. operations' \in Seq(OperationType) BY <1>1, <1>2, <1>3, OperationsGrow
<1>6. UNCHANGED <<Writes, SlotCounts, AllSlots>> BY <1>1, <1>2, <1>3, <1>4, WritesKept
<1> QED BY <1>5, <1>6

\* The first of the operations is a write of size slots from start on, and the
\* only write.
OneWrite(more, start, size) ==
  /\ more \in Seq(OperationType) /\ Len(more) \in Nat \ {0}
  /\ more[1].class = "BUILD_INITIAL"
  /\ \A m \in 2..Len(more) : more[m].class # "BUILD_INITIAL"
  /\ Len(more[1].slots) = size
  /\ {more[1].slots[n] : n \in 1..size} = start..(start + size - 1)

\* What the loading adds for a level with items: one write, of its region.
LEMMA LevelWrites ==
  ASSUME Built, NEW level \in DOMAIN levels, Items(level) > 0
  PROVE  OneWrite(LoadOperations(level), Start(level), Sizes[level])
<1> DEFINE size == Sizes[level]
           start == Start(level)
           op == Operation("BUILD_INITIAL", [b \in 1..Blocks(level) |-> Slot(level, b - 1)])
           pgm == Operation("BUILD_PGM", <<>>)
<1>1. size \in Nat /\ size = Blocks(level) /\ start \in Nat /\ RegionStart(level) = start
  BY SizesType, StartType, RegionIsStart
<1>2. op = Operation("BUILD_INITIAL", [b \in 1..size |-> start + (b - 1)]) BY <1>1 DEF Slot
<1> HIDE DEF op, size, start
<1>3. op \in OperationType /\ op.class = "BUILD_INITIAL" /\ Len(op.slots) = size
      /\ \A b \in 1..size : op.slots[b] = start + (b - 1)
  <2> DEFINE slots == [b \in 1..size |-> start + (b - 1)]
  <2>1. slots \in Seq(Int) /\ Len(slots) = size BY <1>1
  <2>2. \A b \in 1..size : slots[b] = start + (b - 1) OBVIOUS
  <2> HIDE DEF slots
  <2> QED BY <1>2, <2>1, <2>2 DEF OperationType, Operation, slots
<1>4. {op.slots[n] : n \in 1..size} = start..(start + size - 1)
  <2>2. ASSUME NEW n \in 1..size PROVE op.slots[n] \in start..(start + size - 1)
    BY <1>1, <1>3
  <2>3. ASSUME NEW x \in start..(start + size - 1) PROVE \E n \in 1..size : op.slots[n] = x
    <3>1. x - start + 1 \in 1..size /\ start + ((x - start + 1) - 1) = x BY <1>1
    <3>2. op.slots[x - start + 1] = x BY <1>3, <3>1
    <3> QED BY <3>1, <3>2
  <2> QED BY <2>2, <2>3
<1>5. pgm \in OperationType /\ pgm.class # "BUILD_INITIAL" BY DEF OperationType, Operation
<1>6. LoadOperations(level) = <<op>> \o (IF HasPgm(level) THEN <<pgm>> ELSE <<>>)
  BY DEF LoadOperations, op
<1> HIDE DEF pgm, OperationType
<1>7. CASE HasPgm(level)
  <2> DEFINE one == <<op>>
             two == <<pgm>>
             more == one \o two
  <2>1. LoadOperations(level) = more BY <1>6, <1>7
  <2>2. more \in Seq(OperationType) /\ Len(more) = 2 /\ more[1] = op /\ more[2] = pgm
    <3>1. /\ one \in Seq(OperationType) /\ Len(one) = 1 /\ one[1] = op
          /\ two \in Seq(OperationType) /\ Len(two) = 1 /\ two[1] = pgm
      BY <1>3, <1>5
    <3> HIDE DEF one, two
    <3> QED BY <3>1, ConcatProperties, SMTT(30)
  <2> HIDE DEF more
  <2>3. \A m \in 2..Len(more) : more[m].class # "BUILD_INITIAL" BY <1>5, <2>2
  <2>4. OneWrite(more, start, size) BY <1>3, <1>4, <2>2, <2>3 DEF OneWrite
  <2> QED BY <2>1, <2>4 DEF size, start
<1>8. CASE ~HasPgm(level)
  <2> DEFINE more == <<op>>
  <2>1. LoadOperations(level) = more BY <1>6, <1>8
  <2>2. more \in Seq(OperationType) /\ Len(more) = 1 /\ more[1] = op BY <1>3
  <2> HIDE DEF more
  <2>3. \A m \in 2..Len(more) : more[m].class # "BUILD_INITIAL" BY <2>2
  <2>4. OneWrite(more, start, size) BY <1>3, <1>4, <2>2, <2>3 DEF OneWrite
  <2> QED BY <2>1, <2>4 DEF size, start
<1> QED BY <1>7, <1>8

\* A write of the slots from the limit on adds what it has.
LEMMA WriteCounts ==
  ASSUME NEW limit \in Nat, NEW size \in Nat, Written(limit),
         operations \in Seq(OperationType), NEW more, OneWrite(more, limit, size),
         operations' = operations \o more
  PROVE  /\ AllSlots' = 0..(limit + size - 1)
         /\ IsFiniteSet(Writes') /\ SumOver(SlotCounts', Writes') = limit + size
<1> PICK p : p = Len(operations) + 1 OBVIOUS
<1>1. /\ AllSlots = 0..(limit - 1)
      /\ IsFiniteSet(Writes) /\ SumOver(SlotCounts, Writes) = limit
  BY DEF Written
<1>2. /\ more \in Seq(OperationType) /\ Len(more) \in Nat \ {0}
      /\ more[1].class = "BUILD_INITIAL"
      /\ \A m \in 2..Len(more) : more[m].class # "BUILD_INITIAL"
      /\ Len(more[1].slots) = size
      /\ {more[1].slots[n] : n \in 1..size} = limit..(limit + size - 1)
  BY DEF OneWrite
<1>3. /\ Len(operations') = Len(operations) + Len(more) /\ Len(operations) \in Nat
      /\ \A m \in 1..Len(more) : operations'[Len(operations) + m] = more[m]
  BY <1>2, OperationsGrow
<1>4. /\ \A n \in 1..Len(operations) : n \in Writes' <=> n \in Writes
      /\ \A n \in Writes : SlotCount(n)' = SlotCount(n) /\ SlotsOf(n)' = SlotsOf(n)
  BY <1>2, WritesStay
<1>5. p \notin Writes /\ \A n \in Writes : n \in 1..Len(operations) BY <1>3 DEF Writes
<1>6. operations'[p] = more[1] /\ p \in 1..Len(operations') BY <1>2, <1>3
<1>7. ASSUME NEW n \in Writes', n \notin 1..Len(operations) PROVE n = p
  <2> SUFFICES ASSUME n # p PROVE FALSE OBVIOUS
  <2>1. n \in 1..Len(operations') /\ operations'[n].class = "BUILD_INITIAL" BY <1>7 DEF Writes
  <2>2. n - Len(operations) \in 2..Len(more) /\ n - Len(operations) \in 1..Len(more)
        /\ Len(operations) + (n - Len(operations)) = n
    BY <1>2, <1>3, <1>7, <2>1
  <2>3. operations'[n] = more[n - Len(operations)] BY <1>3, <2>2
  <2> QED BY <1>2, <2>1, <2>2, <2>3
<1>8. p \in Writes' BY <1>2, <1>6 DEF Writes
<1>9. Writes' = Writes \cup {p} BY <1>4, <1>5, <1>7, <1>8
<1>10. /\ SlotCount(p)' = size /\ SlotsOf(p)' = limit..(limit + size - 1)
  <2>1. SlotCount(p)' = size
    <3>1. Len(operations'[p].slots) = size BY <1>2, <1>6
    <3> QED BY <3>1 DEF SlotCount
  <2> QED BY <1>2, <1>6, <2>1 DEF SlotsOf
<1>11. AllSlots' = 0..(limit + size - 1)
  <2>1. AllSlots' = AllSlots \cup (limit..(limit + size - 1))
    BY <1>4, <1>9, <1>10 DEF AllSlots
  <2>2. 0..(limit + size - 1) = (0..(limit - 1)) \cup (limit..(limit + size - 1)) OBVIOUS
  <2> QED BY <1>1, <2>1, <2>2
<1>12. IsFiniteSet(Writes') BY <1>1, <1>9, FS_AddElement
<1>13. SlotCounts'[p] = size BY <1>8, <1>10 DEF SlotCounts
<1>14. \A n \in Writes : SlotCounts'[n] = SlotCounts[n] BY <1>4, <1>9 DEF SlotCounts
<1>15. ASSUME NEW n \in Writes PROVE SlotCounts[n] \in Nat
  <2>1. operations[n] \in OperationType BY <1>15 DEF Writes
  <2>2. Len(operations[n].slots) \in Nat BY <2>1 DEF OperationType
  <2> QED BY <2>2 DEF SlotCounts, SlotCount
<1>16. SumOver(SlotCounts', Writes) = limit BY <1>1, <1>14, SumSame
<1>17. SumOver(SlotCounts', Writes \cup {p}) = size + limit
  <2>1. \A n \in Writes \cup {p} : SlotCounts'[n] \in Int BY <1>13, <1>14, <1>15
  <2>2. SumOver(SlotCounts', Writes \cup {p}) = SlotCounts'[p] + SumOver(SlotCounts', Writes)
    BY <1>1, <1>5, <2>1, SumAdd
  <2> QED BY <1>13, <1>16, <2>2
<1>18. SumOver(SlotCounts', Writes') = limit + size BY <1>9, <1>17
<1> QED BY <1>11, <1>12, <1>18

LEMMA LoadWrites ==
  ASSUME Built, Loaded, Load
  PROVE  Loaded'
<1>1. /\ phase = "loading" /\ UNCHANGED <<levels, events>> /\ events = <<>>
      /\ at \in Int /\ MinLevel <= at /\ at <= UsedLevels /\ Written(Start(at))
      /\ UsedLevels \in Int /\ operations \in Seq(OperationType)
      /\ IF at >= UsedLevels THEN phase' = "idle" /\ UNCHANGED at
         ELSE at' = at + 1 /\ phase' = "loading"
  BY UsedType DEF Load, Loaded, build, lookup, buffers
<1>2. UsedLevels' = UsedLevels /\ \A limit : Start(limit)' = Start(limit)
  BY <1>1, SameStarts
<1>3. events' \in Seq(Int) /\ events' = <<>> BY <1>1
<1>4. \A limit : Start(limit) \in Nat BY StartType
<1>5. CASE Stocked(at)
  <2>1. at \in DOMAIN levels /\ Items(at) > 0 /\ at < UsedLevels
    BY <1>5, UsedCovers DEF Stocked
  <2>2. operations' = operations \o LoadOperations(at) BY <1>5 DEF Load
  <2>3. OneWrite(LoadOperations(at), Start(at), Sizes[at]) BY <2>1, LevelWrites
  <2>4. operations' \in Seq(OperationType)
    <3> DEFINE more == LoadOperations(at)
    <3>1. more \in Seq(OperationType) BY <2>3 DEF OneWrite
    <3> HIDE DEF more
    <3> QED BY <1>1, <2>2, <3>1, OperationsGrow DEF more
  <2>5. Sizes[at] \in Nat BY <2>1, SizesType
  <2>6. Start(at + 1) = Start(at) + Sizes[at]
    <3>1. at \in Scanned BY <2>1 DEF Scanned
    <3> QED BY <1>1, <3>1, StartNext
  <2>7. /\ AllSlots' = 0..(Start(at + 1) - 1)
        /\ IsFiniteSet(Writes') /\ SumOver(SlotCounts', Writes') = Start(at + 1)
    <3> DEFINE limit == Start(at)
               size == Sizes[at]
               more == LoadOperations(at)
    <3>1. limit \in Nat /\ size \in Nat /\ Written(limit) /\ OneWrite(more, limit, size)
          /\ operations' = operations \o more
      BY <1>1, <1>4, <2>2, <2>3, <2>5
    <3> HIDE DEF limit, size, more
    <3>2. /\ AllSlots' = 0..(limit + size - 1)
          /\ IsFiniteSet(Writes') /\ SumOver(SlotCounts', Writes') = limit + size
      BY <1>1, <3>1, WriteCounts
    <3> DEFINE end == Start(at + 1)
    <3>3. end = limit + size BY <2>6 DEF limit, size
    <3> HIDE DEF end
    <3>4. 0..(limit + size - 1) = 0..(end - 1) BY <3>1, <3>3
    <3> QED BY <3>2, <3>3, <3>4 DEF end
  <2>8. at' = at + 1 /\ phase' = "loading" BY <1>1, <2>1
  <2>9. Start(at') = Start(at + 1) BY <2>8
  <2>10. Start(at)' = Start(at + 1) BY <1>2, <2>9, <2>8 DEF Start, Below
  <2>11. Written(Start(at))' BY <2>7, <2>10 DEF Written
  <2>12. at' \in Int /\ MinLevel <= at' /\ at' <= UsedLevels'
    BY <1>1, <1>2, <2>1, <2>8, ProfileAssumption
  <2> QED BY <1>3, <2>4, <2>8, <2>11, <2>12 DEF Loaded
<1>6. CASE ~Stocked(at)
  <2>1. UNCHANGED operations BY <1>6 DEF Load
  <2>2. UNCHANGED <<Writes, SlotCounts, AllSlots>> BY <2>1, SameOperations
  <2>4. CASE at >= UsedLevels
    <3>1. at = UsedLevels /\ phase' = "idle" /\ UNCHANGED at BY <1>1, <2>4
    <3>2. Written(Start(UsedLevels))'
      <4> DEFINE limit == Start(UsedLevels)
      <4>1. Start(UsedLevels)' = limit BY <1>2 DEF Start, Below
      <4>2. Written(limit) BY <1>1, <3>1
      <4> HIDE DEF limit
      <4> QED BY <2>2, <4>1, <4>2 DEF Written
    <3>3. \A n \in 1..Len(events') : FALSE BY <1>3
    <3> QED BY <1>1, <1>3, <2>1, <3>1, <3>2, <3>3 DEF Loaded
  <2>5. CASE ~(at >= UsedLevels)
    <3>1. at' = at + 1 /\ phase' = "loading" BY <1>1, <2>5
    <3>2. Start(at + 1) = Start(at)
      <4>1. CASE at \in Scanned
        <5>1. at \in DOMAIN levels /\ ~(Items(at) > 0) BY <1>6, <4>1 DEF Stocked, Scanned
        <5>2. Sizes[at] = 0 BY <5>1, SizesType
        <5>3. Start(at + 1) = Start(at) + Sizes[at] BY <1>1, <4>1, StartNext
        <5> QED BY <1>4, <5>2, <5>3
      <4>2. CASE at \notin Scanned
        <5>1. Start(at + 1) = Start(at) + 0 BY <1>1, <4>2, StartNext
        <5> QED BY <1>4, <5>1
      <4> QED BY <4>1, <4>2
    <3>3. Written(Start(at))'
      <4> DEFINE limit == Start(at)
      <4>1. Start(at)' = limit
        <5>1. Start(at') = limit BY <3>1, <3>2
        <5> QED BY <1>2, <5>1 DEF Start, Below
      <4>2. Written(limit) BY <1>1
      <4> HIDE DEF limit
      <4> QED BY <2>2, <4>1, <4>2 DEF Written
    <3>4. at' \in Int /\ MinLevel <= at' /\ at' <= UsedLevels'
      BY <1>1, <1>2, <2>5, <3>1, ProfileAssumption
    <3> QED BY <1>1, <1>3, <2>1, <3>1, <3>3, <3>4 DEF Loaded
  <2> QED BY <2>4, <2>5
<1> QED BY <1>5, <1>6

\* What a step reads lies in the region of the level at hand.
NewInRegion == \A n \in (Len(events) + 1)..Len(events') : events'[n] \in RegionSlots(at)

\* Reading blocks of the level at hand stays inside its region and the whole.
LEMMA ReadInside ==
  ASSUME Built, at \in Scanned, events \in Seq(Int),
         \A n \in 1..Len(events) : events[n] \in 0..(Start(UsedLevels) - 1),
         NEW blocks \in Seq(Int), \A n \in 1..Len(blocks) : blocks[n] \in 0..(Blocks(at) - 1),
         Read(blocks)
  PROVE  /\ events' \in Seq(Int)
         /\ \A n \in 1..Len(events') : events'[n] \in 0..(Start(UsedLevels) - 1)
         /\ NewInRegion
<1> DEFINE start == Start(at)
           size == Sizes[at]
           total == Start(UsedLevels)
           more == [n \in 1..Len(blocks) |-> Slot(at, blocks[n])]
<1>1. /\ start \in Nat /\ size \in Nat /\ size = Blocks(at) /\ total \in Nat
      /\ start + size <= total /\ RegionStart(at) = start
  <2>1. at \in DOMAIN levels BY DEF Scanned
  <2> QED BY <2>1, StartType, SizesType, RegionInside, RegionIsStart
<1>2. events' = events \o more BY DEF Read
<1>3. \A n \in 1..Len(blocks) : Slot(at, blocks[n]) = start + blocks[n] BY <1>1 DEF Slot
<1>4. \A n \in 1..Len(blocks) : blocks[n] \in 0..(size - 1) BY <1>1
<1> HIDE DEF start, size, total, more
<1>5. /\ more \in Seq(Int) /\ \A n \in 1..Len(more) : more[n] \in 0..(total - 1)
      /\ \A n \in 1..Len(more) : more[n] \in start..(start + size - 1)
  <2>1. \A n \in 1..Len(blocks) :
          start + blocks[n] \in 0..(total - 1) /\ start + blocks[n] \in start..(start + size - 1)
    BY <1>1, <1>4, SMTT(30)
  <2>2. Len(blocks) \in Nat OBVIOUS
  <2>3. \A n \in 1..Len(blocks) : start + blocks[n] \in Int BY <2>1
  <2>4. more = [n \in 1..Len(blocks) |-> start + blocks[n]] BY <1>3 DEF more
  <2> QED BY <2>1, <2>2, <2>3, <2>4
<1>6. /\ events' \in Seq(Int) /\ Len(events') = Len(events) + Len(more)
      /\ Len(events) \in Nat /\ Len(more) \in Nat
      /\ \A n \in 1..(Len(events) + Len(more)) :
           events'[n] = IF n <= Len(events) THEN events[n] ELSE more[n - Len(events)]
  BY <1>2, <1>5, ConcatProperties
<1>7. ASSUME NEW n \in 1..Len(events') PROVE events'[n] \in 0..(total - 1)
  <2>1. CASE n <= Len(events)
    <3>1. n \in 1..Len(events) /\ events'[n] = events[n] BY <1>6, <2>1
    <3> QED BY <3>1 DEF total
  <2>2. CASE ~(n <= Len(events))
    <3>1. n - Len(events) \in 1..Len(more) /\ events'[n] = more[n - Len(events)]
      BY <1>6, <2>2
    <3> QED BY <1>5, <3>1
  <2> QED BY <2>1, <2>2
<1>8. NewInRegion
  <2>1. RegionSlots(at) = start..(start + size - 1) BY <1>1 DEF RegionSlots
  <2>2. ASSUME NEW n \in (Len(events) + 1)..Len(events') PROVE events'[n] \in start..(start + size - 1)
    <3>1. n - Len(events) \in 1..Len(more) /\ events'[n] = more[n - Len(events)] BY <1>6
    <3> QED BY <1>5, <3>1
  <2> QED BY <2>1, <2>2 DEF NewInRegion
<1> QED BY <1>6, <1>7, <1>8 DEF total

\* Obtaining a block reads that block, or nothing.
LEMMA ObtainInside ==
  ASSUME Built, at \in Scanned, events \in Seq(Int),
         \A n \in 1..Len(events) : events[n] \in 0..(Start(UsedLevels) - 1),
         NEW p, Physical(p) \in 0..(Blocks(at) - 1), Obtain(p)
  PROVE  /\ events' \in Seq(Int)
         /\ \A n \in 1..Len(events') : events'[n] \in 0..(Start(UsedLevels) - 1)
         /\ NewInRegion
<1>1. CASE UNCHANGED events
  <2>1. Len(events) \in Nat OBVIOUS
  <2> QED BY <1>1, <2>1 DEF NewInRegion
<1>2. CASE Read(<<Physical(p)>>)
  <2> DEFINE blocks == <<Physical(p)>>
  <2>1. blocks \in Seq(Int) /\ Len(blocks) = 1 /\ blocks[1] = Physical(p) OBVIOUS
  <2>2. Read(blocks) BY <1>2
  <2> HIDE DEF blocks
  <2>3. \A n \in 1..Len(blocks) : blocks[n] \in 0..(Blocks(at) - 1) BY <2>1
  <2> QED BY <2>1, <2>2, <2>3, ReadInside
<1> QED BY <1>1, <1>2 DEF Obtain

\* A level lookup is in a level that has a region.
LEMMA ActiveScanned ==
  ASSUME RefInv, phase \in {"probing", "touching"}
  PROVE  at \in Scanned
<1>1. at \in DOMAIN levels /\ Items(at) > 0
  <2>1. at \in DOMAIN levels /\ pos \in 0..Items(at) BY DEF RefInv, Ranges, Active
  <2>2. Items(at) \in Nat BY <2>1, CountType DEF RefInv
  <2>3. CASE phase = "probing"
    <3>1. first \in Nat /\ left \in Nat \ {0} /\ first + left <= Items(at)
      BY <2>3 DEF RefInv, Ranges, Active
    <3> QED BY <2>1, <2>2, <3>1
  <2>4. CASE phase = "touching"
    <3>1. pos # Items(at) BY <2>4 DEF RefInv, Ranges, Active
    <3> QED BY <2>1, <2>2, <3>1
  <2> QED BY <2>3, <2>4
<1>2. at < UsedLevels BY <1>1, UsedCovers DEF RefInv
<1> QED BY <1>1, <1>2 DEF Scanned

\* The slots read by a step of a level lookup.
LEMMA LookupInside ==
  ASSUME RefInv, Loaded, ProbeMiddle \/ Compare \/ Touch
  PROVE  /\ events' \in Seq(Int)
         /\ \A n \in 1..Len(events') : events'[n] \in 0..(Start(UsedLevels) - 1)
         /\ NewInRegion
<1>1. phase \in {"probing", "touching"} BY DEF ProbeMiddle, Compare, Touch
<1>2. /\ Built /\ at \in Scanned /\ events \in Seq(Int)
      /\ \A n \in 1..Len(events) : events[n] \in 0..(Start(UsedLevels) - 1)
  BY <1>1, ActiveScanned DEF RefInv, Loaded
<1>3. CASE ProbeMiddle
  <2>1. Physical(Probe) \in 0..(Blocks(at) - 1) /\ Blocks(at) \in Nat
    BY <1>3, ProbeBounds DEF ProbeMiddle
  <2>2. CASE ObtainAndSave(Probe)
    <3> DEFINE blocks == RunAround(Probe)
    <3>1. blocks \in Seq(Int) /\ \A n \in 1..Len(blocks) : blocks[n] \in 0..(Blocks(at) - 1)
      BY <2>1, RunHolds
    <3>2. Read(blocks) BY <2>2 DEF ObtainAndSave
    <3> HIDE DEF blocks
    <3> QED BY <1>2, <3>1, <3>2, ReadInside
  <2>3. CASE Obtain(Probe) BY <1>2, <2>1, <2>3, ObtainInside
  <2> QED BY <1>3, <2>2, <2>3 DEF ProbeMiddle
<1>4. CASE Compare
  <2>1. Physical(first) \in 0..(Blocks(at) - 1) BY <1>4, ProbeBounds DEF Compare
  <2>2. Obtain(first) BY <1>4 DEF Compare
  <2> QED BY <1>2, <2>1, <2>2, ObtainInside
<1>5. CASE Touch
  <2>1. phase = "touching" /\ Obtain(pos) BY <1>5 DEF Touch
  <2>2. at \in DOMAIN levels /\ pos \in 0..Items(at) /\ pos # Items(at)
    BY <2>1 DEF RefInv, Ranges, Active
  <2>3. pos \in 0..(Items(at) - 1)
    <3>1. Items(at) \in Nat BY <2>2, CountType DEF RefInv
    <3> QED BY <2>2, <3>1
  <2>4. Physical(pos) \in 0..(Blocks(at) - 1) BY <1>2, <2>2, <2>3, PhysicalType
  <2> QED BY <1>2, <2>1, <2>4, ObtainInside
<1> QED BY <1>3, <1>4, <1>5

\* A step of the queries keeps what has been written.
LEMMA QueriesKeep ==
  ASSUME Loaded, UNCHANGED levels, phase \notin {"building", "refused", "loading"},
         phase' \notin {"building", "refused", "loading"},
         operations' = operations \/ operations' = Append(operations, Operation("QUERY", events)),
         events' \in Seq(Int), \A n \in 1..Len(events') : events'[n] \in 0..(Start(UsedLevels) - 1)
  PROVE  Loaded'
<1>1. operations' \in Seq(OperationType) /\ UNCHANGED <<Writes, SlotCounts, AllSlots>>
  <2>1. CASE operations' = operations BY <2>1, SameOperations DEF Loaded
  <2>2. CASE operations' = Append(operations, Operation("QUERY", events))
    BY <2>2, QueryRecorded
  <2> QED BY <2>1, <2>2
<1> DEFINE total == Start(UsedLevels)
<1>2. Start(UsedLevels)' = total
  <2>1. UsedLevels' = UsedLevels /\ \A limit : Start(limit)' = Start(limit) BY SameStarts
  <2> QED BY <2>1 DEF Start, Below
<1>3. Written(total) BY DEF Loaded
<1>4. \A n \in 1..Len(events') : events'[n] \in 0..(total - 1) OBVIOUS
<1> HIDE DEF total
<1>5. Written(Start(UsedLevels))' BY <1>1, <1>2, <1>3 DEF Written
<1>6. \A n \in 1..Len(events') : events'[n] \in 0..(Start(UsedLevels)' - 1) BY <1>2, <1>4
<1> QED BY <1>1, <1>5, <1>6 DEF Loaded

LEMMA LoadedInit == RefInit => Loaded
<1> SUFFICES ASSUME RefInit PROVE Loaded OBVIOUS
<1>1. phase = "building" /\ operations = <<>> /\ events = <<>> /\ at = MinLevel BY DEF RefInit
<1> QED BY <1>1 DEF Loaded

\* The loading begins below every level, with nothing written.
LEMMA BeginLoading ==
  ASSUME Built, Loaded, EndBuild
  PROVE  Loaded'
<1>1. /\ phase = "building" /\ phase' = "loading" /\ operations = <<>> /\ events = <<>>
      /\ at = MinLevel /\ UNCHANGED <<levels, operations, events, at>>
  BY DEF EndBuild, Loaded, build, lookup, buffers
<1>2. UsedLevels \in Int /\ MinLevel <= UsedLevels /\ MinLevel \in Nat
  BY UsedType, ProfileAssumption
<1>3. UsedLevels' = UsedLevels /\ \A limit : Start(limit)' = Start(limit)
  BY <1>1, SameStarts
<1>4. Start(MinLevel) = 0
  <2>1. \A level \in DOMAIN levels : level \in Nat /\ level >= MinLevel
    BY DEF Built, GoodLevel
  <2>2. Below(MinLevel) = {} BY <1>2, <2>1 DEF Below, Scanned
  <2> QED BY <2>2, SumEmpty DEF Start
<1>5. Start(at)' = 0 BY <1>1, <1>3, <1>4 DEF Start, Below
<1>6. Writes' = {} BY <1>1 DEF Writes
<1>7. Written(Start(at))'
  <2>1. SumOver(SlotCounts', {}) = 0 BY SumEmpty
  <2>2. IsFiniteSet({}) BY FS_EmptySet
  <2>3. 0..(0 - 1) = {} OBVIOUS
  <2>4. AllSlots' = {} BY <1>6 DEF AllSlots
  <2> QED BY <1>5, <1>6, <2>1, <2>2, <2>3, <2>4 DEF Written
<1> QED BY <1>1, <1>2, <1>3, <1>7 DEF Loaded

LEMMA LoadedNext == RefInv /\ Loaded /\ [RefNext]_vars => Loaded'
<1> SUFFICES ASSUME RefInv, Loaded, [RefNext]_vars PROVE Loaded' OBVIOUS
<1>1. ASSUME NEW level \in Declared, Declare(level) PROVE Loaded'
  <2>1. /\ phase = "building" /\ phase' \in {"building", "refused"}
        /\ UNCHANGED <<operations, events, at>>
    BY <1>1 DEF Declare, lookup, buffers
  <2> QED BY <2>1 DEF Loaded
<1>2. CASE Feed \/ Finish
  <2>1. phase = "building" /\ UNCHANGED <<phase, operations, events, at>>
    BY <1>2 DEF Feed, Finish, refVars, lookup, buffers
  <2> QED BY <2>1 DEF Loaded
<1>3. CASE EndBuild BY <1>3, BeginLoading DEF RefInv
<1>4. CASE Load BY <1>4, LoadWrites DEF RefInv
<1>5. ASSUME NEW q \in QueryKeys, Ask(q) PROVE Loaded'
  <2>1. /\ phase = "idle" /\ phase' = "scanning" /\ events' = <<>> /\ UNCHANGED <<operations, levels>>
    BY <1>5 DEF Ask, build
  <2>2. events' \in Seq(Int) /\ \A n \in 1..Len(events') : FALSE BY <2>1
  <2> QED BY <2>1, <2>2, QueriesKeep
<1>6. CASE Skip \/ Miss \/ Enter \/ Outcome
  <2>1. /\ phase \in {"scanning", "outcome"}
        /\ phase' \in {"idle", "scanning", "probing", "outcome"}
        /\ operations' = operations \/ operations' = Append(operations, Operation("QUERY", events))
        /\ UNCHANGED <<levels, events>>
    BY <1>6 DEF Skip, Miss, Enter, Outcome, Answered, build, lookup, buffers
  <2>2. events' \in Seq(Int) /\ \A n \in 1..Len(events') : events'[n] \in 0..(Start(UsedLevels) - 1)
    BY <2>1 DEF Loaded
  <2> QED BY <2>1, <2>2, QueriesKeep
<1>7. CASE ProbeMiddle \/ Compare \/ Touch
  <2>1. /\ phase \in {"probing", "touching"} /\ phase' \in {"probing", "touching", "outcome"}
        /\ UNCHANGED <<levels, operations>>
    BY <1>7 DEF ProbeMiddle, Compare, Touch, build
  <2> QED BY <1>7, <2>1, LookupInside, QueriesKeep
<1>8. CASE UNCHANGED vars
  <2>1. UNCHANGED <<phase, levels, operations, events, at>>
    BY <1>8 DEF vars, refVars, build, lookup, buffers
  <2>2. UsedLevels' = UsedLevels /\ \A limit : Start(limit)' = Start(limit) BY <2>1, SameStarts
  <2>3. UNCHANGED <<Writes, SlotCounts, AllSlots>> BY <2>1, SameOperations
  <2>4. Start(at)' = Start(at) /\ Start(UsedLevels)' = Start(UsedLevels)
    BY <2>1, <2>2 DEF Start, Below
  <2>5. (Written(Start(at)) => Written(Start(at))')
        /\ (Written(Start(UsedLevels)) => Written(Start(UsedLevels))')
    BY <2>3, <2>4 DEF Written
  <2> QED BY <2>1, <2>2, <2>4, <2>5 DEF Loaded
<1> QED BY <1>1, <1>2, <1>3, <1>4, <1>5, <1>6, <1>7, <1>8 DEF RefNext, Build, Lookup

\* The sum of the property is one over SlotCounts.
LEMMA WritesSum ==
  ASSUME IsFiniteSet(Writes)
  PROVE  MapThenSumSet(SlotCount, Writes) = SumOver(SlotCounts, Writes)
<1> DEFINE W == Writes
           size(n) == SlotCount(n)
           G(g) == g = [s \in SUBSET W |->
                          IF s = {} THEN 0 ELSE size(Chosen(s)) + g[s \ {Chosen(s)}]]
           I == CHOOSE g : G(g)
<1>1. MapThenSumSet(SlotCount, W) = I[W]
  BY DEF MapThenSumSet, MapThenFoldSet, Chosen
<1>2. SlotCounts = [n \in W |-> size(n)] BY DEF SlotCounts
<1> HIDE DEF W, size
<1>3. ASSUME NEW g PROVE G(g) <=> SumRec(SlotCounts, W, g)
  <2>1. ASSUME NEW s \in SUBSET W, s # {} PROVE size(Chosen(s)) = SlotCounts[Chosen(s)]
    <3>1. Chosen(s) \in W BY <2>1 DEF Chosen
    <3> QED BY <1>2, <3>1
  <2> HIDE DEF Chosen
  <2>2. [s \in SUBSET W |-> IF s = {} THEN 0 ELSE size(Chosen(s)) + g[s \ {Chosen(s)}]]
        = [s \in SUBSET W |-> IF s = {} THEN 0 ELSE SlotCounts[Chosen(s)] + g[s \ {Chosen(s)}]]
    BY <2>1
  <2> QED BY <2>2 DEF SumRec
<1>4. IsFiniteSet(W) BY DEF W
<1>5. SumRec(SlotCounts, W, I)
  <2>1. \E g : G(g) BY <1>3, <1>4, SumRecExists
  <2> HIDE DEF G
  <2>2. G(I) BY <2>1, Zenon
  <2> HIDE DEF I
  <2> QED BY <1>3, <2>2
<1> HIDE DEF I
<1>6. I[W] = SumOver(SlotCounts, W) BY <1>4, <1>5, SumRecIs
<1> QED BY <1>1, <1>6 DEF W

\* letindex_ref.py: the regions of the levels are disjoint and dense.  The loading
\* writes every slot of the index once, and a query reads none that has not been
\* written, for any levels, sizes and placements.
THEOREM SlotsDisjointHolds == RefSpec => []SlotsDisjoint
<1>1. RefInv /\ Loaded => SlotsDisjoint
  <2> SUFFICES ASSUME RefInv, Loaded, phase = "idle"
               PROVE  LET total == MapThenSumSet(Blocks, Scanned)
                      IN  /\ UNION {SlotsOf(n) : n \in Writes} = 0..(total - 1)
                          /\ MapThenSumSet(SlotCount, Writes) = total
                          /\ \A n \in 1..Len(events) : events[n] \in 0..(total - 1)
    BY DEF SlotsDisjoint
  <2> DEFINE total == MapThenSumSet(Blocks, Scanned)
  <2>1. total = Start(UsedLevels) BY RegionIsStart DEF RefInv
  <2>2. /\ Written(Start(UsedLevels))
        /\ \A n \in 1..Len(events) : events[n] \in 0..(Start(UsedLevels) - 1)
    BY DEF Loaded
  <2> HIDE DEF total
  <2>3. /\ UNION {SlotsOf(n) : n \in Writes} = 0..(total - 1)
        /\ IsFiniteSet(Writes) /\ SumOver(SlotCounts, Writes) = total
    BY <2>1, <2>2 DEF Written, AllSlots
  <2>4. MapThenSumSet(SlotCount, Writes) = SumOver(SlotCounts, Writes)
    BY <2>3, WritesSum
  <2> QED BY <2>1, <2>2, <2>3, <2>4 DEF total
<1> QED BY RefInvInit, RefInvNext, LoadedInit, LoadedNext, <1>1, PTL DEF RefSpec

\* letindex_ref.py: whatever a step of a query reads is in the region of the
\* level the query is at, the prefetched neighbours included, for any levels,
\* sizes and placements.
THEOREM ReadsStayInRegion == RefSpec => ReadsOwnRegion
<1>1. RefInv /\ Loaded /\ [RefNext]_vars =>
        [\A n \in (Len(events) + 1)..Len(events') : events'[n] \in RegionSlots(at)]_vars
  <2> SUFFICES ASSUME RefInv, Loaded, [RefNext]_vars PROVE NewInRegion BY DEF NewInRegion
  <2>1. CASE ProbeMiddle \/ Compare \/ Touch BY <2>1, LookupInside
  <2>2. CASE events' = events \/ events' = <<>>
    <3>1. Len(events) \in Nat /\ Len(<<>>) = 0 BY DEF Loaded
    <3> QED BY <2>2, <3>1 DEF NewInRegion
  <2>3. ASSUME NEW level, Declare(level) PROVE events' = events
    BY <2>3 DEF Declare, lookup, buffers
  <2>4. ASSUME NEW q, Ask(q) PROVE events' = <<>> BY <2>4 DEF Ask
  <2>5. CASE Feed \/ Finish \/ EndBuild \/ Load \/ Skip \/ Miss \/ Enter \/ Outcome \/ UNCHANGED vars
    BY <2>2, <2>5 DEF Feed, Finish, EndBuild, Load, Skip, Miss, Enter, Outcome, vars, refVars,
                      lookup, buffers
  <2> QED BY <2>1, <2>2, <2>3, <2>4, <2>5 DEF RefNext, Build, Lookup
<1> QED
  BY RefInvInit, RefInvNext, LoadedInit, LoadedNext, <1>1, PTL DEF RefSpec, ReadsOwnRegion
=============================================================================
