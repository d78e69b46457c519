-------------------------- MODULE LETEngineProofs ---------------------------
(***************************************************************************)
(* What LETEngine guarantees for every value of its constants: types, the  *)
(* mapping and the storage, ids, disjoint levels and current indexes; and  *)
(* what it adds up to for a client that never places a block by hand:      *)
(* canonical levels, exact lookups, and one LevelStore.                    *)
(*                                                                         *)
(* Every step of the engine touches the storage and the mapping in one of  *)
(* six ways (StoreEffect); the invariants about blocks and slots are       *)
(* proved over those ways and not over the engine's actions.               *)
(***************************************************************************)
EXTENDS LETEngine, IntegerSets

-----------------------------------------------------------------------------
(* The data: what the dictionary updates and the operations on datasets     *)
(* return.                                                                  *)

\* A dataset is a function from some of the keys to values.
LEMMA DatasetIff ==
  ASSUME NEW d
  PROVE  d \in Datasets <=> DOMAIN d \subseteq Keys /\ d \in [DOMAIN d -> Values]
<1>1. ASSUME d \in Datasets
      PROVE  DOMAIN d \subseteq Keys /\ d \in [DOMAIN d -> Values]
  <2>1. PICK S \in SUBSET Keys : d \in [S -> Values]
    BY <1>1 DEF Datasets
  <2> QED
    BY <2>1
<1>2. ASSUME DOMAIN d \subseteq Keys, d \in [DOMAIN d -> Values]
      PROVE  d \in Datasets
  BY <1>2 DEF Datasets
<1> QED
  BY <1>1, <1>2

\* d[k] = v keeps a dictionary's type.
LEMMA PutType ==
  ASSUME NEW K, NEW V, NEW d, DOMAIN d \subseteq K, d \in [DOMAIN d -> V],
         NEW k \in K, NEW v \in V
  PROVE  DOMAIN Put(d, k, v) \subseteq K /\ Put(d, k, v) \in [DOMAIN Put(d, k, v) -> V]
BY DEF Put

\* So does del.
LEMMA DropType ==
  ASSUME NEW K, NEW V, NEW d, DOMAIN d \subseteq K, d \in [DOMAIN d -> V], NEW S
  PROVE  DOMAIN Drop(d, S) \subseteq K /\ Drop(d, S) \in [DOMAIN Drop(d, S) -> V]
BY DEF Drop

\* The newer-wins union of two datasets is a dataset, with the keys of both.
LEMMA OverlayType ==
  ASSUME NEW newer \in Datasets, NEW older \in Datasets
  PROVE  /\ Overlay(newer, older) \in Datasets
         /\ DOMAIN Overlay(newer, older) = DOMAIN newer \cup DOMAIN older
<1>1. /\ DOMAIN newer \subseteq Keys /\ newer \in [DOMAIN newer -> Values]
      /\ DOMAIN older \subseteq Keys /\ older \in [DOMAIN older -> Values]
  BY DatasetIff
<1>2. DOMAIN Overlay(newer, older) = DOMAIN newer \cup DOMAIN older
  BY DEF Overlay
<1>3. \A x \in DOMAIN newer \cup DOMAIN older : Overlay(newer, older)[x] \in Values
  BY <1>1 DEF Overlay
<1>4. Overlay(newer, older) \in [DOMAIN newer \cup DOMAIN older -> Values]
  BY <1>3 DEF Overlay
<1> QED
  BY <1>1, <1>2, <1>4, DatasetIff

\* A block of the canonical packing of a dataset is a dataset.
LEMMA ChunkType ==
  ASSUME NEW d \in Datasets, NEW i
  PROVE  Chunk(d, i) \in Datasets /\ DOMAIN Chunk(d, i) \subseteq DOMAIN d
<1>1. DOMAIN d \subseteq Keys /\ d \in [DOMAIN d -> Values]
  BY DatasetIff
<1> DEFINE S == {k \in DOMAIN d : RankIn(DOMAIN d, k) \div Capacity = i}
<1>2. Chunk(d, i) = [k \in S |-> d[k]]
  BY DEF Chunk
<1> HIDE DEF S
<1>3. S \subseteq DOMAIN d
  BY DEF S
<1>4. Chunk(d, i) \in [S -> Values] /\ DOMAIN Chunk(d, i) = S
  BY <1>1, <1>2, <1>3
<1> QED
  BY <1>1, <1>3, <1>4, DatasetIff

-----------------------------------------------------------------------------
(* The canonical packing. *)

\* A dataset's keys are finitely many integers.
LEMMA DatasetKeys ==
  ASSUME NEW d \in Datasets
  PROVE  /\ DOMAIN d \in SUBSET Keys /\ DOMAIN d \in SUBSET Int /\ IsFiniteSet(DOMAIN d)
         /\ Size(d) \in Nat /\ Size(d) = Cardinality(DOMAIN d)
<1>1. DOMAIN d \in SUBSET Keys
  BY DatasetIff
<1>2. IsFiniteSet(DOMAIN d)
  BY <1>1, KeysAssumption, FS_Subset
<1> QED
  BY <1>1, <1>2, KeysAssumption, FS_CardinalityType DEF Size

\* A rank r lies in the block i exactly when i full blocks are below it and i + 1
\* are not.
LEMMA BlockOfRank ==
  ASSUME NEW r \in Nat, NEW i \in Nat
  PROVE  /\ r \div Capacity \in Nat
         /\ r \div Capacity = i <=> i * Capacity <= r /\ r < i * Capacity + Capacity
         /\ r \div Capacity < i <=> r < i * Capacity
         /\ i * Capacity \in Nat
BY CapacityAssumption

\* All but the last of the blocks are full and the last one is not empty.
LEMMA NumBlocksBounds ==
  ASSUME NEW d \in Datasets
  PROVE  /\ NumBlocks(d) \in Nat
         /\ Size(d) <= NumBlocks(d) * Capacity
         /\ NumBlocks(d) * Capacity < Size(d) + Capacity
<1>1. Size(d) \in Nat
  BY DatasetKeys
<1> DEFINE n == Size(d)
<1> HIDE DEF n
<1>2. \A q \in Int : q = (n + Capacity - 1) \div Capacity =>
        /\ q \in Nat /\ n <= q * Capacity /\ q * Capacity < n + Capacity
  BY <1>1, CapacityAssumption DEF n
<1>3. (n + Capacity - 1) \div Capacity \in Int
  BY <1>1, CapacityAssumption DEF n
<1> QED
  BY <1>2, <1>3 DEF NumBlocks, n

\* i blocks fit below the first NumBlocks(d): the blocks before them are full.
LEMMA BlockBelow ==
  ASSUME NEW d \in Datasets, NEW i \in Nat
  PROVE  /\ i < NumBlocks(d) <=> i * Capacity < Size(d)
         /\ i + 1 < NumBlocks(d) => i * Capacity + Capacity <= Size(d)
<1> DEFINE n == Size(d)
           m == NumBlocks(d)
<1>1. n \in Nat /\ m \in Nat /\ n <= m * Capacity /\ m * Capacity < n + Capacity
  BY DatasetKeys, NumBlocksBounds
<1> HIDE DEF n, m
<1>2. ASSUME NEW j \in Nat, j < m
      PROVE  j * Capacity + Capacity <= m * Capacity
  <2>1. j + 1 <= m
    BY <1>1, <1>2
  <2>2. (j + 1) * Capacity <= m * Capacity
    BY <1>1, <2>1, CapacityAssumption
  <2> QED
    BY <2>2, CapacityAssumption
<1>3. ASSUME m <= i
      PROVE  m * Capacity <= i * Capacity
  BY <1>1, <1>3, CapacityAssumption
<1>4. i < m => i * Capacity + Capacity <= m * Capacity
  BY <1>2
<1>5. i + 1 < m => (i + 1) * Capacity + Capacity <= m * Capacity
  BY <1>2
<1>6. (i + 1) * Capacity = i * Capacity + Capacity /\ i * Capacity \in Nat /\ m * Capacity \in Nat
  BY <1>1, CapacityAssumption
<1> QED
  BY <1>1, <1>3, <1>4, <1>5, <1>6, CapacityAssumption DEF n, m

\* The keys of the i-th block are those whose ranks it covers, and the keys of
\* the first n blocks are those with the first n * Capacity ranks.
LEMMA ChunkKeys ==
  ASSUME NEW d \in Datasets, NEW i \in Nat
  PROVE  /\ DOMAIN Chunk(d, i) = Ranked(DOMAIN d, i * Capacity, i * Capacity + Capacity)
         /\ DOMAIN Prefix(d, i) = Ranked(DOMAIN d, 0, i * Capacity)
<1>1. \A k \in DOMAIN d : RankOf(DOMAIN d, k) \in Nat /\ RankOf(DOMAIN d, k) = RankIn(DOMAIN d, k)
  BY DatasetKeys, RankType DEF RankOf, RankIn
<1>2. \A k \in DOMAIN d :
        /\ RankIn(DOMAIN d, k) \div Capacity = i
             <=> i * Capacity <= RankOf(DOMAIN d, k) /\ RankOf(DOMAIN d, k) < i * Capacity + Capacity
        /\ RankIn(DOMAIN d, k) \div Capacity < i
             <=> 0 <= RankOf(DOMAIN d, k) /\ RankOf(DOMAIN d, k) < i * Capacity
  BY <1>1, BlockOfRank
<1>3. /\ DOMAIN Chunk(d, i) = {k \in DOMAIN d : RankIn(DOMAIN d, k) \div Capacity = i}
      /\ DOMAIN Prefix(d, i) = {k \in DOMAIN d : RankIn(DOMAIN d, k) \div Capacity < i}
  BY DEF Chunk, Prefix
<1> QED
  BY <1>2, <1>3 DEF Ranked

\* Every block of the packing is non-empty and no larger than a block, and
\* every block but the last one is full.
LEMMA ChunkSize ==
  ASSUME NEW d \in Datasets, NEW i \in Nat, i < NumBlocks(d)
  PROVE  /\ Size(Chunk(d, i)) > 0 /\ Size(Chunk(d, i)) <= Capacity
         /\ i + 1 < NumBlocks(d) => Size(Chunk(d, i)) = Capacity
<1> DEFINE S == DOMAIN d
           a == i * Capacity
           top == IF a + Capacity <= Size(d) THEN a + Capacity ELSE Size(d)
<1>1. /\ S \in SUBSET Int /\ IsFiniteSet(S)
      /\ Size(d) \in Nat /\ Size(d) = Cardinality(S)
  BY DatasetKeys
<1>2. a \in Nat /\ a < Size(d) /\ (i + 1 < NumBlocks(d) => a + Capacity <= Size(d))
  BY BlockBelow, CapacityAssumption
<1> HIDE DEF S, a
<1>3. top \in Nat /\ a <= top /\ top <= Size(d)
  BY <1>1, <1>2, CapacityAssumption
<1>4. \A k \in S : RankOf(S, k) \in Nat /\ RankOf(S, k) < Size(d)
  BY <1>1, RankType, RankBelowSize
<1>5. Ranked(S, a, a + Capacity) = Ranked(S, a, top)
  <2>1. \A k \in S : RankOf(S, k) < a + Capacity <=> RankOf(S, k) < top
    BY <1>1, <1>2, <1>4, CapacityAssumption
  <2> QED
    BY <2>1 DEF Ranked
<1>6. Cardinality(Ranked(S, a, top)) = top - a
  BY <1>1, <1>2, <1>3, RankedSize
<1>7. Size(Chunk(d, i)) = top - a
  BY <1>5, <1>6, ChunkKeys DEF Size, S, a
<1> QED
  BY <1>1, <1>2, <1>7, CapacityAssumption

\* The keys of a block are below those of a later one.
LEMMA ChunkOrder ==
  ASSUME NEW d \in Datasets, NEW i \in Nat, NEW j \in Nat, i < j,
         NEW x \in DOMAIN Chunk(d, i), NEW y \in DOMAIN Chunk(d, j)
  PROVE  x < y
<1> DEFINE S == DOMAIN d
<1>1. S \in SUBSET Int /\ IsFiniteSet(S)
  BY DatasetKeys
<1>2. /\ x \in S /\ RankOf(S, x) < i * Capacity + Capacity
      /\ y \in S /\ j * Capacity <= RankOf(S, y)
  <2>1. DOMAIN Chunk(d, i) = Ranked(S, i * Capacity, i * Capacity + Capacity)
    BY ChunkKeys
  <2>2. DOMAIN Chunk(d, j) = Ranked(S, j * Capacity, j * Capacity + Capacity)
    BY ChunkKeys
  <2> HIDE DEF S
  <2> QED
    BY <2>1, <2>2 DEF Ranked
<1>3. i * Capacity + Capacity <= j * Capacity
  <2>1. (i + 1) * Capacity <= j * Capacity
    <3>1. \A a, b, c \in Nat : a <= b => a * c <= b * c
      OBVIOUS
    <3>2. i + 1 <= j /\ i + 1 \in Nat /\ Capacity \in Nat
      BY CapacityAssumption
    <3> QED
      BY <3>1, <3>2
  <2> QED
    BY <2>1, CapacityAssumption
<1>4. RankOf(S, x) \in Nat /\ RankOf(S, y) \in Nat
  BY <1>1, <1>2, RankType
<1>5. i * Capacity \in Nat /\ j * Capacity \in Nat
  BY CapacityAssumption
<1>6. RankOf(S, x) < RankOf(S, y)
  BY <1>2, <1>3, <1>4, <1>5, CapacityAssumption
<1> QED
  BY <1>1, <1>2, <1>6, RankOrder

\* The offset of a record in its block, added to the ranks below the block, is
\* its rank.
LEMMA ChunkRank ==
  ASSUME NEW d \in Datasets, NEW i \in Nat, NEW k \in DOMAIN Chunk(d, i)
  PROVE  i * Capacity + RankIn(DOMAIN Chunk(d, i), k) = RankIn(DOMAIN d, k)
<1> DEFINE S == DOMAIN d
           a == i * Capacity
<1>1. S \in SUBSET Int /\ IsFiniteSet(S) /\ a \in Nat /\ a + Capacity \in Nat
  BY DatasetKeys, CapacityAssumption
<1>2. /\ DOMAIN Chunk(d, i) = Ranked(S, a, a + Capacity)
      /\ k \in S /\ a <= RankOf(S, k) /\ RankOf(S, k) < a + Capacity
  BY ChunkKeys DEF Ranked
<1>3. RankOf(S, k) \in Nat
  BY <1>1, <1>2, RankType
<1> HIDE DEF S, a
<1>4. RankOf(Ranked(S, a, a + Capacity), k) = RankOf(S, k) - a
  BY <1>1, <1>2, <1>3, RankInRanked
<1> QED
  BY <1>1, <1>2, <1>3, <1>4 DEF RankOf, RankIn, S, a

\* The blocks partition the records.
LEMMA ChunkCover ==
  ASSUME NEW d \in Datasets, NEW k \in DOMAIN d
  PROVE  \E i \in 0..NumBlocks(d) - 1 : k \in DOMAIN Chunk(d, i) /\ Chunk(d, i)[k] = d[k]
<1> DEFINE r == RankIn(DOMAIN d, k)
<1>1. r \in Nat /\ r < Size(d)
  BY DatasetKeys, RankType, RankBelowSize DEF RankOf, RankIn
<1>2. r \div Capacity \in Nat /\ (r \div Capacity) * Capacity <= r
  <2>1. r \div Capacity \in Nat
    BY <1>1, BlockOfRank
  <2> QED
    BY <1>1, <2>1, BlockOfRank
<1>3. (r \div Capacity) * Capacity < Size(d)
  BY <1>1, <1>2, DatasetKeys, CapacityAssumption
<1>4. r \div Capacity \in 0..NumBlocks(d) - 1
  BY <1>2, <1>3, BlockBelow, NumBlocksBounds
<1>5. k \in DOMAIN Chunk(d, r \div Capacity) /\ Chunk(d, r \div Capacity)[k] = d[k]
  BY DEF Chunk
<1> QED
  BY <1>4, <1>5

\* A record is in the i-th block with the value it has in the dataset.
LEMMA ChunkValue ==
  ASSUME NEW d, NEW i, NEW k \in DOMAIN Chunk(d, i)
  PROVE  k \in DOMAIN d /\ Chunk(d, i)[k] = d[k]
BY DEF Chunk

LEMMA PrefixType ==
  ASSUME NEW d \in Datasets, NEW n
  PROVE  /\ Prefix(d, n) \in Datasets /\ DOMAIN Prefix(d, n) \subseteq DOMAIN d
         /\ \A k \in DOMAIN Prefix(d, n) : Prefix(d, n)[k] = d[k]
<1>1. DOMAIN d \subseteq Keys /\ d \in [DOMAIN d -> Values]
  BY DatasetIff
<1> DEFINE S == {k \in DOMAIN d : RankIn(DOMAIN d, k) \div Capacity < n}
<1>2. Prefix(d, n) = [k \in S |-> d[k]]
  BY DEF Prefix
<1> HIDE DEF S
<1>3. S \subseteq DOMAIN d
  BY DEF S
<1>4. Prefix(d, n) \in [S -> Values] /\ DOMAIN Prefix(d, n) = S
  BY <1>1, <1>2, <1>3
<1> QED
  BY <1>1, <1>2, <1>3, <1>4, DatasetIff

\* None of the blocks, and all of them.
LEMMA PrefixEnds ==
  ASSUME NEW d \in Datasets
  PROVE  Prefix(d, 0) = EmptyDict /\ Prefix(d, NumBlocks(d)) = d
<1> DEFINE S == DOMAIN d
<1>1. S \in SUBSET Int /\ IsFiniteSet(S) /\ d \in [S -> Values] /\ Size(d) = Cardinality(S)
  BY DatasetKeys, DatasetIff
<1>2. \A k \in S : RankIn(S, k) \in Nat /\ RankIn(S, k) < Size(d)
  BY <1>1, RankType, RankBelowSize DEF RankOf, RankIn
<1>3. \A k \in S : RankIn(S, k) < NumBlocks(d) * Capacity
  <2>1. /\ Size(d) \in Nat /\ Size(d) <= NumBlocks(d) * Capacity
        /\ NumBlocks(d) * Capacity \in Nat
    BY NumBlocksBounds, DatasetKeys, CapacityAssumption
  <2> QED
    BY <1>2, <2>1
<1>4. \A k \in S : /\ ~(RankIn(S, k) \div Capacity < 0)
                   /\ RankIn(S, k) \div Capacity < NumBlocks(d)
  BY <1>2, <1>3, BlockOfRank, NumBlocksBounds
<1>5. {k \in DOMAIN d : RankIn(DOMAIN d, k) \div Capacity < 0} = {}
  BY <1>4
<1>6. {k \in DOMAIN d : RankIn(DOMAIN d, k) \div Capacity < NumBlocks(d)} = DOMAIN d
  BY <1>4
<1>7. Prefix(d, 0) = EmptyDict
  BY <1>5 DEF Prefix, EmptyDict
<1>8. Prefix(d, NumBlocks(d)) = d
  BY <1>1, <1>6 DEF Prefix
<1> QED
  BY <1>7, <1>8

\* The first n blocks of a packing are a packing of what they hold.
LEMMA PrefixPacking ==
  ASSUME NEW d \in Datasets, NEW n \in 0..NumBlocks(d)
  PROVE  /\ NumBlocks(Prefix(d, n)) = n
         /\ \A i \in 0..n - 1 : Chunk(Prefix(d, n), i) = Chunk(d, i)
<1> DEFINE S == DOMAIN d
           P == DOMAIN Prefix(d, n)
           a == n * Capacity
           top == IF a <= Size(d) THEN a ELSE Size(d)
<1>1. /\ S \in SUBSET Int /\ IsFiniteSet(S)
      /\ Size(d) \in Nat /\ Size(d) = Cardinality(S) /\ NumBlocks(d) \in Nat
  BY DatasetKeys, NumBlocksBounds
<1>2. n \in Nat /\ a \in Nat /\ P = Ranked(S, 0, a) /\ Prefix(d, n) \in Datasets
  BY <1>1, CapacityAssumption, ChunkKeys, PrefixType
<1>3. \A k \in S : RankOf(S, k) \in Nat /\ RankOf(S, k) < Size(d)
  BY <1>1, RankType, RankBelowSize
<1>4. NumBlocks(Prefix(d, n)) = n
  <2>1. Ranked(S, 0, a) = Ranked(S, 0, top)
    <3> HIDE DEF S, a
    <3>1. \A k \in S : RankOf(S, k) < a <=> RankOf(S, k) < top
      BY <1>1, <1>2, <1>3
    <3> QED
      BY <3>1 DEF Ranked
  <2>2. Cardinality(Ranked(S, 0, top)) = top - 0
    <3> HIDE DEF S, a
    <3>1. top \in Nat /\ 0 <= top /\ top <= Cardinality(S)
      BY <1>1, <1>2
    <3> QED
      BY <1>1, <3>1, RankedSize
  <2>3. Size(Prefix(d, n)) = top
    BY <1>1, <1>2, <2>1, <2>2 DEF Size
  <2>4. n > 0 => (n - 1) * Capacity < Size(d)
    BY <1>1, <1>2, BlockBelow
  <2>5. n > 0 => (n - 1) * Capacity < top
    BY <1>1, <1>2, <2>4, CapacityAssumption
  <2>6. ~(n * Capacity < top)
    BY <1>1, <1>2
  <2>7. NumBlocks(Prefix(d, n)) \in Nat
    BY <1>2, NumBlocksBounds
  <2>8. n > 0 => n - 1 < NumBlocks(Prefix(d, n))
    BY <1>2, <2>3, <2>5, BlockBelow
  <2>9. ~(n < NumBlocks(Prefix(d, n)))
    BY <1>2, <2>3, <2>6, BlockBelow
  <2> QED
    BY <1>2, <2>7, <2>8, <2>9
<1>5. ASSUME NEW i \in 0..n - 1
      PROVE  Chunk(Prefix(d, n), i) = Chunk(d, i)
  <2>1. \A k \in P : RankIn(P, k) = RankIn(S, k)
    <3> SUFFICES ASSUME NEW k \in P
                 PROVE  RankIn(P, k) = RankIn(S, k)
      OBVIOUS
    <3>1. k \in S /\ RankOf(S, k) < a /\ RankOf(S, k) \in Nat
      BY <1>2, <1>3 DEF Ranked
    <3>2. RankOf(Ranked(S, 0, a), k) = RankOf(S, k) - 0
      <4> HIDE DEF S, a
      <4> QED
        BY <1>1, <1>2, <3>1, RankInRanked
    <3> QED
      BY <1>2, <3>1, <3>2 DEF RankOf, RankIn
  <2>2. \A k \in S : k \in P <=> RankIn(S, k) \div Capacity < n
    BY DEF Prefix
  <2>3. {k \in P : RankIn(P, k) \div Capacity = i} = {k \in S : RankIn(S, k) \div Capacity = i}
    BY <1>2, <2>1, <2>2, PrefixType
  <2>4. \A k \in P : Prefix(d, n)[k] = d[k]
    BY PrefixType
  <2> QED
    BY <2>3, <2>4 DEF Chunk
<1> QED
  BY <1>4, <1>5

-----------------------------------------------------------------------------
(* Types. *)

\* What read_block returns of a block that can be read.
LEMMA ReadBlockType ==
  ASSUME TypeOK, NEW b, Readable(b)
  PROVE  ReadBlock(b) \in Datasets
BY DEF TypeOK, Readable, ReadBlock, Blocks

\* The keys and the records of a level that can be read.
LEMMA ContentsType ==
  ASSUME TypeOK, NEW l, LevelReadable(l)
  PROVE  /\ KeysOf(l) \subseteq Keys
         /\ Contents(l) \in Datasets /\ DOMAIN Contents(l) = KeysOf(l)
<1>1. \A b \in BlocksOf(l) : ReadBlock(b) \in Datasets
  BY ReadBlockType DEF LevelReadable
<1>2. \A b \in BlocksOf(l) :
        DOMAIN ReadBlock(b) \subseteq Keys /\ ReadBlock(b) \in [DOMAIN ReadBlock(b) -> Values]
  BY <1>1, DatasetIff
<1>3. KeysOf(l) \subseteq Keys
  BY <1>2 DEF KeysOf
<1> DEFINE holder(k) == CHOOSE b \in BlocksOf(l) : k \in DOMAIN ReadBlock(b)
<1>4. \A k \in KeysOf(l) : holder(k) \in BlocksOf(l) /\ k \in DOMAIN ReadBlock(holder(k))
  BY DEF KeysOf
<1>5. \A k \in KeysOf(l) : ReadBlock(holder(k))[k] \in Values
  BY <1>2, <1>4
<1>6. Contents(l) = [k \in KeysOf(l) |-> ReadBlock(holder(k))[k]]
  BY DEF Contents
<1> HIDE DEF holder
<1>7. Contents(l) \in [KeysOf(l) -> Values] /\ DOMAIN Contents(l) = KeysOf(l)
  BY <1>5, <1>6
<1> QED
  BY <1>3, <1>7, DatasetIff

-----------------------------------------------------------------------------
(* The operations on blocks and levels keep the types of the variables that *)
(* are theirs.                                                               *)

StoreType ==
  /\ DOMAIN slots \subseteq Nat /\ slots \in [DOMAIN slots -> Blocks]
  /\ nextSlot \in Nat /\ nextBlock \in Nat

MappingType ==
  /\ DOMAIN l2p \subseteq Nat /\ l2p \in [DOMAIN l2p -> Nat]
  /\ DOMAIN p2l \subseteq Nat /\ p2l \in [DOMAIN p2l -> Nat]

RegistryType ==
  /\ DOMAIN levels \subseteq Nat /\ levels \in [DOMAIN levels -> Seq(Nat)]
  /\ DOMAIN pgm \subseteq Nat /\ pgm \in [DOMAIN pgm -> SUBSET Keys]
  /\ retired \subseteq Nat /\ nextLevel \in Nat

JobType == job \in {Idle} \cup Builds \cup Merges

LEMMA TypeParts == TypeOK <=> StoreType /\ MappingType /\ RegistryType /\ JobType
BY DEF TypeOK, StoreType, MappingType, RegistryType, JobType

LEMMA StoreNextType ==
  ASSUME TypeOK, NEW recs \in Datasets, StoreNext(recs)
  PROVE  StoreType'
<1>1. [id |-> nextBlock, recs |-> recs] \in Blocks
  BY DEF TypeOK, Blocks
<1>2. nextSlot' \in Nat /\ nextBlock' \in Nat
  BY DEF TypeOK, StoreNext
<1>3. slots' = Put(slots, nextSlot, [id |-> nextBlock, recs |-> recs])
  BY DEF StoreNext
<1>4. nextSlot \in Nat /\ DOMAIN slots \subseteq Nat /\ slots \in [DOMAIN slots -> Blocks]
  BY DEF TypeOK
<1> HIDE DEF Blocks
<1> QED
  BY <1>1, <1>2, <1>3, <1>4, PutType DEF StoreType

LEMMA AssignNextType ==
  ASSUME TypeOK, AssignNext
  PROVE  MappingType'
BY PutType DEF TypeOK, AssignNext, MappingType

LEMMA AttachType ==
  ASSUME TypeOK, NEW l, NEW b \in Nat, Attach(l, b)
  PROVE  RegistryType'
<1>1. DOMAIN levels' \subseteq Nat /\ levels' \in [DOMAIN levels' -> Seq(Nat)]
  <2>1. \A s \in Seq(Nat) : Append(s, b) \in Seq(Nat)
    OBVIOUS
  <2>2. /\ levels' = [levels EXCEPT ![l] = Append(@, b)]
        /\ DOMAIN levels \subseteq Nat /\ levels \in [DOMAIN levels -> Seq(Nat)]
    BY DEF TypeOK, Attach
  <2> QED
    BY <2>1, <2>2
<1>2. DOMAIN pgm' \subseteq Nat /\ pgm' \in [DOMAIN pgm' -> SUBSET Keys]
  BY DropType DEF TypeOK, Attach
<1> QED
  BY <1>1, <1>2 DEF TypeOK, Attach, RegistryType

LEMMA OpenLevelType ==
  ASSUME TypeOK, OpenLevel
  PROVE  RegistryType'
<1>1. <<>> \in Seq(Nat)
  OBVIOUS
<1>2. DOMAIN levels' \subseteq Nat /\ levels' \in [DOMAIN levels' -> Seq(Nat)]
  BY <1>1, PutType DEF TypeOK, OpenLevel
<1> QED
  BY <1>2 DEF TypeOK, OpenLevel, RegistryType

LEMMA IndexLevelType ==
  ASSUME TypeOK, NEW l \in Nat, IndexLevel(l)
  PROVE  RegistryType'
<1>1. KeysOf(l) \in SUBSET Keys
  BY ContentsType DEF IndexLevel
<1>2. DOMAIN pgm' \subseteq Nat /\ pgm' \in [DOMAIN pgm' -> SUBSET Keys]
  BY <1>1, PutType DEF TypeOK, IndexLevel
<1> QED
  BY <1>2 DEF TypeOK, IndexLevel, RegistryType

LEMMA UnplaceType ==
  ASSUME TypeOK, NEW B, Clear(SlotsOf(B)), Unassign(B), UNCHANGED <<nextSlot, nextBlock>>
  PROVE  StoreType' /\ MappingType'
<1>1. DOMAIN slots' \subseteq Nat /\ slots' \in [DOMAIN slots' -> Blocks]
  <2> HIDE DEF Blocks
  <2> QED
    BY DropType DEF TypeOK, Clear
<1>2. MappingType'
  BY DropType DEF TypeOK, Unassign, MappingType
<1> QED
  BY <1>1, <1>2 DEF TypeOK, StoreType

LEMMA RetireType ==
  ASSUME TypeOK, NEW l \in Nat, Retire(l)
  PROVE  StoreType' /\ MappingType' /\ RegistryType'
<1>1. StoreType' /\ MappingType'
  BY UnplaceType DEF Retire
<1>2. DOMAIN levels' \subseteq Nat /\ levels' \in [DOMAIN levels' -> Seq(Nat)]
  BY DropType DEF TypeOK, Retire, Deregister
<1>3. DOMAIN pgm' \subseteq Nat /\ pgm' \in [DOMAIN pgm' -> SUBSET Keys]
  BY DropType DEF TypeOK, Retire
<1> QED
  BY <1>1, <1>2, <1>3 DEF TypeOK, Retire, Deregister, RegistryType

LEMMA RetireTornType ==
  ASSUME TypeOK, NEW l, RetireTorn(l)
  PROVE  StoreType' /\ MappingType' /\ RegistryType'
<1>1. PICK B : Clear(SlotsOf(B)) /\ Unassign(B)
  BY DEF RetireTorn
<1>2. UNCHANGED <<nextSlot, nextBlock>> /\ UNCHANGED registry
  BY DEF RetireTorn
<1> QED
  BY <1>1, <1>2, UnplaceType, TypeParts DEF registry, RegistryType

LEMMA CutType ==
  ASSUME TypeOK, NEW recs \in Datasets, CreateBlockCut(recs)
  PROVE  StoreType' /\ MappingType' /\ RegistryType'
<1>1. StoreType'
  BY StoreNextType DEF CreateBlockCut, CreateBlockTorn, CreateBlockAlone
<1>2. MappingType'
  BY AssignNextType, TypeParts
     DEF CreateBlockCut, CreateBlockTorn, CreateBlockAlone, MappingType, mapping
<1>3. RegistryType'
  BY TypeParts DEF CreateBlockCut, CreateBlockTorn, CreateBlockAlone, RegistryType, registry
<1> QED
  BY <1>1, <1>2, <1>3

-----------------------------------------------------------------------------
(* The steps. *)

LEMMA IdleType == Idle \in {Idle} \cup Builds \cup Merges
OBVIOUS

\* What the job of a call in progress is made of.
LEMMA JobFields ==
  ASSUME TypeOK
  PROVE  /\ job.call \in {"build", "merge"} => job.data \in Datasets /\ job.out \in Nat
         /\ job.call = "build" => job \in Builds
         /\ job.call \in {"merge", "discard", "retire_newer", "retire_older"} => job \in Merges
<1>1. CASE job = Idle
  BY <1>1 DEF Idle
<1>2. CASE job \in Builds
  BY <1>2 DEF Builds
<1>3. CASE job \in Merges
  BY <1>3 DEF Merges
<1> QED
  BY <1>1, <1>2, <1>3 DEF TypeOK

LEMMA PlacedType ==
  ASSUME TypeOK, Placing
  PROVE  Chunk(job.data, job.placed) \in Datasets
BY JobFields, ChunkType DEF Placing

LEMMA StepType ==
  ASSUME TypeOK, [Next]_vars
  PROVE  TypeOK'
<1> USE DEF store, mapping, registry
<1> SUFFICES StoreType' /\ MappingType' /\ RegistryType' /\ JobType'
  BY DEF TypeOK, StoreType, MappingType, RegistryType, JobType
<1>0. StoreType /\ MappingType /\ RegistryType /\ JobType
  BY TypeParts
<1>1. UNCHANGED <<slots, nextSlot, nextBlock>> => StoreType'
  BY <1>0 DEF StoreType
<1>2. UNCHANGED mapping => MappingType'
  BY <1>0 DEF MappingType
<1>3. UNCHANGED registry => RegistryType'
  BY <1>0 DEF RegistryType
<1>4. UNCHANGED job \/ job' = Idle => JobType'
  BY <1>0 DEF JobType
<1>5. CASE CreateLevel
  BY <1>5, <1>1, <1>2, <1>4, OpenLevelType DEF CreateLevel
<1>6. ASSUME NEW d \in Batches, CreateBlock(d)
      PROVE  StoreType' /\ MappingType' /\ RegistryType' /\ JobType'
  <2>1. d \in Datasets
    BY EngineAssumption
  <2>2. JobType'
    BY <1>6, <1>4 DEF CreateBlock
  <2>3. CASE nextBlock' = nextBlock + 1 /\ UNCHANGED <<store, mapping, registry>>
    BY <2>2, <2>3, <1>0, <1>2, <1>3 DEF StoreType
  <2>4. CASE CreateBlockAlone(d)
    BY <2>1, <2>2, <2>4, <1>3, StoreNextType, AssignNextType DEF CreateBlockAlone
  <2>5. CASE CreateBlockCollides(d)
    BY <2>1, <2>2, <2>5, <1>2, <1>3, StoreNextType DEF CreateBlockCollides
  <2>6. ASSUME NEW l, CreateBlockInLevel(l, d)
        PROVE  StoreType' /\ MappingType' /\ RegistryType'
    <3>1. nextBlock \in Nat
      BY DEF TypeOK
    <3> QED
      BY <3>1, <2>1, <2>6, StoreNextType, AssignNextType, AttachType DEF CreateBlockInLevel
  <2>7. CASE CreateBlockTorn(d)
    BY <2>1, <2>2, <2>7, CutType DEF CreateBlockCut
  <2> QED
    BY <1>6, <2>2, <2>3, <2>4, <2>5, <2>6, <2>7 DEF CreateBlock
<1>7. ASSUME NEW d \in Batches, StartBuild(d)
      PROVE  StoreType' /\ MappingType' /\ RegistryType' /\ JobType'
  <2>1. job' \in Builds
    BY <1>7, EngineAssumption DEF StartBuild, Building, Builds, TypeOK
  <2> QED
    BY <1>7, <2>1, <1>1, <1>2, OpenLevelType DEF StartBuild, JobType
<1>8. ASSUME NEW l \in DOMAIN levels, NEW b \in 0..nextBlock - 1, AttachBlock(l, b)
      PROVE  StoreType' /\ MappingType' /\ RegistryType' /\ JobType'
  <2>1. b \in Nat
    BY DEF TypeOK
  <2> QED
    BY <1>8, <2>1, <1>1, <1>2, <1>4, AttachType DEF AttachBlock
<1>9. ASSUME NEW b \in DOMAIN l2p, NEW s \in 0..MaxSlot, RelocateBlock(b, s)
      PROVE  StoreType' /\ MappingType' /\ RegistryType' /\ JobType'
  <2>1. b \in Nat /\ s \in Nat /\ slots[l2p[b]] \in Blocks
    BY <1>9, EngineAssumption DEF RelocateBlock, Readable, TypeOK
  <2>2. DOMAIN slots' \subseteq Nat /\ slots' \in [DOMAIN slots' -> Blocks]
    <3> DEFINE d == Drop(slots, {l2p[b]})
    <3> HIDE DEF Blocks
    <3>1. DOMAIN d \subseteq Nat /\ d \in [DOMAIN d -> Blocks]
      BY DropType DEF TypeOK
    <3>2. slots' = Put(d, s, slots[l2p[b]])
      BY <1>9 DEF RelocateBlock
    <3> HIDE DEF d
    <3> QED
      BY <2>1, <3>1, <3>2, PutType
  <2>3. MappingType'
    <3> DEFINE d == Drop(p2l, {l2p[b]})
    <3>1. DOMAIN d \subseteq Nat /\ d \in [DOMAIN d -> Nat]
      BY DropType DEF TypeOK
    <3>2. p2l' = Put(d, s, b) /\ l2p' = [l2p EXCEPT ![b] = s]
      BY <1>9 DEF RelocateBlock, Move
    <3> HIDE DEF d
    <3>3. DOMAIN p2l' \subseteq Nat /\ p2l' \in [DOMAIN p2l' -> Nat]
      BY <2>1, <3>1, <3>2, PutType
    <3> QED
      BY <2>1, <3>2, <3>3 DEF MappingType, TypeOK
  <2> QED
    BY <1>9, <2>2, <2>3, <1>0, <1>3, <1>4 DEF RelocateBlock, StoreType
<1>10. ASSUME NEW l \in DOMAIN levels, BuildLevelPgm(l)
       PROVE  StoreType' /\ MappingType' /\ RegistryType' /\ JobType'
  <2>1. l \in Nat
    BY DEF TypeOK
  <2> QED
    BY <1>10, <2>1, <1>1, <1>2, <1>4, IndexLevelType DEF BuildLevelPgm
<1>11. ASSUME NEW l \in DOMAIN levels, RetireLevel(l)
       PROVE  StoreType' /\ MappingType' /\ RegistryType' /\ JobType'
  <2>1. l \in Nat
    BY DEF TypeOK
  <2> QED
    BY <1>11, <2>1, <1>4, RetireType, RetireTornType DEF RetireLevel
<1>12. ASSUME NEW l \in DOMAIN levels, NEW d \in Batches, StartAppend(l, d)
       PROVE  StoreType' /\ MappingType' /\ RegistryType' /\ JobType'
  <2>1. job' \in Builds
    BY <1>12, EngineAssumption DEF StartAppend, Building, Builds, TypeOK
  <2> QED
    BY <1>12, <2>1, <1>1, <1>2, <1>3 DEF StartAppend, JobType
<1>13. ASSUME NEW newer \in DOMAIN levels, NEW older \in DOMAIN levels, StartMerge(newer, older)
       PROVE  StoreType' /\ MappingType' /\ RegistryType' /\ JobType'
  <2>1. Contents(newer) \in Datasets /\ Contents(older) \in Datasets
    BY <1>13, ContentsType DEF StartMerge
  <2>2. MergeSorted(Contents(newer), Contents(older)) \in Datasets
    BY <2>1, OverlayType DEF MergeSorted
  <2>3. job' \in Merges
    BY <1>13, <2>2 DEF StartMerge, Merges, TypeOK
  <2> QED
    BY <1>13, <2>3, <1>1, <1>2, OpenLevelType DEF StartMerge, JobType
<1>14. CASE PlaceBlock
  <2>1. nextBlock \in Nat /\ Chunk(job.data, job.placed) \in Datasets
    BY <1>14, PlacedType DEF PlaceBlock, TypeOK
  <2>2. JobType'
    <3>1. job \in Builds \/ job \in Merges
      BY <1>14, JobFields DEF PlaceBlock, Placing
    <3>2. job' = [job EXCEPT !.placed = @ + 1]
      BY <1>14 DEF PlaceBlock
    <3> QED
      BY <3>1, <3>2 DEF Builds, Merges, JobType
  <2> QED
    BY <1>14, <2>1, <2>2, StoreNextType, AssignNextType, AttachType
       DEF PlaceBlock, CreateBlockInLevel
<1>15. CASE FinishBuild
  BY <1>15, <1>1, <1>2, <1>3, <1>4 DEF FinishBuild
<1>16. CASE AbortBuild
  <2>1. JobType'
    BY <1>16, <1>4 DEF AbortBuild
  <2>2. CASE UNCHANGED <<store, mapping, registry, nextBlock>>
    BY <2>1, <2>2, <1>1, <1>2, <1>3
  <2>3. CASE Placing /\ CreateBlockCollides(Chunk(job.data, job.placed))
    BY <2>1, <2>3, <1>2, <1>3, PlacedType, StoreNextType DEF CreateBlockCollides
  <2>4. CASE Placing /\ CreateBlockCut(Chunk(job.data, job.placed))
    BY <2>1, <2>4, PlacedType, CutType
  <2> QED
    BY <1>16, <2>2, <2>3, <2>4 DEF AbortBuild
<1>17. CASE IndexOutput
  <2>1. job \in Merges /\ job' = [job EXCEPT !.call = "retire_newer"] /\ job.out \in Nat
    BY <1>17, JobFields DEF IndexOutput
  <2>2. JobType'
    BY <2>1 DEF Merges, JobType
  <2> QED
    BY <1>17, <2>1, <2>2, <1>1, <1>2, IndexLevelType DEF IndexOutput
<1>18. CASE RetireNewer
  <2>1. job \in Merges /\ job' = [job EXCEPT !.call = "retire_older"]
    BY <1>18, JobFields DEF RetireNewer
  <2>2. JobType' /\ job.newer \in Nat
    BY <2>1 DEF Merges, JobType
  <2> QED
    BY <1>18, <2>2, RetireType DEF RetireNewer
<1>19. CASE RetireOlder
  <2>1. job \in Merges
    BY <1>19, JobFields DEF RetireOlder
  <2>2. job.older \in Nat
    BY <2>1 DEF Merges
  <2> QED
    BY <1>19, <2>2, <1>4, RetireType, RetireTornType DEF RetireOlder
<1>20. CASE FailPlacing
  <2>1. job \in Merges /\ job' = [job EXCEPT !.call = "discard"]
    BY <1>20, JobFields DEF FailPlacing
  <2>2. JobType'
    BY <2>1 DEF Merges, JobType
  <2> QED
    BY <1>20, <2>2, <1>2, <1>3, PlacedType, StoreNextType, CutType
       DEF FailPlacing, CreateBlockCollides
<1>21. CASE DiscardOutput
  <2>1. job \in Merges
    BY <1>21, JobFields DEF DiscardOutput
  <2>2. job.out \in Nat
    BY <2>1 DEF Merges
  <2> QED
    BY <1>21, <2>2, <1>4, RetireType DEF DiscardOutput, DropOutput
<1>22. CASE UNCHANGED vars
  BY <1>22, <1>1, <1>2, <1>3, <1>4 DEF vars
<1> QED
  BY <1>5, <1>6, <1>7, <1>8, <1>9, <1>10, <1>11, <1>12, <1>13, <1>14, <1>15, <1>16,
     <1>17, <1>18, <1>19, <1>20, <1>21, <1>22 DEF Next, Client, Run

LEMMA InitType == Init => TypeOK
BY DEF Init, TypeOK, EmptyDict

\* Every variable has its type in every reachable state: in particular, what
\* is stored, merged and indexed is made of the client's keys and values.
THEOREM TypesAlwaysHold == Spec => []TypeOK
<1>1. TypeOK /\ [Next]_vars => TypeOK'
  BY StepType
<1> QED
  BY InitType, <1>1, PTL DEF Spec

-----------------------------------------------------------------------------
(* The effect of a step on blocks and slots. *)

Unchanged == UNCHANGED <<store, mapping, nextBlock>>

\* create_block has refused its records: only the id is spent.
Spent == nextBlock' = nextBlock + 1 /\ UNCHANGED <<store, mapping>>

Created == \E recs : ~Collides /\ StoreNext(recs) /\ AssignNext

\* The slot has been written, and then assign has raised or been cut off.
Written ==
  /\ Collides \/ "inside" \in Faults
  /\ \E recs : StoreNext(recs)
  /\ UNCHANGED mapping

Relocated ==
  \E b \in DOMAIN l2p, s \in Nat :
    /\ RelocateAhead \/ s < nextSlot
    /\ Readable(b) /\ slots[l2p[b]].id = b
    /\ s \notin DOMAIN p2l /\ s \notin DOMAIN slots
    /\ slots' = Put(Drop(slots, {l2p[b]}), s, slots[l2p[b]])
    /\ Move(b, s)
    /\ UNCHANGED <<nextSlot, nextBlock>>

Removed ==
  \E B \in SUBSET DOMAIN l2p :
    /\ Clear(SlotsOf(B)) /\ Unassign(B)
    /\ UNCHANGED <<nextSlot, nextBlock>>

StoreEffect == Unchanged \/ Spent \/ Created \/ Written \/ Relocated \/ Removed

-----------------------------------------------------------------------------
(* Every step has one of these effects. *)

LEMMA RetireEffect ==
  ASSUME NEW l, Retire(l)
  PROVE  Removed
<1>1. BlocksOf(l) \in SUBSET DOMAIN l2p
  BY DEF Retire, LevelReadable, Readable
<1> QED
  BY <1>1 DEF Retire, Removed

LEMMA RetireTornEffect ==
  ASSUME NEW l, RetireTorn(l)
  PROVE  Removed
<1>1. PICK n \in DOMAIN levels[l] :
        LET before == {levels[l][m] : m \in 1..n - 1}
        IN  /\ \A b \in before : Readable(b)
            /\ Clear(SlotsOf(before)) /\ Unassign(before)
  BY DEF RetireTorn
<1> DEFINE before == {levels[l][m] : m \in 1..n - 1}
<1>2. before \in SUBSET DOMAIN l2p
  BY <1>1 DEF Readable
<1>3. UNCHANGED <<nextSlot, nextBlock>>
  BY DEF RetireTorn
<1> QED
  BY <1>1, <1>2, <1>3 DEF Removed

LEMMA RelocateEffect ==
  ASSUME NEW b \in DOMAIN l2p, NEW s \in 0..MaxSlot, RelocateBlock(b, s)
  PROVE  Relocated
BY EngineAssumption DEF RelocateBlock, Relocated

\* The effect of the engine's steps on blocks and slots.
LEMMA StepEffect == [Next]_vars => StoreEffect
<1> USE DEF store, mapping, registry
<1>1. ASSUME Client
      PROVE  StoreEffect
  <2>1. CASE CreateLevel
    BY <2>1 DEF CreateLevel, StoreEffect, Unchanged
  <2>2. ASSUME NEW d \in Batches, CreateBlock(d)
        PROVE  StoreEffect
    BY <2>2 DEF CreateBlock, CreateBlockAlone, CreateBlockTorn, CreateBlockCollides, CreateBlockInLevel,
                StoreEffect, Spent, Created, Written
  <2>3. ASSUME NEW d \in Batches, StartBuild(d)
        PROVE  StoreEffect
    BY <2>3 DEF StartBuild, StoreEffect, Unchanged
  <2>4. ASSUME NEW l, NEW b, AttachBlock(l, b)
        PROVE  StoreEffect
    BY <2>4 DEF AttachBlock, StoreEffect, Unchanged
  <2>5. ASSUME NEW b \in DOMAIN l2p, NEW s \in 0..MaxSlot, RelocateBlock(b, s)
        PROVE  StoreEffect
    BY <2>5, RelocateEffect DEF StoreEffect
  <2>6. ASSUME NEW l, BuildLevelPgm(l)
        PROVE  StoreEffect
    BY <2>6 DEF BuildLevelPgm, StoreEffect, Unchanged
  <2>7. ASSUME NEW l, RetireLevel(l)
        PROVE  StoreEffect
    BY <2>7, RetireEffect, RetireTornEffect DEF RetireLevel, StoreEffect
  <2>8. ASSUME NEW l, NEW d, StartAppend(l, d)
        PROVE  StoreEffect
    BY <2>8 DEF StartAppend, StoreEffect, Unchanged
  <2>9. ASSUME NEW newer, NEW older, StartMerge(newer, older)
        PROVE  StoreEffect
    BY <2>9 DEF StartMerge, StoreEffect, Unchanged
  <2> QED
    BY <1>1, <2>1, <2>2, <2>3, <2>4, <2>5, <2>6, <2>7, <2>8, <2>9 DEF Client
<1>2. ASSUME Run
      PROVE  StoreEffect
  <2>1. CASE PlaceBlock
    BY <2>1 DEF PlaceBlock, CreateBlockInLevel, StoreEffect, Created
  <2>2. CASE FinishBuild
    BY <2>2 DEF FinishBuild, StoreEffect, Unchanged
  <2>3. CASE AbortBuild
    BY <2>3 DEF AbortBuild, CreateBlockCollides, CreateBlockCut,
     CreateBlockTorn, CreateBlockAlone, StoreEffect, Written, Created, Unchanged
  <2>4. CASE IndexOutput
    BY <2>4 DEF IndexOutput, StoreEffect, Unchanged
  <2>5. CASE RetireNewer
    BY <2>5, RetireEffect DEF RetireNewer, StoreEffect
  <2>6. CASE RetireOlder
    BY <2>6, RetireEffect, RetireTornEffect DEF RetireOlder, StoreEffect
  <2>7. CASE FailPlacing
    BY <2>7 DEF FailPlacing, CreateBlockCollides, CreateBlockCut,
     CreateBlockTorn, CreateBlockAlone, StoreEffect, Written, Created
  <2>8. CASE DiscardOutput
    BY <2>8, RetireEffect DEF DiscardOutput, DropOutput, StoreEffect
  <2> QED
    BY <1>2, <2>1, <2>2, <2>3, <2>4, <2>5, <2>6, <2>7, <2>8 DEF Run
<1>3. CASE UNCHANGED vars
  BY <1>3 DEF vars, StoreEffect, Unchanged
<1> QED
  BY <1>1, <1>2, <1>3 DEF Next

-----------------------------------------------------------------------------
(* The mapping is a bijection, whatever the client does.                    *)
(*                                                                         *)
(* MappingBijective alone is not inductive: a block id that is mapped and   *)
(* then handed out again would be mapped to two slots.                      *)

IdsBelow == nextBlock \in Nat /\ \A b \in DOMAIN l2p : b \in Nat /\ b < nextBlock

MappingInv == IdsBelow /\ MappingBijective

LEMMA MappingInit == Init => MappingInv
BY DEF Init, MappingInv, IdsBelow, MappingBijective, EmptyDict

LEMMA CreatedKeepsBijection == MappingInv /\ Created => MappingInv'
<1> SUFFICES ASSUME MappingInv, Created
             PROVE  MappingInv'
  OBVIOUS
<1>1. /\ nextBlock' = nextBlock + 1
      /\ l2p' = Put(l2p, nextBlock, nextSlot)
      /\ p2l' = Put(p2l, nextSlot, nextBlock)
      /\ nextSlot \notin DOMAIN p2l
  BY DEF Created, StoreNext, AssignNext, Collides
<1>2. nextBlock \notin DOMAIN l2p
  BY DEF MappingInv, IdsBelow
<1>3. IdsBelow'
  BY <1>1 DEF MappingInv, IdsBelow, Put
<1>4. MappingBijective'
  BY <1>1, <1>2 DEF MappingInv, MappingBijective, Put
<1> QED
  BY <1>3, <1>4 DEF MappingInv

LEMMA RelocatedKeepsBijection == MappingInv /\ Relocated => MappingInv'
<1> SUFFICES ASSUME MappingInv, Relocated
             PROVE  MappingInv'
  OBVIOUS
<1>1. PICK b \in DOMAIN l2p, s \in Nat :
        /\ s \notin DOMAIN p2l
        /\ p2l' = Put(Drop(p2l, {l2p[b]}), s, b)
        /\ l2p' = [l2p EXCEPT ![b] = s]
        /\ nextBlock' = nextBlock
  BY DEF Relocated, Move
<1>2. IdsBelow'
  BY <1>1 DEF MappingInv, IdsBelow
<1>3. MappingBijective'
  BY <1>1 DEF MappingInv, MappingBijective, Put, Drop
<1> QED
  BY <1>2, <1>3 DEF MappingInv

LEMMA RemovedKeepsBijection == MappingInv /\ Removed => MappingInv'
<1> SUFFICES ASSUME MappingInv, Removed
             PROVE  MappingInv'
  OBVIOUS
<1>1. PICK B \in SUBSET DOMAIN l2p :
        /\ l2p' = Drop(l2p, B) /\ p2l' = Drop(p2l, {l2p[b] : b \in B})
        /\ nextBlock' = nextBlock
  BY DEF Removed, Unassign
<1>2. IdsBelow'
  BY <1>1 DEF MappingInv, IdsBelow, Drop
<1>3. MappingBijective'
  BY <1>1 DEF MappingInv, MappingBijective, Drop
<1> QED
  BY <1>2, <1>3 DEF MappingInv

LEMMA MappingStep == MappingInv /\ StoreEffect => MappingInv'
<1> SUFFICES ASSUME MappingInv, StoreEffect
             PROVE  MappingInv'
  OBVIOUS
<1>1. CASE Unchanged
  BY <1>1 DEF Unchanged, mapping, MappingInv, IdsBelow, MappingBijective
<1>2. CASE Spent
  BY <1>2 DEF Spent, mapping, MappingInv, IdsBelow, MappingBijective
<1>3. CASE Written
  BY <1>3 DEF Written, StoreNext, mapping, MappingInv, IdsBelow, MappingBijective
<1> QED
  BY <1>1, <1>2, <1>3, CreatedKeepsBijection, RelocatedKeepsBijection,
     RemovedKeepsBijection DEF StoreEffect

LEMMA MappingInvariant == Spec => []MappingInv
<1>1. MappingInv /\ [Next]_vars => MappingInv'
  BY MappingStep, StepEffect
<1> QED
  BY MappingInit, <1>1, PTL DEF Spec

\* The two dictionaries of LogicalPhysicalMapping are each other's inverse
\* after every step, interrupted, colliding and half-retired ones included, for
\* the client that shares blocks and relocates anywhere too.
THEOREM MappingAlwaysBijective == Spec => []MappingBijective
<1>1. MappingInv => MappingBijective
  BY DEF MappingInv
<1> QED
  BY MappingInvariant, <1>1, PTL

-----------------------------------------------------------------------------
(* Occupied slots.                                                        *)

\* Every mapped block's slot holds a block.
Housed == \A b \in DOMAIN l2p : l2p[b] \in DOMAIN slots

LEMMA HousedInit == Init => Housed
BY DEF Init, Housed, EmptyDict

LEMMA HousedStep == MappingInv /\ Housed /\ StoreEffect => Housed'
<1> SUFFICES ASSUME MappingInv, Housed, StoreEffect
             PROVE  Housed'
  OBVIOUS
<1>1. CASE Unchanged
  BY <1>1 DEF Unchanged, store, mapping, Housed
<1>2. CASE Spent
  BY <1>2 DEF Spent, store, mapping, Housed
<1>3. CASE Created
  BY <1>3 DEF Created, StoreNext, AssignNext, Housed, Put
<1>4. CASE Written
  BY <1>4 DEF Written, StoreNext, mapping, Housed, Put
<1>5. CASE Relocated
  <2>1. PICK b \in DOMAIN l2p, s \in Nat :
          /\ slots' = Put(Drop(slots, {l2p[b]}), s, slots[l2p[b]])
          /\ l2p' = [l2p EXCEPT ![b] = s]
    BY <1>5 DEF Relocated, Move
  <2>2. \A c \in DOMAIN l2p : c # b => l2p[c] # l2p[b]
    BY DEF MappingInv, MappingBijective
  <2> QED
    BY <2>1, <2>2 DEF Housed, Put, Drop
<1>6. CASE Removed
  <2>1. PICK B \in SUBSET DOMAIN l2p :
          /\ l2p' = Drop(l2p, B) /\ slots' = Drop(slots, {l2p[b] : b \in B})
    BY <1>6 DEF Removed, Clear, SlotsOf, Unassign
  <2>2. \A c \in DOMAIN l2p, b \in B : c \notin B => l2p[c] # l2p[b]
    BY DEF MappingInv, MappingBijective
  <2> QED
    BY <2>1, <2>2 DEF Housed, Drop
<1> QED
  BY <1>1, <1>2, <1>3, <1>4, <1>5, <1>6 DEF StoreEffect

-----------------------------------------------------------------------------
(* Without relocation ahead of the allocator, no block is overwritten.      *)

SlotsBelow == nextSlot \in Nat /\ \A s \in DOMAIN slots : s \in Nat /\ s < nextSlot

IntactInv == MappingInv /\ SlotsBelow /\ BlocksIntact

LEMMA NoCollision == IntactInv => ~Collides
<1> SUFFICES ASSUME IntactInv, nextSlot \in DOMAIN p2l
             PROVE  FALSE
  BY DEF Collides
<1>1. p2l[nextSlot] \in DOMAIN l2p /\ l2p[p2l[nextSlot]] = nextSlot
  BY DEF IntactInv, MappingInv, MappingBijective
<1>2. nextSlot \in DOMAIN slots
  BY <1>1 DEF IntactInv, BlocksIntact, Readable
<1> QED
  BY <1>2 DEF IntactInv, SlotsBelow

LEMMA IntactStep ==
  ASSUME ~RelocateAhead, IntactInv, StoreEffect
  PROVE  IntactInv'
<1>1. MappingInv'
  BY MappingStep DEF IntactInv
<1> USE DEF IntactInv, SlotsBelow, BlocksIntact, Readable
<1>2. CASE Unchanged
  BY <1>1, <1>2 DEF Unchanged, store, mapping
<1>3. CASE Spent
  BY <1>1, <1>3 DEF Spent, store, mapping
<1>4. CASE Created
  <2>1. PICK recs :
          /\ slots' = Put(slots, nextSlot, [id |-> nextBlock, recs |-> recs])
          /\ nextSlot' = nextSlot + 1
          /\ l2p' = Put(l2p, nextBlock, nextSlot)
    BY <1>4 DEF Created, StoreNext, AssignNext
  <2>2. nextBlock \notin DOMAIN l2p
    BY DEF MappingInv, IdsBelow
  <2> QED
    BY <1>1, <2>1, <2>2 DEF Put
<1>5. CASE Written
  <2>1. PICK recs :
          /\ slots' = Put(slots, nextSlot, [id |-> nextBlock, recs |-> recs])
          /\ nextSlot' = nextSlot + 1
          /\ l2p' = l2p
    BY <1>5 DEF Written, StoreNext, mapping
  <2>2. \A b \in DOMAIN l2p : l2p[b] # nextSlot
    OBVIOUS
  <2> QED
    BY <1>1, <2>1, <2>2 DEF Put
<1>6. CASE Relocated
  <2>1. PICK b \in DOMAIN l2p, s \in Nat :
          /\ s < nextSlot
          /\ slots[l2p[b]].id = b
          /\ s \notin DOMAIN slots
          /\ slots' = Put(Drop(slots, {l2p[b]}), s, slots[l2p[b]])
          /\ l2p' = [l2p EXCEPT ![b] = s]
          /\ nextSlot' = nextSlot
    BY <1>6 DEF Relocated, Move
  <2>2. \A c \in DOMAIN l2p : c # b => l2p[c] # l2p[b]
    BY DEF MappingInv, MappingBijective
  <2> QED
    BY <1>1, <2>1, <2>2 DEF Put, Drop
<1>7. CASE Removed
  <2>1. PICK B \in SUBSET DOMAIN l2p :
          /\ l2p' = Drop(l2p, B) /\ slots' = Drop(slots, {l2p[b] : b \in B})
          /\ nextSlot' = nextSlot
    BY <1>7 DEF Removed, Clear, SlotsOf, Unassign
  <2>2. \A c \in DOMAIN l2p, b \in B : c \notin B => l2p[c] # l2p[b]
    BY DEF MappingInv, MappingBijective
  <2> QED
    BY <1>1, <2>1, <2>2 DEF Drop
<1> QED
  BY <1>2, <1>3, <1>4, <1>5, <1>6, <1>7 DEF StoreEffect

\* The inductive form: mapped slots lie below the allocator, and hold their
\* blocks.
LEMMA IntactInvariant ==
  ASSUME ~RelocateAhead
  PROVE  Spec => []IntactInv
<1>1. Init => IntactInv
  BY MappingInit DEF Init, IntactInv, SlotsBelow, BlocksIntact, EmptyDict
<1>2. IntactInv /\ [Next]_vars => IntactInv'
  BY IntactStep, StepEffect
<1> QED
  BY <1>1, <1>2, PTL DEF Spec

\* Every mapped block's one copy is in the slot it is mapped to, provided that
\* blocks are relocated only to slots the allocator has already handed out: the
\* run that drops the proviso finds a block overwritten.
THEOREM BlocksAlwaysIntact ==
  ASSUME ~RelocateAhead
  PROVE  Spec => []BlocksIntact
<1>1. IntactInv => BlocksIntact
  BY DEF IntactInv
<1> QED
  BY IntactInvariant, <1>1, PTL

-----------------------------------------------------------------------------
(* Nothing but an exception inside create_block leaves a copy behind.       *)

LEMMA OrphanStep ==
  ASSUME "inside" \notin Faults, NoOrphanSlot, StoreEffect
  PROVE  NoOrphanSlot'
<1> USE DEF NoOrphanSlot
<1>1. CASE Unchanged
  BY <1>1 DEF Unchanged, store, mapping
<1>2. CASE Spent
  BY <1>2 DEF Spent, store, mapping
<1>3. CASE Created
  BY <1>3 DEF Created, StoreNext, AssignNext, Put
<1>4. CASE Written
  BY <1>4 DEF Written, Collides, StoreNext, mapping, Put
<1>5. CASE Relocated
  BY <1>5 DEF Relocated, Move, Put, Drop
<1>6. CASE Removed
  BY <1>6 DEF Removed, Clear, SlotsOf, Unassign, Drop
<1> QED
  BY <1>1, <1>2, <1>3, <1>4, <1>5, <1>6 DEF StoreEffect

\* The occupied slots are exactly owned by mapped blocks unless an exception
\* strikes between the write and the assignment of create_block: retirements
\* and discarded merges give back every slot, colliding creations included.
THEOREM NoSlotIsOrphaned ==
  ASSUME "inside" \notin Faults
  PROVE  Spec => []NoOrphanSlot
<1>1. Init => NoOrphanSlot
  BY DEF Init, NoOrphanSlot, EmptyDict
<1>2. NoOrphanSlot /\ [Next]_vars => NoOrphanSlot'
  BY OrphanStep, StepEffect
<1> QED
  BY <1>1, <1>2, PTL DEF Spec

-----------------------------------------------------------------------------
(* A block keeps its records.                                               *)

LEMMA ImmutableStep ==
  ASSUME ~RelocateAhead, IntactInv, StoreEffect,
         NEW c \in DOMAIN l2p \cap DOMAIN l2p'
  PROVE  Readable(c)' /\ ReadBlock(c)' = ReadBlock(c)
<1> USE DEF IntactInv, SlotsBelow, BlocksIntact, Readable, ReadBlock
<1>1. CASE Unchanged \/ Spent
  BY <1>1 DEF Unchanged, Spent, store, mapping
<1>2. CASE Created
  <2>1. PICK recs :
          /\ slots' = Put(slots, nextSlot, [id |-> nextBlock, recs |-> recs])
          /\ l2p' = Put(l2p, nextBlock, nextSlot)
    BY <1>2 DEF Created, StoreNext, AssignNext
  <2>2. c # nextBlock
    BY DEF MappingInv, IdsBelow
  <2> QED
    BY <2>1, <2>2 DEF Put
<1>3. CASE Written
  <2>1. PICK recs : slots' = Put(slots, nextSlot, [id |-> nextBlock, recs |-> recs])
    BY <1>3 DEF Written, StoreNext
  <2>2. l2p' = l2p
    BY <1>3 DEF Written, mapping
  <2> QED
    BY <2>1, <2>2 DEF Put
<1>4. CASE Relocated
  <2>1. PICK b \in DOMAIN l2p, s \in Nat :
          /\ s \notin DOMAIN slots
          /\ slots' = Put(Drop(slots, {l2p[b]}), s, slots[l2p[b]])
          /\ l2p' = [l2p EXCEPT ![b] = s]
    BY <1>4 DEF Relocated, Move
  <2>2. c # b => l2p[c] # l2p[b]
    BY DEF MappingInv, MappingBijective
  <2> QED
    BY <2>1, <2>2 DEF Put, Drop
<1>5. CASE Removed
  <2>1. PICK B \in SUBSET DOMAIN l2p :
          /\ l2p' = Drop(l2p, B) /\ slots' = Drop(slots, {l2p[b] : b \in B})
    BY <1>5 DEF Removed, Clear, SlotsOf, Unassign
  <2>2. c \notin B /\ l2p'[c] = l2p[c]
    BY <2>1 DEF Drop
  <2>3. \A b \in B : l2p[c] # l2p[b]
    BY <2>2 DEF MappingInv, MappingBijective
  <2> QED
    BY <2>1, <2>2, <2>3 DEF Drop
<1> QED
  BY <1>1, <1>2, <1>3, <1>4, <1>5 DEF StoreEffect

\* No step changes the records of a block that stays mapped, as long as blocks
\* are not relocated ahead of the allocator.
THEOREM BlocksNeverChange ==
  ASSUME ~RelocateAhead
  PROVE  Spec => BlocksImmutable
<1>1. IntactInv /\ [Next]_vars =>
        [\A b \in DOMAIN l2p \cap DOMAIN l2p' :
           Readable(b) => Readable(b)' /\ ReadBlock(b)' = ReadBlock(b)]_vars
  BY ImmutableStep, StepEffect
<1> QED
  BY IntactInvariant, <1>1, PTL DEF Spec, BlocksImmutable

-----------------------------------------------------------------------------
(* The levels.  A call in progress keeps the levels it works on, because no *)
(* other call starts before it ends.                                        *)

JobLevels ==
  /\ job \in Builds => job.out \in DOMAIN levels
  /\ job \in Merges =>
       /\ job.newer # job.older /\ job.older \in DOMAIN levels
       /\ job.call \in {"merge", "discard"} =>
            job.out \in DOMAIN levels /\ job.out \notin {job.newer, job.older}
       /\ job.call \in {"merge", "discard", "retire_newer"} => job.newer \in DOMAIN levels

IdsInv ==
  /\ \A l \in DOMAIN levels \cup retired : l < nextLevel
  /\ retired \cap DOMAIN levels = {}

Registered == TypeOK /\ JobLevels /\ IdsInv

\* The four ways a step changes the registry of levels.
Kept == UNCHANGED <<levels, retired, nextLevel>>
Opened == OpenLevel
Grown == \E l \in DOMAIN levels : \E b : Attach(l, b)
Closed == \E l \in DOMAIN levels : Retire(l)

LevelEffect == Kept \/ Opened \/ Grown \/ Closed

LEMMA StepLevels ==
  ASSUME TypeOK, JobLevels, [Next]_vars
  PROVE  LevelEffect
<1> USE DEF registry, LevelEffect, Kept, Opened, Grown, Closed
<1>1. CASE CreateLevel
  BY <1>1 DEF CreateLevel
<1>2. ASSUME NEW d, CreateBlock(d)
      PROVE  LevelEffect
  BY <1>2 DEF CreateBlock, CreateBlockAlone, CreateBlockTorn, CreateBlockCollides, CreateBlockInLevel
<1>3. ASSUME NEW d, StartBuild(d)
      PROVE  LevelEffect
  BY <1>3 DEF StartBuild
<1>4. ASSUME NEW l, NEW b, AttachBlock(l, b)
      PROVE  LevelEffect
  BY <1>4 DEF AttachBlock
<1>5. ASSUME NEW b, NEW s, RelocateBlock(b, s)
      PROVE  LevelEffect
  BY <1>5 DEF RelocateBlock
<1>6. ASSUME NEW l, BuildLevelPgm(l) \/ RetireLevel(l)
      PROVE  LevelEffect
  BY <1>6 DEF BuildLevelPgm, IndexLevel, RetireLevel, RetireTorn
<1>7. ASSUME NEW l, NEW d, StartAppend(l, d)
      PROVE  LevelEffect
  BY <1>7 DEF StartAppend
<1>8. ASSUME NEW newer, NEW older, StartMerge(newer, older)
      PROVE  LevelEffect
  BY <1>8 DEF StartMerge
<1>9. CASE PlaceBlock
  <2>1. job.out \in DOMAIN levels
    BY <1>9, JobFields DEF PlaceBlock, Placing, JobLevels
  <2> QED
    BY <1>9, <2>1 DEF PlaceBlock, CreateBlockInLevel
<1>10. CASE FinishBuild
  BY <1>10 DEF FinishBuild
<1>11. CASE AbortBuild
  BY <1>11 DEF AbortBuild, CreateBlockCollides, CreateBlockCut,
     CreateBlockTorn, CreateBlockAlone
<1>12. CASE IndexOutput
  BY <1>12 DEF IndexOutput, IndexLevel
<1>13. CASE RetireNewer
  BY <1>13, JobFields DEF RetireNewer, JobLevels
<1>14. CASE RetireOlder
  BY <1>14, JobFields DEF RetireOlder, RetireTorn, JobLevels
<1>15. CASE FailPlacing
  BY <1>15 DEF FailPlacing, CreateBlockCollides, CreateBlockCut,
     CreateBlockTorn, CreateBlockAlone
<1>16. CASE DiscardOutput
  BY <1>16, JobFields DEF DiscardOutput, DropOutput, JobLevels
<1>17. CASE UNCHANGED vars
  BY <1>17 DEF vars
<1> QED
  BY <1>1, <1>2, <1>3, <1>4, <1>5, <1>6, <1>7, <1>8, <1>9, <1>10, <1>11, <1>12, <1>13,
     <1>14, <1>15, <1>16, <1>17 DEF Next, Client, Run

LEMMA IdsStep ==
  ASSUME TypeOK, IdsInv, LevelEffect
  PROVE  /\ IdsInv' /\ retired \subseteq retired'
         /\ \A l \in DOMAIN levels' \ DOMAIN levels : l >= nextLevel
<1> USE DEF TypeOK, IdsInv
<1>1. CASE Kept
  BY <1>1 DEF Kept
<1>2. CASE Opened
  BY <1>2 DEF Opened, OpenLevel, Put
<1>3. CASE Grown
  BY <1>3 DEF Grown, Attach
<1>4. CASE Closed
  BY <1>4 DEF Closed, Retire, Deregister, Drop
<1> QED
  BY <1>1, <1>2, <1>3, <1>4 DEF LevelEffect

LEMMA IdleHasNoLevels ==
  ASSUME job = Idle
  PROVE  JobLevels /\ job \notin Builds /\ job \notin Merges
BY DEF Idle, Builds, Merges, JobLevels

LEMMA JobLevelsStep ==
  ASSUME Registered, [Next]_vars
  PROVE  JobLevels'
<1> USE DEF Registered
<1>1. ASSUME job' = Idle
      PROVE  JobLevels'
  BY <1>1 DEF Idle, Builds, Merges, JobLevels
<1>2. ASSUME job = Idle, job' = job
      PROVE  JobLevels'
  BY <1>1, <1>2
<1>3. CASE CreateLevel
  BY <1>2, <1>3 DEF CreateLevel, Ready
<1>4. ASSUME NEW d, CreateBlock(d)
      PROVE  JobLevels'
  BY <1>2, <1>4 DEF CreateBlock, Ready
<1>5. ASSUME NEW d, StartBuild(d)
      PROVE  JobLevels'
  <2>1. job' = Building(nextLevel, d) /\ nextLevel \in DOMAIN levels'
    BY <1>5 DEF StartBuild, OpenLevel, Put
  <2> QED
    BY <2>1 DEF Building, Merges, JobLevels
<1>6. ASSUME NEW l, NEW b, AttachBlock(l, b)
      PROVE  JobLevels'
  BY <1>2, <1>6 DEF AttachBlock, Ready
<1>7. ASSUME NEW b, NEW s, RelocateBlock(b, s)
      PROVE  JobLevels'
  BY <1>2, <1>7 DEF RelocateBlock, Ready
<1>8. ASSUME NEW l, BuildLevelPgm(l) \/ RetireLevel(l)
      PROVE  JobLevels'
  BY <1>2, <1>8 DEF BuildLevelPgm, RetireLevel, Ready
<1>9. ASSUME NEW l \in DOMAIN levels, NEW d, StartAppend(l, d)
      PROVE  JobLevels'
  <2>1. job' = Building(l, d) /\ l \in DOMAIN levels'
    BY <1>9 DEF StartAppend, registry
  <2> QED
    BY <2>1 DEF Building, Merges, JobLevels
<1>10. ASSUME NEW newer, NEW older, StartMerge(newer, older)
       PROVE  JobLevels'
  <2>1. /\ job'.out = nextLevel /\ job'.newer = newer /\ job'.older = older
        /\ job'.call = "merge" /\ job' \notin Builds
    BY <1>10 DEF StartMerge, Builds
  <2>2. /\ newer # older /\ newer \in DOMAIN levels /\ older \in DOMAIN levels
        /\ DOMAIN levels' = DOMAIN levels \cup {nextLevel}
    BY <1>10 DEF StartMerge, OpenLevel, Put
  <2>3. nextLevel \notin DOMAIN levels
    BY DEF IdsInv, TypeOK
  <2> QED
    BY <2>1, <2>2, <2>3 DEF JobLevels
<1>11. CASE PlaceBlock
  <2>1. job \in Builds \/ job \in Merges
    BY <1>11, JobFields DEF PlaceBlock, Placing
  <2>2. job' = [job EXCEPT !.placed = @ + 1] /\ DOMAIN levels' = DOMAIN levels
    BY <1>11 DEF PlaceBlock, CreateBlockInLevel, Attach
  <2>3. CASE job \in Builds
    <3>1. job'.out = job.out /\ job' \notin Merges
      BY <2>2, <2>3 DEF Builds, Merges
    <3> QED
      BY <2>2, <2>3, <3>1 DEF JobLevels
  <2>4. CASE job \in Merges
    <3>1. /\ job'.out = job.out /\ job'.newer = job.newer /\ job'.older = job.older
          /\ job'.call = job.call /\ job' \notin Builds
      BY <2>2, <2>4 DEF Builds, Merges
    <3> QED
      BY <2>2, <2>4, <3>1 DEF JobLevels
  <2> QED
    BY <2>1, <2>3, <2>4
<1>12. CASE FinishBuild \/ AbortBuild \/ RetireOlder \/ DiscardOutput
  BY <1>1, <1>12 DEF FinishBuild, AbortBuild, RetireOlder, DiscardOutput
<1>13. CASE IndexOutput
  <2>1. job \in Merges /\ job.call = "merge" /\ levels' = levels
    BY <1>13, JobFields DEF IndexOutput, IndexLevel
  <2>2. job' = [job EXCEPT !.call = "retire_newer"]
    BY <1>13 DEF IndexOutput
  <2>3. /\ job'.newer = job.newer /\ job'.older = job.older
        /\ job'.call = "retire_newer" /\ job' \notin Builds
    BY <2>1, <2>2 DEF Builds, Merges
  <2> QED
    BY <2>1, <2>3 DEF JobLevels
<1>14. CASE RetireNewer
  <2>1. job \in Merges /\ levels' = Drop(levels, {job.newer})
    BY <1>14, JobFields DEF RetireNewer, Retire, Deregister
  <2>2. job' = [job EXCEPT !.call = "retire_older"]
    BY <1>14 DEF RetireNewer
  <2>3. /\ job'.newer = job.newer /\ job'.older = job.older
        /\ job'.call = "retire_older" /\ job' \notin Builds
    BY <2>1, <2>2 DEF Builds, Merges
  <2> QED
    BY <2>1, <2>3 DEF JobLevels, Drop
<1>15. CASE FailPlacing
  <2>1. job \in Merges /\ job.call = "merge" /\ levels' = levels
    BY <1>15, JobFields DEF FailPlacing, CreateBlockCollides, CreateBlockCut,
     CreateBlockTorn, CreateBlockAlone, registry
  <2>2. job' = [job EXCEPT !.call = "discard"]
    BY <1>15 DEF FailPlacing
  <2>3. /\ job'.out = job.out /\ job'.newer = job.newer /\ job'.older = job.older
        /\ job'.call = "discard" /\ job' \notin Builds
    BY <2>1, <2>2 DEF Builds, Merges
  <2> QED
    BY <2>1, <2>3 DEF JobLevels
<1>16. CASE UNCHANGED vars
  BY <1>16 DEF vars, JobLevels
<1> QED
  BY <1>3, <1>4, <1>5, <1>6, <1>7, <1>8, <1>9, <1>10, <1>11, <1>12, <1>13, <1>14, <1>15,
     <1>16 DEF Next, Client, Run

LEMMA RegisteredInvariant == Spec => []Registered
<1>1. Init => Registered
  <2>1. ASSUME Init
        PROVE  JobLevels /\ IdsInv
    BY <2>1, IdleHasNoLevels DEF Init, IdsInv, EmptyDict
  <2> QED
    BY <2>1, InitType DEF Registered
<1>2. Registered /\ [Next]_vars => Registered'
  BY StepType, JobLevelsStep, StepLevels, IdsStep DEF Registered
<1> QED
  BY <1>1, <1>2, PTL DEF Spec

\* A block that becomes mapped has an id no block had before.
LEMMA FreshBlocks ==
  ASSUME MappingInv, StoreEffect
  PROVE  \A b \in DOMAIN l2p' \ DOMAIN l2p : b >= nextBlock
<1>1. CASE Created
  BY <1>1 DEF Created, AssignNext, Put, MappingInv, IdsBelow
<1>2. CASE Relocated
  BY <1>2 DEF Relocated, Move
<1>3. CASE Removed
  BY <1>3 DEF Removed, Unassign, Drop
<1> QED
  BY <1>1, <1>2, <1>3 DEF StoreEffect, Unchanged, Spent, Written, mapping

\* Ids of blocks and levels are never used twice, and a retired level never
\* comes back: what an id has stood for it stands for ever.
THEOREM IdsNeverReused == Spec => IdsFresh
<1>1. Registered /\ MappingInv /\ [Next]_vars =>
        [/\ retired \subseteq retired' /\ retired' \cap DOMAIN levels' = {}
         /\ \A b \in DOMAIN l2p' \ DOMAIN l2p : b >= nextBlock
         /\ \A l \in DOMAIN levels' \ DOMAIN levels : l >= nextLevel]_vars
  <2> SUFFICES ASSUME Registered, MappingInv, [Next]_vars
               PROVE  /\ retired \subseteq retired' /\ retired' \cap DOMAIN levels' = {}
                      /\ \A b \in DOMAIN l2p' \ DOMAIN l2p : b >= nextBlock
                      /\ \A l \in DOMAIN levels' \ DOMAIN levels : l >= nextLevel
    OBVIOUS
  <2>1. \A b \in DOMAIN l2p' \ DOMAIN l2p : b >= nextBlock
    BY StepEffect, FreshBlocks
  <2>2. /\ IdsInv' /\ retired \subseteq retired'
        /\ \A l \in DOMAIN levels' \ DOMAIN levels : l >= nextLevel
    BY StepLevels, IdsStep DEF Registered
  <2> QED
    BY <2>1, <2>2 DEF IdsInv
<1> QED
  BY RegisteredInvariant, MappingInvariant, <1>1, PTL DEF Spec, IdsFresh

-----------------------------------------------------------------------------
(* A merge until it has published its output.                               *)

\* The blocks of the merge's levels are mapped, and those of its output, which
\* it has created itself, are in neither input.
MergeApart ==
  Merging =>
    /\ \A l \in {job.newer, job.older, job.out} : BlocksOf(l) \subseteq DOMAIN l2p
    /\ \A l \in {job.newer, job.older} : BlocksOf(l) \cap BlocksOf(job.out) = {}

CleanMergeInv == Registered /\ MappingInv /\ Housed /\ MergeApart

\* Three things a step of such a merge may be: a block is added to its output,
\* at most a block outside the levels is created, or the output is discarded.
SameLevels == job'.newer = job.newer /\ job'.older = job.older /\ job'.out = job.out

MergeGrown ==
  /\ levels' = [levels EXCEPT ![job.out] = Append(@, nextBlock)]
  /\ l2p' = Put(l2p, nextBlock, nextSlot)
  /\ \E block : slots' = Put(slots, nextSlot, block)
  /\ nextSlot' # nextSlot
  /\ SameLevels /\ job' # Idle

MergeKept ==
  /\ levels' = levels
  /\ DOMAIN l2p \subseteq DOMAIN l2p' /\ \A b \in DOMAIN l2p : l2p'[b] = l2p[b]
  /\ \/ UNCHANGED slots
     \/ nextSlot' # nextSlot /\ \E block : slots' = Put(slots, nextSlot, block)
  /\ SameLevels /\ job' # Idle

MergeDropped == Retire(job.out) /\ job' = Idle

LEMMA MergingFields ==
  ASSUME Registered, Merging
  PROVE  /\ job \in Merges /\ job # Idle /\ job.call \in {"merge", "discard"}
         /\ {job.newer, job.older, job.out} \subseteq DOMAIN levels
         /\ job.out \notin {job.newer, job.older}
<1>1. job \in Merges
  BY JobFields DEF Merging, Registered
<1> QED
  BY <1>1 DEF Merging, Registered, JobLevels, Idle

LEMMA MergeEffect ==
  ASSUME CleanMergeInv, Merging, [Next]_vars
  PROVE  MergeGrown \/ MergeKept \/ MergeDropped
<1> USE DEF store, mapping, registry
<1>1. /\ job \in Merges /\ job # Idle /\ job.call \in {"merge", "discard"}
      /\ nextSlot \in Nat /\ nextBlock \in Nat /\ nextBlock \notin DOMAIN l2p
  BY MergingFields DEF CleanMergeInv, Registered, TypeOK, MappingInv, IdsBelow
<1>3. ~Client
  BY <1>1 DEF Client, CreateLevel, CreateBlock, StartBuild, AttachBlock, RelocateBlock,
              BuildLevelPgm, RetireLevel, StartAppend, StartMerge, Ready
<1>4. CASE PlaceBlock
  <2>1. job' = [job EXCEPT !.placed = job.placed + 1]
    BY <1>1, <1>4 DEF PlaceBlock
  <2>2. SameLevels /\ job' # Idle
    BY <1>1, <2>1 DEF Merges, Idle, SameLevels
  <2> QED
    BY <1>1, <1>4, <2>2
       DEF PlaceBlock, CreateBlockInLevel, StoreNext, AssignNext, Attach, MergeGrown
<1>5. CASE IndexOutput
  <2>1. job' = [job EXCEPT !.call = "retire_newer"]
    BY <1>5 DEF IndexOutput
  <2>2. SameLevels /\ job' # Idle
    BY <1>1, <2>1 DEF Merges, Idle, SameLevels
  <2> QED
    BY <1>5, <2>2 DEF IndexOutput, IndexLevel, MergeKept
<1>6. CASE FailPlacing
  <2>1. job' = [job EXCEPT !.call = "discard"]
    BY <1>6 DEF FailPlacing
  <2>2. SameLevels /\ job' # Idle
    BY <1>1, <2>1 DEF Merges, Idle, SameLevels
  <2>3. PICK d : CreateBlockCollides(d) \/ CreateBlockCut(d)
    BY <1>6 DEF FailPlacing
  <2>4. /\ levels' = levels /\ nextSlot' # nextSlot
        /\ \E block : slots' = Put(slots, nextSlot, block)
        /\ l2p' = l2p \/ l2p' = Put(l2p, nextBlock, nextSlot)
    BY <1>1, <2>3 DEF CreateBlockCollides, CreateBlockCut, CreateBlockTorn, CreateBlockAlone,
                      StoreNext, AssignNext
  <2> QED
    BY <1>1, <2>2, <2>4 DEF MergeKept, Put
<1>7. CASE DiscardOutput
  BY <1>7 DEF DiscardOutput, DropOutput, MergeDropped
<1>8. CASE UNCHANGED vars
  BY <1>1, <1>8 DEF vars, MergeKept, SameLevels
<1>9. CASE FinishBuild \/ AbortBuild \/ RetireNewer \/ RetireOlder
  BY <1>1, <1>9 DEF FinishBuild, AbortBuild, RetireNewer, RetireOlder
<1> QED
  BY <1>3, <1>4, <1>5, <1>6, <1>7, <1>8, <1>9 DEF Next, Run

\* No other call is at this point of a merge, so that only its start gets there.
LEMMA MergeStarts ==
  ASSUME TypeOK, ~Merging, [Next]_vars, Merging'
  PROVE  \E newer, older \in DOMAIN levels : StartMerge(newer, older)
<1>1. job' # job /\ job' # Idle
  BY DEF Merging, Idle
<1>2. ~CreateLevel /\ ~FinishBuild /\ ~AbortBuild /\ ~RetireOlder /\ ~DiscardOutput /\ ~UNCHANGED vars
  BY <1>1 DEF CreateLevel, FinishBuild, AbortBuild, RetireOlder, DiscardOutput, vars
<1>3. \A d : ~CreateBlock(d) /\ ~StartBuild(d)
  BY <1>1 DEF CreateBlock, StartBuild, Building, Merging
<1>4. \A l, x : ~AttachBlock(l, x) /\ ~RelocateBlock(l, x) /\ ~StartAppend(l, x)
  BY <1>1 DEF AttachBlock, RelocateBlock, StartAppend, Building, Merging
<1>5. \A l : ~BuildLevelPgm(l) /\ ~RetireLevel(l)
  BY <1>1 DEF BuildLevelPgm, RetireLevel
<1>6. ~IndexOutput /\ ~FailPlacing
  BY DEF IndexOutput, FailPlacing, Merging
<1>7. ~PlaceBlock
  <2>1. ASSUME PlaceBlock
        PROVE  job'.call = job.call
    <3>1. job \in Builds \/ job \in Merges
      BY <2>1, JobFields DEF PlaceBlock, Placing
    <3> QED
      BY <2>1, <3>1 DEF PlaceBlock, Builds, Merges
  <2> QED
    BY <2>1 DEF Merging
<1>8. ~RetireNewer
  <2>1. ASSUME RetireNewer
        PROVE  job'.call = "retire_older"
    BY <2>1, JobFields DEF RetireNewer, Merges
  <2> QED
    BY <2>1 DEF Merging
<1> QED
  BY <1>2, <1>3, <1>4, <1>5, <1>6, <1>7, <1>8 DEF Next, Client, Run

LEMMA MergeApartStep ==
  ASSUME CleanMergeInv, [Next]_vars, Merging'
  PROVE  MergeApart'
<1> USE DEF CleanMergeInv
<1>1. CASE ~Merging
  <2>1. PICK newer, older \in DOMAIN levels : StartMerge(newer, older)
    BY <1>1, MergeStarts DEF Registered
  <2>2. /\ job'.newer = newer /\ job'.older = older /\ job'.out = nextLevel
        /\ levels' = Put(levels, nextLevel, <<>>) /\ l2p' = l2p
    BY <2>1 DEF StartMerge, OpenLevel, mapping
  <2>3. nextLevel \notin DOMAIN levels
    BY DEF Registered, IdsInv, TypeOK
  <2>4. \A l \in {newer, older} : BlocksOf(l) \subseteq DOMAIN l2p
    BY <2>1 DEF StartMerge, LevelReadable, Readable
  <2>5. \A l \in {newer, older} : levels'[l] = levels[l]
    BY <2>2, <2>3 DEF Put
  <2>6. levels'[nextLevel] = <<>>
    BY <2>2 DEF Put
  <2> QED
    BY <2>2, <2>4, <2>5, <2>6 DEF MergeApart, BlocksOf
<1>2. CASE Merging
  <2>1. /\ {job.newer, job.older, job.out} \subseteq DOMAIN levels
        /\ job.out \notin {job.newer, job.older}
    BY <1>2, MergingFields
  <2>2. CASE MergeGrown
    <3>1. \A l \in {job.newer, job.older} : levels'[l] = levels[l]
      BY <2>1, <2>2 DEF MergeGrown
    <3>2. \A i \in DOMAIN levels'[job.out] :
            levels'[job.out][i] \in BlocksOf(job.out) \cup {nextBlock}
      <4>1. levels[job.out] \in Seq(Nat) /\ levels'[job.out] = Append(levels[job.out], nextBlock)
        BY <2>1, <2>2 DEF MergeGrown, Registered, TypeOK
      <4> QED
        BY <4>1 DEF BlocksOf
    <3>3. nextBlock \notin DOMAIN l2p /\ DOMAIN l2p' = DOMAIN l2p \cup {nextBlock}
      BY <2>2 DEF MergeGrown, Put, MappingInv, IdsBelow
    <3> DEFINE after(l) == {levels'[l][i] : i \in DOMAIN levels'[l]}
    <3>4. /\ \A l \in {job.newer, job.older} : after(l) = BlocksOf(l)
          /\ after(job.out) \subseteq BlocksOf(job.out) \cup {nextBlock}
      BY <3>1, <3>2 DEF BlocksOf
    <3>5. /\ \A l \in {job.newer, job.older, job.out} : BlocksOf(l) \subseteq DOMAIN l2p
          /\ \A l \in {job.newer, job.older} : BlocksOf(l) \cap BlocksOf(job.out) = {}
      BY <1>2 DEF MergeApart
    <3>6. SameLevels
      BY <2>2 DEF MergeGrown
    <3> HIDE DEF after
    <3>7. /\ \A l \in {job.newer, job.older, job.out} : after(l) \subseteq DOMAIN l2p'
          /\ \A l \in {job.newer, job.older} : after(l) \cap after(job.out) = {}
      BY <3>3, <3>4, <3>5
    <3>8. MergeApart' <=>
            (Merging' =>
               /\ \A l \in {job'.newer, job'.older, job'.out} : after(l) \subseteq DOMAIN l2p'
               /\ \A l \in {job'.newer, job'.older} : after(l) \cap after(job'.out) = {})
      BY DEF MergeApart, BlocksOf, after
    <3> QED
      BY <3>6, <3>7, <3>8 DEF SameLevels
  <2>3. CASE MergeKept
    BY <1>2, <2>3 DEF MergeApart, MergeKept, SameLevels, BlocksOf
  <2>4. CASE MergeDropped
    BY <2>4 DEF MergeDropped, Merging, Idle
  <2> QED
    BY <1>2, <2>2, <2>3, <2>4, MergeEffect
<1> QED
  BY <1>1, <1>2

LEMMA MergeInvariant == Spec => []CleanMergeInv
<1>1. Init => Housed /\ MergeApart
  BY HousedInit DEF Init, MergeApart, Merging, Idle
<1>2. CleanMergeInv /\ [Next]_vars => (Housed /\ MergeApart)'
  <2>1. CleanMergeInv /\ [Next]_vars => Housed'
    BY StepEffect, HousedStep DEF CleanMergeInv
  <2>2. CleanMergeInv /\ [Next]_vars => MergeApart'
    BY MergeApartStep DEF MergeApart
  <2> QED
    BY <2>1, <2>2
<1> QED
  BY <1>1, <1>2, RegisteredInvariant, MappingInvariant, PTL DEF Spec, CleanMergeInv

LEMMA MergeStep ==
  ASSUME CleanMergeInv, Merging, [Next]_vars
  PROVE  /\ \A l \in {job.newer, job.older} :
              /\ l \in DOMAIN levels' /\ levels'[l] = levels[l] /\ LevelReadable(l)'
              /\ \A b \in BlocksOf(l) :
                   \/ ReadBlock(b)' = ReadBlock(b)
                   \/ l2p[b] = nextSlot /\ nextSlot' # nextSlot
         /\ LevelReadable(job.out)
         /\ job' = Idle =>
              /\ job.out \in retired' /\ job.out \notin DOMAIN levels'
              /\ \A b \in BlocksOf(job.out) :
                   b \notin DOMAIN l2p' /\ l2p[b] \notin DOMAIN slots'
<1> USE DEF CleanMergeInv
<1> DEFINE Inputs == {job.newer, job.older}
<1>1. /\ {job.newer, job.older, job.out} \subseteq DOMAIN levels
      /\ job.out \notin Inputs
  BY MergingFields
<1>2. /\ \A l \in Inputs \cup {job.out} : BlocksOf(l) \subseteq DOMAIN l2p
      /\ \A l \in Inputs : BlocksOf(l) \cap BlocksOf(job.out) = {}
  BY DEF MergeApart
<1>3. \A b \in DOMAIN l2p : l2p[b] \in DOMAIN slots
  BY DEF Housed
<1>4. LevelReadable(job.out)
  BY <1>2, <1>3 DEF LevelReadable, Readable
<1>5. ASSUME MergeGrown \/ MergeKept,
             NEW l \in Inputs
      PROVE  /\ l \in DOMAIN levels' /\ levels'[l] = levels[l] /\ LevelReadable(l)'
             /\ \A b \in BlocksOf(l) :
                  \/ ReadBlock(b)' = ReadBlock(b)
                  \/ l2p[b] = nextSlot /\ nextSlot' # nextSlot
  <2>1. l \in DOMAIN levels' /\ levels'[l] = levels[l]
    BY <1>1, <1>5 DEF MergeGrown, MergeKept
  <2>2. \A b \in DOMAIN l2p : b \in DOMAIN l2p' /\ l2p'[b] = l2p[b]
    <3>1. nextBlock \notin DOMAIN l2p
      BY DEF MappingInv, IdsBelow
    <3> QED
      BY <1>5, <3>1 DEF MergeGrown, MergeKept, Put
  <2>3. \/ UNCHANGED slots
        \/ nextSlot' # nextSlot /\ \E block : slots' = Put(slots, nextSlot, block)
    BY <1>5 DEF MergeGrown, MergeKept
  <2>4. \A b \in DOMAIN l2p :
          /\ Readable(b)'
          /\ ReadBlock(b)' = ReadBlock(b) \/ (l2p[b] = nextSlot /\ nextSlot' # nextSlot)
    BY <1>3, <2>2, <2>3 DEF Readable, ReadBlock, Put
  <2>5. BlocksOf(l)' = BlocksOf(l) /\ BlocksOf(l) \subseteq DOMAIN l2p
    BY <1>2, <2>1 DEF BlocksOf
  <2> QED
    BY <2>1, <2>4, <2>5 DEF LevelReadable
<1>6. CASE MergeDropped
  <2> DEFINE B == BlocksOf(job.out)
  <2>1. /\ levels' = Drop(levels, {job.out}) /\ retired' = retired \cup {job.out}
        /\ l2p' = Drop(l2p, B) /\ slots' = Drop(slots, {l2p[b] : b \in B})
        /\ nextSlot' = nextSlot
    BY <1>6 DEF MergeDropped, Retire, Deregister, Clear, SlotsOf, Unassign
  <2>2. ASSUME NEW l \in Inputs
        PROVE  /\ l \in DOMAIN levels' /\ levels'[l] = levels[l] /\ LevelReadable(l)'
               /\ \A b \in BlocksOf(l) : ReadBlock(b)' = ReadBlock(b)
    <3>1. l \in DOMAIN levels' /\ levels'[l] = levels[l]
      BY <1>1, <2>1 DEF Drop
    <3>2. \A b \in BlocksOf(l) : b \in DOMAIN l2p /\ b \notin B
      BY <1>2
    <3>3. \A b \in BlocksOf(l), c \in B : l2p[b] # l2p[c]
      BY <1>2, <3>2 DEF MappingInv, MappingBijective
    <3> HIDE DEF B
    <3>4. \A b \in BlocksOf(l) :
            /\ b \in DOMAIN l2p' /\ l2p'[b] = l2p[b]
            /\ l2p[b] \in DOMAIN slots' /\ slots'[l2p[b]] = slots[l2p[b]]
      BY <1>3, <2>1, <3>2, <3>3 DEF Drop
    <3>5. BlocksOf(l)' = BlocksOf(l)
      BY <3>1 DEF BlocksOf
    <3> QED
      BY <3>1, <3>4, <3>5 DEF LevelReadable, Readable, ReadBlock
  <2>3. job.out \in retired' /\ job.out \notin DOMAIN levels'
    BY <2>1 DEF Drop
  <2>4. \A b \in B : b \notin DOMAIN l2p' /\ l2p[b] \notin DOMAIN slots'
    BY <2>1 DEF Drop
  <2> QED
    BY <1>4, <2>2, <2>3, <2>4
<1>7. MergeGrown \/ MergeKept => job' # Idle
  BY DEF MergeGrown, MergeKept
<1> QED
  BY <1>4, <1>5, <1>6, <1>7, MergeEffect

\* Whatever the client shares or relocates and wherever it is interrupted, a
\* merge leaves its inputs as they are until its output is published, but for
\* what a colliding store overwrites, and nothing of an output it discards.
THEOREM MergesFailCleanly == Spec => MergeFailsCleanly
<1>1. CleanMergeInv /\ [Next]_vars =>
        [Merging =>
           /\ \A l \in {job.newer, job.older} :
                /\ l \in DOMAIN levels' /\ levels'[l] = levels[l] /\ LevelReadable(l)'
                /\ \A b \in BlocksOf(l) :
                     \/ ReadBlock(b)' = ReadBlock(b)
                     \/ l2p[b] = nextSlot /\ nextSlot' # nextSlot
           /\ LevelReadable(job.out)
           /\ job' = Idle =>
                /\ job.out \in retired' /\ job.out \notin DOMAIN levels'
                /\ \A b \in BlocksOf(job.out) :
                     b \notin DOMAIN l2p' /\ l2p[b] \notin DOMAIN slots']_vars
  BY MergeStep
<1> QED
  BY MergeInvariant, <1>1, PTL DEF Spec, MergeFailsCleanly

-----------------------------------------------------------------------------
(* Without shared blocks the levels are disjoint and always readable.       *)

AllReadable == \A l \in DOMAIN levels : LevelReadable(l)

\* How a step changes levels and mapping together, when every level can be read.
KeptApart == UNCHANGED levels /\ DOMAIN l2p \subseteq DOMAIN l2p'
OpenedApart == OpenLevel /\ UNCHANGED l2p
GrownApart ==
  \E l \in DOMAIN levels : \E b :
    /\ Attach(l, b)
    /\ \/ b \in LooseBlocks /\ UNCHANGED l2p
       \/ b = nextBlock /\ l2p' = Put(l2p, b, nextSlot)

PlacementEffect == KeptApart \/ OpenedApart \/ GrownApart \/ Closed

LEMMA CutPlacement ==
  ASSUME NEW d, CreateBlockCut(d)
  PROVE  KeptApart
BY DEF CreateBlockCut, CreateBlockTorn, CreateBlockAlone, AssignNext, Put, KeptApart, mapping, registry

LEMMA StepPlacement ==
  ASSUME "share" \notin Calls, TypeOK, JobLevels, AllReadable, [Next]_vars
  PROVE  PlacementEffect
<1> USE DEF store, mapping, registry, PlacementEffect, KeptApart, OpenedApart, GrownApart, Closed
<1>1. \A l \in DOMAIN levels : ~RetireTorn(l)
  BY DEF AllReadable, LevelReadable, BlocksOf, RetireTorn
<1>2. CASE CreateLevel
  BY <1>2 DEF CreateLevel
<1>3. ASSUME NEW d, CreateBlock(d)
      PROVE  PlacementEffect
  <2>1. CASE CreateBlockAlone(d)
    BY <2>1 DEF CreateBlockAlone, AssignNext, Put
  <2>2. ASSUME NEW l \in DOMAIN levels, CreateBlockInLevel(l, d)
        PROVE  PlacementEffect
    BY <2>2 DEF CreateBlockInLevel, AssignNext
  <2> QED
    BY <1>3, <2>1, <2>2 DEF CreateBlock, CreateBlockCollides, CreateBlockTorn
<1>4. ASSUME NEW d, StartBuild(d)
      PROVE  PlacementEffect
  BY <1>4 DEF StartBuild
<1>5. ASSUME NEW l, NEW b, AttachBlock(l, b)
      PROVE  PlacementEffect
  BY <1>5 DEF AttachBlock
<1>6. ASSUME NEW b, NEW s, RelocateBlock(b, s)
      PROVE  PlacementEffect
  BY <1>6 DEF RelocateBlock, Move
<1>7. ASSUME NEW l, BuildLevelPgm(l)
      PROVE  PlacementEffect
  BY <1>7 DEF BuildLevelPgm, IndexLevel
<1>8. ASSUME NEW l \in DOMAIN levels, RetireLevel(l)
      PROVE  PlacementEffect
  BY <1>1, <1>8 DEF RetireLevel
<1>9. ASSUME NEW l, NEW d, StartAppend(l, d)
      PROVE  PlacementEffect
  BY <1>9 DEF StartAppend
<1>10. ASSUME NEW newer, NEW older, StartMerge(newer, older)
      PROVE  PlacementEffect
  BY <1>10 DEF StartMerge
<1>11. CASE PlaceBlock
  <2>1. job.out \in DOMAIN levels
    BY <1>11, JobFields DEF PlaceBlock, Placing, JobLevels
  <2> QED
    BY <1>11, <2>1 DEF PlaceBlock, CreateBlockInLevel, AssignNext
<1>12. CASE FinishBuild
  BY <1>12 DEF FinishBuild
<1>13. CASE AbortBuild
  BY <1>13, CutPlacement DEF AbortBuild, CreateBlockCollides
<1>14. CASE IndexOutput
  BY <1>14 DEF IndexOutput, IndexLevel
<1>15. CASE RetireNewer
  BY <1>15, JobFields DEF RetireNewer, JobLevels
<1>16. CASE RetireOlder
  BY <1>1, <1>16, JobFields DEF RetireOlder, JobLevels
<1>17. CASE FailPlacing
  BY <1>17, CutPlacement DEF FailPlacing, CreateBlockCollides
<1>18. CASE DiscardOutput
  BY <1>18, JobFields DEF DiscardOutput, DropOutput, JobLevels
<1>19. CASE UNCHANGED vars
  BY <1>19 DEF vars
<1> QED
  BY <1>2, <1>3, <1>4, <1>5, <1>6, <1>7, <1>8, <1>9, <1>10, <1>11, <1>12, <1>13, <1>14,
     <1>15, <1>16, <1>17, <1>18, <1>19 DEF Next, Client, Run

LEMMA DisjointStep ==
  ASSUME TypeOK, MappingInv, IdsInv, LevelsDisjoint, PlacementEffect
  PROVE  LevelsDisjoint'
<1> USE DEF LevelsDisjoint, BlocksOf
<1>1. CASE KeptApart
  BY <1>1 DEF KeptApart
<1>2. CASE OpenedApart
  <2>1. levels' = Put(levels, nextLevel, <<>>) /\ l2p' = l2p
    BY <1>2 DEF OpenedApart, OpenLevel
  <2>2. DOMAIN levels' = DOMAIN levels \cup {nextLevel} /\ DOMAIN levels'[nextLevel] = {}
    BY <2>1 DEF Put
  <2>3. \A l \in DOMAIN levels' : l # nextLevel => l \in DOMAIN levels /\ levels'[l] = levels[l]
    BY <2>1 DEF Put
  <2> QED
    BY <2>1, <2>2, <2>3
<1>3. CASE GrownApart
  <2>1. PICK l, b :
          /\ l \in DOMAIN levels
          /\ levels' = [levels EXCEPT ![l] = Append(@, b)]
          /\ \/ b \in LooseBlocks /\ UNCHANGED l2p
             \/ b = nextBlock /\ l2p' = Put(l2p, b, nextSlot)
    BY <1>3 DEF GrownApart, Attach
  <2>2. b \in DOMAIN l2p' /\ DOMAIN l2p \subseteq DOMAIN l2p'
    BY <2>1 DEF LooseBlocks, Put
  <2>3. \A m \in DOMAIN levels : \A j \in DOMAIN levels[m] : levels[m][j] # b
    BY <2>1 DEF LooseBlocks, MappingInv, IdsBelow
  <2>4. levels[l] \in Seq(Nat)
    BY <2>1 DEF TypeOK
  <2>5. /\ levels'[l] = Append(levels[l], b)
        /\ \A m \in DOMAIN levels : m # l => levels'[m] = levels[m]
        /\ DOMAIN levels' = DOMAIN levels
    BY <2>1
  <2>6. /\ DOMAIN levels'[l] = DOMAIN levels[l] \cup {Len(levels[l]) + 1}
        /\ levels'[l][Len(levels[l]) + 1] = b
        /\ Len(levels[l]) + 1 \notin DOMAIN levels[l]
        /\ \A j \in DOMAIN levels[l] : levels'[l][j] = levels[l][j]
    BY <2>4, <2>5
  <2>7. \A m \in DOMAIN levels : \A j \in DOMAIN levels'[m] :
          \/ j \in DOMAIN levels[m] /\ levels'[m][j] = levels[m][j]
          \/ m = l /\ j = Len(levels[l]) + 1 /\ levels'[m][j] = b
    BY <2>5, <2>6
  <2>8. \A m \in DOMAIN levels : BlocksOf(m)' \subseteq DOMAIN l2p'
    BY <2>2, <2>5, <2>7
  <2>9. \A m, n \in DOMAIN levels : \A i \in DOMAIN levels'[m], j \in DOMAIN levels'[n] :
          levels'[m][i] = levels'[n][j] => m = n /\ i = j
    BY <2>3, <2>7
  <2> QED
    BY <2>5, <2>8, <2>9
<1>4. CASE Closed
  <2>1. PICK l \in DOMAIN levels :
          levels' = Drop(levels, {l}) /\ l2p' = Drop(l2p, BlocksOf(l))
    BY <1>4 DEF Closed, Retire, Deregister, Unassign
  <2> QED
    BY <2>1 DEF Drop
<1> QED
  BY <1>1, <1>2, <1>3, <1>4 DEF PlacementEffect

DisjointInv == Registered /\ MappingInv /\ Housed /\ LevelsDisjoint

LEMMA DisjointReadable == DisjointInv => AllReadable
BY DEF DisjointInv, Housed, LevelsDisjoint, AllReadable, LevelReadable, Readable

LEMMA DisjointInvStep ==
  ASSUME "share" \notin Calls, DisjointInv, [Next]_vars
  PROVE  DisjointInv'
<1>1. Registered'
  BY StepType, JobLevelsStep, StepLevels, IdsStep DEF Registered, DisjointInv
<1>2. MappingInv' /\ Housed'
  BY StepEffect, MappingStep, HousedStep DEF DisjointInv
<1>3. LevelsDisjoint'
  BY DisjointReadable, StepPlacement, DisjointStep DEF DisjointInv, Registered
<1> QED
  BY <1>1, <1>2, <1>3 DEF DisjointInv

LEMMA DisjointInvariant ==
  ASSUME "share" \notin Calls
  PROVE  Spec => []DisjointInv
<1>1. Init => DisjointInv
  <2>1. Init => Registered
    BY InitType, IdleHasNoLevels DEF Init, Registered, IdsInv, EmptyDict
  <2>2. Init => LevelsDisjoint
    BY DEF Init, LevelsDisjoint, EmptyDict
  <2> QED
    BY <2>1, <2>2, MappingInit, HousedInit DEF DisjointInv
<1>2. DisjointInv /\ [Next]_vars => DisjointInv'
  BY DisjointInvStep
<1> QED
  BY <1>1, <1>2, PTL DEF Spec

\* A block is at one place of one level and stays mapped while it is there, for
\* the client that attaches only blocks that are in no level: retirements,
\* merges and failures never take a block from under an active level.
THEOREM LevelsAlwaysDisjoint ==
  ASSUME "share" \notin Calls
  PROVE  Spec => []LevelsDisjoint
<1>1. DisjointInv => LevelsDisjoint
  BY DEF DisjointInv
<1> QED
  BY DisjointInvariant, <1>1, PTL

-----------------------------------------------------------------------------
(* An index that can be searched describes its level.                       *)

\* What a step does to the indexes: an index that stays is that of a level that
\* stays as it is, and a new one is built over the level and the blocks of now.
IndexEffect ==
  \A l \in DOMAIN pgm' :
    \/ l \in DOMAIN pgm /\ pgm'[l] = pgm[l] /\ (l \in DOMAIN levels => l \in DOMAIN levels' /\ levels'[l] = levels[l])
    \/ l \in DOMAIN levels /\ IndexLevel(l) /\ UNCHANGED <<slots, l2p>>

LEMMA AttachIndex ==
  ASSUME NEW l, NEW b, Attach(l, b)
  PROVE  IndexEffect
BY DEF Attach, Drop, IndexEffect

LEMMA RetireIndex ==
  ASSUME NEW l, Retire(l)
  PROVE  IndexEffect
BY DEF Retire, Deregister, Drop, IndexEffect

LEMMA OpenIndex ==
  ASSUME TypeOK, IdsInv, OpenLevel
  PROVE  IndexEffect
<1>1. nextLevel \notin DOMAIN levels
  BY DEF TypeOK, IdsInv
<1> QED
  BY <1>1 DEF OpenLevel, Put, IndexEffect

LEMMA BuildIndex ==
  ASSUME NEW l \in DOMAIN levels, IndexLevel(l), UNCHANGED <<slots, l2p>>
  PROVE  IndexEffect
<1>1. pgm' = Put(pgm, l, KeysOf(l)) /\ levels' = levels
  BY DEF IndexLevel
<1>2. \A m \in DOMAIN pgm' : m = l \/ (m \in DOMAIN pgm /\ pgm'[m] = pgm[m])
  BY <1>1 DEF Put
<1> QED
  BY <1>1, <1>2 DEF IndexEffect

LEMMA SameIndex ==
  ASSUME UNCHANGED <<pgm, levels>>
  PROVE  IndexEffect
BY DEF IndexEffect

LEMMA StepIndex ==
  ASSUME Registered, [Next]_vars
  PROVE  IndexEffect
<1> USE DEF store, mapping, registry, Registered
<1>1. CASE CreateLevel
  BY <1>1, OpenIndex DEF CreateLevel
<1>2. ASSUME NEW d, CreateBlock(d)
      PROVE  IndexEffect
  BY <1>2, AttachIndex, SameIndex
     DEF CreateBlock, CreateBlockAlone, CreateBlockTorn, CreateBlockCollides, CreateBlockInLevel
<1>3. ASSUME NEW d, StartBuild(d)
      PROVE  IndexEffect
  BY <1>3, OpenIndex DEF StartBuild
<1>4. ASSUME NEW l, NEW b, AttachBlock(l, b)
      PROVE  IndexEffect
  BY <1>4, AttachIndex DEF AttachBlock
<1>5. ASSUME NEW b, NEW s, RelocateBlock(b, s)
      PROVE  IndexEffect
  BY <1>5, SameIndex DEF RelocateBlock
<1>6. ASSUME NEW l, BuildLevelPgm(l)
      PROVE  IndexEffect
  BY <1>6, BuildIndex DEF BuildLevelPgm
<1>7. ASSUME NEW l, RetireLevel(l)
      PROVE  IndexEffect
  BY <1>7, RetireIndex, SameIndex DEF RetireLevel, RetireTorn
<1>8. ASSUME NEW l, NEW d, StartAppend(l, d)
      PROVE  IndexEffect
  BY <1>8, SameIndex DEF StartAppend
<1>9. ASSUME NEW newer, NEW older, StartMerge(newer, older)
      PROVE  IndexEffect
  BY <1>9, OpenIndex DEF StartMerge
<1>10. CASE PlaceBlock
  BY <1>10, AttachIndex DEF PlaceBlock, CreateBlockInLevel
<1>11. CASE FinishBuild \/ AbortBuild
  BY <1>11, SameIndex DEF FinishBuild, AbortBuild, CreateBlockCollides, CreateBlockCut,
     CreateBlockTorn, CreateBlockAlone
<1>12. CASE IndexOutput
  BY <1>12, BuildIndex, JobFields DEF IndexOutput, JobLevels
<1>13. CASE RetireNewer
  BY <1>13, RetireIndex DEF RetireNewer
<1>14. CASE RetireOlder
  BY <1>14, RetireIndex, SameIndex DEF RetireOlder, RetireTorn
<1>15. CASE FailPlacing
  BY <1>15, SameIndex DEF FailPlacing, CreateBlockCollides, CreateBlockCut,
     CreateBlockTorn, CreateBlockAlone
<1>16. CASE DiscardOutput
  BY <1>16, RetireIndex DEF DiscardOutput, DropOutput
<1>17. CASE UNCHANGED vars
  BY <1>17, SameIndex DEF vars
<1> QED
  BY <1>1, <1>2, <1>3, <1>4, <1>5, <1>6, <1>7, <1>8, <1>9, <1>10, <1>11, <1>12, <1>13,
     <1>14, <1>15, <1>16, <1>17 DEF Next, Client, Run

CurrentInv == DisjointInv /\ IntactInv /\ PgmCurrent

LEMMA CurrentStep ==
  ASSUME "share" \notin Calls, ~RelocateAhead, CurrentInv, [Next]_vars
  PROVE  PgmCurrent'
<1>1. StoreEffect /\ IndexEffect /\ DisjointInv'
  BY StepEffect, StepIndex, DisjointInvStep DEF CurrentInv, DisjointInv
<1> SUFFICES ASSUME NEW l \in DOMAIN pgm'
             PROVE  /\ l \in DOMAIN levels' /\ LevelReadable(l)'
                    /\ Increasing(l)' /\ pgm'[l] = KeysOf(l)'
  BY DEF PgmCurrent
<1>2. CASE l \in DOMAIN levels /\ IndexLevel(l) /\ UNCHANGED <<slots, l2p>>
  <2>1. levels' = levels /\ slots' = slots /\ l2p' = l2p
    BY <1>2 DEF IndexLevel
  <2>2. LevelReadable(l) /\ Increasing(l) /\ pgm'[l] = KeysOf(l)
    BY <1>2 DEF IndexLevel, Put
  <2> QED
    BY <1>2, <2>1, <2>2 DEF LevelReadable, Increasing, KeysOf, BlocksOf, Readable, ReadBlock
<1>3. CASE /\ l \in DOMAIN pgm /\ pgm'[l] = pgm[l]
           /\ l \in DOMAIN levels => l \in DOMAIN levels' /\ levels'[l] = levels[l]
  <2>1. /\ l \in DOMAIN levels /\ LevelReadable(l)
        /\ Increasing(l) /\ pgm[l] = KeysOf(l)
    BY <1>3 DEF CurrentInv, PgmCurrent
  <2>2. l \in DOMAIN levels' /\ levels'[l] = levels[l]
    BY <1>3, <2>1
  <2>3. \A b \in BlocksOf(l) : b \in DOMAIN l2p \cap DOMAIN l2p'
    BY <1>1, <2>1, <2>2 DEF CurrentInv, DisjointInv, LevelsDisjoint, BlocksOf
  <2>4. \A b \in BlocksOf(l) : Readable(b)' /\ ReadBlock(b)' = ReadBlock(b)
    BY <1>1, <2>3, ImmutableStep DEF CurrentInv
  <2>5. BlocksOf(l)' = BlocksOf(l) /\ \A i \in DOMAIN levels[l] : levels[l][i] \in BlocksOf(l)
    BY <2>2 DEF BlocksOf
  <2>6. LevelReadable(l)' /\ KeysOf(l)' = KeysOf(l)
    BY <2>4, <2>5 DEF LevelReadable, KeysOf
  <2>7. Increasing(l)'
    BY <2>1, <2>2, <2>4, <2>5 DEF Increasing
  <2> QED
    BY <1>3, <2>1, <2>2, <2>6, <2>7
<1> QED
  BY <1>1, <1>2, <1>3 DEF IndexEffect

\* An index that lookup_level can use was built over the keys its level holds
\* now, in the order they are in now, through every append, relocation, merge
\* and failure: no call leaves a stale index behind.
THEOREM IndexAlwaysCurrent ==
  ASSUME "share" \notin Calls, ~RelocateAhead
  PROVE  Spec => []PgmCurrent
<1>1. Init => PgmCurrent
  BY DEF Init, PgmCurrent, EmptyDict
<1>2. PgmCurrent /\ DisjointInv /\ IntactInv /\ [Next]_vars => PgmCurrent'
  BY CurrentStep DEF CurrentInv
<1> QED
  BY DisjointInvariant, IntactInvariant, <1>1, <1>2, PTL DEF Spec

-----------------------------------------------------------------------------
(* The client that only builds, indexes, relocates, merges and retires: its *)
(* levels are canonical packings, lookup_level is exact on them, and the    *)
(* block-by-block engine implements LevelStore.                             *)

\* No level is filled by hand, and no block is relocated ahead of the allocator.
CanonicalClient == Calls \cap {"append", "attach", "share"} = {} /\ ~RelocateAhead

-----------------------------------------------------------------------------
(* Packings. *)

\* The blocks of level l are the canonical packing of e.
PackedAs(l, e) ==
  /\ Len(levels[l]) = NumBlocks(e)
  /\ \A i \in DOMAIN levels[l] : ReadBlock(levels[l][i]) = Chunk(e, i - 1)

LEMMA EmptyPacking ==
  EmptyDict \in Datasets /\ NumBlocks(EmptyDict) = 0 /\ \A n : Prefix(EmptyDict, n) = EmptyDict
<1>1. DOMAIN EmptyDict = {}
  BY DEF EmptyDict
<1>2. EmptyDict \in Datasets
  BY DatasetIff DEF EmptyDict
<1>3. Size(EmptyDict) = 0
  BY <1>1, FS_EmptySet DEF Size
<1>4. NumBlocks(EmptyDict) = 0
  <2>1. 0 < NumBlocks(EmptyDict) <=> 0 * Capacity < Size(EmptyDict)
    BY <1>2, BlockBelow
  <2> QED
    BY <1>2, <1>3, <2>1, NumBlocksBounds, CapacityAssumption
<1>5. \A n : Prefix(EmptyDict, n) = EmptyDict
  BY DEF EmptyDict, Prefix
<1> QED
  BY <1>2, <1>4, <1>5

\* What a packing holds is what it is a packing of.
LEMMA PackedContents ==
  ASSUME TypeOK, NEW l \in DOMAIN levels, NEW e \in Datasets, PackedAs(l, e)
  PROVE  KeysOf(l) = DOMAIN e /\ Contents(l) = e
<1>1. /\ levels[l] \in Seq(Nat) /\ DOMAIN levels[l] = 1..NumBlocks(e)
      /\ NumBlocks(e) \in Nat
  BY NumBlocksBounds DEF TypeOK, PackedAs
<1>2. \A b \in BlocksOf(l) : \E i \in 0..NumBlocks(e) - 1 : ReadBlock(b) = Chunk(e, i)
  <2> SUFFICES ASSUME NEW n \in DOMAIN levels[l]
               PROVE  \E i \in 0..NumBlocks(e) - 1 : ReadBlock(levels[l][n]) = Chunk(e, i)
    BY DEF BlocksOf
  <2>1. n - 1 \in 0..NumBlocks(e) - 1 /\ ReadBlock(levels[l][n]) = Chunk(e, n - 1)
    BY <1>1 DEF PackedAs
  <2> QED
    BY <2>1
<1>3. \A b \in BlocksOf(l) : \A k \in DOMAIN ReadBlock(b) : k \in DOMAIN e /\ ReadBlock(b)[k] = e[k]
  BY <1>2, ChunkValue
<1>4. ASSUME NEW k \in DOMAIN e
      PROVE  \E b \in BlocksOf(l) : k \in DOMAIN ReadBlock(b)
  <2>1. PICK i \in 0..NumBlocks(e) - 1 : k \in DOMAIN Chunk(e, i)
    BY ChunkCover
  <2>2. i + 1 \in DOMAIN levels[l] /\ (i + 1) - 1 = i
    BY <1>1
  <2>3. ReadBlock(levels[l][i + 1]) = Chunk(e, i)
    BY <2>2 DEF PackedAs
  <2> QED
    BY <2>1, <2>2, <2>3 DEF BlocksOf
<1>5. KeysOf(l) = DOMAIN e
  BY <1>3, <1>4 DEF KeysOf
<1> DEFINE holder(k) == CHOOSE b \in BlocksOf(l) : k \in DOMAIN ReadBlock(b)
<1>6. \A k \in DOMAIN e : holder(k) \in BlocksOf(l) /\ k \in DOMAIN ReadBlock(holder(k))
  BY <1>4
<1>7. \A k \in DOMAIN e : ReadBlock(holder(k))[k] = e[k]
  BY <1>3, <1>6
<1>8. Contents(l) = [k \in DOMAIN e |-> ReadBlock(holder(k))[k]]
  BY <1>5 DEF Contents
<1>9. e = [k \in DOMAIN e |-> e[k]]
  BY DatasetIff
<1> HIDE DEF holder
<1> QED
  BY <1>5, <1>7, <1>8, <1>9

LEMMA PackedCanonical ==
  ASSUME TypeOK, NEW l \in DOMAIN levels, NEW e \in Datasets, PackedAs(l, e)
  PROVE  Packed(l) /\ Increasing(l)
<1>1. /\ levels[l] \in Seq(Nat) /\ Len(levels[l]) = NumBlocks(e)
      /\ DOMAIN levels[l] = 1..NumBlocks(e) /\ NumBlocks(e) \in Nat
  BY NumBlocksBounds DEF TypeOK, PackedAs
<1>2. \A i \in DOMAIN levels[l] : i - 1 \in Nat /\ i - 1 < NumBlocks(e)
        /\ ReadBlock(levels[l][i]) = Chunk(e, i - 1)
  BY <1>1 DEF PackedAs
<1>3. ASSUME NEW i \in DOMAIN levels[l]
      PROVE  LET n == Size(ReadBlock(levels[l][i]))
             IN  n > 0 /\ n <= Capacity /\ (i < Len(levels[l]) => n = Capacity)
  <2>1. i < Len(levels[l]) => (i - 1) + 1 < NumBlocks(e)
    BY <1>1
  <2> QED
    BY <1>2, <2>1, ChunkSize
<1>4. ASSUME NEW i \in DOMAIN levels[l], NEW j \in DOMAIN levels[l], i < j,
             NEW x \in DOMAIN ReadBlock(levels[l][i]), NEW y \in DOMAIN ReadBlock(levels[l][j])
      PROVE  x < y
  <2>1. i - 1 \in Nat /\ j - 1 \in Nat /\ i - 1 < j - 1
    BY <1>1, <1>4
  <2>2. x \in DOMAIN Chunk(e, i - 1) /\ y \in DOMAIN Chunk(e, j - 1)
    BY <1>2
  <2> QED
    BY <2>1, <2>2, ChunkOrder
<1> QED
  BY <1>3, <1>4 DEF Packed, Increasing

\* A level whose blocks stay mapped stays what it was.
LEMMA PackedKept ==
  ASSUME ~RelocateAhead, IntactInv, StoreEffect,
         NEW l \in DOMAIN levels, l \in DOMAIN levels', levels'[l] = levels[l],
         BlocksOf(l) \subseteq DOMAIN l2p, BlocksOf(l) \subseteq DOMAIN l2p'
  PROVE  /\ Contents(l)' = Contents(l)
         /\ \A e : PackedAs(l, e) => PackedAs(l, e)'
<1>1. \A b \in BlocksOf(l) : ReadBlock(b)' = ReadBlock(b)
  BY ImmutableStep
<1>2. BlocksOf(l)' = BlocksOf(l)
  BY DEF BlocksOf
<1>3. \A i \in DOMAIN levels[l] : levels[l][i] \in BlocksOf(l)
  BY DEF BlocksOf
<1>4. KeysOf(l)' = KeysOf(l)
  BY <1>1, <1>2 DEF KeysOf
<1> DEFINE holder(k) == CHOOSE b \in BlocksOf(l) : k \in DOMAIN ReadBlock(b)
<1>5. ASSUME NEW k \in KeysOf(l)
      PROVE  holder(k)' = holder(k) /\ ReadBlock(holder(k))' = ReadBlock(holder(k))
  <2>1. \A b : b \in BlocksOf(l)' /\ k \in DOMAIN ReadBlock(b)'
               <=> b \in BlocksOf(l) /\ k \in DOMAIN ReadBlock(b)
    BY <1>1, <1>2
  <2>2. holder(k)' = holder(k)
    BY <2>1
  <2>3. holder(k) \in BlocksOf(l)
    BY DEF KeysOf
  <2> QED
    BY <1>1, <2>2, <2>3
<1>6. Contents(l) = [k \in KeysOf(l) |-> ReadBlock(holder(k))[k]]
  BY DEF Contents
<1>7. Contents(l)' = [k \in KeysOf(l)' |-> ReadBlock(holder(k))'[k]]
  BY DEF Contents
<1> HIDE DEF holder
<1>8. Contents(l)' = Contents(l)
  BY <1>4, <1>5, <1>6, <1>7
<1>9. \A e : PackedAs(l, e) => PackedAs(l, e)'
  BY <1>1, <1>3 DEF PackedAs
<1> QED
  BY <1>8, <1>9

-----------------------------------------------------------------------------
(* The inductive invariant: every level is a packing of some records, the   *)
(* output of a call in progress is a packing of the first blocks of what it *)
(* is to hold, and what a merge is to hold is the union of its two inputs.  *)

LevelsPacked == \A l \in DOMAIN levels : \E e \in Datasets : PackedAs(l, e)

BuildPacked ==
  job \in Builds =>
    /\ job.data \in Batches /\ job.placed \in 0..NumBlocks(job.data)
    /\ job.out = nextLevel - 1
    /\ PackedAs(job.out, Prefix(job.data, job.placed))

MergePacked ==
  job \in Merges /\ job.call \in {"merge", "discard"} =>
    /\ job.placed \in 0..NumBlocks(job.data)
    /\ job.out = nextLevel - 1
    /\ PackedAs(job.out, Prefix(job.data, job.placed))
    /\ job.data = Overlay(Contents(job.newer), Contents(job.older))

\* The newer input is retired before the older one, and stays retired.
RetiredInOrder == job \in Merges /\ job.call = "retire_older" => job.newer \notin DOMAIN levels

JobPacked == BuildPacked /\ MergePacked /\ RetiredInOrder

PackedInv ==
  /\ DisjointInv /\ IntactInv
  /\ LevelsPacked /\ JobPacked
  /\ nextLevel <= MaxLevels

\* What a step of this client does to the levels: only a build or a merge fills
\* one.
LevelStep ==
  \/ UNCHANGED levels
  \/ OpenLevel
  \/ PlaceBlock
  \/ \E l \in DOMAIN levels : Retire(l)

LEMMA CanonicalStep ==
  ASSUME CanonicalClient, TypeOK, JobLevels, AllReadable, [Next]_vars
  PROVE  LevelStep
<1> USE DEF registry, LevelStep
<1>1. \A l \in DOMAIN levels : ~RetireTorn(l)
  BY DEF AllReadable, LevelReadable, BlocksOf, RetireTorn
<1>2. CASE CreateLevel
  BY <1>2 DEF CreateLevel
<1>3. ASSUME NEW d, CreateBlock(d)
      PROVE  LevelStep
  BY <1>3 DEF CreateBlock, CreateBlockAlone, CreateBlockTorn, CreateBlockCollides, CanonicalClient
<1>4. ASSUME NEW d, StartBuild(d)
      PROVE  LevelStep
  BY <1>4 DEF StartBuild
<1>5. ASSUME NEW l, NEW b, AttachBlock(l, b)
      PROVE  LevelStep
  BY <1>5 DEF AttachBlock, Ready, CanonicalClient
<1>6. ASSUME NEW b, NEW s, RelocateBlock(b, s)
      PROVE  LevelStep
  BY <1>6 DEF RelocateBlock
<1>7. ASSUME NEW l \in DOMAIN levels, BuildLevelPgm(l) \/ RetireLevel(l)
      PROVE  LevelStep
  BY <1>1, <1>7 DEF BuildLevelPgm, IndexLevel, RetireLevel
<1>8. ASSUME NEW l, NEW d, StartAppend(l, d)
      PROVE  LevelStep
  BY <1>8 DEF StartAppend
<1>9. ASSUME NEW newer, NEW older, StartMerge(newer, older)
      PROVE  LevelStep
  BY <1>9 DEF StartMerge
<1>10. CASE PlaceBlock
  BY <1>10
<1>11. CASE FinishBuild \/ AbortBuild
  BY <1>11 DEF FinishBuild, AbortBuild, CreateBlockCollides, CreateBlockCut,
     CreateBlockTorn, CreateBlockAlone
<1>12. CASE IndexOutput
  BY <1>12 DEF IndexOutput, IndexLevel
<1>13. CASE RetireNewer \/ RetireOlder
  BY <1>1, <1>13, JobFields DEF RetireNewer, RetireOlder, JobLevels
<1>14. CASE FailPlacing
  BY <1>14 DEF FailPlacing, CreateBlockCollides, CreateBlockCut,
     CreateBlockTorn, CreateBlockAlone
<1>15. CASE DiscardOutput
  BY <1>15, JobFields DEF DiscardOutput, DropOutput, JobLevels
<1>16. CASE UNCHANGED vars
  BY <1>16 DEF vars
<1> QED
  BY <1>2, <1>3, <1>4, <1>5, <1>6, <1>7, <1>8, <1>9, <1>10, <1>11, <1>12, <1>13, <1>14,
     <1>15, <1>16 DEF Next, Client, Run

\* What a level that is left alone keeps.
LEMMA KeptLevel ==
  ASSUME CanonicalClient, PackedInv, [Next]_vars,
         NEW l \in DOMAIN levels, l \in DOMAIN levels', levels'[l] = levels[l]
  PROVE  /\ Contents(l)' = Contents(l)
         /\ \A e : PackedAs(l, e) => PackedAs(l, e)'
<1>1. StoreEffect /\ DisjointInv'
  BY StepEffect, DisjointInvStep DEF PackedInv, CanonicalClient
<1>2. BlocksOf(l) \subseteq DOMAIN l2p /\ BlocksOf(l)' = BlocksOf(l)
  BY DEF PackedInv, DisjointInv, LevelsDisjoint, BlocksOf
<1>3. BlocksOf(l) \subseteq DOMAIN l2p'
  BY <1>1, <1>2 DEF DisjointInv, LevelsDisjoint
<1> QED
  BY <1>1, <1>2, <1>3, PackedKept DEF PackedInv, CanonicalClient

\* The output grows by the next block of the packing.
LEMMA PlacedOutput ==
  ASSUME CanonicalClient, PackedInv, PlaceBlock,
         NEW l, NEW d, NEW p, l = job.out, d = job.data, p = job.placed
  PROVE  /\ l \in DOMAIN levels /\ DOMAIN levels' = DOMAIN levels
         /\ \A m \in DOMAIN levels : m # l => levels'[m] = levels[m]
         /\ d \in Datasets /\ p \in 0..NumBlocks(d) - 1
         /\ job' = [job EXCEPT !.placed = p + 1]
         /\ PackedAs(l, Prefix(d, p + 1))'
<1>1. TypeOK /\ JobLevels /\ [Next]_vars
  BY DEF PackedInv, DisjointInv, Registered, Next, Run
<1>2. /\ d \in Datasets /\ l \in DOMAIN levels /\ p < NumBlocks(d)
      /\ p \in 0..NumBlocks(d) /\ PackedAs(l, Prefix(d, p))
  BY <1>1, JobFields DEF PlaceBlock, Placing, PackedInv, JobPacked, BuildPacked, MergePacked, JobLevels
<1>3. p \in Nat /\ p \in 0..NumBlocks(d) - 1 /\ p + 1 \in 0..NumBlocks(d) /\ NumBlocks(d) \in Nat
  BY <1>2, NumBlocksBounds
<1>4. /\ levels' = [levels EXCEPT ![l] = Append(@, nextBlock)]
      /\ slots' = Put(slots, nextSlot, [id |-> nextBlock, recs |-> Chunk(d, p)])
      /\ l2p' = Put(l2p, nextBlock, nextSlot)
      /\ job' = [job EXCEPT !.placed = p + 1]
  BY DEF PlaceBlock, CreateBlockInLevel, StoreNext, AssignNext, Attach
<1>5. levels[l] \in Seq(Nat) /\ Len(levels[l]) = p
  <2>1. levels[l] \in Seq(Nat)
    BY <1>1, <1>2 DEF TypeOK
  <2>2. Len(levels[l]) = p
    BY <1>2, PrefixPacking DEF PackedAs
  <2> QED
    BY <2>1, <2>2
<1>6. /\ levels'[l] = Append(levels[l], nextBlock)
      /\ Len(levels'[l]) = p + 1 /\ DOMAIN levels'[l] = 1..p + 1
      /\ levels'[l][p + 1] = nextBlock
      /\ \A i \in 1..p : levels'[l][i] = levels[l][i] /\ i \in DOMAIN levels[l]
  BY <1>2, <1>3, <1>4, <1>5
<1>7. slots'[l2p'[nextBlock]].recs = Chunk(d, p)
  BY <1>4 DEF Put
<1>8. \A b \in BlocksOf(l) : slots'[l2p'[b]].recs = ReadBlock(b)
  <2>1. StoreEffect
    BY <1>1, StepEffect
  <2>2. \A b \in BlocksOf(l) : b \in DOMAIN l2p /\ b \in DOMAIN l2p'
    BY <1>2, <1>4 DEF PackedInv, DisjointInv, LevelsDisjoint, Put
  <2>3. \A b \in BlocksOf(l) : ReadBlock(b)' = ReadBlock(b)
    BY <2>1, <2>2, ImmutableStep DEF PackedInv, CanonicalClient
  <2> QED
    BY <2>3 DEF ReadBlock
<1>9. /\ NumBlocks(Prefix(d, p + 1)) = p + 1
      /\ \A i \in 0..p : Chunk(Prefix(d, p + 1), i) = Chunk(d, i)
      /\ \A i \in 0..p - 1 : Chunk(Prefix(d, p), i) = Chunk(d, i)
  BY <1>2, <1>3, PrefixPacking
<1>10. \A i \in 1..p + 1 : slots'[l2p'[levels'[l][i]]].recs = Chunk(Prefix(d, p + 1), i - 1)
  <2> SUFFICES ASSUME NEW i \in 1..p + 1
               PROVE  slots'[l2p'[levels'[l][i]]].recs = Chunk(d, i - 1)
    BY <1>3, <1>9
  <2>1. CASE i = p + 1
    BY <1>3, <1>6, <1>7, <2>1
  <2>2. CASE i # p + 1
    <3>1. i \in 1..p /\ i - 1 \in 0..p - 1
      BY <1>3, <2>2
    <3>2. ReadBlock(levels[l][i]) = Chunk(Prefix(d, p), i - 1)
      BY <1>2, <1>6, <3>1 DEF PackedAs
    <3>3. levels[l][i] \in BlocksOf(l)
      BY <1>6, <3>1 DEF BlocksOf
    <3> QED
      BY <1>6, <1>8, <1>9, <3>1, <3>2, <3>3
  <2> QED
    BY <2>1, <2>2
<1>11. PackedAs(l, Prefix(d, p + 1))'
  BY <1>6, <1>9, <1>10 DEF PackedAs, ReadBlock
<1> QED
  BY <1>2, <1>3, <1>4, <1>11

\* A level that has just been opened is an empty packing.
LEMMA OpenedPacked ==
  ASSUME Registered, OpenLevel
  PROVE  /\ nextLevel \notin DOMAIN levels /\ nextLevel' = nextLevel + 1 /\ nextLevel < MaxLevels
         /\ DOMAIN levels' = DOMAIN levels \cup {nextLevel}
         /\ \A l \in DOMAIN levels : levels'[l] = levels[l]
         /\ \A l : l = nextLevel => PackedAs(l, EmptyDict)'
<1>1. nextLevel \notin DOMAIN levels
  BY DEF Registered, TypeOK, IdsInv
<1>2. levels' = Put(levels, nextLevel, <<>>) /\ nextLevel' = nextLevel + 1 /\ nextLevel < MaxLevels
  BY DEF OpenLevel, LevelsLeft
<1>3. /\ DOMAIN levels' = DOMAIN levels \cup {nextLevel}
      /\ \A l \in DOMAIN levels : levels'[l] = levels[l]
      /\ levels'[nextLevel] = <<>>
  BY <1>1, <1>2 DEF Put
<1>4. \A l : l = nextLevel => PackedAs(l, EmptyDict)'
  BY <1>3, EmptyPacking DEF PackedAs
<1> QED
  BY <1>1, <1>2, <1>3, <1>4

LEMMA LevelsPackedStep ==
  ASSUME CanonicalClient, PackedInv, [Next]_vars
  PROVE  LevelsPacked'
<1>1. Registered /\ AllReadable /\ LevelsPacked
  BY DisjointReadable DEF PackedInv, DisjointInv
<1>2. ASSUME NEW l \in DOMAIN levels, l \in DOMAIN levels', levels'[l] = levels[l]
      PROVE  \E e \in Datasets : PackedAs(l, e)'
  <2>1. PICK e \in Datasets : PackedAs(l, e)
    BY <1>1 DEF LevelsPacked
  <2> QED
    BY <1>2, <2>1, KeptLevel
<1>3. SUFFICES ASSUME NEW l \in DOMAIN levels'
               PROVE  \E e \in Datasets : PackedAs(l, e)'
  BY DEF LevelsPacked
<1>4. CASE UNCHANGED levels
  BY <1>2, <1>4
<1>5. CASE OpenLevel
  BY <1>1, <1>2, <1>5, OpenedPacked, EmptyPacking
<1>6. CASE PlaceBlock
  <2>1. CASE l = job.out
    BY <1>6, <2>1, PlacedOutput, PrefixType
  <2>2. CASE l # job.out
    BY <1>2, <1>6, <2>2, PlacedOutput
  <2> QED
    BY <2>1, <2>2
<1>7. ASSUME NEW m \in DOMAIN levels, Retire(m)
      PROVE  \E e \in Datasets : PackedAs(l, e)'
  <2>1. l \in DOMAIN levels /\ levels'[l] = levels[l]
    BY <1>7 DEF Retire, Deregister, Drop
  <2> QED
    BY <1>2, <2>1
<1> QED
  BY <1>1, <1>4, <1>5, <1>6, <1>7, CanonicalStep DEF LevelStep, Registered

LEMMA IdleIsPacked ==
  ASSUME job = Idle
  PROVE  JobPacked
BY IdleHasNoLevels DEF JobPacked, BuildPacked, MergePacked, RetiredInOrder

LEMMA StartBuildPacked ==
  ASSUME PackedInv, NEW d \in Batches, StartBuild(d)
  PROVE  JobPacked'
<1>1. Registered
  BY DEF PackedInv, DisjointInv
<1>2. OpenLevel /\ job' = Building(nextLevel, d)
  BY DEF StartBuild
<1>3. d \in Datasets
  BY EngineAssumption
<1>4. nextLevel \in Nat
  BY <1>1 DEF Registered, TypeOK
<1>5. \A l : l = nextLevel => PackedAs(l, Prefix(d, 0))'
  BY <1>1, <1>2, <1>3, OpenedPacked, PrefixEnds
<1>6. /\ job'.data = d /\ job'.placed = 0 /\ job'.out = nextLevel /\ job' \notin Merges
      /\ nextLevel' - 1 = nextLevel
  BY <1>1, <1>2, <1>4, OpenedPacked DEF Building, Merges
<1>7. 0 \in 0..NumBlocks(d)
  BY <1>3, NumBlocksBounds
<1>8. \A l : l = job'.out => PackedAs(l, Prefix(d, 0))'
  BY <1>5, <1>6
<1>9. PackedAs(job.out, Prefix(job.data, job.placed))'
  BY <1>6, <1>8 DEF PackedAs
<1> QED
  BY <1>6, <1>7, <1>9 DEF JobPacked, BuildPacked, MergePacked, RetiredInOrder

LEMMA StartMergePacked ==
  ASSUME CanonicalClient, PackedInv, NEW newer, NEW older, StartMerge(newer, older)
  PROVE  JobPacked'
<1>1. Registered /\ [Next]_vars
  <2>1. newer \in DOMAIN levels /\ older \in DOMAIN levels
    BY DEF StartMerge
  <2> QED
    BY <2>1 DEF PackedInv, DisjointInv, Next, Client
<1> DEFINE d == Overlay(Contents(newer), Contents(older))
<1>2. /\ OpenLevel /\ newer \in DOMAIN levels /\ older \in DOMAIN levels
      /\ LevelReadable(newer) /\ LevelReadable(older)
      /\ job' = [call |-> "merge", out |-> nextLevel, data |-> d, placed |-> 0,
                 newer |-> newer, older |-> older]
  BY DEF StartMerge, MergeSorted
<1>3. Contents(newer) \in Datasets /\ Contents(older) \in Datasets
  BY <1>1, <1>2, ContentsType DEF Registered
<1>4. d \in Datasets
  BY <1>3, OverlayType
<1>5. Contents(newer)' = Contents(newer) /\ Contents(older)' = Contents(older)
  BY <1>1, <1>2, OpenedPacked, KeptLevel
<1>6. \A l, e : l = nextLevel /\ e = EmptyDict => PackedAs(l, e)'
  BY <1>1, <1>2, OpenedPacked
<1>7. Prefix(d, 0) = EmptyDict /\ 0 \in 0..NumBlocks(d)
  BY <1>4, PrefixEnds, NumBlocksBounds
<1> HIDE DEF d
<1>8. /\ job'.data = d /\ job'.placed = 0 /\ job'.out = nextLevel
      /\ job'.newer = newer /\ job'.older = older /\ job'.call = "merge"
      /\ nextLevel' - 1 = nextLevel /\ job' \notin Builds
  <2>1. /\ job'.data = d /\ job'.placed = 0 /\ job'.out = nextLevel
        /\ job'.newer = newer /\ job'.older = older /\ job'.call = "merge"
    BY <1>2
  <2>2. nextLevel \in Nat /\ nextLevel' = nextLevel + 1
    BY <1>1, <1>2, OpenedPacked DEF Registered, TypeOK
  <2>3. job' \notin Builds
    BY <2>1 DEF Builds
  <2> QED
    BY <2>1, <2>2, <2>3
<1>9. PackedAs(job.out, Prefix(job.data, job.placed))'
  BY <1>6, <1>7, <1>8 DEF PackedAs
<1>10. (job.data = Overlay(Contents(job.newer), Contents(job.older)))'
  <2>1. \A m : m = newer => Contents(m)' = Contents(newer)
    BY <1>5
  <2>2. \A m : m = older => Contents(m)' = Contents(older)
    BY <1>5
  <2> QED
    BY <1>8, <2>1, <2>2 DEF d
<1> QED
  BY <1>7, <1>8, <1>9, <1>10 DEF JobPacked, BuildPacked, MergePacked, RetiredInOrder

LEMMA PlacePacked ==
  ASSUME CanonicalClient, PackedInv, PlaceBlock
  PROVE  JobPacked'
<1> DEFINE d == job.data
           p == job.placed
           l == job.out
<1>1. Registered /\ [Next]_vars
  BY DEF PackedInv, DisjointInv, Next, Run
<1>2. /\ l \in DOMAIN levels /\ DOMAIN levels' = DOMAIN levels
      /\ \A m \in DOMAIN levels : m # l => levels'[m] = levels[m]
      /\ d \in Datasets /\ p \in 0..NumBlocks(d) - 1
      /\ job' = [job EXCEPT !.placed = p + 1]
      /\ \A m, q, e : m = l /\ q = p /\ e = d => PackedAs(m, Prefix(e, q + 1))'
  BY PlacedOutput
<1>3. nextLevel' = nextLevel /\ p + 1 \in 0..NumBlocks(d)
  <2>1. nextLevel' = nextLevel
    BY DEF PlaceBlock, CreateBlockInLevel, Attach
  <2> QED
    BY <1>2, <2>1, NumBlocksBounds
<1>4. CASE job \in Builds
  <2>1. /\ job'.data = d /\ job'.placed = p + 1 /\ job'.out = l /\ job' \notin Merges
    BY <1>2, <1>4 DEF Builds, Merges
  <2>2. PackedAs(job.out, Prefix(job.data, job.placed))'
    BY <1>2, <2>1 DEF PackedAs
  <2>3. d \in Batches /\ l = nextLevel - 1
    BY <1>4 DEF PackedInv, JobPacked, BuildPacked
  <2> QED
    BY <1>3, <2>1, <2>2, <2>3 DEF JobPacked, BuildPacked, MergePacked, RetiredInOrder
<1>5. CASE job \in Merges
  <2>1. /\ job'.data = d /\ job'.placed = p + 1 /\ job'.out = l
        /\ job'.newer = job.newer /\ job'.older = job.older
        /\ job'.call = job.call /\ job' \notin Builds
    BY <1>2, <1>5 DEF Builds, Merges
  <2>2. PackedAs(job.out, Prefix(job.data, job.placed))'
    BY <1>2, <2>1 DEF PackedAs
  <2>3. job.call = "merge"
    BY <1>5 DEF PlaceBlock, Placing, Merges
  <2>4. l = nextLevel - 1 /\ d = Overlay(Contents(job.newer), Contents(job.older))
    BY <1>5, <2>3 DEF PackedInv, JobPacked, MergePacked
  <2>5. /\ job.newer \in DOMAIN levels /\ job.older \in DOMAIN levels
        /\ l \notin {job.newer, job.older}
    BY <1>1, <1>5, <2>3 DEF Registered, JobLevels
  <2>6. \A m \in {job.newer, job.older} : Contents(m)' = Contents(m)
    BY <1>1, <1>2, <2>5, KeptLevel
  <2>7. (job.data = Overlay(Contents(job.newer), Contents(job.older)))'
    BY <2>1, <2>4, <2>6
  <2> QED
    BY <1>3, <2>1, <2>2, <2>3, <2>4, <2>7 DEF JobPacked, BuildPacked, MergePacked, RetiredInOrder
<1> QED
  BY <1>1, <1>4, <1>5, JobFields DEF PlaceBlock, Placing, Registered

\* Steps that leave the levels, and all of the job but its call, alone.
LEMMA SameJobPacked ==
  ASSUME CanonicalClient, PackedInv, [Next]_vars,
         UNCHANGED <<levels, nextLevel>>,
         job' = job \/ (job.call = "merge" /\ job' = [job EXCEPT !.call = "discard"])
  PROVE  JobPacked'
<1>1. Registered /\ JobPacked
  BY DEF PackedInv, DisjointInv
<1>2. /\ \A m \in DOMAIN levels : Contents(m)' = Contents(m)
      /\ \A m \in DOMAIN levels : \A e : PackedAs(m, e) => PackedAs(m, e)'
  BY KeptLevel
<1>3. CASE job \in Builds
  <2>1. job' = job /\ job \notin Merges /\ job.out \in DOMAIN levels
    BY <1>1, <1>3 DEF Builds, Merges, Registered, JobLevels
  <2>2. PackedAs(job.out, Prefix(job.data, job.placed))
    BY <1>1, <1>3 DEF JobPacked, BuildPacked
  <2>3. PackedAs(job.out, Prefix(job.data, job.placed))'
    BY <1>2, <2>1, <2>2
  <2> QED
    BY <1>1, <1>3, <2>1, <2>3 DEF JobPacked, BuildPacked, MergePacked, RetiredInOrder
<1>4. CASE job \in Merges
  <2>1. /\ job'.data = job.data /\ job'.placed = job.placed /\ job'.out = job.out
        /\ job'.newer = job.newer /\ job'.older = job.older
        /\ job' \notin Builds
        /\ job'.call \in {"merge", "discard"} => job.call \in {"merge", "discard"}
        /\ job'.call = "retire_older" => job.call = "retire_older"
    BY <1>4 DEF Builds, Merges
  <2>2. RetiredInOrder'
    BY <1>1, <1>4, <2>1 DEF JobPacked, RetiredInOrder
  <2>3. ASSUME job.call \in {"merge", "discard"}
        PROVE  MergePacked'
    <3>1. /\ job.out \in DOMAIN levels /\ job.newer \in DOMAIN levels
          /\ job.older \in DOMAIN levels
      BY <1>1, <1>4, <2>3 DEF Registered, JobLevels
    <3>2. /\ job.placed \in 0..NumBlocks(job.data)
          /\ job.out = nextLevel - 1
          /\ PackedAs(job.out, Prefix(job.data, job.placed))
          /\ job.data = Overlay(Contents(job.newer), Contents(job.older))
      BY <1>1, <1>4, <2>3 DEF JobPacked, MergePacked
    <3>3. PackedAs(job.out, Prefix(job.data, job.placed))'
      BY <1>2, <2>1, <3>1, <3>2
    <3>4. (job.data = Overlay(Contents(job.newer), Contents(job.older)))'
      BY <1>2, <2>1, <3>1, <3>2
    <3> QED
      BY <2>1, <3>2, <3>3, <3>4 DEF MergePacked
  <2> QED
    BY <2>1, <2>2, <2>3 DEF JobPacked, BuildPacked, MergePacked
<1>5. CASE job = Idle
  <2>1. job' = Idle
    BY <1>5 DEF Idle
  <2> QED
    BY <2>1 DEF Idle, Builds, Merges, JobPacked, BuildPacked, MergePacked, RetiredInOrder
<1> QED
  BY <1>1, <1>3, <1>4, <1>5 DEF Registered, TypeOK

LEMMA JobPackedStep ==
  ASSUME CanonicalClient, PackedInv, [Next]_vars
  PROVE  JobPacked'
<1>1. Registered /\ \A l \in DOMAIN levels : ~RetireTorn(l)
  BY DisjointReadable DEF PackedInv, DisjointInv, AllReadable, LevelReadable, BlocksOf, RetireTorn
<1>2. ASSUME job' = Idle
      PROVE  JobPacked'
  BY <1>2 DEF Idle, Builds, Merges, JobPacked, BuildPacked, MergePacked, RetiredInOrder
<1>3. ASSUME job = Idle, job' = job
      PROVE  JobPacked'
  BY <1>2, <1>3
<1>4. CASE CreateLevel
  BY <1>3, <1>4 DEF CreateLevel, Ready
<1>5. ASSUME NEW d, CreateBlock(d)
      PROVE  JobPacked'
  BY <1>3, <1>5 DEF CreateBlock, Ready
<1>6. ASSUME NEW d \in Batches, StartBuild(d)
      PROVE  JobPacked'
  BY <1>6, StartBuildPacked
<1>7. ASSUME NEW l, NEW b, AttachBlock(l, b)
      PROVE  JobPacked'
  BY <1>3, <1>7 DEF AttachBlock, Ready
<1>8. ASSUME NEW b, NEW s, RelocateBlock(b, s)
      PROVE  JobPacked'
  BY <1>3, <1>8 DEF RelocateBlock, Ready
<1>9. ASSUME NEW l, BuildLevelPgm(l) \/ RetireLevel(l)
      PROVE  JobPacked'
  BY <1>3, <1>9 DEF BuildLevelPgm, RetireLevel, Ready
<1>10. ASSUME NEW l, NEW d, StartAppend(l, d)
       PROVE  JobPacked'
  BY <1>10 DEF StartAppend, Ready, CanonicalClient
<1>11. ASSUME NEW newer, NEW older, StartMerge(newer, older)
       PROVE  JobPacked'
  BY <1>11, StartMergePacked
<1>12. CASE PlaceBlock
  BY <1>12, PlacePacked
<1>13. CASE FinishBuild \/ AbortBuild \/ RetireOlder \/ DiscardOutput
  BY <1>2, <1>13 DEF FinishBuild, AbortBuild, RetireOlder, DiscardOutput
<1>14. CASE IndexOutput
  <2>1. job' = [job EXCEPT !.call = "retire_newer"] /\ job \in Merges
    BY <1>1, <1>14, JobFields DEF IndexOutput, Registered
  <2>2. job'.call = "retire_newer" /\ job' \notin Builds
    BY <2>1 DEF Builds, Merges
  <2> QED
    BY <2>2 DEF JobPacked, BuildPacked, MergePacked, RetiredInOrder
<1>15. CASE RetireNewer
  <2>1. /\ job' = [job EXCEPT !.call = "retire_older"] /\ job \in Merges
        /\ levels' = Drop(levels, {job.newer})
    BY <1>1, <1>15, JobFields DEF RetireNewer, Registered, Retire, Deregister
  <2>2. job'.call = "retire_older" /\ job'.newer = job.newer /\ job' \notin Builds
    BY <2>1 DEF Builds, Merges
  <2> QED
    BY <2>1, <2>2 DEF JobPacked, BuildPacked, MergePacked, RetiredInOrder, Drop
<1>16. CASE FailPlacing
  BY <1>16, SameJobPacked DEF FailPlacing, CreateBlockCollides, CreateBlockCut,
     CreateBlockTorn, CreateBlockAlone, registry
<1>17. CASE UNCHANGED vars
  BY <1>17, SameJobPacked DEF vars
<1> QED
  BY <1>4, <1>5, <1>6, <1>7, <1>8, <1>9, <1>10, <1>11, <1>12, <1>13, <1>14, <1>15, <1>16,
     <1>17 DEF Next, Client, Run

LEMMA LevelBoundStep ==
  ASSUME Registered, nextLevel <= MaxLevels, [Next]_vars
  PROVE  nextLevel' <= MaxLevels
<1>1. LevelEffect /\ nextLevel \in Nat
  BY StepLevels DEF Registered, TypeOK
<1>2. \/ nextLevel' = nextLevel
      \/ nextLevel' = nextLevel + 1 /\ nextLevel < MaxLevels
  BY <1>1 DEF LevelEffect, Kept, Opened, Grown, Closed, OpenLevel, LevelsLeft, Attach, Retire
<1> QED
  BY <1>1, <1>2, EngineAssumption

LEMMA PackedInvInit == Init => PackedInv
<1> SUFFICES ASSUME Init
             PROVE  PackedInv
  OBVIOUS
<1>1. DisjointInv
  <2>1. Registered
    BY InitType, IdleHasNoLevels DEF Init, Registered, IdsInv, EmptyDict
  <2>2. LevelsDisjoint
    BY DEF Init, LevelsDisjoint, EmptyDict
  <2> QED
    BY <2>1, <2>2, MappingInit, HousedInit DEF DisjointInv
<1>2. IntactInv
  BY MappingInit DEF Init, IntactInv, SlotsBelow, BlocksIntact, EmptyDict
<1>3. LevelsPacked /\ nextLevel <= MaxLevels
  BY EngineAssumption DEF Init, LevelsPacked, EmptyDict
<1> QED
  BY <1>1, <1>2, <1>3, IdleIsPacked DEF Init, PackedInv

LEMMA PackedInvStep ==
  ASSUME CanonicalClient, PackedInv, [Next]_vars
  PROVE  PackedInv'
<1>1. DisjointInv' /\ IntactInv'
  BY DisjointInvStep, IntactStep, StepEffect DEF PackedInv, CanonicalClient
<1>2. nextLevel' <= MaxLevels
  BY LevelBoundStep DEF PackedInv, DisjointInv
<1> QED
  BY <1>1, <1>2, LevelsPackedStep, JobPackedStep DEF PackedInv

LEMMA PackedInvariant ==
  ASSUME CanonicalClient
  PROVE  Spec => []PackedInv
<1>1. PackedInv /\ [Next]_vars => PackedInv'
  BY PackedInvStep
<1> QED
  BY PackedInvInit, <1>1, PTL DEF Spec

\* Every level is readable, in order and packed at every moment: half-built
\* ones, the output of a merge while it is written and what an interrupted call
\* has left included.
THEOREM LevelsAlwaysCanonical ==
  ASSUME CanonicalClient
  PROVE  Spec => []LevelsCanonical
<1>1. PackedInv => LevelsCanonical
  BY DisjointReadable, PackedCanonical
     DEF PackedInv, DisjointInv, Registered, LevelsPacked, AllReadable, LevelsCanonical
<1> QED
  BY PackedInvariant, <1>1, PTL

-----------------------------------------------------------------------------
(* lookup_level. *)

\* Among the blocks that cover a window, the records of the window are those
\* with its ranks.
LEMMA WindowCandidates ==
  ASSUME TypeOK, NEW l \in DOMAIN levels, NEW e \in Datasets, PackedAs(l, e),
         NEW w, w[1] \in Nat, w[2] \in Nat, w[1] <= w[2]
  PROVE  Candidates(l, w) = Ranked(DOMAIN e, w[1], w[2])
<1> DEFINE S == DOMAIN e
           blk(i) == ReadBlock(levels[l][i])
           rank(i, k) == (i - 1) * Capacity + RankIn(DOMAIN blk(i), k)
<1>1. /\ S \in SUBSET Int /\ IsFiniteSet(S)
      /\ NumBlocks(e) \in Nat /\ DOMAIN levels[l] = 1..NumBlocks(e)
  BY DatasetKeys, NumBlocksBounds DEF TypeOK, PackedAs
<1>2. \A k \in S : RankOf(S, k) \in Nat /\ RankOf(S, k) = RankIn(S, k)
  BY <1>1, RankType DEF RankOf, RankIn
<1>3. \A i \in DOMAIN levels[l] : i - 1 \in Nat /\ blk(i) = Chunk(e, i - 1)
  BY <1>1 DEF PackedAs
<1>4. ASSUME NEW i \in DOMAIN levels[l], NEW k \in DOMAIN blk(i)
      PROVE  k \in S /\ rank(i, k) = RankOf(S, k)
  BY <1>2, <1>3, ChunkValue, ChunkRank
<1>5. CASE w[1] = w[2]
  <2>1. Ranked(S, w[1], w[2]) = {}
    BY <1>2, <1>5 DEF Ranked
  <2> QED
    BY <1>5, <2>1 DEF Candidates
<1>6. CASE w[1] # w[2]
  <2>1. Candidates(l, w) = UNION {{k \in DOMAIN blk(i) : w[1] <= rank(i, k) /\ rank(i, k) < w[2]} :
                                  i \in Covering(l, w)}
    BY <1>6 DEF Candidates
  <2>2. \A i \in Covering(l, w) : i \in DOMAIN levels[l]
    BY DEF Covering
  <2>3. ASSUME NEW k \in Candidates(l, w)
        PROVE  k \in Ranked(S, w[1], w[2])
    <3>1. PICK i \in Covering(l, w) : k \in DOMAIN blk(i) /\ w[1] <= rank(i, k) /\ rank(i, k) < w[2]
      BY <2>1
    <3> QED
      BY <1>4, <2>2, <3>1 DEF Ranked
  <2>4. ASSUME NEW k \in Ranked(S, w[1], w[2])
        PROVE  k \in Candidates(l, w)
    <3>1. k \in S /\ w[1] <= RankOf(S, k) /\ RankOf(S, k) < w[2]
      BY DEF Ranked
    <3>2. PICK i \in 0..NumBlocks(e) - 1 : k \in DOMAIN Chunk(e, i)
      BY <3>1, ChunkCover
    <3>3. i + 1 \in DOMAIN levels[l] /\ (i + 1) - 1 = i
      BY <1>1
    <3>4. k \in DOMAIN blk(i + 1) /\ rank(i + 1, k) = RankOf(S, k)
      BY <1>3, <1>4, <3>2, <3>3
    <3>5. i = RankOf(S, k) \div Capacity
      BY <1>2, <3>1, <3>2 DEF Chunk
    <3>6. w[1] \div Capacity <= i /\ i <= (w[2] - 1) \div Capacity
      <4> HIDE DEF S
      <4>1. \A a, b \in Nat : a <= b => a \div Capacity <= b \div Capacity
        BY CapacityAssumption
      <4> QED
        BY <1>2, <3>1, <3>5, <4>1
    <3>7. w[1] \div Capacity \in Int /\ (w[2] - 1) \div Capacity \in Int
      BY CapacityAssumption
    <3>8. i + 1 \in Covering(l, w)
      BY <3>3, <3>6, <3>7 DEF Covering
    <3> HIDE DEF blk, rank
    <3> QED
      BY <2>1, <3>1, <3>4, <3>8
  <2> QED
    BY <2>3, <2>4
<1> QED
  BY <1>5, <1>6

\* Whatever position the index predicts, lookup_level finds a key exactly when
\* the level holds it, and returns its lower-bound rank.
LEMMA PackedLookup ==
  ASSUME TypeOK, NEW l \in DOMAIN levels, NEW e \in Datasets, PackedAs(l, e),
         NEW k \in Keys, NEW w \in Windows(DOMAIN e, k)
  PROVE  /\ k \in Candidates(l, w) <=> k \in DOMAIN e
         /\ w[1] + RankIn(Candidates(l, w), k) = RankIn(DOMAIN e, k)
<1> DEFINE S == DOMAIN e
<1>1. /\ S \in SUBSET Int /\ IsFiniteSet(S) /\ Cardinality(S) \in Nat /\ k \in Int
  BY DatasetKeys, KeysAssumption, FS_CardinalityType
<1>2. RankOf(S, k) \in Nat /\ RankOf(S, k) = RankIn(S, k)
  BY <1>1, RankType DEF RankOf, RankIn
<1>3. /\ w[1] \in Nat /\ w[2] \in Nat
      /\ w[1] <= RankOf(S, k) /\ RankOf(S, k) <= w[2]
      /\ k \in S => RankOf(S, k) < w[2]
  <2>1. PICK pos \in 0..Cardinality(S) :
          /\ w = <<IF pos < Epsilon THEN 0 ELSE pos - Epsilon,
                   IF pos + Epsilon + 2 > Cardinality(S) THEN Cardinality(S) ELSE pos + Epsilon + 2>>
          /\ w[1] <= RankIn(S, k) /\ RankIn(S, k) <= w[2]
          /\ k \in S => RankIn(S, k) < w[2]
    BY DEF Windows
  <2>2. Epsilon \in Nat
    BY EngineAssumption
  <2> QED
    BY <1>1, <1>2, <2>1, <2>2
<1>4. Candidates(l, w) = Ranked(S, w[1], w[2])
  BY <1>2, <1>3, WindowCandidates
<1>5. k \in Candidates(l, w) <=> k \in S
  BY <1>3, <1>4 DEF Ranked
<1>6. RankOf(Ranked(S, w[1], w[2]), k) = RankOf(S, k) - w[1]
  BY <1>1, <1>2, <1>3, RankInRanked
<1> QED
  BY <1>2, <1>3, <1>4, <1>5, <1>6 DEF RankOf, RankIn

LEMMA ExactLookups ==
  ASSUME PackedInv, PgmCurrent
  PROVE  LookupExact
<1> SUFFICES ASSUME NEW l \in DOMAIN pgm, NEW k \in Keys, NEW w \in Windows(pgm[l], k)
             PROVE  /\ k \in Candidates(l, w) <=> k \in KeysOf(l)
                    /\ w[1] + RankIn(Candidates(l, w), k) = RankIn(KeysOf(l), k)
  BY DEF LookupExact
<1>1. TypeOK /\ l \in DOMAIN levels /\ pgm[l] = KeysOf(l)
  BY DEF PackedInv, DisjointInv, Registered, PgmCurrent
<1>2. PICK e \in Datasets : PackedAs(l, e)
  BY <1>1 DEF PackedInv, LevelsPacked
<1>3. KeysOf(l) = DOMAIN e
  BY <1>1, <1>2, PackedContents
<1> QED
  BY <1>1, <1>2, <1>3, PackedLookup

\* lookup_level answers with exactly the keys the level holds and their ranks,
\* through every build, merge, relocation, retirement and failure, and for every
\* prediction within the error bound of the index.
THEOREM LookupIsExact ==
  ASSUME CanonicalClient
  PROVE  Spec => []LookupExact
<1>1. PackedInv /\ PgmCurrent => LookupExact
  BY ExactLookups
<1>2. Spec => []PgmCurrent
  BY IndexAlwaysCurrent DEF CanonicalClient
<1> QED
  BY PackedInvariant, <1>1, <1>2, PTL

-----------------------------------------------------------------------------
(* The refinement: LevelStore's variables, as the engine's state gives them. *)

Shown == DOMAIN levels \ Hidden
content == [l \in Shown |-> Contents(l)]
asked == IF Merging THEN <<job.newer, job.older>> ELSE <<>>

LEMMA HiddenByCall ==
  /\ job.call \in {"build", "merge", "discard"} => Hidden = {job.out}
  /\ job.call \in {"retire_newer", "retire_older"} => Hidden = {job.newer, job.older}
  /\ job.call \notin {"build", "merge", "discard", "retire_newer", "retire_older"} => Hidden = {}
BY DEF Hidden

LEMMA SameDefinitions ==
  /\ \A f, k, v : Abstract!Put(f, k, v) = Put(f, k, v)
  /\ \A f, S : Abstract!Drop(f, S) = Drop(f, S)
  /\ \A f, g : Abstract!Overlay(f, g) = Overlay(f, g)
  /\ \A d : Abstract!NumBlocks(d) = NumBlocks(d)
  /\ \A d, n : Abstract!Prefix(d, n) = Prefix(d, n)
  /\ Abstract!EmptyDict = EmptyDict
<1>1. /\ \A f, k, v : Abstract!Put(f, k, v) = Put(f, k, v)
      /\ \A f, S : Abstract!Drop(f, S) = Drop(f, S)
      /\ \A f, g : Abstract!Overlay(f, g) = Overlay(f, g)
      /\ Abstract!EmptyDict = EmptyDict
  BY DEF Abstract!Put, Put, Abstract!Drop, Drop, Abstract!Overlay, Overlay,
         Abstract!EmptyDict, EmptyDict
<1>0. \A S : Abstract!Cardinality(S) = Cardinality(S)
  BY DEF Abstract!Cardinality, Cardinality
<1>2. \A d : Abstract!NumBlocks(d) = NumBlocks(d)
  BY <1>0 DEF Abstract!NumBlocks, NumBlocks, Abstract!Size, Size
<1>3. \A S, k : Abstract!RankIn(S, k) = RankIn(S, k)
  BY <1>0 DEF Abstract!RankIn, RankIn
<1>4. \A d, n : Abstract!Prefix(d, n) = Prefix(d, n)
  BY <1>3 DEF Abstract!Prefix, Prefix
<1> QED
  BY <1>1, <1>2, <1>4

LEMMA AskedCall ==
  ASSUME TypeOK
  PROVE  /\ asked = <<>> <=> ~Merging
         /\ Merging => asked[1] = job.newer /\ asked[2] = job.older
BY DEF asked, Merging

\* The seven ways LevelStore steps, and the stutter, in terms of what is shown.
LEMMA AbstractStutter ==
  ASSUME asked' = asked, content' = content
  PROVE  [Abstract!Next]_<<content, asked>>
OBVIOUS

LEMMA AbstractPublish ==
  ASSUME asked = <<>>, asked' = <<>>, NEW l \in 0..MaxLevels - 1, \A m \in Shown : l > m,
         NEW d \in Batches \cup {EmptyDict}, NEW n \in 0..NumBlocks(d),
         content' = Put(content, l, Prefix(d, n))
  PROVE  Abstract!Next
<1>1. DOMAIN content = Shown
  BY DEF content
<1>2. l \in Abstract!NewIds
  BY <1>1 DEF Abstract!NewIds, content, Shown
<1>3. Abstract!Publish(l, d)
  BY SameDefinitions DEF Abstract!Publish, content, Shown, asked
<1> QED
  BY <1>2, <1>3, SameDefinitions DEF Abstract!Next

LEMMA AbstractAsk ==
  ASSUME asked = <<>>, NEW newer \in Shown, NEW older \in Shown, newer # older,
         asked' = <<newer, older>>, content' = content
  PROVE  Abstract!Next
BY DEF Abstract!Next, Abstract!Ask, content, asked, Shown

LEMMA AbstractReplace ==
  ASSUME asked # <<>>, asked' = <<>>, NEW l \in 0..MaxLevels - 1, \A m \in Shown : l > m,
         content' = Put(Drop(content, {asked[1], asked[2]}), l,
                        Overlay(content[asked[1]], content[asked[2]]))
  PROVE  Abstract!Next
<1>1. DOMAIN content = Shown
  BY DEF content
<1>2. l \in Abstract!NewIds
  BY <1>1 DEF Abstract!NewIds, content, Shown
<1>3. Abstract!Replace(l)
  BY SameDefinitions DEF Abstract!Replace, content, Shown, asked
<1> QED
  BY <1>2, <1>3 DEF Abstract!Next

LEMMA AbstractFail ==
  ASSUME asked # <<>>, asked' = <<>>, content' = content
  PROVE  Abstract!Next
BY DEF Abstract!Next, Abstract!Fail, content, asked, Shown

LEMMA AbstractRetire ==
  ASSUME asked = <<>>, asked' = <<>>, NEW l \in Shown, content' = Drop(content, {l})
  PROVE  Abstract!Next
<1>1. Abstract!Retire(l)
  BY SameDefinitions DEF Abstract!Retire, content, Shown, asked
<1>2. l \in DOMAIN [m \in DOMAIN levels \ Hidden |-> Contents(m)]
  BY DEF Shown
<1> QED
  BY <1>1, <1>2 DEF Abstract!Next

-----------------------------------------------------------------------------
\* What is shown of two states whose visible levels are the same.
LEMMA ContentSame ==
  ASSUME Shown' = Shown, \A l \in Shown : Contents(l)' = Contents(l)
  PROVE  content' = content
<1>1. content' = [l \in Shown' |-> Contents(l)']
  BY DEF content
<1> QED
  BY <1>1 DEF content

\* A level of records e has been added.
LEMMA ContentAdded ==
  ASSUME NEW out, NEW e, out \notin Shown, Shown' = Shown \cup {out},
         \A l \in Shown : Contents(l)' = Contents(l),
         \A l : l = out => Contents(l)' = e
  PROVE  content' = Put(content, out, e)
<1>1. content' = [l \in Shown' |-> Contents(l)']
  BY DEF content
<1>2. DOMAIN content = Shown /\ \A l \in Shown : content[l] = Contents(l)
  BY DEF content
<1>3. Put(content, out, e) = [l \in Shown \cup {out} |-> IF l = out THEN e ELSE content[l]]
  BY <1>2 DEF Put
<1>4. \A l \in Shown \cup {out} : Contents(l)' = IF l = out THEN e ELSE content[l]
  BY <1>2
<1> QED
  BY <1>1, <1>3, <1>4

\* A level has gone.
LEMMA ContentDropped ==
  ASSUME NEW S, Shown' = Shown \ S, \A l \in Shown \ S : Contents(l)' = Contents(l)
  PROVE  content' = Drop(content, S)
<1>1. content' = [l \in Shown' |-> Contents(l)']
  BY DEF content
<1>2. DOMAIN content = Shown /\ \A l \in Shown : content[l] = Contents(l)
  BY DEF content
<1> QED
  BY <1>1, <1>2 DEF Drop

\* What a packing that is still one in the next state holds then.
LEMMA PackedContentsNext ==
  (TypeOK => \A l \in DOMAIN levels : \A e \in Datasets : PackedAs(l, e) => Contents(l) = e)'
<1>1. TypeOK => \A l \in DOMAIN levels : \A e \in Datasets : PackedAs(l, e) => Contents(l) = e
  BY PackedContents
<1> QED
  BY <1>1, PTL

-----------------------------------------------------------------------------
(* The steps of the engine, as LevelStore sees them. *)

ShownStep == [Abstract!Next]_<<content, asked>>

\* No call in progress: every level is shown and nothing is asked for.
LEMMA IdleShown ==
  job = Idle => Shown = DOMAIN levels /\ asked = <<>>
BY HiddenByCall DEF Idle, Shown, asked, Merging

LEMMA IdleShownNext == (job = Idle => Shown = DOMAIN levels /\ asked = <<>>)'
BY IdleShown, PTL

\* A call that only moves blocks or builds an index.
LEMMA QuietStep ==
  ASSUME CanonicalClient, PackedInv, [Next]_vars, UNCHANGED levels,
         job' = job \/ (job.call = "merge" /\ job' = [job EXCEPT !.call = "discard"])
  PROVE  ShownStep
<1>1. /\ job'.call \in {"merge", "discard"} <=> job.call \in {"merge", "discard"}
      /\ job' # job => /\ job.call = "merge" /\ job'.call = "discard"
                      /\ job'.out = job.out /\ job'.newer = job.newer /\ job'.older = job.older
  <2>1. job.call = "merge" => job \in Merges
    BY JobFields DEF PackedInv, DisjointInv, Registered
  <2> QED
    BY <2>1 DEF Merges
<1>2. asked' = asked
  BY <1>1 DEF asked, Merging
<1>3. Shown' = Shown
  <2>1. CASE job' = job
    BY <2>1 DEF Shown, Hidden
  <2>2. CASE job' # job
    BY <1>1, <2>2 DEF Shown, Hidden
  <2> QED
    BY <2>1, <2>2
<1>4. \A l \in Shown : Contents(l)' = Contents(l)
  BY KeptLevel DEF Shown
<1> QED
  BY <1>2, <1>3, <1>4, ContentSame, AbstractStutter DEF ShownStep

LEMMA CreateLevelShown ==
  ASSUME CanonicalClient, PackedInv, CreateLevel
  PROVE  ShownStep
<1>1. Registered /\ [Next]_vars /\ OpenLevel /\ job = Idle /\ job' = Idle
  BY DEF PackedInv, DisjointInv, Next, Client, CreateLevel, Ready
<1>2. TypeOK'
  BY <1>1, StepType DEF Registered
<1>3. Shown = DOMAIN levels /\ Shown' = DOMAIN levels' /\ asked = <<>> /\ asked' = <<>>
  BY <1>1, IdleShown, IdleShownNext
<1>4. /\ nextLevel \notin DOMAIN levels /\ nextLevel < MaxLevels /\ nextLevel \in Nat
      /\ DOMAIN levels' = DOMAIN levels \cup {nextLevel}
      /\ \A l \in DOMAIN levels : levels'[l] = levels[l]
      /\ \A l : l = nextLevel => PackedAs(l, EmptyDict)'
  BY <1>1, OpenedPacked DEF Registered, TypeOK
<1>5. \A l : l = nextLevel => Contents(l)' = EmptyDict
  BY <1>2, <1>4, EmptyPacking, PackedContentsNext
<1>6. content' = Put(content, nextLevel, Prefix(EmptyDict, 0))
  BY <1>1, <1>3, <1>4, <1>5, KeptLevel, ContentAdded, EmptyPacking
<1>7. 0 \in 0..NumBlocks(EmptyDict)
  BY EmptyPacking
<1>8. nextLevel \in 0..MaxLevels - 1 /\ \A m \in Shown : nextLevel > m
  BY <1>1, <1>3, <1>4, EngineAssumption DEF Registered, IdsInv, TypeOK
<1> QED
  BY <1>3, <1>6, <1>7, <1>8, AbstractPublish DEF ShownStep

\* A build or a merge opens its output, which stays hidden.
LEMMA StartBuildShown ==
  ASSUME CanonicalClient, PackedInv, NEW d \in Batches, StartBuild(d)
  PROVE  ShownStep
<1>1. Registered /\ [Next]_vars /\ OpenLevel /\ job = Idle /\ job' = Building(nextLevel, d)
  BY DEF PackedInv, DisjointInv, Next, Client, StartBuild
<1>2. Shown = DOMAIN levels /\ asked = <<>>
  BY <1>1, IdleShown
<1>3. job'.call = "build" /\ job'.out = nextLevel
  BY <1>1 DEF Building
<1>4. Shown' = DOMAIN levels' \ {nextLevel} /\ asked' = <<>>
  BY <1>3 DEF Shown, Hidden, asked, Merging
<1>5. Shown' = Shown /\ \A l \in Shown : Contents(l)' = Contents(l)
  BY <1>1, <1>2, <1>4, OpenedPacked, KeptLevel
<1> QED
  BY <1>2, <1>4, <1>5, ContentSame, AbstractStutter DEF ShownStep

LEMMA StartMergeShown ==
  ASSUME CanonicalClient, PackedInv, NEW newer, NEW older, StartMerge(newer, older)
  PROVE  ShownStep
<1>1. /\ newer \in DOMAIN levels /\ older \in DOMAIN levels /\ newer # older
      /\ OpenLevel /\ job = Idle
      /\ job'.call = "merge" /\ job'.out = nextLevel
      /\ job'.newer = newer /\ job'.older = older
  BY DEF StartMerge
<1>2. Registered /\ [Next]_vars
  BY <1>1 DEF PackedInv, DisjointInv, Next, Client
<1>3. Shown = DOMAIN levels /\ asked = <<>>
  BY <1>1, IdleShown
<1>4. Shown' = DOMAIN levels' \ {nextLevel} /\ asked' = <<newer, older>>
  BY <1>1 DEF Shown, Hidden, asked, Merging
<1>5. Shown' = Shown /\ \A l \in Shown : Contents(l)' = Contents(l)
  BY <1>1, <1>2, <1>3, <1>4, OpenedPacked, KeptLevel
<1> QED
  BY <1>1, <1>3, <1>4, <1>5, ContentSame, AbstractAsk DEF ShownStep

LEMMA PlaceShown ==
  ASSUME CanonicalClient, PackedInv, PlaceBlock
  PROVE  ShownStep
<1>1. Registered /\ [Next]_vars /\ job.call \in {"build", "merge"}
  BY DEF PackedInv, DisjointInv, Next, Run, PlaceBlock, Placing
<1>2. /\ DOMAIN levels' = DOMAIN levels
      /\ \A m \in DOMAIN levels : m # job.out => levels'[m] = levels[m]
      /\ job' = [job EXCEPT !.placed = job.placed + 1]
  BY PlacedOutput
<1>3. job.call = "merge" => job \in Merges
  BY <1>1, JobFields DEF Registered
<1>4. /\ job'.call = job.call /\ job'.out = job.out
      /\ job.call = "merge" => job'.newer = job.newer /\ job'.older = job.older
  <2>1. job \in Builds \/ job \in Merges
    BY <1>1, JobFields DEF Registered
  <2> QED
    BY <1>2, <1>3, <2>1 DEF Builds, Merges
<1>5. Shown = DOMAIN levels \ {job.out} /\ Shown' = DOMAIN levels' \ {job.out}
  BY <1>1, <1>4 DEF Shown, Hidden
<1>6. asked' = asked
  BY <1>1, <1>4 DEF asked, Merging
<1>7. Shown' = Shown /\ \A l \in Shown : Contents(l)' = Contents(l)
  BY <1>1, <1>2, <1>5, KeptLevel
<1> QED
  BY <1>6, <1>7, ContentSame, AbstractStutter DEF ShownStep

\* The end of a build publishes the blocks it has placed, all of them or, after
\* an exception, the first ones.
LEMMA EndBuildShown ==
  ASSUME CanonicalClient, PackedInv, [Next]_vars,
         job.call = "build", job' = Idle, UNCHANGED levels
  PROVE  ShownStep
<1> DEFINE l == job.out
           d == job.data
           n == job.placed
<1>1. Registered /\ job \in Builds
  BY JobFields DEF PackedInv, DisjointInv, Registered
<1>2. /\ l \in DOMAIN levels /\ d \in Batches /\ n \in 0..NumBlocks(d)
      /\ l = nextLevel - 1 /\ PackedAs(l, Prefix(d, n))
  BY <1>1 DEF Registered, JobLevels, PackedInv, JobPacked, BuildPacked
<1>3. d \in Datasets /\ Prefix(d, n) \in Datasets
  BY <1>2, EngineAssumption, PrefixType
<1>4. Shown = DOMAIN levels \ {l} /\ asked = <<>>
  BY DEF Shown, Hidden, asked, Merging
<1>5. Shown' = DOMAIN levels /\ asked' = <<>>
  BY IdleShownNext
<1>6. Contents(l) = Prefix(d, n)
  BY <1>1, <1>2, <1>3, PackedContents DEF Registered
<1>7. \A m \in DOMAIN levels : Contents(m)' = Contents(m)
  BY KeptLevel
<1>8. \A m : m = l => Contents(m)' = Prefix(d, n)
  BY <1>2, <1>6, <1>7
<1>9. content' = Put(content, l, Prefix(d, n))
  <2> HIDE DEF l, d, n
  <2> QED
    BY <1>2, <1>4, <1>5, <1>7, <1>8, ContentAdded
<1>10. l \in 0..MaxLevels - 1 /\ \A m \in Shown : l > m
  <2>1. nextLevel \in Nat /\ nextLevel <= MaxLevels /\ MaxLevels \in Nat /\ DOMAIN levels \subseteq Nat
    BY <1>1, EngineAssumption DEF PackedInv, Registered, TypeOK
  <2>2. \A m \in DOMAIN levels : m < nextLevel
    BY <1>1 DEF Registered, IdsInv
  <2> QED
    BY <1>2, <1>4, <2>1, <2>2
<1> HIDE DEF l, d, n
<1> QED
  BY <1>2, <1>4, <1>5, <1>9, <1>10, AbstractPublish DEF ShownStep

\* Publishing the output of a merge hides its inputs.
LEMMA IndexShown ==
  ASSUME CanonicalClient, PackedInv, IndexOutput
  PROVE  ShownStep
<1> DEFINE l == job.out
           newer == job.newer
           older == job.older
<1>1. Registered /\ [Next]_vars /\ job \in Merges /\ job.call = "merge" /\ levels' = levels
  BY JobFields DEF PackedInv, DisjointInv, Registered, Next, Run, IndexOutput, IndexLevel
<1>2. /\ l \in DOMAIN levels /\ newer \in DOMAIN levels /\ older \in DOMAIN levels
      /\ l # newer /\ l # older
  BY <1>1 DEF Registered, JobLevels
<1>3. /\ job.data \in Datasets /\ job.placed \in 0..NumBlocks(job.data)
      /\ l = nextLevel - 1 /\ PackedAs(l, Prefix(job.data, job.placed))
      /\ job.data = Overlay(Contents(newer), Contents(older))
  BY <1>1, JobFields DEF PackedInv, JobPacked, MergePacked, Registered
<1>4. job.placed = NumBlocks(job.data) /\ PackedAs(l, job.data)
  <2>1. Len(levels[l]) = NumBlocks(job.data) /\ Len(levels[l]) = NumBlocks(Prefix(job.data, job.placed))
    BY <1>3 DEF IndexOutput, PackedAs
  <2>2. job.placed = NumBlocks(job.data)
    BY <1>3, <2>1, PrefixPacking
  <2> QED
    BY <1>3, <2>2, PrefixEnds
<1>5. Contents(l) = job.data
  BY <1>1, <1>2, <1>3, <1>4, PackedContents DEF Registered
<1>6. /\ job'.call = "retire_newer" /\ job'.newer = newer /\ job'.older = older
  BY <1>1 DEF IndexOutput, Merges
<1>7. Shown = DOMAIN levels \ {l} /\ Merging /\ asked = <<newer, older>>
  BY <1>1 DEF Shown, Hidden, asked, Merging
<1>8. Shown' = DOMAIN levels \ {newer, older} /\ asked' = <<>>
  BY <1>1, <1>6 DEF Shown, Hidden, asked, Merging
<1>9. \A m \in DOMAIN levels : Contents(m)' = Contents(m)
  BY <1>1, KeptLevel
<1>10. content[newer] = Contents(newer) /\ content[older] = Contents(older)
  BY <1>2, <1>7 DEF content
<1> DEFINE d == job.data
<1>11. content' = Put(Drop(content, {newer, older}), l, d)
  <2>1. content' = [m \in Shown' |-> Contents(m)']
    BY DEF content
  <2>2. DOMAIN content = Shown /\ \A m \in Shown : content[m] = Contents(m)
    BY DEF content
  <2> DEFINE c == Drop(content, {newer, older})
  <2>3. DOMAIN c = Shown \ {newer, older} /\ \A m \in DOMAIN c : c[m] = Contents(m)
    BY <2>2 DEF Drop
  <2>4. Put(c, l, d) = [m \in DOMAIN c \cup {l} |-> IF m = l THEN d ELSE c[m]]
    BY DEF Put
  <2>5. Shown' = DOMAIN c \cup {l}
    <3> HIDE DEF c
    <3> QED
      BY <1>2, <1>7, <1>8, <2>3
  <2>6. \A m \in DOMAIN c \cup {l} : Contents(m)' = IF m = l THEN d ELSE c[m]
    <3> HIDE DEF c
    <3> QED
      BY <1>2, <1>5, <1>7, <1>9, <2>3
  <2> HIDE DEF c
  <2>7. content' = Put(c, l, d)
    BY <2>1, <2>4, <2>5, <2>6
  <2> QED
    BY <2>7 DEF c
<1>12. l \in 0..MaxLevels - 1 /\ \A m \in Shown : l > m
  <2>1. nextLevel \in Nat /\ nextLevel <= MaxLevels /\ MaxLevels \in Nat /\ DOMAIN levels \subseteq Nat
    BY <1>1, EngineAssumption DEF PackedInv, Registered, TypeOK
  <2>2. \A m \in DOMAIN levels : m < nextLevel
    BY <1>1 DEF Registered, IdsInv
  <2> QED
    BY <1>2, <1>3, <1>7, <2>1, <2>2
<1>13. asked # <<>> /\ asked[1] = newer /\ asked[2] = older
  BY <1>7
<1> HIDE DEF l, newer, older, d
<1>14. content' = Put(Drop(content, {asked[1], asked[2]}), l,
                     Overlay(content[asked[1]], content[asked[2]]))
  BY <1>3, <1>10, <1>11, <1>13 DEF d
<1> QED
  BY <1>8, <1>12, <1>13, <1>14, AbstractReplace DEF ShownStep

\* What has been replaced is hidden while it is retired.
LEMMA RetireInputsShown ==
  ASSUME CanonicalClient, PackedInv, RetireNewer \/ RetireOlder
  PROVE  ShownStep
<1>1. /\ Registered /\ [Next]_vars /\ job \in Merges
      /\ job.call \in {"retire_newer", "retire_older"}
  BY JobFields DEF PackedInv, DisjointInv, Registered, Next, Run, RetireNewer, RetireOlder
<1>2. \A l \in DOMAIN levels : ~RetireTorn(l)
  BY DisjointReadable DEF PackedInv, AllReadable, LevelReadable, BlocksOf, RetireTorn
<1>3. Shown = DOMAIN levels \ {job.newer, job.older} /\ asked = <<>>
  BY <1>1 DEF Shown, Hidden, asked, Merging
<1>4. CASE RetireNewer
  <2>1. levels' = Drop(levels, {job.newer}) /\ job' = [job EXCEPT !.call = "retire_older"]
    BY <1>4 DEF RetireNewer, Retire, Deregister
  <2>2. job'.call = "retire_older" /\ job'.newer = job.newer /\ job'.older = job.older
    BY <1>1, <2>1 DEF Merges
  <2>3. Shown' = DOMAIN levels' \ {job.newer, job.older} /\ asked' = <<>>
    BY <2>2 DEF Shown, Hidden, asked, Merging
  <2>4. Shown' = Shown /\ \A l \in Shown : l \in DOMAIN levels' /\ levels'[l] = levels[l]
    BY <1>3, <2>1, <2>3 DEF Drop
  <2> QED
    BY <1>1, <1>3, <2>3, <2>4, KeptLevel, ContentSame, AbstractStutter DEF ShownStep, Shown
<1>5. CASE RetireOlder
  <2>1. job.older \in DOMAIN levels /\ job.newer \notin DOMAIN levels
    BY <1>1, <1>5 DEF RetireOlder, Registered, JobLevels, PackedInv, JobPacked, RetiredInOrder
  <2>2. levels' = Drop(levels, {job.older}) /\ job' = Idle
    BY <1>2, <1>5, <2>1 DEF RetireOlder, Retire, Deregister
  <2>3. Shown' = DOMAIN levels' /\ asked' = <<>>
    BY <2>2, IdleShownNext
  <2>4. Shown' = Shown /\ \A l \in Shown : l \in DOMAIN levels' /\ levels'[l] = levels[l]
    BY <1>3, <2>1, <2>2, <2>3 DEF Drop
  <2> QED
    BY <1>1, <1>3, <2>3, <2>4, KeptLevel, ContentSame, AbstractStutter DEF ShownStep, Shown
<1> QED
  BY <1>4, <1>5

\* A merge that fails takes its hidden output with it.
LEMMA DiscardShown ==
  ASSUME CanonicalClient, PackedInv, DiscardOutput
  PROVE  ShownStep
<1>1. Registered /\ [Next]_vars /\ job \in Merges /\ job.call \in {"merge", "discard"}
  BY JobFields DEF PackedInv, DisjointInv, Registered, Next, Run, DiscardOutput
<1>2. levels' = Drop(levels, {job.out}) /\ job' = Idle
  BY DEF DiscardOutput, DropOutput, Retire, Deregister
<1>3. Shown = DOMAIN levels \ {job.out} /\ asked # <<>>
  BY <1>1 DEF Shown, Hidden, asked, Merging
<1>4. Shown' = DOMAIN levels' /\ asked' = <<>>
  BY <1>2, IdleShownNext
<1>5. Shown' = Shown /\ \A l \in Shown : l \in DOMAIN levels' /\ levels'[l] = levels[l]
  BY <1>2, <1>3, <1>4 DEF Drop
<1> QED
  BY <1>1, <1>3, <1>4, <1>5, KeptLevel, ContentSame, AbstractFail DEF ShownStep, Shown

LEMMA RetireLevelShown ==
  ASSUME CanonicalClient, PackedInv, NEW l \in DOMAIN levels, RetireLevel(l)
  PROVE  ShownStep
<1>1. Registered /\ [Next]_vars /\ job = Idle /\ job' = Idle
  BY DEF PackedInv, DisjointInv, Next, Client, RetireLevel, Ready
<1>2. ~RetireTorn(l)
  BY DisjointReadable DEF PackedInv, AllReadable, LevelReadable, BlocksOf, RetireTorn
<1>3. levels' = Drop(levels, {l})
  BY <1>2 DEF RetireLevel, Retire, Deregister
<1>4. Shown = DOMAIN levels /\ asked = <<>> /\ Shown' = DOMAIN levels' /\ asked' = <<>>
  BY <1>1, IdleShown, IdleShownNext
<1>5. /\ Shown' = Shown \ {l}
      /\ \A m \in Shown \ {l} : m \in DOMAIN levels /\ m \in DOMAIN levels' /\ levels'[m] = levels[m]
  BY <1>3, <1>4 DEF Drop
<1>6. \A m \in Shown \ {l} : Contents(m)' = Contents(m)
  BY <1>1, <1>5, KeptLevel
<1>7. content' = Drop(content, {l})
  BY <1>5, <1>6, ContentDropped
<1> QED
  BY <1>4, <1>7, AbstractRetire DEF ShownStep

LEMMA StepShown ==
  ASSUME CanonicalClient, PackedInv, [Next]_vars
  PROVE  ShownStep
<1> USE DEF registry
<1>1. \A l \in DOMAIN levels : ~RetireTorn(l)
  BY DisjointReadable DEF PackedInv, AllReadable, LevelReadable, BlocksOf, RetireTorn
<1>2. CASE CreateLevel
  BY <1>2, CreateLevelShown
<1>3. ASSUME NEW d, CreateBlock(d)
      PROVE  ShownStep
  BY <1>3, QuietStep
     DEF CreateBlock, CreateBlockAlone, CreateBlockTorn, CreateBlockCollides, CanonicalClient
<1>4. ASSUME NEW d \in Batches, StartBuild(d)
      PROVE  ShownStep
  BY <1>4, StartBuildShown
<1>5. ASSUME NEW l, NEW b, AttachBlock(l, b)
      PROVE  ShownStep
  BY <1>5 DEF AttachBlock, Ready, CanonicalClient
<1>6. ASSUME NEW b, NEW s, RelocateBlock(b, s)
      PROVE  ShownStep
  BY <1>6, QuietStep DEF RelocateBlock
<1>7. ASSUME NEW l, BuildLevelPgm(l)
      PROVE  ShownStep
  BY <1>7, QuietStep DEF BuildLevelPgm, IndexLevel
<1>8. ASSUME NEW l \in DOMAIN levels, RetireLevel(l)
      PROVE  ShownStep
  BY <1>8, RetireLevelShown
<1>9. ASSUME NEW l, NEW d, StartAppend(l, d)
      PROVE  ShownStep
  BY <1>9 DEF StartAppend, Ready, CanonicalClient
<1>10. ASSUME NEW newer, NEW older, StartMerge(newer, older)
       PROVE  ShownStep
  BY <1>10, StartMergeShown
<1>11. CASE PlaceBlock
  BY <1>11, PlaceShown
<1>12. CASE FinishBuild \/ AbortBuild
  BY <1>12, EndBuildShown DEF FinishBuild, AbortBuild, CreateBlockCollides, CreateBlockCut,
     CreateBlockTorn, CreateBlockAlone
<1>13. CASE IndexOutput
  BY <1>13, IndexShown
<1>14. CASE RetireNewer \/ RetireOlder
  BY <1>14, RetireInputsShown
<1>15. CASE FailPlacing
  BY <1>15, QuietStep DEF FailPlacing, CreateBlockCollides, CreateBlockCut,
     CreateBlockTorn, CreateBlockAlone
<1>16. CASE DiscardOutput
  BY <1>16, DiscardShown
<1>17. CASE UNCHANGED vars
  BY <1>17, QuietStep DEF vars
<1> QED
  BY <1>2, <1>3, <1>4, <1>5, <1>6, <1>7, <1>8, <1>9, <1>10, <1>11, <1>12, <1>13, <1>14,
     <1>15, <1>16, <1>17 DEF Next, Client, Run

\* The engine that works block by block implements levels that appear, merge and
\* disappear at once: an interrupted build shows the first blocks of its batch,
\* a merge shows its inputs until its output is complete and indexed, the union
\* is newer-wins, a failed merge leaves no trace, and nothing else changes a
\* record of any level.
THEOREM EngineImplementsLevelStore ==
  ASSUME CanonicalClient
  PROVE  Spec => ImplementsLevelStore
<1>1. Init => Abstract!Init
  <2> SUFFICES ASSUME Init
               PROVE  Abstract!Init
    OBVIOUS
  <2>1. Shown = {} /\ asked = <<>>
    BY IdleShown DEF Init, EmptyDict
  <2> QED
    BY <2>1, SameDefinitions DEF Abstract!Init, Shown, asked, EmptyDict
<1>2. PackedInv /\ [Next]_vars =>
        [Abstract!Next]_<<[l \in DOMAIN levels \ Hidden |-> Contents(l)],
                          IF Merging THEN <<job.newer, job.older>> ELSE <<>>>>
  BY StepShown DEF ShownStep, content, asked, Shown
<1> QED
  BY PackedInvariant, <1>1, <1>2, PTL DEF Spec, ImplementsLevelStore, Abstract!Spec
=============================================================================
