----------------------- MODULE FunctionalOracleProofs -----------------------
(***************************************************************************)
(* The functional oracle of a SWAT merge, for all runs, block sizes,       *)
(* levels and schedules: its self-check never refuses the job's work, and  *)
(* its answer is the canonical packing of the newer-wins union.            *)
(*                                                                         *)
(* The job's invariant BlockInv holds inside the oracle, since it does not *)
(* depend on the budgets.  What is left is what the oracle says of a       *)
(* finished job: concatenating the blocks gives the stream back            *)
(* (FlattenIsStream), the stream is determined by the two runs             *)
(* (StreamIsCanonical), and so is its division into blocks.                *)
(***************************************************************************)
EXTENDS FunctionalOracle, IncrementalMergeProofs, IntegerSets

-----------------------------------------------------------------------------
(* The collected blocks, concatenated. *)

\* A sequence that agrees with a slice of another one is that slice.
LEMMA SliceOf ==
  ASSUME NEW S, NEW s \in Seq(S), NEW p \in Nat, NEW r \in Seq(S),
         p + Len(r) <= Len(s), \A k \in 1..Len(r) : r[k] = s[p + k]
  PROVE  r = SubSeq(s, p + 1, p + Len(r))
<1> DEFINE m == p + 1
           n == p + Len(r)
           t == SubSeq(s, m, n)
<1>1. Len(s) \in Nat /\ Len(r) \in Nat /\ m \in Int /\ n \in Int /\ n - m + 1 = Len(r)
  OBVIOUS
<1>2. \A k \in m..n : s[k] \in S
  BY <1>1
<1>3. (IF m <= n THEN n - m + 1 ELSE 0) = Len(r)
  BY <1>1
<1>4. \A k \in 1..Len(r) : m + k - 1 = p + k
  BY <1>1
<1> HIDE DEF m, n
<1>5. /\ t \in Seq(S) /\ Len(t) = (IF m <= n THEN n - m + 1 ELSE 0)
      /\ \A k \in 1..n - m + 1 : t[k] = s[m + k - 1]
  BY <1>1, <1>2, SubSeqProperties
<1> HIDE DEF t
<1>6. Len(t) = Len(r) /\ \A k \in 1..Len(r) : r[k] = t[k]
  BY <1>1, <1>3, <1>4, <1>5
<1>7. r = t
  BY <1>5, <1>6, SeqEqual
<1> QED
  BY <1>7 DEF t, m, n

\* A prefix followed by the elements after it is a longer prefix.
LEMMA PrefixGrows ==
  ASSUME NEW S, NEW s \in Seq(S), NEW p \in Nat, NEW r \in Seq(S),
         p + Len(r) <= Len(s), \A k \in 1..Len(r) : r[k] = s[p + k]
  PROVE  SubSeq(s, 1, p) \o r = SubSeq(s, 1, p + Len(r))
<1>1. r = SubSeq(s, p + 1, p + Len(r))
  BY SliceOf
<1>2. PICK n \in Nat : n = p + Len(r)
  OBVIOUS
<1>3. 1 \in 1..Len(s) + 1 /\ p \in (1 - 1)..Len(s) /\ n \in p..Len(s)
  BY <1>2
<1>4. SubSeq(s, 1, p) \o SubSeq(s, p + 1, n) = SubSeq(s, 1, n)
  BY <1>3, ConcatAdjacentSubSeq
<1> QED
  BY <1>1, <1>2, <1>4

\* Where the n-th block ends in the stream.
EndOf(bs, n) == IF n = 0 THEN 0 ELSE Placed(n) + Len(bs[n].recs)

\* The blocks bs cut the stream at multiples of the block size, in order.
CutsStream(bs) ==
  /\ bs \in Seq(Block) /\ stream \in Seq(Record)
  /\ \A n \in 1..Len(bs) :
       /\ n < Len(bs) => Len(bs[n].recs) = ItemsPerBlock
       /\ Placed(n) + Len(bs[n].recs) <= Len(stream)
       /\ \A k \in 1..Len(bs[n].recs) : bs[n].recs[k] = stream[Placed(n) + k]
  /\ Len(stream) = EndOf(bs, Len(bs))

LEMMA BlockFields ==
  ASSUME NEW bs \in Seq(Block), NEW n \in 1..Len(bs)
  PROVE  bs[n].recs \in Seq(Record) /\ Len(bs[n].recs) \in Nat /\ bs[n].rank \in Nat
<1>1. bs[n] \in Block
  <2> HIDE DEF Block
  <2> QED
    OBVIOUS
<1>2. bs[n].recs \in Seq(Record) /\ bs[n].rank \in Nat
  BY <1>1 DEF Block
<1> QED
  BY <1>2

LEMMA EndsMeet ==
  ASSUME NEW bs, CutsStream(bs), NEW n \in 1..Len(bs)
  PROVE  /\ n - 1 \in 0..Len(bs) /\ EndOf(bs, n - 1) = Placed(n) /\ Placed(n) \in Nat
         /\ EndOf(bs, n) = Placed(n) + Len(bs[n].recs)
<1>1. bs \in Seq(Block) /\ Len(bs) \in Nat /\ n \in Nat \ {0}
  BY DEF CutsStream
<1>2. Placed(n) \in Nat /\ Placed(1) = 0
  BY <1>1, PlacedNext
<1>3. EndOf(bs, n - 1) = Placed(n)
  <2>1. CASE n = 1
    BY <1>2, <2>1 DEF EndOf
  <2>2. CASE n # 1
    <3>1. PICK m \in Nat \ {0} : m = n - 1
      BY <1>1, <2>2
    <3>2. m \in 1..Len(bs) /\ m < Len(bs) /\ m + 1 = n
      BY <1>1, <3>1
    <3>3. Len(bs[m].recs) = ItemsPerBlock
      BY <3>2 DEF CutsStream
    <3>4. Placed(m + 1) = Placed(m) + ItemsPerBlock
      BY <3>1, PlacedNext
    <3>5. EndOf(bs, m) = Placed(n)
      BY <3>1, <3>2, <3>3, <3>4 DEF EndOf
    <3> QED
      BY <3>1, <3>5
  <2> QED
    BY <2>1, <2>2
<1>4. n - 1 \in 0..Len(bs) /\ EndOf(bs, n) = Placed(n) + Len(bs[n].recs)
  BY <1>1 DEF EndOf
<1> QED
  BY <1>2, <1>3, <1>4

\* ItemsIn counts the stream: its recursive function is EndOf, by the smallest
\* argument at which they would differ.
LEMMA ItemsAreStream ==
  ASSUME NEW bs, CutsStream(bs)
  PROVE  ItemsIn(bs) = Len(stream)
<1> DEFINE N == Len(bs)
           Rec(f) == f = [n \in 0..N |-> IF n = 0 THEN 0 ELSE f[n - 1] + Len(bs[n].recs)]
           g == [n \in 0..N |-> EndOf(bs, n)]
           total == CHOOSE f : Rec(f)
<1>1. N \in Nat
  BY DEF CutsStream
<1>2. Rec(g)
  <2>1. ASSUME NEW n \in 0..N
        PROVE  g[n] = IF n = 0 THEN 0 ELSE g[n - 1] + Len(bs[n].recs)
    <3>1. CASE n = 0
      BY <3>1 DEF EndOf
    <3>2. CASE n # 0
      <4>1. n \in 1..Len(bs)
        BY <1>1, <3>2
      <4>2. n - 1 \in 0..N /\ EndOf(bs, n) = EndOf(bs, n - 1) + Len(bs[n].recs)
        BY <4>1, EndsMeet
      <4> QED
        BY <3>2, <4>2
    <3> QED
      BY <3>1, <3>2
  <2>2. g = [n \in 0..N |-> g[n]]
    OBVIOUS
  <2> HIDE DEF g
  <2> QED
    BY <2>1, <2>2
<1>3. Rec(total)
  BY <1>2
<1>4. ItemsIn(bs) = total[N]
  BY DEF ItemsIn
<1> HIDE DEF total
<1>5. /\ \A n \in 0..N : total[n] = IF n = 0 THEN 0 ELSE total[n - 1] + Len(bs[n].recs)
  <2>1. \A n \in 0..N : [k \in 0..N |-> IF k = 0 THEN 0 ELSE total[k - 1] + Len(bs[k].recs)][n]
                        = IF n = 0 THEN 0 ELSE total[n - 1] + Len(bs[n].recs)
    OBVIOUS
  <2> QED
    BY <1>3, <2>1
<1>6. \A n \in 0..N : total[n] = EndOf(bs, n)
  <2> DEFINE T == {n \in 0..N : total[n] # EndOf(bs, n)}
  <2> SUFFICES T = {}
    OBVIOUS
  <2> SUFFICES ASSUME T # {}
               PROVE  FALSE
    OBVIOUS
  <2>1. T \in SUBSET Nat
    OBVIOUS
  <2>2. PICK n \in T : \A m \in T : n <= m
    <3> HIDE DEF T
    <3> QED
      BY <2>1, LeastNat
  <2>3. n \in 0..N /\ total[n] # EndOf(bs, n)
    OBVIOUS
  <2>4. CASE n = 0
    BY <1>5, <2>3, <2>4 DEF EndOf
  <2>5. CASE n # 0
    <3>1. n \in 1..Len(bs)
      BY <1>1, <2>3, <2>5
    <3>2. n - 1 \in 0..N /\ EndOf(bs, n) = EndOf(bs, n - 1) + Len(bs[n].recs)
      BY <3>1, EndsMeet
    <3>3. n - 1 \notin T
      BY <2>1, <2>2, <3>1
    <3>4. total[n - 1] = EndOf(bs, n - 1)
      BY <3>2, <3>3
    <3>5. total[n] = total[n - 1] + Len(bs[n].recs)
      BY <1>5, <2>3, <2>5
    <3> QED
      BY <2>3, <3>2, <3>4, <3>5
  <2> QED
    BY <2>4, <2>5
<1>7. total[N] = EndOf(bs, N)
  BY <1>1, <1>6
<1> QED
  BY <1>4, <1>7 DEF CutsStream

\* Flatten gives the stream back: after n blocks it has the stream's prefix
\* that ends with the n-th.
LEMMA FlattenIsStream ==
  ASSUME NEW bs, CutsStream(bs)
  PROVE  Flatten(bs) = stream
<1> DEFINE N == Len(bs)
           prefix(n) == SubSeq(stream, 1, EndOf(bs, n))
           Rec(h) == h = [n \in 0..N |-> IF n = 0 THEN <<>> ELSE h[n - 1] \o bs[n].recs]
           g == [n \in 0..N |-> prefix(n)]
           f == CHOOSE h : Rec(h)
<1>1. N \in Nat /\ stream \in Seq(Record) /\ bs \in Seq(Block)
  BY DEF CutsStream
<1>2. prefix(0) = <<>>
  BY SubSeqEmpty DEF EndOf
<1>3. ASSUME NEW n \in 1..N
      PROVE  n - 1 \in 0..N /\ prefix(n) = prefix(n - 1) \o bs[n].recs
  <2>1. /\ n - 1 \in 0..N /\ EndOf(bs, n - 1) = Placed(n) /\ Placed(n) \in Nat
        /\ EndOf(bs, n) = Placed(n) + Len(bs[n].recs)
    BY EndsMeet
  <2>2. bs[n].recs \in Seq(Record)
    BY <1>1, BlockFields
  <2>3. /\ Placed(n) + Len(bs[n].recs) <= Len(stream)
        /\ \A k \in 1..Len(bs[n].recs) : bs[n].recs[k] = stream[Placed(n) + k]
    BY DEF CutsStream
  <2>4. SubSeq(stream, 1, Placed(n)) \o bs[n].recs = SubSeq(stream, 1, Placed(n) + Len(bs[n].recs))
    BY <1>1, <2>1, <2>2, <2>3, PrefixGrows
  <2> QED
    BY <2>1, <2>4
<1> HIDE DEF prefix
<1>4. Rec(g)
  <2>1. ASSUME NEW n \in 0..N
        PROVE  g[n] = IF n = 0 THEN <<>> ELSE g[n - 1] \o bs[n].recs
    <3>1. CASE n = 0
      BY <1>2, <3>1
    <3>2. CASE n # 0
      <4>1. n \in 1..N
        BY <1>1, <3>2
      <4>2. n - 1 \in 0..N /\ prefix(n) = prefix(n - 1) \o bs[n].recs
        BY <4>1, <1>3
      <4> QED
        BY <3>2, <4>2
    <3> QED
      BY <3>1, <3>2
  <2>2. g = [n \in 0..N |-> g[n]]
    OBVIOUS
  <2> HIDE DEF g
  <2> QED
    BY <2>1, <2>2
<1>5. Rec(f)
  BY <1>4
<1>6. Flatten(bs) = f[N]
  BY DEF Flatten
<1> HIDE DEF f
<1>7. \A n \in 0..N : f[n] = IF n = 0 THEN <<>> ELSE f[n - 1] \o bs[n].recs
  <2>1. \A n \in 0..N : [k \in 0..N |-> IF k = 0 THEN <<>> ELSE f[k - 1] \o bs[k].recs][n]
                        = IF n = 0 THEN <<>> ELSE f[n - 1] \o bs[n].recs
    OBVIOUS
  <2> QED
    BY <1>5, <2>1
<1>8. \A n \in 0..N : f[n] = prefix(n)
  <2> DEFINE T == {n \in 0..N : f[n] # prefix(n)}
  <2> SUFFICES T = {}
    OBVIOUS
  <2> SUFFICES ASSUME T # {}
               PROVE  FALSE
    OBVIOUS
  <2>1. T \in SUBSET Nat
    OBVIOUS
  <2>2. PICK n \in T : \A m \in T : n <= m
    <3> HIDE DEF T
    <3> QED
      BY <2>1, LeastNat
  <2>3. n \in 0..N /\ f[n] # prefix(n)
    OBVIOUS
  <2>4. CASE n = 0
    BY <1>2, <1>7, <2>3, <2>4
  <2>5. CASE n # 0
    <3>1. n \in 1..N
      BY <1>1, <2>3, <2>5
    <3>2. n - 1 \in 0..N /\ prefix(n) = prefix(n - 1) \o bs[n].recs
      BY <3>1, <1>3
    <3>3. n - 1 \notin T
      BY <2>1, <2>2, <3>1
    <3>4. f[n - 1] = prefix(n - 1)
      BY <3>2, <3>3
    <3>5. f[n] = f[n - 1] \o bs[n].recs
      BY <1>7, <2>3, <2>5
    <3> QED
      BY <2>3, <3>2, <3>4, <3>5
  <2> QED
    BY <2>4, <2>5
<1>9. f[N] = prefix(N) /\ EndOf(bs, N) = Len(stream)
  BY <1>1, <1>8 DEF CutsStream
<1> QED
  BY <1>1, <1>6, <1>9, SubSeqFull DEF prefix

-----------------------------------------------------------------------------
(* The stream of a finished merge, and its division into blocks. *)

\* A stream with the records of the merge, in the order of their keys, is the
\* canonical one: the record at n is the one whose key has rank n - 1.
LEMMA StreamIsCanonical ==
  ASSUME stream \in Seq(Record), StreamIncreasing, Abstract!Emitted = Abstract!Merged(src, tgt)
  PROVE  CanonicalStream = stream
<1> DEFINE L == Len(stream)
           K == MergedKeys
           M == Abstract!Merged(src, tgt)
           first(n) == {stream[m].key : m \in 1..n}
<1>1. L \in Nat /\ \A n \in 1..L : stream[n] \in Record /\ stream[n].key \in Int
  <2>1. \A n \in 1..L : stream[n] \in Record
    <3> HIDE DEF Record
    <3> QED
      OBVIOUS
  <2>2. \A rec \in Record : rec.key \in Int
    BY DEF Record
  <2>3. L \in Nat
    <3> HIDE DEF Record
    <3> QED
      OBVIOUS
  <2> QED
    BY <2>1, <2>2, <2>3
<1>2. M = {stream[n] : n \in 1..L}
  BY DEF Abstract!Emitted
<1>3. /\ \A n \in 1..L : stream[n] \in M /\ stream[n].key \in K
      /\ \A k \in K : \E n \in 1..L : k = stream[n].key
      /\ \A rec \in M : \E n \in 1..L : rec = stream[n]
  BY <1>2 DEF MergedKeys
<1>4. K \in SUBSET Int
  BY <1>1, <1>3
<1>5. \A m, n \in 1..L : m < n => stream[m].key < stream[n].key
  BY DEF StreamIncreasing
<1>6. \A m, n \in 1..L : stream[m].key = stream[n].key => m = n
  <2> SUFFICES ASSUME NEW m \in 1..L, NEW n \in 1..L, stream[m].key = stream[n].key
               PROVE  m = n
    OBVIOUS
  <2>1. ~(m < n) /\ ~(n < m)
    BY <1>1, <1>5
  <2> QED
    BY <2>1
<1> HIDE DEF K, M
<1>7. ASSUME NEW n \in 0..L
      PROVE  first(n) \in SUBSET K /\ IsFiniteSet(first(n)) /\ Cardinality(first(n)) = n
  <2> DEFINE f == [m \in 1..n |-> stream[m].key]
  <2>1. \A m \in 1..n : m \in 1..L
    BY <1>1
  <2>2. f \in Bijection(1..n, first(n))
    <3>1. f \in Injection(1..n, first(n))
      BY <1>6, <2>1 DEF Injection, IsInjective
    <3>2. f \in Surjection(1..n, first(n))
      BY DEF Surjection
    <3> QED
      BY <3>1, <3>2 DEF Bijection
  <2>3. IsFiniteSet(1..n) /\ Cardinality(1..n) = n
    BY <1>1, FS_Interval
  <2>4. first(n) \in SUBSET K
    BY <1>3, <2>1
  <2> HIDE DEF first, f
  <2>5. IsFiniteSet(first(n)) /\ Cardinality(first(n)) = Cardinality(1..n)
    <3>1. f \in Surjection(1..n, first(n)) /\ f \in Injection(1..n, first(n))
      BY <2>2 DEF Bijection
    <3> QED
      BY <2>3, <3>1, FS_Surjection
  <2> QED
    BY <2>3, <2>4, <2>5
<1>8. K = first(L)
  BY <1>3
<1>9. IsFiniteSet(K) /\ Cardinality(K) = L
  <2> HIDE DEF first
  <2> QED
    BY <1>1, <1>7, <1>8
<1>10. ASSUME NEW n \in 1..L
       PROVE  Cardinality({other \in K : other < stream[n].key}) = n - 1
  <2>1. PICK p \in 0..L : p = n - 1
    BY <1>1
  <2>2. \A m \in 1..L : stream[m].key < stream[n].key <=> m \in 1..p
    <3> SUFFICES ASSUME NEW m \in 1..L
                 PROVE  stream[m].key < stream[n].key <=> m \in 1..p
      OBVIOUS
    <3>1. m < n => stream[m].key < stream[n].key
      BY <1>5
    <3>2. n < m => stream[n].key < stream[m].key
      BY <1>5
    <3>3. m = n \/ m < n \/ n < m
      BY <1>1
    <3> QED
      BY <1>1, <2>1, <3>1, <3>2, <3>3
  <2>3. \A m \in 1..p : m \in 1..L
    BY <1>1, <2>1
  <2>4. {other \in K : other < stream[n].key} = first(p)
    BY <1>8, <2>2, <2>3
  <2> HIDE DEF first
  <2> QED
    BY <1>7, <2>1, <2>4
<1> DEFINE rank(k) == Cardinality({other \in K : other < k})
<1>11. ASSUME NEW n \in 1..L
       PROVE  (CHOOSE rec \in M : rank(rec.key) = n - 1) = stream[n]
  <2>1. \A m \in 1..L : rank(stream[m].key) = m - 1
    BY <1>10
  <2> HIDE DEF rank
  <2>2. stream[n] \in M /\ rank(stream[n].key) = n - 1
    BY <1>3, <2>1
  <2>3. ASSUME NEW rec \in M, rank(rec.key) = n - 1
        PROVE  rec = stream[n]
    <3>1. PICK m \in 1..L : rec = stream[m]
      BY <1>3
    <3>2. m - 1 = n - 1
      BY <2>1, <2>3, <3>1
    <3> QED
      BY <1>1, <3>1, <3>2
  <2> QED
    BY <2>2, <2>3
<1>12. CanonicalStream = [n \in 1..Cardinality(K) |-> CHOOSE rec \in M : rank(rec.key) = n - 1]
  BY DEF CanonicalStream, K, M
<1> HIDE DEF rank
<1>13. CanonicalStream = [n \in 1..L |-> stream[n]]
  BY <1>9, <1>11, <1>12
<1> QED
  BY <1>13

\* The number of blocks that hold so many records.
LEMMA BlocksNeeded ==
  ASSUME NEW size \in Nat \ {0}, NEW count \in Nat, NEW e \in Nat,
         (e - 1) * size < count, count <= e * size
  PROVE  (count + size - 1) \div size = e
<1>1. e * size = (e - 1) * size + size
  OBVIOUS
<1>2. PICK a \in Int : a = e * size
  OBVIOUS
<1>3. PICK r \in Int : r = count + size - 1 - a
  BY <1>2
<1>4. 0 <= r /\ r < size
  BY <1>1, <1>2, <1>3
<1>5. count + size - 1 = e * size + r
  BY <1>2, <1>3
<1> QED
  BY <1>4, <1>5

-----------------------------------------------------------------------------
(* The invariant of the oracle. *)

\* The decisions still to be made are at most the records ahead.
Ahead == (Len(src) - i) + (Len(tgt) - j)

\* The default budget is spent at once and is enough.
DefaultOnce ==
  policy = "default" =>
    \/ applied = <<>> /\ schedule = <<DrainBudget>> /\ ~inCall /\ ~done
    \/ /\ Len(applied) = 1 /\ schedule = <<>>
       /\ inCall => Ahead <= left
       /\ ~inCall => done

NothingYet == delivered = <<>> /\ calls = 0

OracleInv ==
  /\ BlockInv
  /\ schedule \in Seq(Nat) /\ applied \in Seq(Nat)
  /\ verdict \in {"asked", "refused"} => NothingYet
  /\ verdict = "answered" => ~inCall /\ result # NotFinalized
  /\ verdict # "selfRefused"
  /\ DefaultOnce

LEMMA DrainCovers ==
  ASSUME TypeOK
  PROVE  DrainBudget \in Nat /\ Len(src) + Len(tgt) <= DrainBudget
<1>1. Len(src) \in Nat /\ Len(tgt) \in Nat
  BY RunFacts
<1> DEFINE T == {1, Len(src) + Len(tgt)}
<1>2. PICK b \in Int : b = Len(src) + Len(tgt) + 1
  BY <1>1
<1>3. T \in SUBSET Int /\ T # {} /\ \A x \in T : x <= b /\ x \in Nat
  BY <1>1, <1>2
<1>4. Len(src) + Len(tgt) \in T
  OBVIOUS
<1> HIDE DEF T
<1>5. Max(T) \in T /\ \A x \in T : x <= Max(T)
  BY <1>3, MaxIsGreatest
<1>6. DrainBudget = Max(T)
  BY DEF DrainBudget, T
<1> QED
  BY <1>3, <1>4, <1>5, <1>6

\* With a cursor moved on, less is ahead.
LEMMA LessAhead ==
  ASSUME NEW s \in Nat, NEW t \in Nat, NEW a \in Nat, NEW b \in Nat, NEW c \in Nat, NEW d \in Nat,
         a <= c, b <= d, a + 1 <= c \/ b + 1 <= d
  PROVE  ((s - c) + (t - d)) + 1 <= (s - a) + (t - b)
<1>1. CASE a + 1 <= c BY <1>1
<1>2. CASE b + 1 <= d BY <1>2
<1> QED BY <1>1, <1>2

\* One step of the job, seen by the oracle.
LEMMA JobProgress ==
  ASSUME ~SinkRaises, BlockInv, Job
  PROVE  /\ src' = src /\ tgt' = tgt /\ inCall
         /\ inCall' => Ahead' + 1 <= Ahead /\ left' = left - 1
         /\ ~inCall' => done' = Exhausted /\ (left = 0 \/ Exhausted)
<1> USE DEF inputs, cursors, handed
<1>1. /\ TypeOK /\ MergeInv /\ Split /\ Abstract!Emitted = Taken
      /\ Len(src) \in Nat /\ Len(tgt) \in Nat /\ i \in 0..Len(src) /\ j \in 0..Len(tgt)
  BY RunFacts DEF BlockInv, MergeInv
<1>2. ASSUME Deciding, MoveCursors, src' = src, tgt' = tgt
      PROVE  Ahead' + 1 <= Ahead
  <2>1. TakesSource \/ TakesTarget
    BY <1>1, <1>2, Choice DEF Deciding
  <2>2. /\ i' \in Nat /\ j' \in Nat /\ i <= i' /\ j <= j'
        /\ i + 1 <= i' \/ j + 1 <= j'
    BY <1>1, <1>2, <2>1 DEF MoveCursors
  <2>3. i \in Nat /\ j \in Nat
    BY <1>1
  <2>4. Ahead = (Len(src) - i) + (Len(tgt) - j) /\ Ahead' = (Len(src) - i') + (Len(tgt) - j')
    BY <1>2 DEF Ahead
  <2>5. PICK s \in Nat, t \in Nat : s = Len(src) /\ t = Len(tgt)
    BY <1>1
  <2>6. Ahead = (s - i) + (t - j) /\ Ahead' = (s - i') + (t - j')
    BY <2>4, <2>5
  <2>8. ((s - i') + (t - j')) + 1 <= (s - i) + (t - j)
    BY <2>2, <2>3, LessAhead
  <2> QED
    BY <2>6, <2>8
<1>3. CASE DecideKeep
  BY <1>2, <1>3 DEF DecideKeep, Deciding
<1>4. CASE DecideFlush
  BY <1>2, <1>4 DEF DecideFlush, Deciding
<1>5. CASE DecideSinkRaises
  BY <1>5 DEF DecideSinkRaises
<1>6. CASE DecideRefused
  BY <1>1, <1>6, NeverRefused DEF DecideRefused, Deciding
<1>7. CASE Return
  BY <1>7 DEF Return, Returning, GiveBack
<1>8. CASE ReturnLast
  BY <1>8 DEF ReturnLast, Returning, GiveBack
<1>9. CASE ReturnSinkRaises
  BY <1>9 DEF ReturnSinkRaises
<1> QED
  BY <1>3, <1>4, <1>5, <1>6, <1>7, <1>8, <1>9 DEF Job

\* What the self-check finds in a finished job.
LEMMA FinishedJob ==
  ASSUME BlockInv, ~inCall, result # NotFinalized
  PROVE  /\ returned = delivered /\ CutsStream(returned) /\ result = Totals
         /\ result.blocks = Len(returned) /\ result.records = Len(stream)
         /\ result.duplicates = duplicates
         /\ \A n \in 1..Len(returned) :
              /\ returned[n].rank = n - 1
              /\ Len(returned[n].recs) = ItemsPerBlock
                   \/ (n = Len(returned) /\ Len(returned[n].recs) \in 1..ItemsPerBlock)
         /\ done /\ pending = <<>>
<1>1. /\ TypeOK /\ done /\ pending = <<>> /\ payload = <<>> /\ result = Totals
      /\ emitted = Len(delivered) /\ NothingLost /\ BlocksCanonical /\ PayloadIsDelivery
  BY DEF BlockInv, MergeInv
<1>2. /\ returned \in Seq(Block) /\ delivered \in Seq(Block) /\ stream \in Seq(Record)
  BY <1>1 DEF TypeOK
<1>3. Len(stream) \in Nat /\ Len(returned) \in Nat /\ Len(delivered) \in Nat
  BY <1>2
<1>4. returned = delivered
  BY <1>1, <1>2, ConcatEmptySeq DEF PayloadIsDelivery
<1>5. result.blocks = Len(returned) /\ result.records = Len(stream) /\ result.duplicates = duplicates
  BY <1>1, <1>4 DEF Totals
<1>6. /\ \A n \in 1..Len(returned) :
           /\ returned[n].rank = n - 1
           /\ Len(returned[n].recs) = ItemsPerBlock
                \/ (n = Len(returned) /\ Len(returned[n].recs) \in 1..ItemsPerBlock)
  BY <1>1, <1>4 DEF BlocksCanonical
<1>7. Len(stream) = EndOf(returned, Len(returned))
  <2>1. Len(pending) = 0
    BY <1>1
  <2>2. CASE delivered = <<>>
    <3>1. Len(returned) = 0 /\ Len(stream) = 0
      BY <1>1, <1>4, <2>1, <2>2 DEF NothingLost
    <3> QED
      BY <3>1 DEF EndOf
  <2>3. CASE delivered # <<>>
    <3>1. Len(returned) \in Nat \ {0} /\ Len(returned) \in 1..Len(returned)
      BY <1>2, <1>3, <1>4, <2>3
    <3>2. Len(stream) = 0 + (Placed(Len(returned)) + Len(returned[Len(returned)].recs))
      BY <1>1, <1>4, <2>1, <2>3 DEF NothingLost
    <3>3. Placed(Len(returned)) \in Nat /\ Len(returned[Len(returned)].recs) \in Nat
      BY <1>2, <3>1, PlacedNext, BlockFields
    <3> QED
      BY <3>1, <3>2, <3>3 DEF EndOf
  <2> QED
    BY <2>2, <2>3
<1>8. ASSUME NEW n \in 1..Len(returned)
      PROVE  /\ n < Len(returned) => Len(returned[n].recs) = ItemsPerBlock
             /\ Placed(n) + Len(returned[n].recs) <= Len(stream)
             /\ \A k \in 1..Len(returned[n].recs) : returned[n].recs[k] = stream[Placed(n) + k]
  <2> DEFINE e == Len(returned)
  <2>1. n \in Nat \ {0} /\ e \in Nat \ {0} /\ n <= e
    BY <1>3
  <2>2. n < e => Len(returned[n].recs) = ItemsPerBlock
    BY <1>3, <1>6
  <2>3. \A k \in 1..Len(returned[n].recs) : returned[n].recs[k] = stream[Placed(n) + k]
    BY <1>1, <1>4 DEF NothingLost
  <2> HIDE DEF e
  <2>4. /\ Placed(n) \in Nat /\ Placed(n + 1) = Placed(n) + ItemsPerBlock /\ Placed(e) \in Nat
    BY <2>1, PlacedNext
  <2>5. Len(stream) = Placed(e) + Len(returned[e].recs) /\ Len(returned[e].recs) \in Nat
    BY <1>2, <1>7, <2>1, BlockFields DEF EndOf, e
  <2>6. CASE n = e
    BY <1>3, <2>2, <2>3, <2>5, <2>6 DEF e
  <2>7. CASE n < e
    <3>1. n + 1 \in Nat \ {0} /\ n + 1 <= e
      BY <2>1, <2>7
    <3>2. Placed(n + 1) <= Placed(e)
      BY <2>1, <3>1, PlacedOrder
    <3>3. Placed(e) <= Len(stream)
      BY <2>4, <2>5
    <3>4. Placed(n) + Len(returned[n].recs) = Placed(n + 1)
      BY <2>2, <2>4, <2>7
    <3>5. Placed(n + 1) \in Nat
      BY <2>4, ItemsAssumption
    <3>6. Placed(n) + Len(returned[n].recs) <= Len(stream)
      BY <1>3, <2>4, <3>2, <3>3, <3>4, <3>5
    <3> QED
      BY <2>2, <2>3, <3>6 DEF e
  <2> QED
    BY <2>1, <2>6, <2>7
<1>9. CutsStream(returned)
  BY <1>2, <1>7, <1>8 DEF CutsStream
<1> QED
  BY <1>1, <1>4, <1>5, <1>6, <1>9

\* So it passes.
LEMMA SelfCheckHolds ==
  ASSUME BlockInv, ~inCall, result # NotFinalized
  PROVE  CanonicalPacking(returned)
<1>1. /\ CutsStream(returned) /\ StreamIncreasing /\ TypeOK
      /\ result.blocks = Len(returned) /\ result.records = Len(stream)
      /\ \A n \in 1..Len(returned) :
           /\ returned[n].rank = n - 1
           /\ Len(returned[n].recs) = ItemsPerBlock
                \/ (n = Len(returned) /\ Len(returned[n].recs) \in 1..ItemsPerBlock)
  BY FinishedJob DEF BlockInv, MergeInv
<1>2. ItemsIn(returned) = result.records /\ Flatten(returned) = stream
  BY <1>1, ItemsAreStream, FlattenIsStream
<1>3. Len(returned) \in Nat /\ (returned # <<>> => Len(returned) \in 1..Len(returned))
  <2>1. returned \in Seq(Block)
    BY <1>1 DEF TypeOK
  <2> HIDE DEF Block
  <2> QED
    BY <2>1
<1>4. \A n \in 1..Len(returned) - 1 : Len(returned[n].recs) = ItemsPerBlock
  <2>1. \A n \in 1..Len(returned) - 1 : n \in 1..Len(returned) /\ n # Len(returned)
    BY <1>3
  <2> QED
    BY <1>1, <2>1
<1>5. returned # <<>> => Len(returned[Len(returned)].recs) \in 1..ItemsPerBlock
  BY <1>1, <1>3, ItemsAssumption
<1> QED
  BY <1>1, <1>2, <1>4, <1>5 DEF CanonicalPacking, StreamIncreasing

-----------------------------------------------------------------------------
(* The invariant is kept. *)

LEMMA OracleInitInv == OracleInit => OracleInv
<1> SUFFICES ASSUME OracleInit
             PROVE  OracleInv
  OBVIOUS
<1>1. BlockInv
  BY InitBlocks DEF OracleInit
<1>2. TypeOK
  BY <1>1 DEF BlockInv, MergeInv
<1>3. schedule \in Seq(Nat)
  <2>1. ASSUME NEW s \in Seq(1..MaxQuantum)
        PROVE  s \in Seq(Nat)
    <3>1. 1..MaxQuantum \subseteq Nat
      BY BoundsAssumption
    <3> QED
      BY <3>1, SeqMonotonic
  <2>2. CASE policy = "given"
    BY <2>1, <2>2, SchedulesAssumption DEF OracleInit
  <2>3. CASE policy # "given"
    <3>1. schedule = <<DrainBudget>>
      BY <2>3 DEF OracleInit
    <3> QED
      BY <1>2, <3>1, DrainCovers
  <2> QED
    BY <2>2, <2>3
<1>4. applied \in Seq(Nat) /\ NothingYet
  BY DEF OracleInit, Init, NothingYet
<1>5. DefaultOnce
  BY DEF OracleInit, Init, DefaultOnce
<1> QED
  BY <1>1, <1>3, <1>4, <1>5 DEF OracleInv, OracleInit

\* A step of the oracle is a step of its job or leaves the job alone.
LEMMA OracleIsJob ==
  ASSUME OracleInv, [OracleStep]_oracleVars
  PROVE  [AnyStep]_vars
<1>1. CASE ApplyNext
  <2>1. Head(schedule) \in Nat
    BY <1>1 DEF ApplyNext, OracleInv
  <2> QED
    BY <1>1, <2>1 DEF ApplyNext, AnyStep
<1>2. CASE Drain
  <2>1. 1 \in Nat
    OBVIOUS
  <2> QED
    BY <1>2, <2>1 DEF Drain, AnyStep
<1>3. CASE JobStep
  BY <1>3 DEF JobStep, AnyStep
<1>4. CASE FinalizeJob
  BY <1>4 DEF FinalizeJob, AnyStep
<1>5. CASE Refuse \/ BeginJob \/ Answer \/ UNCHANGED oracleVars
  BY <1>5 DEF Refuse, BeginJob, Answer, oracleVars
<1> QED
  BY <1>1, <1>2, <1>3, <1>4, <1>5 DEF OracleStep

\* The default budget: spent by the first call, which then cannot return before
\* the end of the merge.
LEMMA DefaultStep ==
  ASSUME ~SinkRaises, OracleInv, [OracleStep]_oracleVars
  PROVE  DefaultOnce'
<1> USE DEF inputs, cursors, handed, request
<1>1. /\ BlockInv /\ TypeOK /\ DefaultOnce /\ applied \in Seq(Nat) /\ schedule \in Seq(Nat)
      /\ Len(src) \in Nat /\ Len(tgt) \in Nat /\ i \in 0..Len(src) /\ j \in 0..Len(tgt) /\ left \in Nat
      /\ (inCall => ~done)
  <2>1. TypeOK /\ (inCall => ~done)
    BY DEF OracleInv, BlockInv, MergeInv
  <2>2. left \in Nat
    BY <2>1 DEF TypeOK
  <2> QED
    BY <2>1, <2>2, RunFacts DEF OracleInv
<1>2. ASSUME UNCHANGED <<vars, request, schedule, applied>>
      PROVE  DefaultOnce'
  BY <1>1, <1>2 DEF vars, DefaultOnce, Ahead, DrainBudget
<1>3. CASE ApplyNext
  <2> SUFFICES ASSUME policy' = "default"
               PROVE  DefaultOnce'
    BY DEF DefaultOnce
  <2>1. /\ ~inCall /\ ~done /\ Advance(Head(schedule)) /\ policy = "default"
        /\ applied' = Append(applied, Head(schedule)) /\ schedule' = Tail(schedule)
    BY <1>3 DEF ApplyNext, Driving
  <2>2. applied = <<>> /\ schedule = <<DrainBudget>>
    BY <1>1, <2>1 DEF DefaultOnce
  <2>3. Head(schedule) = DrainBudget /\ schedule' = <<>> /\ applied' = <<DrainBudget>>
    BY <2>1, <2>2
  <2>4. Len(applied') = 1
    BY <2>3
  <2>5. /\ inCall' = TRUE /\ left' = DrainBudget
        /\ src' = src /\ tgt' = tgt /\ i' = i /\ j' = j
    BY <2>1, <2>3 DEF Advance
  <2>6. Ahead <= Len(src) + Len(tgt) /\ Ahead \in Int
    BY <1>1 DEF Ahead
  <2>7. Ahead' = Ahead
    BY <2>5 DEF Ahead
  <2>8. Ahead' <= left'
    BY <1>1, <2>5, <2>6, <2>7, DrainCovers
  <2> QED
    BY <2>3, <2>4, <2>5, <2>8 DEF DefaultOnce
<1>4. CASE Drain
  BY <1>1, <1>4 DEF Drain, Driving, DefaultOnce
<1>5. CASE JobStep
  <2> SUFFICES ASSUME policy' = "default"
               PROVE  DefaultOnce'
    BY DEF DefaultOnce
  <2>1. Job /\ policy = "default" /\ schedule' = schedule /\ applied' = applied
    BY <1>5 DEF JobStep
  <2>2. /\ inCall
        /\ inCall' => Ahead' + 1 <= Ahead /\ left' = left - 1
        /\ ~inCall' => done' = Exhausted /\ (left = 0 \/ Exhausted)
        /\ src' = src /\ tgt' = tgt
    BY <1>1, <2>1, JobProgress
  <2>3. Len(applied) = 1 /\ schedule = <<>> /\ Ahead <= left
    BY <1>1, <2>1, <2>2 DEF DefaultOnce
  <2>4. ASSUME inCall'
        PROVE  Ahead' <= left'
    <3>1. i' \in Int /\ j' \in Int
      <4>1. TypeOK'
        BY <1>1, <2>1, StepType DEF AnyStep
      <4> QED
        BY <4>1 DEF TypeOK
    <3>2. Ahead' \in Int /\ Ahead \in Int
      BY <1>1, <2>2, <3>1 DEF Ahead
    <3>3. PICK a \in Int, b \in Int : a = Ahead /\ b = Ahead'
      BY <3>2
    <3>4. Ahead' + 1 <= Ahead /\ left' = left - 1
      BY <2>2, <2>4, Zenon
    <3>5. b + 1 <= a
      BY <3>3, <3>4
    <3>6. a <= left
      BY <2>3, <3>3
    <3>7. b + 1 <= a /\ left' = left - 1 /\ a <= left /\ left \in Int
      BY <1>1, <3>4, <3>5, <3>6
    <3>8. b <= left'
      BY <3>7
    <3> QED
      BY <3>3, <3>8
  <2>5. ASSUME ~inCall'
        PROVE  done'
    <3>1. left = 0 => Exhausted
      BY <1>1, <2>3 DEF Ahead, Exhausted
    <3> QED
      BY <2>2, <2>5, <3>1
  <2> QED
    BY <2>1, <2>3, <2>4, <2>5 DEF DefaultOnce
<1>6. CASE FinalizeJob
  BY <1>1, <1>6 DEF FinalizeJob, Finalize, DefaultOnce, Ahead, DrainBudget
<1>7. CASE Refuse \/ BeginJob \/ Answer \/ UNCHANGED oracleVars
  BY <1>2, <1>7 DEF Refuse, BeginJob, Answer, oracleVars
<1> QED
  BY <1>3, <1>4, <1>5, <1>6, <1>7 DEF OracleStep

LEMMA OracleStepInv ==
  ASSUME ~SinkRaises, OracleInv, [OracleStep]_oracleVars
  PROVE  OracleInv'
<1> USE DEF request
<1>1. BlockInv' /\ DefaultOnce'
  BY OracleIsJob, StepBlocks, DefaultStep DEF OracleInv
<1>2. CASE ApplyNext
  <2>1. schedule # <<>> /\ Head(schedule) \in Nat /\ Tail(schedule) \in Seq(Nat)
    BY <1>2 DEF ApplyNext, OracleInv
  <2> QED
    BY <1>1, <1>2, <2>1 DEF ApplyNext, Driving, OracleInv
<1>3. CASE Drain
  <2>1. Append(applied, 1) \in Seq(Nat)
    BY DEF OracleInv
  <2> QED
    BY <1>1, <1>3, <2>1 DEF Drain, Driving, OracleInv
<1>4. CASE JobStep
  BY <1>1, <1>4 DEF JobStep, OracleInv
<1>5. CASE FinalizeJob
  BY <1>1, <1>5 DEF FinalizeJob, Driving, OracleInv
<1>6. CASE Answer
  <2>1. verdict' = "answered"
    BY <1>6, SelfCheckHolds DEF Answer, Driving, OracleInv
  <2>2. /\ ~inCall /\ result # NotFinalized /\ inCall' = inCall /\ result' = result
        /\ schedule' = schedule /\ applied' = applied
    BY <1>6 DEF Answer, Driving, vars
  <2>3. NotFinalized' = NotFinalized
    BY DEF NotFinalized
  <2> QED
    BY <1>1, <2>1, <2>2, <2>3 DEF OracleInv
<1>7. CASE Refuse \/ BeginJob \/ UNCHANGED oracleVars
  <2>1. /\ schedule' = schedule /\ applied' = applied
        /\ UNCHANGED vars
        /\ verdict' \in {"driving"} \/ (verdict' = "refused" /\ verdict = "asked") \/ verdict' = verdict
    BY <1>7 DEF Refuse, BeginJob, oracleVars
  <2>2. /\ NothingYet' = NothingYet /\ inCall' = inCall /\ result' = result
    BY <2>1 DEF vars, NothingYet
  <2> QED
    BY <1>1, <2>1, <2>2 DEF OracleInv
<1> QED
  BY <1>2, <1>3, <1>4, <1>5, <1>6, <1>7 DEF OracleStep

LEMMA OracleInvariant ==
  ASSUME ~SinkRaises
  PROVE  OracleSpec => []OracleInv
<1>1. OracleInv /\ [OracleStep]_oracleVars => OracleInv'
  BY OracleStepInv
<1> QED
  BY OracleInitInv, <1>1, PTL DEF OracleSpec

-----------------------------------------------------------------------------
(* The answer. *)

\* The records of a finished job, block by block.
LEMMA BlocksAreSlices ==
  ASSUME BlockInv, ~inCall, result # NotFinalized
  PROVE  LET count == (Len(stream) + ItemsPerBlock - 1) \div ItemsPerBlock
             size(n) == Min({ItemsPerBlock, Len(stream) - (n - 1) * ItemsPerBlock})
         IN  /\ count = Len(returned)
             /\ returned = [n \in 1..count |->
                              [rank |-> n - 1,
                               recs |-> SubSeq(stream, (n - 1) * ItemsPerBlock + 1,
                                                       (n - 1) * ItemsPerBlock + size(n))]]
<1> DEFINE L == Len(stream)
           e == Len(returned)
           count == (Len(stream) + ItemsPerBlock - 1) \div ItemsPerBlock
           size(n) == Min({ItemsPerBlock, Len(stream) - (n - 1) * ItemsPerBlock})
           slice(n) == [rank |-> n - 1,
                        recs |-> SubSeq(stream, (n - 1) * ItemsPerBlock + 1,
                                                (n - 1) * ItemsPerBlock + size(n))]
<1>1. /\ CutsStream(returned) /\ TypeOK
      /\ result.blocks = e /\ result.records = L
      /\ \A n \in 1..e :
           /\ returned[n].rank = n - 1
           /\ Len(returned[n].recs) = ItemsPerBlock
                \/ (n = e /\ Len(returned[n].recs) \in 1..ItemsPerBlock)
  BY FinishedJob DEF BlockInv, MergeInv
<1>2. /\ stream \in Seq(Record) /\ returned \in Seq(Block) /\ L \in Nat /\ e \in Nat
      /\ ItemsPerBlock \in Nat \ {0}
  <2>1. stream \in Seq(Record) /\ returned \in Seq(Block)
    BY <1>1 DEF TypeOK
  <2> HIDE DEF Record, Block
  <2> QED
    BY <2>1, ItemsAssumption
<1>3. (e - 1) * ItemsPerBlock < L /\ L <= e * ItemsPerBlock
  <2>1. ResultTruthful
    BY CountsAdd
  <2> HIDE DEF L, e
  <2> QED
    BY <1>1, <2>1 DEF ResultTruthful
<1>4. count = e
  <2> HIDE DEF e
  <2> QED
    BY <1>2, <1>3, BlocksNeeded
<1>5. ASSUME NEW n \in 1..e
      PROVE  returned[n] = slice(n)
  <2>1. n \in Nat \ {0} /\ n <= e
    BY <1>2
  <2>2. /\ returned[n] \in Block /\ returned[n].rank = n - 1 /\ returned[n].recs \in Seq(Record)
        /\ Len(returned[n].recs) \in Nat
    <3>1. returned[n] \in Block
      <4> HIDE DEF Block
      <4> QED
        BY <1>2
    <3> QED
      BY <1>1, <1>2, <3>1, BlockFields
  <2>3. /\ Placed(n) + Len(returned[n].recs) <= L
        /\ \A k \in 1..Len(returned[n].recs) : returned[n].recs[k] = stream[Placed(n) + k]
        /\ n < e => Len(returned[n].recs) = ItemsPerBlock
        /\ L = EndOf(returned, e)
    BY <1>1 DEF CutsStream
  <2>4. Placed(n) \in Nat
    BY <2>1, PlacedNext
  <2>5. returned[n].recs = SubSeq(stream, Placed(n) + 1, Placed(n) + Len(returned[n].recs))
    BY <1>2, <2>2, <2>3, <2>4, SliceOf
  <2>6. size(n) = Len(returned[n].recs)
    <3> DEFINE rest == L - Placed(n)
               T == {ItemsPerBlock, rest}
    <3>1. rest \in Nat /\ Len(returned[n].recs) <= rest
      BY <1>2, <2>2, <2>3, <2>4
    <3> HIDE DEF rest
    <3>2. T \in SUBSET Int /\ T # {} /\ \A x \in T : 0 <= x
      BY <1>2, <3>1
    <3>3. ItemsPerBlock \in T /\ rest \in T
      OBVIOUS
    <3>4. \A x \in T : x = ItemsPerBlock \/ x = rest
      OBVIOUS
    <3> HIDE DEF T
    <3>5. Min(T) \in T /\ \A x \in T : Min(T) <= x
      <4>1. PICK a \in Int : \A x \in T : a <= x
        BY <3>2
      <4> QED
        BY <3>2, <4>1, MinIsLeast
    <3>9. PICK m \in Int : /\ m = Min(T) /\ m <= ItemsPerBlock /\ m <= rest
                           /\ m = ItemsPerBlock \/ m = rest
      BY <3>2, <3>3, <3>4, <3>5
    <3>6. size(n) = Min(T)
      BY DEF T, rest, Placed
    <3> HIDE DEF size
    <3>7. CASE n < e
      <4>1. Len(returned[n].recs) = ItemsPerBlock
        BY <2>3, <3>7
      <4> QED
        BY <1>2, <3>1, <3>6, <3>9, <4>1
    <3>8. CASE n = e
      <4>1. rest = Len(returned[n].recs)
        BY <1>2, <2>1, <2>2, <2>3, <2>4, <3>8 DEF EndOf, rest
      <4>2. Len(returned[n].recs) <= ItemsPerBlock
        BY <1>1, <1>2, <3>8
      <4> QED
        BY <1>2, <2>2, <3>1, <3>6, <3>9, <4>1, <4>2
    <3> QED
      BY <1>2, <2>1, <3>7, <3>8
  <2>7. returned[n] = [rank |-> returned[n].rank, recs |-> returned[n].recs]
    BY <2>2 DEF Block
  <2> HIDE DEF size
  <2>8. returned[n].recs = SubSeq(stream, (n - 1) * ItemsPerBlock + 1, (n - 1) * ItemsPerBlock + size(n))
    BY <2>5, <2>6 DEF Placed
  <2> QED
    BY <2>2, <2>7, <2>8
<1>6. returned = [n \in 1..e |-> returned[n]]
  <2> HIDE DEF Block
  <2> QED
    BY <1>2
<1> HIDE DEF slice
<1>7. returned = [n \in 1..e |-> slice(n)]
  BY <1>5, <1>6
<1>8. returned = [n \in 1..count |-> slice(n)]
  BY <1>4, <1>7
<1> QED
  BY <1>4, <1>8 DEF slice

LEMMA AnswerHolds ==
  ASSUME OracleInv
  PROVE  AnswerIsCanonical
<1>1. SUFFICES ASSUME verdict = "answered"
               PROVE  AnswerIsCanonical
  BY DEF AnswerIsCanonical
<1>2. BlockInv /\ ~inCall /\ result # NotFinalized /\ DefaultOnce
  BY <1>1 DEF OracleInv
<1>3. MergeInv /\ TypeOK /\ done /\ result = Totals /\ result.blocks = Len(returned)
  BY <1>2, FinishedJob DEF BlockInv, MergeInv
<1>4. Exhausted /\ StreamIncreasing /\ stream \in Seq(Record)
  BY <1>3 DEF MergeInv, TypeOK
<1>5. Abstract!Emitted = Abstract!Merged(src, tgt)
  BY <1>3, <1>4, StandsAtEnd
<1>6. CanonicalStream = stream
  BY <1>4, <1>5, StreamIsCanonical
<1> DEFINE count == (Len(stream) + ItemsPerBlock - 1) \div ItemsPerBlock
           size(n) == Min({ItemsPerBlock, Len(stream) - (n - 1) * ItemsPerBlock})
<1>7. /\ count = Len(returned)
      /\ returned = [n \in 1..count |->
                       [rank |-> n - 1,
                        recs |-> SubSeq(stream, (n - 1) * ItemsPerBlock + 1,
                                                (n - 1) * ItemsPerBlock + size(n))]]
  BY <1>2, BlocksAreSlices
<1>8. result = [records |-> Len(stream), blocks |-> count, duplicates |-> Len(src) + Len(tgt) - Len(stream)]
  <2>1. emitted = count
    BY <1>3, <1>7 DEF Totals
  <2>2. duplicates = Len(src) + Len(tgt) - Len(stream)
    <3>1. i + j = Len(stream) + duplicates /\ i = Len(src) /\ j = Len(tgt)
      BY <1>2, <1>4 DEF BlockInv, Exhausted
    <3>2. Len(stream) \in Nat /\ duplicates \in Nat /\ Len(src) \in Nat /\ Len(tgt) \in Nat
      BY <1>3, <1>4, RunFacts DEF TypeOK
    <3> QED
      BY <3>1, <3>2
  <2> HIDE DEF count
  <2> QED
    BY <1>3, <2>1, <2>2 DEF Totals
<1>9. policy = "default" => Len(applied) = 1
  <2>1. Len(<<>>) = 0
    OBVIOUS
  <2> QED
    BY <1>2, <1>3 DEF DefaultOnce
<1> QED
  BY <1>6, <1>7, <1>8, <1>9 DEF AnswerIsCanonical

\* The job inside the oracle keeps its types.
THEOREM OracleTypesHold ==
  ASSUME ~SinkRaises
  PROVE  OracleSpec => []TypeOK
<1>1. OracleInv => TypeOK
  BY DEF OracleInv, BlockInv, MergeInv
<1> QED
  BY OracleInvariant, <1>1, PTL

\* And never retains a full block, under the schedules the oracle applies and
\* the budget it drains with.
THEOREM OraclePendingBounded ==
  ASSUME ~SinkRaises
  PROVE  OracleSpec => []PendingBounded
<1>1. OracleInv => PendingBounded
  BY DEF OracleInv, BlockInv
<1> QED
  BY OracleInvariant, <1>1, PTL

\* functional_oracle.py: whatever the schedule, the answer is the canonical
\* packing of the newer-wins union of the two runs, with its counts, and the
\* default policy takes one call.
THEOREM AnswerAlwaysCanonical ==
  ASSUME ~SinkRaises
  PROVE  OracleSpec => []AnswerIsCanonical
<1>1. OracleInv => AnswerIsCanonical
  BY AnswerHolds
<1> QED
  BY OracleInvariant, <1>1, PTL

\* _check_canonical_packing never refuses what the job has produced, and a
\* refused merge has produced nothing.
THEOREM SelfCheckAlwaysPasses ==
  ASSUME ~SinkRaises
  PROVE  OracleSpec => []SelfCheckPasses
<1>1. OracleInv => SelfCheckPasses
  BY DEF OracleInv, SelfCheckPasses, NothingYet
<1> QED
  BY OracleInvariant, <1>1, PTL
=============================================================================
