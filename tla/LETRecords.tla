----------------------------- MODULE LETRecords -----------------------------
(***************************************************************************)
(* The data of the LETIndex substrate, at the grain the engine tells       *)
(* apart.                                                                   *)
(*                                                                         *)
(* A normalised batch of records (dataset.py) is strictly increasing by    *)
(* key, so it is determined by the partial function from its keys to their *)
(* values: a dataset is such a function, and the rank of a record is the   *)
(* number of smaller keys.  Python dictionaries are partial functions too, *)
(* with the three updates the code uses.                                   *)
(***************************************************************************)
EXTENDS Integers, FiniteSets

CONSTANTS
  Keys,       \* the record keys in use, integers (RecordKey.value)
  Values,     \* the record values
  Capacity    \* records per block (Config.block_capacity)

ASSUME KeysAssumption == Keys \subseteq Int /\ IsFiniteSet(Keys)
ASSUME CapacityAssumption == Capacity \in Nat \ {0}

-----------------------------------------------------------------------------
(* Dictionaries. *)

\* d[k] = v
Put(d, k, v) == [x \in DOMAIN d \cup {k} |-> IF x = k THEN v ELSE d[x]]

\* del d[x] for every x of S that is a key of d
Drop(d, S) == [x \in DOMAIN d \ S |-> d[x]]

\* {**older, **newer}
Overlay(newer, older) ==
  [x \in DOMAIN newer \cup DOMAIN older |->
     IF x \in DOMAIN newer THEN newer[x] ELSE older[x]]

EmptyDict == [x \in {} |-> 0]

-----------------------------------------------------------------------------
(* Datasets, ranks and canonical blocks. *)

Datasets == UNION {[S -> Values] : S \in SUBSET Keys}

\* The rank of key k in a sorted run of the keys S: how many are smaller.
\* For a k outside S it is the rank of its lower bound.
RankIn(S, k) == Cardinality({j \in S : j < k})

Size(d) == Cardinality(DOMAIN d)

\* ceil(|d| / Capacity), the number of blocks of a canonical packing.
NumBlocks(d) == (Size(d) + Capacity - 1) \div Capacity

\* Variant (a plausible mistake, no part of the specification): ranks count
\* from 1.
ChunkFromOne(d, i) ==
  [k \in {j \in DOMAIN d : (RankIn(DOMAIN d, j) + 1) \div Capacity = i} |-> d[k]]

\* The i-th block (from 0) of the canonical packing of d: every block but the
\* last one is full.
Chunk(d, i) ==
  [k \in {j \in DOMAIN d : RankIn(DOMAIN d, j) \div Capacity = i} |-> d[k]]

\* The first n blocks of that packing, as one dataset.
Prefix(d, n) ==
  [k \in {j \in DOMAIN d : RankIn(DOMAIN d, j) \div Capacity < n} |-> d[k]]
=============================================================================
