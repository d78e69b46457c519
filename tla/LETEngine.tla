----------------------------- MODULE LETEngine ------------------------------
(***************************************************************************)
(* The trusted engine over its untrusted storage (engine.py, storage.py,   *)
(* mapping.py, level.py, builder.py, merge.py): blocks are created, placed *)
(* in physical slots, attached to levels, relocated, indexed, merged and   *)
(* retired.                                                                *)
(*                                                                         *)
(* The program is sequential.  The calls that work block by block          *)
(* (build_level, merge_levels_blocking) are cut at their block boundaries, *)
(* because an exception may leave them between any two blocks: `job' is    *)
(* the call in progress and no other call starts before it has ended.      *)
(*                                                                         *)
(* A definition marked "Variant" is no part of the specification: it is a  *)
(* plausible mistake in the definition below it, for which some property   *)
(* must fail.                                                              *)
(***************************************************************************)
EXTENDS LETRecords, Sequences

CONSTANTS
  Batches,         \* the record collections the client passes to the engine
  PgmConfigured,   \* Config.pgm_epsilon is not None
  Epsilon,         \* Config.pgm_epsilon, when it is configured
  Calls,           \* the public calls the client makes beyond building fresh
                   \* levels, merging them and retiring them
  RelocateAhead,   \* may relocate_block be given a slot the allocator has not
                   \* handed out yet?
  Faults,          \* where an exception may interrupt a call in progress
  MaxBlocks,       \* bound: block ids handed out
  MaxLevels,       \* bound: level ids handed out
  MaxSlot          \* bound: the largest slot a client relocates to

AllCalls == {"create_level", "create_block", "append", "attach", "share",
             "relocate", "build_pgm", "retire"}
AllFaults == {"step", "inside"}

ASSUME EngineAssumption ==
  /\ Batches \subseteq Datasets
  /\ PgmConfigured \in BOOLEAN /\ Epsilon \in Nat
  /\ RelocateAhead \in BOOLEAN
  /\ Calls \subseteq AllCalls /\ Faults \subseteq AllFaults
  /\ MaxBlocks \in Nat /\ MaxLevels \in Nat /\ MaxSlot \in Nat

VARIABLES
  slots,      \* UntrustedStorage._slots: slot -> block
  nextSlot,   \* UntrustedStorage._next_free_slot
  l2p, p2l,   \* LogicalPhysicalMapping, both directions
  levels,     \* _levels: active level id -> its block ids in level order
  retired,    \* _retired_level_ids
  pgm,        \* _pgm_indexes: level id -> the keys the index was built over
  nextBlock,  \* _next_block_id
  nextLevel,  \* _next_level_id
  job         \* the build or merge in progress

store == <<slots, nextSlot>>
mapping == <<l2p, p2l>>
registry == <<levels, retired, pgm, nextLevel>>
vars == <<slots, nextSlot, l2p, p2l, levels, retired, pgm, nextBlock, nextLevel, job>>

Idle == [call |-> "none"]

Init ==
  /\ slots = EmptyDict /\ nextSlot = 0
  /\ l2p = EmptyDict /\ p2l = EmptyDict
  /\ levels = EmptyDict /\ retired = {} /\ pgm = EmptyDict
  /\ nextBlock = 0 /\ nextLevel = 0
  /\ job = Idle

-----------------------------------------------------------------------------
(* Reading blocks and levels. *)

\* read_block raises unless the block is mapped and its slot is occupied.
Readable(b) == b \in DOMAIN l2p /\ l2p[b] \in DOMAIN slots

\* read_block does not compare the block's own id with the id asked for.
ReadBlock(b) == slots[l2p[b]].recs

BlocksOf(l) == {levels[l][i] : i \in DOMAIN levels[l]}

LevelReadable(l) == \A b \in BlocksOf(l) : Readable(b)

\* Keys strictly increasing inside every block (by construction of a block)
\* and across the blocks of the level.
Increasing(l) ==
  \A i, j \in DOMAIN levels[l] : i < j =>
    \A x \in DOMAIN ReadBlock(levels[l][i]), y \in DOMAIN ReadBlock(levels[l][j]) : x < y

\* No block is empty and every block but the last one is full.
Packed(l) ==
  \A i \in DOMAIN levels[l] :
    LET n == Size(ReadBlock(levels[l][i]))
    IN  n > 0 /\ n <= Capacity /\ (i < Len(levels[l]) => n = Capacity)

\* Variant: an end marker is indexed with the keys.
KeysWithSentinel(l) == UNION {DOMAIN ReadBlock(b) : b \in BlocksOf(l)} \cup {0}

KeysOf(l) == UNION {DOMAIN ReadBlock(b) : b \in BlocksOf(l)}

\* The records of a level whose keys are increasing.
Contents(l) ==
  [k \in KeysOf(l) |->
     ReadBlock(CHOOSE b \in BlocksOf(l) : k \in DOMAIN ReadBlock(b))[k]]

LooseBlocks == DOMAIN l2p \ UNION {BlocksOf(l) : l \in DOMAIN levels}

-----------------------------------------------------------------------------
(* The mapping and the storage.                                             *)

\* assign, for the block id and the slot that have just been handed out
AssignNext ==
  /\ l2p' = Put(l2p, nextBlock, nextSlot)
  /\ p2l' = Put(p2l, nextSlot, nextBlock)

\* move: the old slot has no owner any more.
Move(b, s) ==
  /\ p2l' = Put(Drop(p2l, {l2p[b]}), s, b)
  /\ l2p' = [l2p EXCEPT ![b] = s]

\* unassign, block by block
Unassign(B) == l2p' = Drop(l2p, B) /\ p2l' = Drop(p2l, {l2p[b] : b \in B})

\* Variant: the next slot is the number of occupied ones.
StoreByCount(recs) ==
  /\ slots' = Put(slots, nextSlot, [id |-> nextBlock, recs |-> recs])
  /\ nextSlot' = Cardinality(DOMAIN slots')
  /\ nextBlock' = nextBlock + 1

\* store, as create_block uses it: the id is spent first and the allocator's
\* counter moves whatever happens next.
StoreNext(recs) ==
  /\ slots' = Put(slots, nextSlot, [id |-> nextBlock, recs |-> recs])
  /\ nextSlot' = nextSlot + 1
  /\ nextBlock' = nextBlock + 1

\* Variant: the slots are left as they are.
ClearNothing(S) == UNCHANGED slots

\* clear: the slots no longer hold a block.
Clear(S) == slots' = Drop(slots, S)

\* Variant: a block is looked for in the slot of its own number.
SlotsLikeIds(B) == B

SlotsOf(B) == {l2p[b] : b \in B}

-----------------------------------------------------------------------------
(* create_block: a fresh id, the block stored in the slot the allocator     *)
(* hands out, the pair assigned, and only then the block attached.          *)

\* Variant: the index survives the append.
AttachKeepingIndex(l, b) ==
  /\ levels' = [levels EXCEPT ![l] = Append(@, b)]
  /\ UNCHANGED <<pgm, retired, nextLevel>>

\* add_block_to_level: the level's index no longer describes it.
Attach(l, b) ==
  /\ levels' = [levels EXCEPT ![l] = Append(@, b)]
  /\ pgm' = Drop(pgm, {l})
  /\ UNCHANGED <<retired, nextLevel>>

\* Variant: assign accepts a slot that is taken.
NeverCollides == FALSE

\* The slot handed out is mapped already: the block has been written over
\* what it held when assign raises DuplicatePhysicalSlotError.
Collides == nextSlot \in DOMAIN p2l

CreateBlockInLevel(l, recs) ==
  /\ ~Collides
  /\ StoreNext(recs) /\ AssignNext /\ Attach(l, nextBlock)

CreateBlockAlone(recs) ==
  /\ ~Collides
  /\ StoreNext(recs) /\ AssignNext /\ UNCHANGED registry

CreateBlockCollides(recs) ==
  /\ Collides
  /\ StoreNext(recs) /\ UNCHANGED <<mapping, registry>>

\* An exception between the write and the assignment: the slot stays occupied
\* and nothing is mapped to it.
CreateBlockTorn(recs) ==
  /\ ~Collides
  /\ StoreNext(recs) /\ UNCHANGED <<mapping, registry>>

\* An exception before the block is attached, inside a build or a merge: the
\* block may be mapped by then, and belongs to no level either way.
CreateBlockCut(recs) == CreateBlockTorn(recs) \/ CreateBlockAlone(recs)

-----------------------------------------------------------------------------
(* Calls of the client. *)

Ready(call) == job = Idle /\ call \in Calls
BlocksLeft(n) == nextBlock + n <= MaxBlocks
LevelsLeft == nextLevel < MaxLevels

\* Variant: the level counter stays behind.
OpenLevelAgain ==
  /\ LevelsLeft
  /\ levels' = Put(levels, nextLevel, <<>>)
  /\ UNCHANGED <<retired, pgm, nextLevel>>

\* _new_level_id and the registration of the empty level
OpenLevel ==
  /\ LevelsLeft
  /\ levels' = Put(levels, nextLevel, <<>>)
  /\ nextLevel' = nextLevel + 1
  /\ UNCHANGED <<retired, pgm>>

CreateLevel ==
  /\ Ready("create_level") /\ OpenLevel
  /\ UNCHANGED <<store, mapping, nextBlock, job>>

\* create_block(records, level_id): more records than a block holds are
\* rejected after the id is spent; an unknown or retired level is noticed
\* after the block has been stored and mapped, as with no level at all, and
\* an exception before add_block_to_level leaves the same.
CreateBlock(recs) ==
  /\ Ready("create_block") /\ BlocksLeft(1)
  /\ \/ /\ Size(recs) > Capacity
        /\ nextBlock' = nextBlock + 1
        /\ UNCHANGED <<store, mapping, registry>>
     \/ Size(recs) <= Capacity /\ CreateBlockAlone(recs)
     \/ Size(recs) <= Capacity /\ CreateBlockCollides(recs)
     \/ "inside" \in Faults /\ Size(recs) <= Capacity /\ CreateBlockTorn(recs)
     \/ /\ Size(recs) <= Capacity /\ "append" \in Calls
        /\ \E l \in DOMAIN levels : CreateBlockInLevel(l, recs)
  /\ UNCHANGED job

\* add_block_to_level: the level must not hold the block yet.  Whether another
\* level does, or whether the block is still mapped, is not looked at: that is
\* the client's care, and the client that takes none makes the call "share".
AttachBlock(l, b) ==
  /\ Ready("attach")
  /\ l \in DOMAIN levels /\ b \notin BlocksOf(l)
  /\ b \in LooseBlocks \/ "share" \in Calls
  /\ Attach(l, b)
  /\ UNCHANGED <<store, mapping, nextBlock, job>>

\* relocate_block: the destination is unmapped and empty, and the source
\* holds the block that is asked for.
RelocateBlock(b, s) ==
  /\ Ready("relocate")
  /\ s <= MaxSlot /\ (RelocateAhead \/ s < nextSlot)
  /\ Readable(b) /\ slots[l2p[b]].id = b
  /\ s \notin DOMAIN p2l /\ s \notin DOMAIN slots
  /\ slots' = Put(Drop(slots, {l2p[b]}), s, slots[l2p[b]])
  /\ Move(b, s)
  /\ UNCHANGED <<nextSlot, registry, nextBlock, job>>

\* build_level_pgm checks the order of the keys and nothing of the packing.
IndexLevel(l) ==
  /\ PgmConfigured
  /\ LevelReadable(l) /\ Increasing(l)
  /\ pgm' = Put(pgm, l, KeysOf(l))
  /\ UNCHANGED <<levels, retired, nextLevel>>

BuildLevelPgm(l) ==
  /\ Ready("build_pgm") /\ l \in DOMAIN levels
  /\ IndexLevel(l)
  /\ UNCHANGED <<store, mapping, nextBlock, job>>

\* Variant: the level stays registered.
RegisterRetired(l) == retired' = retired \cup {l} /\ UNCHANGED levels

Deregister(l) == levels' = Drop(levels, {l}) /\ retired' = retired \cup {l}

\* retire_level: every block's slot is cleared and the block unassigned, then
\* the level leaves the registry.
Retire(l) ==
  /\ LevelReadable(l)
  /\ Clear(SlotsOf(BlocksOf(l))) /\ Unassign(BlocksOf(l))
  /\ pgm' = Drop(pgm, {l}) /\ Deregister(l)
  /\ UNCHANGED <<nextSlot, nextBlock, nextLevel>>

\* A block that another level's retirement has unmapped stops the loop: the
\* blocks before it are gone and the level stays, with its index.
RetireTorn(l) ==
  /\ \E n \in DOMAIN levels[l] :
       LET before == {levels[l][m] : m \in 1..n - 1}
       IN  /\ ~Readable(levels[l][n]) /\ \A b \in before : Readable(b)
           /\ Clear(SlotsOf(before)) /\ Unassign(before)
  /\ UNCHANGED <<nextSlot, registry, nextBlock>>

RetireLevel(l) ==
  /\ Ready("retire") /\ l \in DOMAIN levels
  /\ Retire(l) \/ RetireTorn(l)
  /\ UNCHANGED job

-----------------------------------------------------------------------------
(* build_level and create_update_level. *)

Building(l, d) == [call |-> "build", out |-> l, data |-> d, placed |-> 0]

\* The records are sorted and checked before the level exists.
\* create_update_level is the same call with a batch that is not empty.
StartBuild(d) ==
  /\ job = Idle /\ BlocksLeft(NumBlocks(d))
  /\ OpenLevel
  /\ job' = Building(nextLevel, d)
  /\ UNCHANGED <<store, mapping, nextBlock>>

\* build_level(records, level_id) appends to a level that exists.
StartAppend(l, d) ==
  /\ Ready("append") /\ l \in DOMAIN levels /\ BlocksLeft(NumBlocks(d))
  /\ job' = Building(l, d)
  /\ UNCHANGED <<store, mapping, registry, nextBlock>>

Placing == job.call \in {"build", "merge"} /\ job.placed < NumBlocks(job.data)

PlaceBlock ==
  /\ Placing
  /\ CreateBlockInLevel(job.out, Chunk(job.data, job.placed))
  /\ job' = [job EXCEPT !.placed = @ + 1]

FinishBuild ==
  /\ job.call = "build" /\ ~Placing
  /\ job' = Idle
  /\ UNCHANGED <<store, mapping, registry, nextBlock>>

\* An exception leaves build_level: the level keeps the blocks it has.
AbortBuild ==
  /\ job.call = "build" /\ job' = Idle
  /\ \/ Placing /\ CreateBlockCollides(Chunk(job.data, job.placed))
     \/ /\ Placing /\ "step" \in Faults
        /\ UNCHANGED <<store, mapping, registry, nextBlock>>
     \/ /\ Placing /\ "inside" \in Faults
        /\ CreateBlockCut(Chunk(job.data, job.placed))

-----------------------------------------------------------------------------
(* merge_levels_blocking. *)

\* Variant: the older record shadows the newer one.
OlderWins(newer, older) == Overlay(older, newer)

\* _merge_sorted: on equal keys the newer record is taken and both advance.
MergeSorted(newer, older) == Overlay(newer, older)

\* Both inputs are read and checked, then the output level is reserved.
StartMerge(newer, older) ==
  /\ job = Idle
  /\ newer \in DOMAIN levels /\ older \in DOMAIN levels /\ newer # older
  /\ \A l \in {newer, older} : LevelReadable(l) /\ Packed(l) /\ Increasing(l)
  /\ LET merged == MergeSorted(Contents(newer), Contents(older))
     IN  /\ BlocksLeft(NumBlocks(merged))
         /\ job' = [call |-> "merge", out |-> nextLevel, data |-> merged, placed |-> 0,
                    newer |-> newer, older |-> older]
  /\ OpenLevel
  /\ UNCHANGED <<store, mapping, nextBlock>>

\* _assert_canonical_output and build_level_pgm have passed: the output is
\* published and the inputs are next to be retired.
IndexOutput ==
  /\ job.call = "merge" /\ ~Placing
  /\ Len(levels[job.out]) = NumBlocks(job.data)
  /\ IndexLevel(job.out)
  /\ job' = [job EXCEPT !.call = "retire_newer"]
  /\ UNCHANGED <<store, mapping, nextBlock>>

RetireNewer ==
  /\ job.call = "retire_newer"
  /\ Retire(job.newer)
  /\ job' = [job EXCEPT !.call = "retire_older"]

\* The older input may share a block with the newer one.
RetireOlder ==
  /\ job.call = "retire_older"
  /\ Retire(job.older) \/ RetireTorn(job.older)
  /\ job' = Idle

\* Before publication every exception ends in _discard_partial_output: it
\* may come between two blocks, from inside the creation of one, or from
\* build_level_pgm when no epsilon is configured.
FailPlacing ==
  /\ job.call = "merge" /\ Placing
  /\ \/ CreateBlockCollides(Chunk(job.data, job.placed))
     \/ "inside" \in Faults /\ CreateBlockCut(Chunk(job.data, job.placed))
  /\ job' = [job EXCEPT !.call = "discard"]

\* Variant: an output that has its first block is left as it is.
DropEmptyOutput ==
  IF levels[job.out] = <<>> THEN Retire(job.out)
  ELSE UNCHANGED <<store, mapping, registry, nextBlock>>

\* _discard_partial_output: the blocks the output has so far are cleared and
\* unassigned, and it is deregistered like a retired level.
DropOutput == Retire(job.out)

DiscardOutput ==
  /\ \/ job.call = "discard"
     \/ job.call = "merge" /\ "step" \in Faults
     \/ job.call = "merge" /\ ~Placing /\ ~PgmConfigured
  /\ DropOutput
  /\ job' = Idle

-----------------------------------------------------------------------------
Client ==
  \/ CreateLevel
  \/ \E d \in Batches : CreateBlock(d) \/ StartBuild(d)
  \/ \E l \in DOMAIN levels, b \in 0..nextBlock - 1 : AttachBlock(l, b)
  \/ \E b \in DOMAIN l2p, s \in 0..MaxSlot : RelocateBlock(b, s)
  \/ \E l \in DOMAIN levels : BuildLevelPgm(l) \/ RetireLevel(l)
  \/ \E l \in DOMAIN levels, d \in Batches : StartAppend(l, d)
  \/ \E newer, older \in DOMAIN levels : StartMerge(newer, older)

\* What the engine does by itself once a call has started.
Run ==
  \/ PlaceBlock \/ FinishBuild \/ AbortBuild
  \/ IndexOutput \/ RetireNewer \/ RetireOlder
  \/ FailPlacing \/ DiscardOutput

Next == Client \/ Run

Spec == Init /\ [][Next]_vars

-----------------------------------------------------------------------------
(* Properties. *)

Blocks == [id : Nat, recs : Datasets]

Builds == [call : {"build"}, out : Nat, data : Datasets, placed : Nat]
Merges == [call : {"merge", "discard", "retire_newer", "retire_older"},
           out : Nat, data : Datasets, placed : Nat, newer : Nat, older : Nat]

\* Every variable has its type.
TypeOK ==
  /\ DOMAIN slots \subseteq Nat /\ slots \in [DOMAIN slots -> Blocks]
  /\ DOMAIN l2p \subseteq Nat /\ l2p \in [DOMAIN l2p -> Nat]
  /\ DOMAIN p2l \subseteq Nat /\ p2l \in [DOMAIN p2l -> Nat]
  /\ DOMAIN levels \subseteq Nat /\ levels \in [DOMAIN levels -> Seq(Nat)]
  /\ DOMAIN pgm \subseteq Nat /\ pgm \in [DOMAIN pgm -> SUBSET Keys]
  /\ retired \subseteq Nat
  /\ nextSlot \in Nat /\ nextBlock \in Nat /\ nextLevel \in Nat
  /\ job \in {Idle} \cup Builds \cup Merges

\* The two dictionaries of the mapping are each other's inverse, whatever the
\* client does and wherever a call is cut: what validate_bijection asserts
\* after every mutation.
MappingBijective ==
  /\ \A b \in DOMAIN l2p : l2p[b] \in DOMAIN p2l /\ p2l[l2p[b]] = b
  /\ \A s \in DOMAIN p2l : p2l[s] \in DOMAIN l2p /\ l2p[p2l[s]] = s

\* Every mapped block has its current copy in the slot it is mapped to
\* (relocate_block: "every active block keeps exactly one current physical
\* copy"): no store, relocation or retirement of another block has touched it.
BlocksIntact == \A b \in DOMAIN l2p : Readable(b) /\ slots[l2p[b]].id = b

\* No slot is occupied by a block nobody is mapped to: the storage never
\* fills up with copies that retire_level and _discard_partial_output miss.
NoOrphanSlot == DOMAIN slots \subseteq DOMAIN p2l

\* The blocks of the active levels are mapped, and a block is at one place of
\* one level: retiring a level never takes a block from under another one.
LevelsDisjoint ==
  /\ \A l \in DOMAIN levels : BlocksOf(l) \subseteq DOMAIN l2p
  /\ \A l, m \in DOMAIN levels : \A i \in DOMAIN levels[l], j \in DOMAIN levels[m] :
       levels[l][i] = levels[m][j] => l = m /\ i = j

\* An index that can be searched describes the level as it is now: keys and
\* order, after appends, attachments, relocations and retirements.
PgmCurrent ==
  \A l \in DOMAIN pgm :
    /\ l \in DOMAIN levels /\ LevelReadable(l)
    /\ Increasing(l) /\ pgm[l] = KeysOf(l)

\* Levels that only build_level and the merge have filled are canonical at
\* every moment, half-built ones included (validate_level's conditions).
LevelsCanonical ==
  \A l \in DOMAIN levels : LevelReadable(l) /\ Packed(l) /\ Increasing(l)

-----------------------------------------------------------------------------
(* lookup_level against the level's contents. *)

\* The windows BatchPgmIndex.search may return for key k over the keys S:
\* pos - epsilon to pos + epsilon + 2, clamped, around some predicted position
\* from which the lower bound of k is in the window, and the rank of a stored k
\* is searched (WindowHoldsLowerBound of Pgm).
Windows(S, k) ==
  LET n == Cardinality(S)
      lo(pos) == IF pos < Epsilon THEN 0 ELSE pos - Epsilon
      hi(pos) == IF pos + Epsilon + 2 > n THEN n ELSE pos + Epsilon + 2
  IN  {w \in {<<lo(pos), hi(pos)>> : pos \in 0..n} :
         /\ w[1] <= RankIn(S, k) /\ RankIn(S, k) <= w[2]
         /\ k \in S => RankIn(S, k) < w[2]}

\* Variant: the last block of the window is not read.
CoveringShort(l, w) ==
  {i \in DOMAIN levels[l] : i - 1 \in w[1] \div Capacity .. (w[2] - 1) \div Capacity - 1}

\* The blocks that hold the ranks of the window.
Covering(l, w) ==
  {i \in DOMAIN levels[l] : i - 1 \in w[1] \div Capacity .. (w[2] - 1) \div Capacity}

\* The keys among which lookup_level bisects: the blocks that cover the
\* window by rank, each record at the rank its block and offset give it.
Candidates(l, w) ==
  LET rank(i, k) == (i - 1) * Capacity + RankIn(DOMAIN ReadBlock(levels[l][i]), k)
  IN  IF w[1] = w[2] THEN {}
      ELSE UNION {{k \in DOMAIN ReadBlock(levels[l][i]) :
                     w[1] <= rank(i, k) /\ rank(i, k) < w[2]} : i \in Covering(l, w)}

\* lookup_level answers HIT exactly for the keys the level holds, and its
\* lower-bound rank is the key's rank in the level, whichever window the
\* index predicts.
LookupExact ==
  \A l \in DOMAIN pgm : \A k \in Keys : \A w \in Windows(pgm[l], k) :
    /\ k \in Candidates(l, w) <=> k \in KeysOf(l)
    /\ w[1] + RankIn(Candidates(l, w), k) = RankIn(KeysOf(l), k)

-----------------------------------------------------------------------------
(* The levels as LevelStore sees them.  The output of a build or of a merge *)
(* is hidden until the call has finished it; from then on, what it replaces *)
(* is hidden until it has been retired.                                     *)

\* A merge may still be discarded until its output has been indexed.
Merging == job.call \in {"merge", "discard"}

Hidden ==
  CASE job.call \in {"build", "merge", "discard"} -> {job.out}
    [] job.call \in {"retire_newer", "retire_older"} -> {job.newer, job.older}
    [] OTHER -> {}

Abstract == INSTANCE LevelStore
  WITH content <- [l \in DOMAIN levels \ Hidden |-> Contents(l)],
       asked <- IF Merging THEN <<job.newer, job.older>> ELSE <<>>,
       LevelIds <- 0..MaxLevels - 1

\* The block-by-block engine implements LevelStore: merges look atomic and
\* newer-wins, interrupted builds show all, a prefix or nothing of a level, and
\* relocations, retirements and failures change no other level's records.
ImplementsLevelStore == Abstract!Spec

-----------------------------------------------------------------------------
(* What a step may never do. *)

\* A block's records are those it was created with: relocation, attachment,
\* other blocks' creation and other levels' retirement leave them alone.
BlocksImmutable ==
  [][\A b \in DOMAIN l2p \cap DOMAIN l2p' :
       Readable(b) => Readable(b)' /\ ReadBlock(b)' = ReadBlock(b)]_vars

\* Ids are never used twice: a retired level stays retired and a block or a
\* level that appears has an id no block or level had before.
IdsFresh ==
  [][/\ retired \subseteq retired' /\ retired' \cap DOMAIN levels' = {}
     /\ \A b \in DOMAIN l2p' \ DOMAIN l2p : b >= nextBlock
     /\ \A l \in DOMAIN levels' \ DOMAIN levels : l >= nextLevel]_vars

\* Until a merge has published its output, wherever it is interrupted, its two
\* inputs stay active and readable with the blocks they had, and their records
\* change only where a block of the output is stored over a slot the client
\* has relocated to.  The blocks of the output can be read back throughout, so
\* that discarding them does not stop half-way: a merge that fails leaves
\* nothing of the output level, which is retired, its blocks unmapped and
\* their slots empty.
MergeFailsCleanly ==
  [][Merging =>
       /\ \A l \in {job.newer, job.older} :
            /\ l \in DOMAIN levels' /\ levels'[l] = levels[l] /\ LevelReadable(l)'
            /\ \A b \in BlocksOf(l) :
                 \/ ReadBlock(b)' = ReadBlock(b)
                 \/ l2p[b] = nextSlot /\ nextSlot' # nextSlot
       /\ LevelReadable(job.out)
       /\ job' = Idle =>
            /\ job.out \in retired' /\ job.out \notin DOMAIN levels'
            /\ \A b \in BlocksOf(job.out) :
                 b \notin DOMAIN l2p' /\ l2p[b] \notin DOMAIN slots']_vars
=============================================================================
