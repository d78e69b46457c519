# A TLA+ development of the LETIndex baseline and its SWAT merge

The program is a trusted engine that keeps sorted, level-organised records in
untrusted storage (`src/codes/src/enhanced_letindex`), and a block-wise
redesign of its level merge (`src/codes/src/swat_m_block`). This directory
holds TLA+ modules translated from that code, the TLC configurations that check
them, and theorems about them with proofs that TLAPS checks.

The program is sequential: no threads, no callbacks but one, no messages. What
makes it hard is elsewhere: long sequences of legal calls, state kept twice
(mapping in both directions, index and level, oracle and engine), exceptions
that leave a call half done, a resumable merge whose caller chooses every stop,
an online geometric algorithm in exact integers, noise that pushes sums past
their clamps, and off-by-one traps at block boundaries.

## 1. Inventory

| Component | State | Operations | What makes it correct |
|---|---|---|---|
| Engine and storage (`engine`, `storage`, `mapping`, `level`, `block`, `builder`, `dataset`) | slots and the allocator's counter; the mapping, both ways; levels, retired ids, indexes; id counters | create level/block, append, attach, relocate, build index, retire | the mapping is a bijection; every mapped block has its copy; no orphan copies; levels share no block; an index describes its level; canonical packing |
| Blocking merge, upsert (`merge`) | none of its own: it drives the engine | `create_update_level`, `merge_levels_blocking`, discard | looks atomic and newer-wins; a failed merge leaves the inputs as they were |
| Lookup (`engine.lookup_level(s)`) | none (indexes of the engine) | search, read a window of blocks, bisect | exact HIT/MISS and rank for every key; newest level wins |
| Batch PGM (`pgm`) | two hulls, the feasible region, closed segments | add a point, close a segment, search | the window of every key holds its lower bound; segments are as long as they can be |
| Workload runner (`workload`) | refs, oracle stack, queryable set, counters | build, upsert, build index, merge, query, verify | oracle and engine agree; the stack is one last-write-wins map |
| Incremental merge (`incremental_merge`) | two cursors, pending block, incremental PGM, flags | `advance(q)`, `finalize` | budgets are invisible in the output; one partial block at most; DONE only at the end, and in the end |
| Functional oracle (`functional_oracle`) | the budgets left and applied | drive a job, drain it, self-check | one answer for every schedule, and always an answer |
| Block bin allocation (`bin_allocator`, `distribution`) | one call's search bounds, loads, sums, bins | size, sample, noisy prefix, fill | every block in one bin, loads respected, the prefix monotone and within a capacity |
| Bin schedule (`content_schedule`) | two plans bound to two runs, interior points, unread positions | bind, sample, scan | every bin read once, in the order of the pinned loop it projects |
| Reference index (`letindex_ref`) | levels, placements, per-lookup buffers | build, load, query | only fetched blocks are used; the newest level answers; regions are dense |
| Reference evaluation (`ref_truth`, `ref_adversary`, `ref_workload`), leakage (`leakage`, `leakage_metrics`), trace (`trace`), provenance | files and logs | offline analysis, export | functions of finished runs |

Interaction is by direct calls. The runner calls the engine and reads it back;
the engine calls the builder and the merger, which call the engine; everything
goes through mapping and storage. The incremental merge reads two immutable
runs, feeds an incremental PGM and calls its caller's sink; the functional
oracle drives it. The bin schedule makes two plans with the allocator and
binds them to the same two runs. The reference index builds its own levels
with the batch PGM.

## 2. Modules

| Module | Models | Read it for |
|---|---|---|
| `LETRecords` | normalised batches, canonical packing, Python dictionaries | the data all engine modules share |
| `LETEngine` | engine, storage, mapping, builder, blocking merge | one action per operation, cut at block boundaries |
| `LevelStore` | what the engine promises of its levels | the abstract specification of `LETEngine` |
| `LETWorkload` | runner and oracle, composed with the engine | extends `LETEngine`; its actions are conjunctions with the engine's |
| `KVMap` | what a stack of levels promises | the abstract specification of `LETWorkload` |
| `IncrementalMerge` | the resumable merge job | one action per decision |
| `MergedRun` | the one-shot merge as a stream | the abstract specification of `IncrementalMerge` |
| `FunctionalOracle` | the call that drives a merge job | extends `IncrementalMerge` and composes with its steps |
| `BinAllocation` | one call of `allocate_block_bins` | one action per turn of each of its loops |
| `BinSchedule` | two plans, bound, sampled and scheduled | extends `BinAllocation`; keeps the pinned loop's fetches beside the schedule's |
| `Pgm` | the segmentation and its search | one action per kind of point |
| `RefIndex` | the reference index | extends `Pgm`: every indexed level is built through it point by point |
| `MC*` | small instances for TLC | constants' values |
| `IntegerSets` | | lemmas on least elements, minima, maxima and ranks, and on sums over finite sets |
| `LETEngineProofs`, `LETWorkloadProofs`, `IncrementalMergeProofs`, `FunctionalOracleProofs`, `BinProofs`, `PgmProofs`, `RefIndexProofs` | | theorems and proofs, each named for what it is about |

### State and actions against the code

**`LETEngine`.** `slots`, `nextSlot` are `UntrustedStorage`; `l2p`, `p2l` the
two dictionaries of `LogicalPhysicalMapping`; `levels`, `retired`, `pgm`,
`nextBlock`, `nextLevel` the fields of `TrustedEngine`. A block is its id and
a function from keys to values, a level the sequence of its block ids, an index
the set of keys it was built over. `job` has no counterpart in a field: it is
the program counter of `build_level` and `merge_levels_blocking`, the two calls
that an exception can leave between two blocks. Retirement is one step: nothing
in it raises once its first block has been found, except for a block that is
no longer mapped, which is `RetireTorn`.

`CreateBlock*` are the outcomes of `create_block`: attached to a level, alone
(also what remains when the level turns out unknown or retired, which the code
notices last, or after an exception between the assignment and the attachment),
refused by `assign` because the slot is taken (after the write), or torn by an
exception between the write and the assignment. An exception may cut the
client's own call as well as one inside a build or a merge (`CreateBlockCut`).
`Calls`, `Faults` and `RelocateAhead` say what the client does and where
exceptions may fall, so that every result names the client it is about.

Lookups change no state. `LookupExact` states what `lookup_level` computes for
every key and every window that `BatchPgmIndex.search` may return: the position
is arbitrary, provided the window of `pos - epsilon` to `pos + epsilon + 2`,
clamped, contains the key's lower bound and, if the key is stored, ends behind
its rank. That the segmentation provides such a window is
`WindowHoldsLowerBound` of `Pgm`, proved in `PgmProofs`.

**`LETWorkload`.** `refs`, `order`, `oldRefs`, `queryable` are the fields of
`BaselineWorkloadRunner` and `LogicalOracle`; `pending` is the engine call it
is waiting for, with the engine's counts and the oracle's expected ones if that
is a merge; `outcome` the last query's result; `mismatches` the sum of its
two counters. `orphans` is no field of the code: it remembers the levels whose
build raised, which the engine keeps active and the verification must report,
and nothing else, as unexpected. A query picks any result the engine's lookups
may give.

**`IncrementalMerge`.** One step of the job is one output decision, or the
return from `advance`. The three ways a decision ends (kept, flushed, or an
exception from the sink or the PGM) are actions; an exception leaves `pending`,
`stream` and the cursors exactly as the order of statements in `_emit`,
`_flush_block` and `advance` leaves them. `payload`, `returned` and `delivered`
record what the caller gets from return values and from the sink.

**`FunctionalOracle`.** `verdict` is the program counter of
`functional_merge_oracle`: its loop hands the next budget of the schedule to
`Advance`, and when they are used up budgets of one; between two of them the
job takes its own steps. `Answer` ends with the self-check on the collected
blocks.

**`BinAllocation`.** The phases are those of `allocate_block_bins`. What the
real-valued mathematics decides is a choice: the verdict of the tail test at
each probe, the load of each bin, the Laplace sample of each dyadic node, in
units of `1/Scale` block so that the cast truncates. The cast, the window, the
monotone estimate and the merging of dyadic levels are the code's. A load
beyond the capacity (an injected sampler), loads that do not cover the run,
and the plan's own refusal are outcomes.

**`BinSchedule`.** `stage` and `side` are the program counter of the planning
of a merge. A run is the sequence of its keys; a point is the pair by which
`interior_point_sort_key` orders it; `Refuse` is the planner's refusal of runs
that are no neighbours or have other blocks, and the sampler's of a position
outside the bin; `Arrive` is one turn of `build_abstract_merge_schedule`.
`fetched` and `unfetched` are a history of
what the pinned loop, which the module's documentation says the schedule
projects, does with the same arrivals.

**`Pgm`.** The variables are the fields of `_OptimalPiecewiseLinearModel` and
of the builder around it; `FirstPoint`, `SecondPoint`, `InsidePoint` and
`OutsidePoint` are the cases of `add_point`. The walks along the hulls are
minima and maxima of sets of nodes; products, truncating divisions and rounding
are those of the code, in exact integers.

**`RefIndex`.** `Declare` to `Load` build and load an experiment; `Enter`,
`ProbeMiddle`, `Compare`, `Touch` and `Outcome` are one level lookup with the
current block, the prefetched neighbours and the fetched blocks of
`_LevelSearcher`. The permutation of a level is any one.

Operators marked *Variant* are plausible mistakes in the definition they
precede. They belong to no specification; each shows that some property
notices the mistake.

## 3. Runs

| Run | Question | Bounds |
|---|---|---|
| `engine_canonical` | Are levels canonical and lookups exact for the client that builds, indexes, relocates, merges, retires, and does the engine implement `LevelStore` for it? | 4 keys, capacity 2, 5 blocks, 4 levels, slots 0 and 1 to relocate to, exceptions inside `create_block` |
| `engine_open` | Do storage, levels and indexes stay consistent when blocks are created, appended and attached by hand? | 3 blocks, 3 levels, exceptions anywhere |
| `engine_anything` | What survives a client that shares blocks and relocates ahead of the allocator, and does a failing merge (no epsilon is configured, so all do) leave its inputs as they were and nothing of its output? | 3 blocks, 3 levels, exceptions between blocks |
| `workload_verified` | Do oracle, verification and engine agree, and is the stack of levels one map? | 3 batches, 5 blocks, 5 levels, exceptions between blocks |
| `merge_sink` | Is the stream right when the sink raises and the caller retries? | all 256 pairs of runs over 4 keys, budgets to 3, 9 calls, blocks of 2 |
| `oracle` | Is the oracle's answer the canonical merge, whatever the budgets, and is every request answered? | the same runs, all schedules of up to three budgets to 3, levels 3 and 4 |
| `bins` | Do plans cover their runs and keep their prefix in its window for any noise, and is the schedule that of the pinned loop? | plans of 0 to 3 blocks, first capacity 2 or 8, four noises, cast limit 6, six runs of two-record blocks |
| `ref_lookups` | Do the segments divide the run, does every window hold the lower bound, does every query find the newest value with blocks it has read in the region of the level at hand? | all sets of at most 8 of 9 keys, epsilon 0 and 1, and experiments of two and three levels; queries for all keys and one on each side |

Why these bounds are enough to be interesting. *Engine*: a capacity of 2 and
batches of 3 and 2 records give full and partial blocks, windows that cross a
block boundary, keys below, between and above the records, overlap and
interleaving of two runs. Five blocks hold two levels and their merge, so that
a merge happens with its inputs, its partial output and its retirement; in
`workload_verified`, with batches of one block and five levels, they also allow
two merges in a row, the second of the first's output. Exceptions inside
`create_block` come in `engine_canonical` and `engine_open`, those between two
blocks in `engine_open`, `engine_anything` and `workload_verified`. Three
blocks in `engine_open` suffice for a level of two blocks and a block to be
attached or relocated between them. *Merge and oracle*: two runs over four keys
make up to two output blocks, full and partial, with every pattern of shared
keys and every split into calls; schedules may end before the job, at its end
and after it. *Bins*: with a first capacity of 8 the search probes both halves
and may end on a probe that failed; up to four bins give three dyadic levels;
the noises lie inside and far beyond the window, below zero and above the cast
limit; the runs interleave, coincide and lie apart, and loads of zero make bins
without a real block. *Reference index*: eight of nine keys make up to three
segments at epsilon 0 and four blocks of two, so that hulls drop nodes, windows
end inside blocks and prefetching has neighbours on both sides; the experiments
of several levels have gaps, empty levels, shared keys and both placements.

Level and block ids are never reused by the code, so bounds on them bound the
length of a behaviour: `CHECK_DEADLOCK FALSE` is there because a client out of
ids stops; a finished call (oracle, schedule) and an experiment out of queries
stop too.

### Runs that find a disagreement

| Run | Finding |
|---|---|
| `engine_overwrite` | `relocate_block` accepts a slot beyond `_next_free_slot`; the allocator later hands that slot out, and `create_block` overwrites the relocated block before `assign` refuses the slot. |
| `engine_packing` | `build_level(records, level_id)` leaves a partial block inside a level; `build_level_pgm` accepts it; `lookup_level` then looks for ranks in the wrong block and reports a false MISS. |
| `merge_retry` | When the sink raises, the caller's retry appends the same record to the pending block each time, without bound. |
| `workload_empty` | An empty initial level is in the oracle's searched levels and not in the engine's: correct queries count as mismatches. |

The passing runs exclude the client of the finding (`RelocateAhead = FALSE`
where `BlocksIntact` is checked, no "append" where `LookupExact` is checked,
`AllowEmpty = FALSE`, and a sink that does not raise where `PendingBounded` is
checked). `NoOrphanSlot` is checked without exceptions inside `create_block`,
one of which leaves an orphan by itself, as `_discard_partial_output`'s comment
says, and `LevelsDisjoint` without a client that shares blocks between levels.

### Fairness

The program is sequential, so a call that has started runs on to its end; no
more than that is assumed of it. `OracleFair` (`OracleAnswers`) is weak
fairness of the oracle's one call, which includes that it calls `advance` until
DONE, as its loop does. `ScheduleFair` (`ScheduleEnds`) is weak fairness of the
planning call and of the caller's two requests.

## 4. Theorems

Proved for all keys, values, batches, capacities, bounds and clients; for all
runs, block sizes and budgets; for all loads, noises and verdicts; and for all
experiments, epsilons and placements, from the named assumptions on constants
(`KeysAssumption`, `CapacityAssumption`, `EngineAssumption`, `RunsAssumption`,
`ItemsAssumption`, `BoundsAssumption`, `CountsAssumption`, `UppersAssumption`,
`DecayAssumption`, `NoiseAssumption`, `UniverseAssumption`,
`EpsilonAssumption`, `ProfileAssumption`, `QueryAssumption`,
`ExperimentAssumption`, `WorkloadAssumption`, `SchedulesAssumption`), which TLC
evaluates in the runs of the modules that declare them.

| Theorem | Says | Further assumption |
|---|---|---|
| `LETEngineProofs!TypesAlwaysHold` | `TypeOK` | |
| `MappingAlwaysBijective` | `MappingBijective` | none: any client |
| `IdsNeverReused` | `IdsFresh` | none |
| `MergesFailCleanly` | `MergeFailsCleanly`, an action property | none |
| `BlocksAlwaysIntact`, `BlocksNeverChange` | `BlocksIntact`, `BlocksImmutable` | `~RelocateAhead` |
| `NoSlotIsOrphaned` | `NoOrphanSlot` | `"inside" \notin Faults` |
| `LevelsAlwaysDisjoint` | `LevelsDisjoint` | `"share" \notin Calls` |
| `IndexAlwaysCurrent` | `PgmCurrent` | both `~RelocateAhead` and `"share" \notin Calls` |
| `LevelsAlwaysCanonical` | `LevelsCanonical` | `CanonicalClient` |
| `LookupIsExact` | `LookupExact` | `CanonicalClient` |
| `EngineImplementsLevelStore` | `ImplementsLevelStore` | `CanonicalClient` |
| `VerificationAlwaysPasses` | `VerificationPasses`; the verification's check of the mapping is `MappingAlwaysBijective`, and levels whose build raised are set aside | `RunnerClient` |
| `StackIsOneMap` | `ImplementsKVMap` | `RunnerClient` |
| `QueriesAgree` | `NoMismatch` | `RunnerClient`, `~AllowEmpty` |
| `IncrementalMergeProofs!TypesAlwaysHold` | `TypeOK` | |
| `StreamAlwaysIncreasing`, `DoneAlwaysComplete` | `StreamIncreasing`, `DoneIsComplete` | none: any sink |
| `MergeImplementsRun` | `ImplementsMergedRun` | none: any sink |
| `PendingAlwaysBounded` | `PendingBounded` | `~SinkRaises` |
| `BlocksAlwaysCanonical` | `NothingLost`, `BlocksCanonical`, `PayloadIsDelivery` | `~SinkRaises` |
| `ResultAlwaysTruthful` | `ResultTruthful` | `~SinkRaises` |
| `AnswerAlwaysCanonical`, `SelfCheckAlwaysPasses` | `AnswerIsCanonical`, `SelfCheckPasses` | `~SinkRaises` |
| `OracleTypesHold`, `OraclePendingBounded` | `TypeOK`, `PendingBounded` inside the oracle | `~SinkRaises` |
| `PlannerHolds` | the planner's inductive invariant | |
| `CapacityCloseHolds`, `PrefixMonotoneHolds`, `PrefixInWindowHolds`, `PlanCoversHolds` | the planner's properties of the same names | any noise, any verdict |
| `EnoughSlotsHold` | two slots for every block of the run | |
| `DyadicSumsHold` | `DyadicSums` | any loads, any number of bins |
| `MatchesPinnedLoopHolds`, `EveryBinOnceHolds` | the schedule's properties of the same names | any runs, any points |
| `ReadsBeforeArrival` | `ReadBeforeArrival`, an action property | any runs, any points |
| `MergePlansHold` | the planner's properties, `DyadicSums` among them, inside a merge | |
| `PgmTypeCorrect` | `PgmTypeOK`: no line of the model is ever vertical | |
| `CertificatesInBand`, `SegmentsAreMaximal`, `WindowsHoldLowerBound` | `CertificateInBand`, `SegmentsMaximal`, `WindowHoldsLowerBound` of `PgmSpec` | any keys, any epsilon |
| `SegmentsDivideTheRun` | `SegmentsTile` of `PgmSpec` | any keys, any epsilon |
| `IndexesAreCertified` | the same four in every state of `RefSpec` | |
| `ReadBeforeUseHolds` | `ReadBeforeUse` | |
| `LookupIsLowerBoundHolds`, `AnswerIsNewestHolds` | `LookupIsLowerBound`, `AnswerIsNewest` | any epsilon, any placement |
| `SlotsDisjointHolds` | `SlotsDisjoint` | any levels, any placement |
| `ReadsStayInRegion` | `ReadsOwnRegion`, an action property | any levels, any placement |

Each further assumption is needed: `engine_overwrite` violates `BlocksIntact`
without the first, an exception between write and assignment leaves an orphan
by itself, one block in two levels contradicts `LevelsDisjoint` as stated, and
`merge_retry` violates `PendingBounded` when a sink raises. `CanonicalClient`
says that no level is filled by hand (no append, no attachment, no sharing) and
no block is relocated ahead of the allocator: `engine_packing` is what happens
otherwise. `RunnerClient` says that the runner is the engine's only caller, and
that beside builds and merges it asks for indexes only. `~AllowEmpty` is what
`workload_empty` violates. The oracle of the merge hands its job no sink, so
that `~SinkRaises` is how the code calls it.

**The argument for the engine.** Every action of `Next` changes the store in
one of six ways (`StoreEffect`), the registry of levels in one of four
(`LevelEffect`), and the indexes accordingly (`IndexEffect`). Each invariant is
then preserved by each *way*, not by each action. The inductive invariants are:
`MappingInv` (types and the bijection); `IntactInv`, which adds that mapped and
occupied slots lie below the allocator's counter (that is what relocation ahead
of it breaks); `Registered`, which says that the levels a call in progress
works on are still there; and for the indexes the conjunction of these with
disjointness, because an index stays right when other levels are retired only
if they share no block with its own.

`MergesFailCleanly` needs no condition on the client. `CleanMergeInv` adds to
`MappingInv` and `Registered` that the blocks of a merge's output, which the
merge has created itself, are mapped and in neither input (`MergeApart`), and
that they are in their slots (`Housed`). A step of the merge, or of an
exception in it, is one of three: a block goes to the output (`MergeGrown`),
the levels stay and at most a block outside them is created (`MergeKept`), or
the output is discarded (`MergeDropped`); the client takes no step until it is
over.

`PackedInv` adds that the call in progress has packed a prefix of what it was
given: the level under way holds the keys of the batch below a rank, in blocks
of `Capacity`, and the full level is then canonical by counting ranks
(`IntegerSets`). `LevelsAlwaysCanonical` follows, and from it `LookupIsExact`:
in a canonical level the rank of a key determines its block and its place, so
that a window that holds the lower bound holds the answer. For the refinement
of `LevelStore`, a level under construction is hidden until its call returns;
every step is then a publication, a replacement of two levels by their merge, a
retirement, a failure, or a stutter (`StepShown`).

**The argument for the workload.** `RunnerInv` says what the runner holds of
the engine in the middle of a call too: the engine's levels are those of the
stack, less the inputs a merge has retired already (`Gone`), with the level
that is being filled (`Coming`) and those a failed build left behind
(`orphans`); each of them holds the map the oracle has for it; the indexed ones
are the declared ones. The merge's map is the overlay of two neighbours of the
stack (`MergedPair`), so that replacing them changes no query (`ReadsMerged`),
and putting a batch on top overlays it (`ReadsGrown`); with that every step is
a write, a query or a stutter of `KVMap`. A query that the engine answers from
the level before the oracle's would have to skip an empty level, which without
empty batches does not exist (`AgreeInv`).

**The argument for the merge.** `Split` says that what is behind the two
cursors is smaller than what is ahead of them, across the runs too; `Taken` are
the merge's records behind the cursors. `StreamStands` says that the stream is
`Taken`, or, when a sink has raised, `Taken` with the record still ahead, which
the PGM will refuse for ever. From `Split`, the next record is the least one
not taken, so each accepted decision is the abstract `Emit`; a refused one and
the end of a call stutter; and at two exhausted cursors nothing is missing, so
DONE is `Finish`.

`BlockInv` adds the blocks, for a sink that does not raise: then a record is
never refused, so that the cursors' positions sum to the stream's length and
the duplicates, and the `n`-th block holds the records of the stream that
follow its first `Placed(n)`. A decision that keeps its record extends the
pending part of that picture; a flush turns the pending part into a block of
the next rank; the last block is the only one that may be short, and only once
`done` is set. At the end the counters follow by arithmetic from `Placed`.

**The argument for the oracle.** The job's invariants do not depend on the
budgets, so they hold under any schedule (`AnyStep`). A finished job's blocks
cut the stream at multiples of the block size, so that concatenating them gives
the stream back and counting them its length (`FlattenIsStream`,
`ItemsAreStream`: two recursive functions, each compared with its closed form
at the least argument where they would differ): that is all the self-check
asks. The stream itself is determined: its keys are the merge's, in order,
hence the one at `n` is the key of rank `n - 1` (`StreamIsCanonical`). Under
the default policy the budget is at least what is ahead of the cursors when the
one call starts, and each decision takes one from both (`DefaultOnce`).

**The argument for the planner.** `Planner` has one part per stage. `Search`
relates the bounds to the last probe: it is the upper bound, or it failed and
lies one step below the lower one; the loop's exit condition then gives
`CapacityClose`.
`Summed` says that the running totals are sums of accepted loads, each at most
the capacity, so that consecutive true prefixes differ by at most one capacity;
with that, clipping a monotone estimate into the window keeps the order, which
is the whole of `Windowed`: the noise and the dyadic sums are irrelevant to it.
`Filled` relates the ranks consumed with the total of the loads used, from
which accepted loads cover the run.

`DyadicSums` is inductive beside `Planner`. The levels that entry `t` reads are
the bits of `t`; from `t - 1` to `t` the bits below the lowest one of `t` are
cleared and that one is set (`Carry`), and just so the code empties the levels
below `index` into it, with the new load. The sum over the bits is therefore
the running total again (`AddPrefixSums`). No level of an entry is missing,
because the highest bit of a bin's number is below `Levels` (`BitFits`).

**The argument for the schedule.** `Fed` says that a side, until it runs out of
bins, has read one more than points of it have arrived. `Ahead` says that the
pinned loop has done all that the schedule has, and that what it has fetched
besides are target bins, fetched for a source that was exhausted, which the
target's own arrivals will ask for. Hence the schedule is a prefix, and when
all tags have arrived both are complete. The points, their order and their ties
play no part in that proof.

They do in `ReadBeforeArrival`. `Drawn` says that every point is the key of a
record of its own bin, or the sentinel behind all keys, and that bins and keys
are in order; `Turns`, that all points are drawn before the scan. So a bin with
a real block never arrives after a later bin of its side (`PointsInOrder`), and
when bin `k` arrives, those before it have arrived or are empty. With `Fed`,
what has been read is at least `k` less the empty ones (`ArriveInTime`).

**The argument for the PGM.** Every point of a segment has a band, from a low
to a high point, and a line is feasible if it passes them all. The code does
not keep the bands: it keeps four corners and two hulls, and drops nodes of
both. `Region` says what the rest stands for. Its `Corners` are two lines, the
flattest and the steepest: no pair of a high point and a later low one forces a
steeper slope than the flattest, no pair of a low point and a later high one a
flatter slope than the steepest, and the first is no steeper than the second.
Its hulls cover the points they have dropped: a line between the corners that
passes the nodes passes the points. A point inside the region turns each corner
line, if its band demands it, until the line passes the band's end and the node
at which the code stops its walk, and cuts the hulls after their last convex
node; that both facts survive is a matter of comparing cross products, two or
three points at a time. The upper side is the lower one upside down, so that
each lemma is stated once, for a direction `up`.

The certified line is the steepest one, and by what the corners say it passes
every band (`LinePasses`), which is `CertificateInBand` for the active segment;
`Closed` keeps that for the segments that have ended (`Chained`: each fits its
run of keys and begins where the last one ended; with the active segment behind
them, that is `SegmentsTile`). A point outside the region
forces a slope that a corner forbids, by two bands of the segment: with those
two as the witnesses, `Feasible` is false, which is `SegmentsMaximal`.

A key `q` between two ranks of a segment has a prediction within the band of
both, less what rounding the intercept and truncating the quotient take away:
less than 3/2 below the line and at most 1/2 above it (`SegmentNear`). The
lower bound is then between `pos - epsilon` and `pos + epsilon + 2`, unless it
lies behind the segment's last rank; there the cap at the next segment's
intercept, itself within `epsilon` of that segment's first rank, or at the
number of keys, is what keeps the window (`WindowHolds`). A stored key's lower
bound is its rank, which is short of the window's end.

**The argument for the reference index.** `Constructed`, the invariant of the
PGM, holds of the index being built, one level after the other; hence the
windows of the kept levels (`Built`, `Windows`) hold every lower bound.
`Model` is the part of it that types need: the upper point of the steepest line
is newer than every node of the lower hull, so that no slope has a zero
denominator. `Buffers` says
that the current block and the prefetched ones were fetched by this lookup,
which with the ranges of the search gives `ReadBeforeUse` for any placement.
`Bracketed` is the binary search's own invariant, the lower bound between
`first` and `first + left`, and starts from the window. `Missed` says that no
level below the one at hand has the key.

`SlotsDisjoint` is about the regions: `Start` of a level is the sum of the
blocks of the scanned levels below it, so that a region ends where the next
begins and the last one ends at the total (`StartNext`, `RegionInside`).
`Loaded` says that the writes so far cover the regions below the level at hand
and that their lengths add up to as many slots, so that none is written twice;
the blocks a lookup reads are its level's own (`ReadsOwnRegion`, since the
prefetch stops at either end of the level), hence inside the whole.

### What is model-checked and not proved

- Liveness (`OracleAnswers`, `ScheduleEnds`), which needs ENABLED.

Every invariant and every safety property of a step that a passing run checks
is also proved.

## 5. What is left out

- Python's type checks and error messages: a call that is rejected before it
  changes anything is a call that is not enabled. Rejections that come after a
  change are modelled.
- The access trace, an append-only log that nothing reads back. The operations
  the reference index observes are in `RefIndex`.
- `Level.remove_block` and `UntrustedStorage.write` to arbitrary slots, which
  no code of the engine calls.
- The convolution behind a verdict of the tail test, the weights of the
  geometric sampler and of the interior point's exponential mechanism, and the
  Laplace distribution: floating point, abstracted to every choice it may make.
- In `letindex_ref`: `validate_reference_transcript`, the artifact's
  serialization and the command line, which recompute or print a finished run.
- The engine's own block-by-block scan in `lookup_level`: `LookupExact` states
  what it computes; its reads are not steps.
- Script generation, JSON export, leakage statistics, the reference adversary,
  workload generators and truth, and the manifest check: functions of finished
  runs, pure I/O, or floating-point statistics.
- In `IncrementalMerge`, the geometry of the PGM's segments: the builder is
  the stream it has consumed and its refusal of a key out of order. `Pgm` has
  the geometry.
- A sink that calls back into the job.

## 6. Plan

Done: the engine, its merge and its workload with their refinements, checked
and proved; the incremental merge with its refinement and its blocks, and the
functional oracle, checked and proved; the bin planner and the schedule,
checked and proved; the PGM with its certificates, its maximal segments and its
windows, and the reference index on top of it, checked and proved.

Left, in order of worth:

1. `validate_reference_transcript` against the transcripts of `RefIndex`: it
   accepts exactly what the builder makes.
2. `lookup_level` and `lookup_levels` of the engine step by step with the
   trace, composed with `Pgm` so that `LookupExact` speaks of real windows.
