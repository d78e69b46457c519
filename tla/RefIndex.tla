------------------------------ MODULE RefIndex ------------------------------
(***************************************************************************)
(* The reference LETIndex (letindex_ref.py): an experiment declares levels *)
(* of sorted items, the index places the blocks of every level and builds  *)
(* a PGM (Pgm) for the levels that have one, the trace builder loads it,   *)
(* and queries search the levels, block by block, with the prefetch of the *)
(* upstream lookup.                                                        *)
(*                                                                         *)
(* An item is its key: the value is the one stored with it.  A level's     *)
(* permutation is any one.  Every SlotId is a number, as in the code.      *)
(*                                                                         *)
(* A definition marked "Variant" is no part of the specification: it is a  *)
(* plausible mistake in the definition below it, for which some property   *)
(* must fail.                                                              *)
(***************************************************************************)
EXTENDS Pgm

CONSTANTS
  Experiments,    \* [layout, levels]: the declared levels, as sorted keys
  QueryKeys,      \* query_keys
  Base, MinLevel, MinIndexLevel, ItemsPerBlock,
  MaxQueries      \* bound: queries of an experiment

ASSUME ProfileAssumption ==
  /\ Base \in Nat \ {0} /\ ItemsPerBlock \in Nat \ {0}
  /\ MinLevel \in Nat /\ MinIndexLevel \in Nat /\ MaxQueries \in Nat
ASSUME QueryAssumption == QueryKeys \subseteq KeyUniverse
ASSUME ExperimentAssumption ==
  \A e \in Experiments :
    /\ e.layout \in {"ordered", "static_prp"}
    /\ DOMAIN e.levels \subseteq Nat
    /\ \A level \in DOMAIN e.levels :
         /\ e.levels[level] \in Seq(KeyUniverse)
         /\ \A m, n \in 1..Len(e.levels[level]) : m < n => e.levels[level][m] < e.levels[level][n]

VARIABLES
  phase,       \* where the experiment is
  experiment,
  building,    \* the level being built
  levels,      \* the built levels
  operations,  \* the observed operations
  asked,       \* queries so far
  query,       \* the key queried
  at,          \* the level at hand, of the loading and of a query
  window,      \* the interval of the level lookup
  first, left, \* first and n of the binary search
  pos,
  current,     \* current_block
  cache,       \* the blocks of cache_left and cache_right
  fetched,     \* fetched_blocks of this level lookup
  probes,
  events,      \* the READ slots of the query
  answer       \* of the last query

build == <<experiment, building, levels>>
buffers == <<current, cache, fetched, events>>
lookup == <<window, first, left, pos, buffers, probes>>
refVars == <<phase, build, operations, asked, query, at, lookup, answer>>
vars == <<pgmVars, refVars>>

NoLevel == -1
NoBlock == -1
NoAnswer == [found |-> FALSE, level |-> NoLevel]

RefInit ==
  /\ PgmInit
  /\ experiment \in Experiments
  /\ phase = "building" /\ building = NoLevel /\ levels = <<>>
  /\ operations = <<>> /\ asked = 0 /\ query = 0 /\ at = MinLevel
  /\ window = [lo |-> 0, hi |-> 0] /\ first = 0 /\ left = 0 /\ pos = 0
  /\ current = NoBlock /\ cache = {} /\ fetched = <<>> /\ events = <<>>
  /\ probes = <<>> /\ answer = NoAnswer

-----------------------------------------------------------------------------
(* Building. *)

MaxSize(level) == Base^level
BlockCount(items) == (items + ItemsPerBlock - 1) \div ItemsPerBlock
HasIndex(level) == level >= MinIndexLevel

Declared == DOMAIN experiment.levels

Declare(level) ==
  /\ phase = "building" /\ building = NoLevel
  /\ level \in Declared \ DOMAIN levels
  /\ IF level < MinLevel \/ Len(experiment.levels[level]) > MaxSize(level)
     THEN phase' = "refused" /\ UNCHANGED building
     ELSE building' = level /\ UNCHANGED phase
  /\ UNCHANGED <<pgmVars, experiment, levels, operations, asked, query, at, lookup, answer>>

Remaining == Len(experiment.levels[building]) - Len(keys)

\* An indexed level's keys go through the PGM builder.
Feed ==
  /\ phase = "building" /\ building # NoLevel /\ HasIndex(building) /\ Remaining > 0
  /\ AddKey(experiment.levels[building][Len(keys) + 1])
  /\ UNCHANGED refVars

Placements(blocks) ==
  IF experiment.layout = "ordered"
  THEN {[b \in 0..(blocks - 1) |-> b]}
  ELSE {p \in [0..(blocks - 1) -> 0..(blocks - 1)] :
          \A b, c \in 0..(blocks - 1) : p[b] = p[c] => b = c}

\* The level is kept with its index, or with the index of no key if it has
\* none; the next level has a model of its own.
Finish ==
  /\ phase = "building" /\ building # NoLevel
  /\ HasIndex(building) => Remaining = 0
  /\ LET items == experiment.levels[building]
     IN  \E placement \in Placements(BlockCount(Len(items))) :
           levels' = [level \in DOMAIN levels \cup {building} |->
                        IF level = building
                        THEN [keys |-> items, pgm |-> BatchIndex, placement |-> placement]
                        ELSE levels[level]]
  /\ building' = NoLevel
  /\ keys' = <<>> /\ segments' = <<>> /\ startRank' = 0
  /\ upper' = <<>> /\ lower' = <<>> /\ upperStart' = 1 /\ lowerStart' = 1
  /\ rectangle' = <<Origin, Origin, Origin, Origin>> /\ pointsInHull' = 0
  /\ UNCHANGED <<epsilon, phase, experiment, operations, asked, query, at, lookup, answer>>

Items(level) == Len(levels[level].keys)
NonEmpty == {level \in DOMAIN levels : Items(level) > 0}
Stocked(level) == level \in DOMAIN levels /\ Items(level) > 0
HasPgm(level) == HasIndex(level) /\ Items(level) > 0

\* Variant: used_levels is the number of levels that are not empty.
CountedLevels == MinLevel + Cardinality(NonEmpty)

UsedLevels == IF NonEmpty = {} THEN MinLevel ELSE Max(NonEmpty) + 1

\* The regions of the scanned levels follow each other.
Scanned == {level \in DOMAIN levels : level < UsedLevels}
Blocks(level) == BlockCount(Items(level))

\* Variant: a region starts after the one of the level just below only.
LowerRegion(level) ==
  MapThenSumSet(Blocks, {other \in Scanned : other = level - 1})

RegionStart(level) == MapThenSumSet(Blocks, {other \in Scanned : other < level})
Slot(level, block) == RegionStart(level) + block

EndBuild ==
  /\ phase = "building" /\ building = NoLevel /\ DOMAIN levels = Declared
  /\ phase' = "loading"
  /\ UNCHANGED <<pgmVars, build, operations, asked, query, at, lookup, answer>>

-----------------------------------------------------------------------------
(* Loading: one write for every physical block, level by level. *)

Operation(class, slots) == [class |-> class, slots |-> slots]

LoadOperations(level) ==
  <<Operation("BUILD_INITIAL", [b \in 1..Blocks(level) |-> Slot(level, b - 1)])>>
  \o (IF HasPgm(level) THEN <<Operation("BUILD_PGM", <<>>)>> ELSE <<>>)

Load ==
  /\ phase = "loading"
  /\ IF Stocked(at)
     THEN operations' = operations \o LoadOperations(at)
     ELSE UNCHANGED operations
  /\ IF at >= UsedLevels
     THEN phase' = "idle" /\ UNCHANGED at
     ELSE at' = at + 1 /\ UNCHANGED phase
  /\ UNCHANGED <<pgmVars, build, asked, query, lookup, answer>>

-----------------------------------------------------------------------------
(* Queries: the levels in ascending order, until one has the key. *)

Ask(q) ==
  /\ phase = "idle" /\ asked < MaxQueries
  /\ phase' = "scanning" /\ asked' = asked + 1 /\ query' = q
  /\ at' = MinLevel /\ events' = <<>>
  /\ UNCHANGED <<pgmVars, build, operations, window, first, left, pos, current, cache, fetched,
                 probes, answer>>

NextLevel == at + 1

Skip ==
  /\ phase = "scanning" /\ at < UsedLevels
  /\ ~Stocked(at)
  /\ at' = NextLevel
  /\ UNCHANGED <<pgmVars, phase, build, operations, asked, query, lookup, answer>>

Answered(result) ==
  /\ phase' = "idle" /\ answer' = result
  /\ operations' = Append(operations, Operation("QUERY", events))

Miss ==
  /\ phase = "scanning" /\ at >= UsedLevels
  /\ Answered(NoAnswer)
  /\ UNCHANGED <<pgmVars, build, asked, query, at, lookup>>

Interval(level) ==
  IF HasPgm(level) THEN Window(levels[level].pgm, query)
  ELSE [lo |-> 0, hi |-> Items(level)]

\* Variant: the prefetched blocks stay in the cache from lookup to lookup.
KeptCache == cache

EmptyCache == {}

\* A level lookup has buffers of its own; an empty interval is its answer.
Enter ==
  /\ phase = "scanning" /\ at < UsedLevels /\ Stocked(at)
  /\ LET w == Interval(at)
     IN  /\ window' = w /\ first' = w.lo /\ left' = w.hi - w.lo /\ pos' = w.lo
         /\ phase' = IF w.lo = w.hi THEN "outcome" ELSE "probing"
  /\ current' = NoBlock /\ cache' = EmptyCache /\ fetched' = <<>> /\ probes' = <<>>
  /\ UNCHANGED <<pgmVars, build, operations, asked, query, at, events, answer>>

KeyAt(p) == levels[at].keys[p + 1]
LogicalBlock(p) == p \div ItemsPerBlock
Physical(p) == levels[at].placement[LogicalBlock(p)]

Read(blocks) ==
  /\ fetched' = fetched \o blocks
  /\ events' = events \o [n \in 1..Len(blocks) |-> Slot(at, blocks[n])]

\* _obtain_or_cache; without a cache it is _obtain_plain.  A block served from
\* the cache does not become the current one.
Obtain(p) ==
  /\ IF Physical(p) = current \/ Physical(p) \in cache
     THEN UNCHANGED <<current, fetched, events>>
     ELSE Read(<<Physical(p)>>) /\ current' = Physical(p)
  /\ UNCHANGED cache

\* Variant: a neighbour outside the level's region is fetched as well.
NeighboursUnclipped(p) ==
  LET mid == Physical(p)
  IN  (IF LogicalBlock(window.lo) < LogicalBlock(p) THEN {mid - 1} ELSE {})
      \cup (IF LogicalBlock(window.hi) > LogicalBlock(p) THEN {mid + 1} ELSE {})

Neighbours(p) ==
  LET mid  == Physical(p)
      side == (IF LogicalBlock(window.lo) < LogicalBlock(p) THEN {mid - 1} ELSE {})
              \cup (IF LogicalBlock(window.hi) > LogicalBlock(p) THEN {mid + 1} ELSE {})
  IN  side \cap 0..(Blocks(at) - 1)

\* The middle block and its neighbours, in the order of the slots.
RunAround(p) ==
  LET run == Neighbours(p) \cup {Physical(p)}
  IN  [n \in 1..Cardinality(run) |-> Min(run) + n - 1]

\* _obtain_and_save: one run of physically adjacent blocks.
ObtainAndSave(p) ==
  /\ Read(RunAround(p))
  /\ current' = Physical(p) /\ cache' = Neighbours(p)

Probe == first + left \div 2

\* Variant: the upper half starts where the whole did.
StuckStart == first

HalfStart == Probe

HalfLeft == left - left \div 2

Halve ==
  /\ probes' = Append(probes, Probe)
  /\ first' = IF KeyAt(Probe) < query THEN HalfStart ELSE first
  /\ left' = HalfLeft

\* One turn of the search.  The first probe of a PGM-bounded one prefetches.
ProbeMiddle ==
  /\ phase = "probing" /\ left > 1
  /\ Halve
  /\ IF HasPgm(at) /\ probes = <<>> THEN ObtainAndSave(Probe) ELSE Obtain(Probe)
  /\ UNCHANGED <<pgmVars, phase, build, operations, asked, query, at, window, pos, answer>>

Step == first + (IF KeyAt(first) < query THEN 1 ELSE 0)

Compare ==
  /\ phase = "probing" /\ left = 1
  /\ probes' = Append(probes, first)
  /\ Obtain(first)
  /\ pos' = Step
  /\ phase' = IF Step = Items(at) THEN "outcome" ELSE "touching"
  /\ UNCHANGED <<pgmVars, build, operations, asked, query, at, window, first, left, answer>>

\* The item at the lower bound is read, if there is one.
Touch ==
  /\ phase = "touching"
  /\ Obtain(pos)
  /\ phase' = "outcome"
  /\ UNCHANGED <<pgmVars, build, operations, asked, query, at, window, first, left, pos, probes, answer>>

Found == pos # Items(at) /\ KeyAt(pos) = query

Outcome ==
  /\ phase = "outcome"
  /\ IF Found
     THEN Answered([found |-> TRUE, level |-> at]) /\ UNCHANGED at
     ELSE phase' = "scanning" /\ at' = NextLevel /\ UNCHANGED <<operations, answer>>
  /\ UNCHANGED <<pgmVars, build, asked, query, lookup>>

-----------------------------------------------------------------------------
Build == (\E level \in Declared : Declare(level)) \/ Feed \/ Finish \/ EndBuild \/ Load
Lookup == Skip \/ Miss \/ Enter \/ ProbeMiddle \/ Compare \/ Touch \/ Outcome

RefNext == Build \/ (\E q \in QueryKeys : Ask(q)) \/ Lookup
RefSpec == RefInit /\ [][RefNext]_vars

-----------------------------------------------------------------------------
(* Properties. *)

\* Both searches find the position of the first item that is not smaller than
\* the key queried, inside the PGM's window or in the whole level.
LookupIsLowerBound == phase = "outcome" => IsLowerBound(levels[at].keys, query, pos)

FetchedBlocks == {fetched[n] : n \in 1..Len(fetched)}

\* No key is used whose block the same level lookup has not read: what is
\* served from the current block or from a prefetched one was fetched since the
\* lookup began, never in an earlier lookup.
ReadBeforeUse ==
  phase \in {"probing", "touching", "outcome"} =>
    /\ \A n \in 1..Len(probes) : Physical(probes[n]) \in FetchedBlocks
    /\ phase = "outcome" /\ pos # Items(at) => Physical(pos) \in FetchedBlocks

\* The answer is the newest level that has the key, and none only if no level
\* has it.
AnswerIsNewest ==
  phase = "idle" /\ asked > 0 =>
    LET holding == {level \in DOMAIN levels : query \in {levels[level].keys[n] : n \in 1..Items(level)}}
    IN  answer = IF holding = {} THEN NoAnswer ELSE [found |-> TRUE, level |-> Min(holding)]

Writes == {n \in 1..Len(operations) : operations[n].class = "BUILD_INITIAL"}
SlotCount(n) == Len(operations[n].slots)
SlotsOf(n) == {operations[n].slots[m] : m \in 1..SlotCount(n)}

\* The regions of the levels are disjoint and dense: the loading writes every
\* slot once, and a query reads only slots that have been written.
SlotsDisjoint ==
  phase = "idle" =>
    LET total == MapThenSumSet(Blocks, Scanned)
    IN  /\ UNION {SlotsOf(n) : n \in Writes} = 0..(total - 1)
        /\ MapThenSumSet(SlotCount, Writes) = total
        /\ \A n \in 1..Len(events) : events[n] \in 0..(total - 1)

RegionSlots(level) == RegionStart(level)..(RegionStart(level) + Blocks(level) - 1)

\* What a query reads while it is at a level lies in that level's region: the
\* prefetch at either end of a region, and a block that is placed there, never
\* reach over to the level beside it.
ReadsOwnRegion ==
  [][\A n \in (Len(events) + 1)..Len(events') : events'[n] \in RegionSlots(at)]_vars
=============================================================================
