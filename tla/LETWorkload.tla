---------------------------- MODULE LETWorkload -----------------------------
(***************************************************************************)
(* The baseline workload runner (workload.py) over the engine: it keeps    *)
(* its own newest-first stack of levels in a logical oracle, drives the    *)
(* engine through builds, upserts, index builds, adjacent merges and       *)
(* multi-level queries, and verifies the engine against the oracle after   *)
(* every call.  Variants, as in LETEngine, are plausible mistakes and no    *)
(* part of the specification.                                               *)
(***************************************************************************)
EXTENDS LETEngine, SequencesExt

CONSTANTS
  NoAnswer,       \* no query outcome
  AllowEmpty      \* may build_initial be given no records?

ASSUME WorkloadAssumption == AllowEmpty \in BOOLEAN

VARIABLES
  refs,        \* _refs: the workload's level refs L0, L1, ... -> level id
  order,       \* LogicalOracle._levels, index 1 = newest: [ref, map]
  oldRefs,     \* LogicalOracle._retired
  queryable,   \* _queryable
  pending,     \* the engine call the runner is waiting for
  outcome,     \* the last QueryOutcome
  mismatches,  \* query_mismatches + merge_mismatches
  orphans      \* no field of the code: the levels whose build raised

runner == <<refs, order, oldRefs, queryable, pending, outcome, mismatches, orphans>>
allVars == <<vars, runner>>

NoCall == [op |-> "none"]

WInit ==
  /\ Init
  /\ refs = <<>> /\ order = <<>> /\ oldRefs = {} /\ queryable = {}
  /\ pending = NoCall /\ outcome = NoAnswer /\ mismatches = 0 /\ orphans = {}

-----------------------------------------------------------------------------
(* The logical oracle. *)

Live == {order[i].ref : i \in DOMAIN order}
LevelAt(i) == refs[order[i].ref]
Position(l) == CHOOSE i \in DOMAIN order : LevelAt(i) = l

\* Variant: the oldest level that has the key.
OracleHitOldest(k) ==
  {i \in DOMAIN order :
     k \in DOMAIN order[i].map /\ \A j \in i + 1..Len(order) : k \notin DOMAIN order[j].map}

\* query: the newest level that has the key.
OracleHit(k) ==
  {i \in DOMAIN order :
     k \in DOMAIN order[i].map /\ \A j \in 1..i - 1 : k \notin DOMAIN order[j].map}

OracleValues(k) == {order[i].map[k] : i \in OracleHit(k)}

\* searched_refs, a list in the order of the levels and so a set of positions:
\* every level down to the hit, empty ones included.
OracleSearched(k) == {i \in DOMAIN order : \A j \in OracleHit(k) : i <= j}

-----------------------------------------------------------------------------
(* lookup_levels over the plan the runner makes of the oracle's order. *)

Occupied(i) == levels[LevelAt(i)] # <<>>

\* lookup_level finds k in the i-th level of the plan for some window its
\* index may predict; and it misses it for some window.
MayHit(i, k) == \E w \in Windows(pgm[LevelAt(i)], k) : k \in Candidates(LevelAt(i), w)
MayMiss(i, k) == \E w \in Windows(pgm[LevelAt(i)], k) : k \notin Candidates(LevelAt(i), w)

\* The levels down to the first hit are searched, empty levels are skipped;
\* last is 0 when no level hits.
LookupLevels(k, last) ==
  IF last = 0 THEN \A i \in DOMAIN order : Occupied(i) => MayMiss(i, k)
  ELSE /\ Occupied(last) /\ MayHit(last, k)
       /\ \A i \in 1..last - 1 : Occupied(i) => MayMiss(i, k)

EngineSearched(last) == {i \in DOMAIN order : (last = 0 \/ i <= last) /\ Occupied(i)}

EngineValues(k, last) == IF last = 0 THEN {} ELSE {Contents(LevelAt(last))[k]}

-----------------------------------------------------------------------------
(* Calls of the runner. *)

Free == job = Idle /\ pending = NoCall
Waiting(op) == job = Idle /\ pending.op = op
Call(c) == pending' = c /\ outcome' = NoAnswer

\* _do_build_initial and _do_upsert (which refuses an empty batch).
Build(d) ==
  /\ Free /\ (AllowEmpty \/ d # EmptyDict)
  /\ StartBuild(d)
  /\ Call([op |-> "build", level |-> nextLevel, map |-> d, done |-> FALSE])
  /\ UNCHANGED <<refs, order, oldRefs, queryable, mismatches, orphans>>

\* Variant: new levels go below the others.
AddOldest(l) == order' = Append(order, l)

\* add_newest
AddNewest(l) == order' = <<l>> \o order

\* _bind_new_level
Bind(l) == refs' = Append(refs, l)

ReturnBuild ==
  /\ Waiting("build") /\ pending.done
  /\ Bind(pending.level)
  /\ AddNewest([ref |-> Len(refs) + 1, map |-> pending.map])
  /\ pending' = NoCall
  /\ UNCHANGED <<vars, oldRefs, queryable, outcome, mismatches, orphans>>

\* Variant: the runner does not remember the index.
ForgetIndex(l) == UNCHANGED queryable

Declare(l) == queryable' = queryable \cup {l}

BuildPgm(l) ==
  /\ Free /\ l \in Range(refs)
  /\ BuildLevelPgm(l)
  /\ Declare(l)
  /\ outcome' = NoAnswer
  /\ UNCHANGED <<refs, order, oldRefs, pending, mismatches, orphans>>

\* _do_merge: both inputs tracked and live, the older one immediately below
\* the newer one in the oracle's order; the expected union comes from the
\* oracle, not from the engine.
Adjacent(newer, older) ==
  \E i \in 1..Len(order) - 1 : LevelAt(i) = newer /\ LevelAt(i + 1) = older

\* What the oracle holds says what the merge must produce.
ExpectedUnion(newer, older) ==
  Overlay(order[Position(newer)].map, order[Position(older)].map)

\* Records of the two inputs and of the output, and keys that both inputs have:
\* MergeResult of the engine's contents, and what is expected of the oracle's.
MergeCounts(newer, older) ==
  [newer |-> Size(newer), older |-> Size(older), output |-> Size(Overlay(newer, older)),
   discarded |-> Cardinality(DOMAIN newer \cap DOMAIN older)]

Merge(newer, older) ==
  /\ Free
  /\ Adjacent(newer, older)
  /\ StartMerge(newer, older)
  /\ Call([op |-> "merge", level |-> nextLevel, newer |-> newer, older |-> older,
           map |-> ExpectedUnion(newer, older),
           counts |-> MergeCounts(Contents(newer), Contents(older)),
           expected |-> MergeCounts(order[Position(newer)].map, order[Position(older)].map),
           done |-> FALSE])
  /\ UNCHANGED <<refs, order, oldRefs, queryable, mismatches, orphans>>

Replaced(n) == {order[n].ref, order[n + 1].ref}

\* _finish_merge: the output is read and compared, the counts too, and the
\* oracle is committed from its own expectation.
ReturnMerge ==
  /\ Waiting("merge") /\ pending.done
  /\ Bind(pending.level)
  /\ LET i == Position(pending.newer)
     IN  /\ order' = ReplaceAt(RemoveAt(order, i + 1), i,
                               [ref |-> Len(refs) + 1, map |-> pending.map])
         /\ oldRefs' = oldRefs \cup Replaced(i)
  /\ Declare(pending.level)
  /\ LET agree == /\ Contents(pending.level) = pending.map
                  /\ pending.counts = pending.expected
     IN  mismatches' = mismatches + (IF agree THEN 0 ELSE 1)
  /\ pending' = NoCall
  /\ UNCHANGED <<vars, outcome, orphans>>

\* _do_query: every non-empty level must have been declared queryable.
Query(k) ==
  /\ Free
  /\ \A i \in DOMAIN order : Occupied(i) => LevelAt(i) \in queryable
  /\ \A i \in DOMAIN order : Occupied(i) => LevelAt(i) \in DOMAIN pgm
  /\ \E last \in 0..Len(order) :
       /\ LookupLevels(k, last)
       /\ LET agree == /\ EngineValues(k, last) = OracleValues(k)
                       /\ EngineSearched(last) = OracleSearched(k)
          IN  mismatches' = mismatches + (IF agree THEN 0 ELSE 1)
       /\ outcome' = [key |-> k, values |-> EngineValues(k, last)]
  /\ UNCHANGED <<vars, refs, order, oldRefs, queryable, pending, orphans>>

\* The engine at work on the pending call; an exception it raises goes
\* through the runner, which forgets the call.
EngineStep ==
  /\ Run
  /\ \/ job' # Idle /\ UNCHANGED <<pending, orphans>>
     \/ (FinishBuild \/ RetireOlder) /\ pending' = [pending EXCEPT !.done = TRUE] /\ UNCHANGED orphans
     \/ AbortBuild /\ pending' = NoCall /\ orphans' = orphans \cup {job.out}
     \/ DiscardOutput /\ pending' = NoCall /\ UNCHANGED orphans
  /\ UNCHANGED <<refs, order, oldRefs, queryable, outcome, mismatches>>

WNext ==
  \/ \E d \in Batches : Build(d)
  \/ ReturnBuild
  \/ \E l \in DOMAIN levels : BuildPgm(l)
  \/ \E newer, older \in DOMAIN levels : Merge(newer, older)
  \/ ReturnMerge
  \/ \E k \in Keys : Query(k)
  \/ EngineStep

WSpec == WInit /\ [][WNext]_allVars

-----------------------------------------------------------------------------
(* Properties. *)

\* _verify_state between two calls: the active levels are those of the oracle
\* and, unexpected, those whose build raised; retired ones are gone, every live
\* level is canonical and holds the oracle's records, whatever merges and failed
\* calls came before, and the levels with an index are exactly those declared
\* queryable.  Its checks of the mapping and of the blocks' ids are the
\* engine's MappingBijective and BlocksIntact.
VerificationPasses ==
  pending = NoCall =>
    /\ {LevelAt(i) : i \in DOMAIN order} = DOMAIN levels \ orphans
    /\ \A r \in oldRefs : refs[r] \in retired
    /\ \A i \in DOMAIN order : LET l == LevelAt(i) IN Packed(l) /\ Increasing(l) /\ order[i].map = Contents(l)
    /\ \A l \in DOMAIN levels : l \in queryable <=> l \in DOMAIN pgm

\* No query and no merge ever disagrees with the oracle in found, value or
\* searched levels (correctness_ok).
NoMismatch == mismatches = 0

\* The levels a query of the user sees, newest first: while a merge retires
\* its inputs its output stands for both.
Plan ==
  LET done == pending.op = "merge" /\ (pending.done \/ job.call \in {"retire_newer", "retire_older"})
  IN  [i \in DOMAIN order |-> IF done /\ LevelAt(i) \in {pending.newer, pending.older}
                              THEN pending.level ELSE LevelAt(i)]

PlanContents == [i \in DOMAIN order |-> Contents(Plan[i])]

\* The newest value of every key in the engine's own blocks.
View ==
  LET keys == UNION {DOMAIN PlanContents[i] : i \in DOMAIN order}
  IN  [k \in keys |->
         PlanContents[CHOOSE i \in DOMAIN order :
           /\ k \in DOMAIN PlanContents[i]
           /\ \A j \in 1..i - 1 : k \notin DOMAIN PlanContents[j]][k]]

Map == INSTANCE KVMap WITH map <- View, answer <- outcome

\* The stack of levels is one last-write-wins map: merges, index builds and
\* failed calls are invisible to queries, and a query answers with the value
\* last written.
ImplementsKVMap == Map!Spec
=============================================================================
