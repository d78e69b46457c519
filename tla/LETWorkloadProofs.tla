------------------------- MODULE LETWorkloadProofs --------------------------
(***************************************************************************)
(* The workload runner over an engine that only builds, indexes and merges *)
(* for it: its verification of the engine passes at every moment, its      *)
(* queries never disagree with the logical oracle, and the stack of levels *)
(* is one last-write-wins map.                                             *)
(***************************************************************************)
EXTENDS LETWorkload, LETEngineProofs, SequenceTheorems

\* The client of the engine is the runner: no level is relocated, retired or
\* filled behind its back.
RunnerClient == Calls \subseteq {"build_pgm"} /\ ~RelocateAhead

-----------------------------------------------------------------------------
(* The inductive invariant: what the runner holds of the engine, at every   *)
(* step of the call it waits for.                                           *)

PendingBuilds == [op : {"build"}, level : Nat, map : Batches, done : BOOLEAN]
Counts == {MergeCounts(newer, older) : newer, older \in Datasets}
PendingMerges == [op : {"merge"}, level : Nat, newer : Nat, older : Nat, map : Datasets,
                  counts : Counts, expected : Counts, done : BOOLEAN]

\* The level the pending call fills.
Coming == IF pending = NoCall THEN {} ELSE {pending.level}

\* The levels the pending merge has retired while the oracle still has them.
Gone ==
  IF pending \notin PendingMerges THEN {}
  ELSE IF pending.done THEN {pending.newer, pending.older}
  ELSE IF job.call = "retire_older" THEN {pending.newer}
  ELSE {}

Bound == {LevelAt(i) : i \in DOMAIN order}

\* A ref stands for one level and a level has at most one ref.
RefsInv ==
  /\ refs \in Seq(Nat)
  /\ \A r, s \in DOMAIN refs : refs[r] = refs[s] => r = s
  /\ \A r \in DOMAIN refs : refs[r] < nextLevel /\ refs[r] \notin Coming \cup orphans

\* The oracle's stack names each of its levels once, and no retired one.
StackInv ==
  /\ order \in Seq([ref : Nat, map : Datasets])
  /\ \A i \in DOMAIN order : order[i].ref \in DOMAIN refs \ oldRefs
  /\ \A i, j \in DOMAIN order : order[i].ref = order[j].ref => i = j

RetiredInv == oldRefs \subseteq DOMAIN refs /\ \A r \in oldRefs : refs[r] \in retired

\* The engine's levels are those of the stack, the one that is being filled
\* and the ones a failed build left behind.
LevelsInv ==
  /\ DOMAIN levels = (Bound \ Gone) \cup Coming \cup orphans
  /\ orphans \subseteq 0..nextLevel - 1 /\ orphans \cap Coming = {}
  /\ Gone \subseteq retired

\* What the engine holds is what the oracle says.
MapsInv == \A i \in DOMAIN order : LevelAt(i) \notin Gone => order[i].map = Contents(LevelAt(i))

\* The levels with an index are the declared ones, up to the pending call.
DeclaredInv ==
  /\ queryable \subseteq 0..nextLevel - 1 /\ queryable \cap Coming = {}
  /\ \A l \in DOMAIN levels \ Coming : l \in queryable <=> l \in DOMAIN pgm

BuildInv ==
  pending \in PendingBuilds =>
    /\ pending.level \notin DOMAIN pgm
    /\ IF pending.done THEN job = Idle /\ Contents(pending.level) = pending.map
       ELSE job \in Builds /\ job.out = pending.level /\ job.data = pending.map

\* The pending merge is of two neighbours of the stack, and makes their union.
MergedPair(i) ==
  /\ LevelAt(i) = pending.newer /\ LevelAt(i + 1) = pending.older
  /\ pending.map = Overlay(order[i].map, order[i + 1].map)
  /\ pending.counts = pending.expected

MergeInv ==
  pending \in PendingMerges =>
    /\ \E i \in 1..Len(order) - 1 : MergedPair(i)
    /\ IF pending.done THEN job = Idle
       ELSE /\ job \in Merges /\ job.out = pending.level /\ job.data = pending.map
            /\ job.newer = pending.newer /\ job.older = pending.older
    /\ pending.done \/ job.call \in {"retire_newer", "retire_older"} =>
         pending.level \in DOMAIN pgm /\ Contents(pending.level) = pending.map

PendingInv ==
  /\ pending \in {NoCall} \cup PendingBuilds \cup PendingMerges
  /\ pending = NoCall => job = Idle
  /\ BuildInv /\ MergeInv

EngineInv == PackedInv /\ PgmCurrent

RunnerInv ==
  /\ EngineInv /\ RefsInv /\ StackInv /\ RetiredInv /\ LevelsInv /\ MapsInv
  /\ DeclaredInv /\ PendingInv

\* No level of the stack is empty, unless the first one is.
NonEmptyInv ==
  /\ \A i \in DOMAIN order : order[i].map # EmptyDict
  /\ pending # NoCall => pending.map # EmptyDict

AgreeInv == mismatches = 0 /\ NonEmptyInv

-----------------------------------------------------------------------------
(* What the parts of the invariant say together. *)

LEMMA RunnerIsCanonical == RunnerClient => CanonicalClient
BY DEF RunnerClient, CanonicalClient

LEMMA EngineFacts ==
  ASSUME EngineInv
  PROVE  /\ Registered /\ AllReadable
         /\ retired \cap DOMAIN levels = {} /\ nextLevel \in Nat
         /\ \A l \in DOMAIN levels : l \in Nat /\ l < nextLevel
         /\ DOMAIN pgm \subseteq DOMAIN levels
<1>1. Registered /\ AllReadable
  BY DisjointReadable DEF EngineInv, PackedInv, DisjointInv
<1> QED
  BY <1>1 DEF Registered, TypeOK, IdsInv, EngineInv, PgmCurrent

LEMMA EngineInvStep ==
  ASSUME RunnerClient, EngineInv, [Next]_vars
  PROVE  EngineInv'
<1>1. "share" \notin Calls /\ ~RelocateAhead
  BY DEF RunnerClient
<1>2. PackedInv'
  BY RunnerIsCanonical, PackedInvStep DEF EngineInv
<1>3. PgmCurrent'
  BY <1>1, CurrentStep DEF EngineInv, PackedInv, CurrentInv
<1> QED
  BY <1>2, <1>3 DEF EngineInv

\* The pending call and the engine's job belong together.
PendingShape ==
  /\ pending = NoCall <=> pending.op = "none"
  /\ pending \in PendingBuilds <=> pending.op = "build"
  /\ pending \in PendingMerges <=> pending.op = "merge"
  /\ pending # NoCall => pending.level \in Nat /\ pending.map \in Datasets
                         /\ pending.done \in BOOLEAN /\ Coming = {pending.level}
  /\ pending = NoCall => Coming = {} /\ Gone = {}
  /\ job \in Builds => pending \in PendingBuilds /\ ~pending.done
  /\ job \in Merges => pending \in PendingMerges /\ ~pending.done

LEMMA PendingFacts == PendingInv => PendingShape
<1> SUFFICES ASSUME PendingInv
             PROVE  PendingShape
  OBVIOUS
<1>1. /\ pending = NoCall => pending.op = "none"
      /\ pending \in PendingBuilds =>
           /\ pending.op = "build" /\ pending.level \in Nat /\ pending.map \in Datasets
           /\ pending.done \in BOOLEAN
      /\ pending \in PendingMerges =>
           /\ pending.op = "merge" /\ pending.level \in Nat /\ pending.map \in Datasets
           /\ pending.done \in BOOLEAN
  BY EngineAssumption DEF NoCall, PendingBuilds, PendingMerges
<1>2. pending \in {NoCall} \cup PendingBuilds \cup PendingMerges
  BY DEF PendingInv
<1>3. /\ job \in Builds => job.call = "build"
      /\ job \in Merges => job.call \in {"merge", "discard", "retire_newer", "retire_older"}
      /\ job = Idle => job \notin Builds /\ job \notin Merges
  BY DEF Builds, Merges, Idle
<1>4. /\ job \in Builds => pending \in PendingBuilds /\ ~pending.done
      /\ job \in Merges => pending \in PendingMerges /\ ~pending.done
  BY <1>1, <1>2, <1>3 DEF PendingInv, BuildInv, MergeInv
<1> QED
  BY <1>1, <1>2, <1>4 DEF Coming, Gone, PendingShape

LEMMA PendingFactsNext == (PendingInv => PendingShape)'
BY PendingFacts, PTL

LEMMA StackFacts ==
  ASSUME RefsInv, StackInv
  PROVE  /\ DOMAIN refs = 1..Len(refs) /\ Len(refs) \in Nat
         /\ DOMAIN order = 1..Len(order) /\ Len(order) \in Nat
         /\ \A r \in DOMAIN refs : refs[r] \in Nat
         /\ \A i \in DOMAIN order : order[i].map \in Datasets /\ order[i].ref \in DOMAIN refs
         /\ \A i \in DOMAIN order : LevelAt(i) \in Nat /\ LevelAt(i) < nextLevel
         /\ \A i, j \in DOMAIN order : LevelAt(i) = LevelAt(j) => i = j
         /\ Bound \cap (Coming \cup orphans) = {}
<1>1. /\ refs \in Seq(Nat) /\ DOMAIN refs = 1..Len(refs) /\ Len(refs) \in Nat
      /\ DOMAIN order = 1..Len(order) /\ Len(order) \in Nat
  BY DEF RefsInv, StackInv
<1>2. \A r \in DOMAIN refs : refs[r] \in Nat
  BY <1>1
<1>3. \A i \in DOMAIN order : order[i] \in [ref : Nat, map : Datasets]
  <2> DEFINE entries == [ref : Nat, map : Datasets]
  <2>1. order \in Seq(entries)
    BY DEF StackInv
  <2> HIDE DEF entries
  <2>2. \A i \in DOMAIN order : order[i] \in entries
    BY <2>1
  <2> QED
    BY <2>2 DEF entries
<1>4. \A i \in DOMAIN order : order[i].map \in Datasets /\ order[i].ref \in DOMAIN refs
  BY <1>3 DEF StackInv
<1> QED
  BY <1>1, <1>2, <1>4 DEF RefsInv, StackInv, LevelAt, Bound

LEMMA StackFactsNext ==
  (RefsInv /\ StackInv => DOMAIN order = 1..Len(order) /\ Len(order) \in Nat)'
<1>1. RefsInv /\ StackInv => DOMAIN order = 1..Len(order) /\ Len(order) \in Nat
  BY StackFacts
<1> QED
  BY <1>1, PTL

\* A step that leaves the runner's own records alone.
LEMMA RecordsKept ==
  ASSUME RefsInv, StackInv, RetiredInv,
         nextLevel \in Nat, nextLevel' \in Nat, nextLevel' >= nextLevel,
         retired \subseteq retired', UNCHANGED <<refs, order, oldRefs>>,
         \A l \in Coming' \cup orphans' : l \in Coming \cup orphans \/ l = nextLevel
  PROVE  /\ RefsInv' /\ StackInv' /\ RetiredInv'
         /\ Bound' = Bound
<1>1. \A r \in DOMAIN refs : refs[r] \in Nat /\ refs[r] < nextLevel'
  BY StackFacts DEF RefsInv
<1>2. RefsInv'
  BY <1>1, StackFacts DEF RefsInv
<1> QED
  BY <1>2 DEF StackInv, RetiredInv, Bound, LevelAt

LEMMA MapsKept ==
  ASSUME RunnerClient, EngineInv, RefsInv, StackInv, LevelsInv, MapsInv, [Next]_vars,
         UNCHANGED <<refs, order>>, Gone \subseteq Gone',
         \A l \in Bound \ Gone' : l \in DOMAIN levels' /\ levels'[l] = levels[l]
  PROVE  MapsInv'
<1> SUFFICES ASSUME NEW i \in DOMAIN order, LevelAt(i) \notin Gone'
             PROVE  order[i].map = Contents(LevelAt(i))'
  BY DEF MapsInv, LevelAt
<1> DEFINE l == LevelAt(i)
<1>1. l' = l /\ l \in Bound \ Gone' /\ l \notin Gone
  BY DEF Bound, LevelAt
<1>2. l \in DOMAIN levels /\ l \in DOMAIN levels' /\ levels'[l] = levels[l]
  BY <1>1 DEF LevelsInv
<1>3. order[i].map = Contents(l)
  BY <1>1 DEF MapsInv
<1> HIDE DEF l
<1>4. Contents(l)' = Contents(l)
  <2>1. \A m : m = l => Contents(m)' = Contents(m)
    BY <1>2, RunnerIsCanonical, KeptLevel DEF EngineInv
  <2> QED
    BY <1>1, <2>1
<1> QED
  BY <1>3, <1>4 DEF l

\* Two ways to change a sequence: a new first element, and one element in the
\* place of two.
LEMMA Prepended ==
  ASSUME NEW S, NEW s \in Seq(S), NEW e \in S, NEW t, t = <<e>> \o s
  PROVE  /\ t \in Seq(S) /\ Len(t) = Len(s) + 1 /\ t[1] = e
         /\ \A j \in 1..Len(s) : t[j + 1] = s[j]
<1>1. <<e>> \in Seq(S) /\ Len(<<e>>) = 1 /\ <<e>>[1] = e
  OBVIOUS
<1>2. /\ t \in Seq(S) /\ Len(t) = 1 + Len(s)
      /\ \A j \in 1..1 + Len(s) : t[j] = IF j <= 1 THEN <<e>>[j] ELSE s[j - 1]
  BY <1>1, ConcatProperties
<1>3. Len(s) \in Nat
  OBVIOUS
<1>4. \A j \in 1..Len(s) : j + 1 \in 1..1 + Len(s) /\ ~(j + 1 <= 1) /\ (j + 1) - 1 = j
  BY <1>3
<1>5. \A j \in 1..Len(s) : t[j + 1] = s[j]
  BY <1>2, <1>4
<1>6. 1 \in 1..1 + Len(s)
  BY <1>3
<1>7. t[1] = e
  BY <1>1, <1>2, <1>6
<1> QED
  BY <1>2, <1>3, <1>5, <1>7

CollapsedTo(S, s, i, e, t) ==
  /\ t \in Seq(S) /\ Len(t) = Len(s) - 1 /\ t[i] = e
  /\ \A j \in 1..i - 1 : t[j] = s[j]
  /\ \A j \in i + 1..Len(s) - 1 : t[j] = s[j + 1]

LEMMA Collapsed ==
  ASSUME NEW S, NEW s \in Seq(S), NEW i \in 1..Len(s) - 1, NEW k \in Nat, k = i + 1, NEW e \in S,
         NEW t, t = ReplaceAt(RemoveAt(s, k), i, e)
  PROVE  CollapsedTo(S, s, i, e, t)
<1> DEFINE n == Len(s)
           head == SubSeq(s, 1, i)
           tail == SubSeq(s, i + 2, n)
           rest == head \o tail
<1>1. n \in Nat /\ i \in Nat /\ i >= 1 /\ i + 1 <= n /\ (i + 1) - 1 = i /\ (i + 1) + 1 = i + 2
  OBVIOUS
<1>2. head \in Seq(S) /\ Len(head) = i /\ \A j \in 1..i : head[j] = s[j]
  BY <1>1, SubSeqProperties
<1>3. tail \in Seq(S) /\ Len(tail) = n - i - 1
      /\ \A j \in 1..n - i - 1 : tail[j] = s[i + 1 + j]
  <2>1. CASE i + 2 <= n
    <3>1. /\ tail \in Seq(S) /\ Len(tail) = n - (i + 2) + 1
          /\ \A j \in 1..n - (i + 2) + 1 : tail[j] = s[(i + 2) + j - 1]
      BY <1>1, <2>1, SubSeqProperties
    <3>2. n - (i + 2) + 1 = n - i - 1 /\ \A j \in 1..n - i - 1 : (i + 2) + j - 1 = i + 1 + j
      BY <1>1
    <3> QED
      BY <3>1, <3>2
  <2>2. CASE ~(i + 2 <= n)
    <3>1. i + 2 > n /\ n - i - 1 = 0
      BY <1>1, <2>2
    <3>2. tail = <<>>
      BY <1>1, <3>1, SubSeqProperties
    <3> QED
      BY <3>1, <3>2
  <2> QED
    BY <2>1, <2>2
<1>4. RemoveAt(s, k) = rest
  BY <1>1 DEF RemoveAt
<1> HIDE DEF head, tail
<1>5. /\ rest \in Seq(S) /\ Len(rest) = i + (n - i - 1)
      /\ \A j \in 1..i + (n - i - 1) : rest[j] = IF j <= i THEN head[j] ELSE tail[j - i]
  <2>1. /\ rest \in Seq(S) /\ Len(rest) = Len(head) + Len(tail)
        /\ \A j \in 1..Len(head) + Len(tail) :
             rest[j] = IF j <= Len(head) THEN head[j] ELSE tail[j - Len(head)]
    BY <1>2, <1>3, ConcatProperties
  <2>2. Len(head) = i /\ Len(tail) = n - i - 1
    BY <1>2, <1>3
  <2> HIDE DEF rest, n
  <2> QED
    BY <2>1, <2>2
<1> HIDE DEF rest
<1>6. Len(rest) = n - 1 /\ DOMAIN rest = 1..n - 1 /\ i \in DOMAIN rest
  BY <1>1, <1>5
<1>7. t = [rest EXCEPT ![i] = e]
  BY <1>4 DEF ReplaceAt
<1>8. t \in Seq(S) /\ Len(t) = n - 1 /\ t[i] = e /\ \A j \in 1..n - 1 : j # i => t[j] = rest[j]
  <2> HIDE DEF n
  <2>1. DOMAIN t = 1..n - 1 /\ t[i] = e /\ \A j \in 1..n - 1 : j # i => t[j] = rest[j]
    BY <1>6, <1>7
  <2>2. rest \in Seq(S)
    BY <1>5
  <2>3. t \in Seq(S) /\ Len(t) = Len(rest)
    BY <2>2, <1>6, <1>7
  <2> QED
    BY <1>6, <2>1, <2>3
<1>9. \A j \in 1..i - 1 : t[j] = s[j]
  <2>1. \A j \in 1..i - 1 : j \in 1..n - 1 /\ j \in 1..i /\ j # i /\ j <= i /\ j \in 1..i + (n - i - 1)
    BY <1>1
  <2> QED
    BY <1>2, <1>5, <1>8, <2>1
<1>10. \A j \in i + 1..n - 1 : t[j] = s[j + 1]
  <2>1. \A j \in i + 1..n - 1 : /\ j \in 1..n - 1 /\ j # i /\ ~(j <= i) /\ j \in 1..i + (n - i - 1)
                                 /\ j - i \in 1..n - i - 1 /\ i + 1 + (j - i) = j + 1
    BY <1>1
  <2> QED
    BY <1>3, <1>5, <1>8, <2>1
<1> QED
  BY <1>8, <1>9, <1>10 DEF CollapsedTo

-----------------------------------------------------------------------------
(* The steps. *)

LEMMA EngineTakesSteps == [WNext]_allVars => [Next]_vars
<1>1. ASSUME NEW d \in Batches, Build(d)
      PROVE  Next
  BY <1>1 DEF Build, Next, Client
<1>2. ReturnBuild \/ ReturnMerge \/ (\E k \in Keys : Query(k)) => UNCHANGED vars
  BY DEF ReturnBuild, ReturnMerge, Query
<1>3. ASSUME NEW l \in DOMAIN levels, BuildPgm(l)
      PROVE  Next
  BY <1>3 DEF BuildPgm, Next, Client
<1>4. ASSUME NEW newer \in DOMAIN levels, NEW older \in DOMAIN levels, Merge(newer, older)
      PROVE  Next
  BY <1>4 DEF Merge, Next, Client
<1>5. EngineStep => Next
  BY DEF EngineStep, Next
<1>6. UNCHANGED allVars => UNCHANGED vars
  BY DEF allVars
<1> QED
  BY <1>1, <1>2, <1>3, <1>4, <1>5, <1>6 DEF WNext

\* What is left alone keeps its records.
LEMMA RecordsOfKept ==
  ASSUME RunnerClient, EngineInv, [Next]_vars,
         NEW l \in DOMAIN levels, l \in DOMAIN levels', levels'[l] = levels[l]
  PROVE  Contents(l)' = Contents(l)
BY RunnerIsCanonical, KeptLevel DEF EngineInv

\* A call that opens a level: a build or a merge.
OpensFor(c) ==
  /\ Free /\ OpenLevel
  /\ pending' = c /\ c.level = nextLevel /\ ~c.done
  /\ UNCHANGED <<refs, order, oldRefs, queryable, mismatches, orphans>>

LEMMA OpenKeeps ==
  ASSUME RunnerClient, RunnerInv, [Next]_vars,
         NEW c \in PendingBuilds \cup PendingMerges, OpensFor(c), PendingInv',
         job'.call # "retire_older"
  PROVE  RunnerInv'
<1>1. EngineInv' /\ RefsInv /\ StackInv /\ RetiredInv /\ LevelsInv /\ MapsInv /\ DeclaredInv
  BY EngineInvStep DEF RunnerInv
<1>2. /\ Registered /\ nextLevel \in Nat /\ nextLevel \notin DOMAIN levels
      /\ retired' = retired /\ pgm' = pgm /\ nextLevel' = nextLevel + 1
      /\ DOMAIN levels' = DOMAIN levels \cup {nextLevel}
      /\ \A l \in DOMAIN levels : levels'[l] = levels[l]
  BY EngineFacts, OpenedPacked DEF RunnerInv, OpensFor, OpenLevel
<1>3. Coming = {} /\ Gone = {}
  BY PendingFacts DEF RunnerInv, OpensFor, Free, PendingShape
<1>4. pending' # NoCall /\ pending'.level = nextLevel
  BY DEF OpensFor, PendingBuilds, PendingMerges, NoCall
<1>5. Coming' = {nextLevel} /\ Gone' = {}
  BY <1>4 DEF Coming, Gone, OpensFor
<1>6. orphans' = orphans
  BY DEF OpensFor
<1>7. RefsInv' /\ StackInv' /\ RetiredInv' /\ Bound' = Bound
  BY <1>1, <1>2, <1>3, <1>5, <1>6, RecordsKept DEF OpensFor
<1>8. LevelsInv'
  <2>1. nextLevel \notin orphans /\ orphans \subseteq 0..nextLevel' - 1
    BY <1>1, <1>2 DEF LevelsInv
  <2> QED
    BY <1>1, <1>2, <1>3, <1>5, <1>6, <1>7, <2>1 DEF LevelsInv
<1>9. MapsInv'
  <2>1. \A l \in Bound \ Gone' : l \in DOMAIN levels' /\ levels'[l] = levels[l]
    BY <1>1, <1>2, <1>3 DEF LevelsInv
  <2> QED
    BY <1>1, <1>3, <2>1, MapsKept DEF RunnerInv, OpensFor
<1>10. DeclaredInv'
  <2>1. queryable' = queryable /\ nextLevel \notin queryable /\ queryable \subseteq 0..nextLevel' - 1
    BY <1>1, <1>2 DEF DeclaredInv, OpensFor
  <2> QED
    BY <1>1, <1>2, <1>3, <1>5, <2>1 DEF DeclaredInv
<1> QED
  BY <1>1, <1>7, <1>8, <1>9, <1>10 DEF RunnerInv

LEMMA BuildKeeps ==
  ASSUME RunnerClient, RunnerInv, NEW d \in Batches, Build(d)
  PROVE  RunnerInv'
<1> DEFINE c == [op |-> "build", level |-> nextLevel, map |-> d, done |-> FALSE]
<1>1. [Next]_vars
  BY EngineTakesSteps DEF WNext
<1>2. /\ Registered /\ nextLevel \in Nat /\ nextLevel \notin DOMAIN levels /\ d \in Datasets
      /\ DOMAIN pgm \subseteq DOMAIN levels
  BY EngineFacts, EngineAssumption DEF RunnerInv, Registered, IdsInv, Build, StartBuild
<1>3. /\ OpenLevel /\ pgm' = pgm /\ job' = Building(nextLevel, d) /\ pending' = c
  BY DEF Build, StartBuild, OpenLevel, Call
<1>4. c \in PendingBuilds /\ c.op = "build" /\ c.level = nextLevel /\ c.map = d /\ c.done = FALSE
  BY <1>2 DEF PendingBuilds
<1>5. job' \in Builds /\ job'.out = nextLevel /\ job'.data = d /\ job'.call = "build"
  BY <1>2, <1>3 DEF Building, Builds
<1> HIDE DEF c
<1>6. PendingInv'
  <2>1. pending' \in PendingBuilds /\ pending' \notin PendingMerges /\ pending' # NoCall
    BY <1>3, <1>4 DEF PendingMerges, NoCall
  <2>2. BuildInv'
    BY <1>2, <1>3, <1>4, <1>5 DEF BuildInv
  <2>3. MergeInv'
    BY <2>1 DEF MergeInv
  <2> QED
    BY <2>1, <2>2, <2>3 DEF PendingInv
<1>7. OpensFor(c)
  BY <1>3, <1>4 DEF OpensFor, Build
<1> QED
  BY <1>1, <1>4, <1>5, <1>6, <1>7, OpenKeeps

LEMMA MergeKeeps ==
  ASSUME RunnerClient, RunnerInv, NEW newer \in DOMAIN levels, NEW older \in DOMAIN levels,
         Merge(newer, older)
  PROVE  RunnerInv'
<1> DEFINE u == ExpectedUnion(newer, older)
           n == MergeCounts(Contents(newer), Contents(older))
           e == MergeCounts(order[Position(newer)].map, order[Position(older)].map)
           c == [op |-> "merge", level |-> nextLevel, newer |-> newer, older |-> older,
                 map |-> u, counts |-> n, expected |-> e, done |-> FALSE]
<1>1. /\ [Next]_vars /\ EngineInv /\ EngineInv' /\ RefsInv /\ StackInv /\ MapsInv
  BY EngineTakesSteps, EngineInvStep DEF WNext, RunnerInv
<1>2. nextLevel \in Nat /\ newer \in Nat /\ older \in Nat
  BY EngineFacts DEF RunnerInv
<1>3. /\ OpenLevel /\ pending' = c
      /\ job' = [call |-> "merge", out |-> nextLevel,
                 data |-> MergeSorted(Contents(newer), Contents(older)), placed |-> 0,
                 newer |-> newer, older |-> older]
      /\ UNCHANGED <<refs, order, oldRefs, queryable, mismatches, orphans>>
  BY DEF Merge, StartMerge, Call
<1>4. PICK i \in 1..Len(order) - 1 : LevelAt(i) = newer /\ LevelAt(i + 1) = older
  BY DEF Merge, Adjacent
<1>5. i \in DOMAIN order /\ i + 1 \in DOMAIN order
  BY <1>1, StackFacts
<1>6. Position(newer) = i /\ Position(older) = i + 1
  BY <1>1, <1>4, <1>5, StackFacts DEF Position
<1>7. u = Overlay(order[i].map, order[i + 1].map) /\ u \in Datasets
  BY <1>1, <1>5, <1>6, StackFacts, OverlayType DEF ExpectedUnion
<1>8. order[i].map = Contents(newer) /\ order[i + 1].map = Contents(older)
  <2>1. Gone = {}
    BY PendingFacts DEF RunnerInv, Merge, Free, PendingShape
  <2> QED
    BY <1>1, <1>4, <1>5, <2>1 DEF MapsInv
<1>13. n = e /\ n \in Counts
  <2>1. order[i].map \in Datasets /\ order[i + 1].map \in Datasets
    BY <1>1, <1>5, StackFacts
  <2> QED
    BY <1>6, <1>8, <2>1 DEF Counts
<1> HIDE DEF u, n, e
<1>9. /\ c \in PendingMerges /\ c.op = "merge" /\ c.level = nextLevel /\ c.map = u /\ c.done = FALSE
      /\ c.newer = newer /\ c.older = older /\ c.counts = c.expected
  BY <1>2, <1>7, <1>13 DEF PendingMerges
<1>10. /\ job' \in Merges /\ job'.out = nextLevel /\ job'.data = u /\ job'.call = "merge"
       /\ job'.newer = newer /\ job'.older = older
  <2>1. MergeSorted(Contents(newer), Contents(older)) = u
    BY <1>7, <1>8 DEF MergeSorted
  <2> QED
    BY <1>2, <1>3, <1>7, <2>1 DEF Merges
<1> HIDE DEF c
<1>11. PendingInv'
  <2>1. pending' \in PendingMerges /\ pending' \notin PendingBuilds /\ pending' # NoCall
    BY <1>3, <1>9 DEF PendingBuilds, NoCall
  <2>2. BuildInv'
    BY <2>1 DEF BuildInv
  <2>3. MergedPair(i)' /\ i \in 1..Len(order') - 1
    BY <1>3, <1>4, <1>7, <1>9 DEF MergedPair, LevelAt
  <2>4. MergeInv'
    BY <1>3, <1>9, <1>10, <2>3 DEF MergeInv
  <2> QED
    BY <2>1, <2>2, <2>4 DEF PendingInv
<1>12. OpensFor(c)
  BY <1>3, <1>9 DEF OpensFor, Merge
<1> QED
  BY <1>1, <1>9, <1>10, <1>11, <1>12, OpenKeeps

\* An index declared queryable, and the calls that leave the engine alone.
LEMMA DeclareKeeps ==
  ASSUME RunnerClient, RunnerInv, [Next]_vars, UNCHANGED <<levels, retired, nextLevel, job>>,
         UNCHANGED <<refs, order, oldRefs, pending, orphans>>, pending = NoCall,
         NEW S \in SUBSET DOMAIN levels,
         queryable' = queryable \cup S, DOMAIN pgm' = DOMAIN pgm \cup S
  PROVE  RunnerInv'
<1>1. EngineInv' /\ RefsInv /\ StackInv /\ RetiredInv /\ LevelsInv /\ MapsInv /\ DeclaredInv
  BY EngineInvStep DEF RunnerInv
<1>2. nextLevel \in Nat /\ \A l \in S : l \in 0..nextLevel - 1
  <2>1. nextLevel \in Nat /\ \A l \in S : l \in Nat /\ l < nextLevel
    BY EngineFacts DEF RunnerInv
  <2> QED
    BY <2>1
<1>3. Coming = {} /\ Gone = {} /\ job = Idle
  BY PendingFacts DEF RunnerInv, PendingShape, PendingInv
<1>4. PendingInv'
  BY <1>3, IdleHasNoLevels DEF PendingInv, BuildInv, MergeInv, PendingBuilds, PendingMerges, NoCall
<1>5. Coming' = {} /\ Gone' = {}
  BY <1>4, PendingFactsNext DEF PendingShape
<1>6. RefsInv' /\ StackInv' /\ RetiredInv' /\ Bound' = Bound
  BY <1>1, <1>2, <1>3, <1>5, RecordsKept
<1>7. LevelsInv'
  BY <1>1, <1>3, <1>5, <1>6 DEF LevelsInv
<1>8. MapsInv'
  <2>1. \A l \in Bound \ Gone' : l \in DOMAIN levels' /\ levels'[l] = levels[l]
    BY <1>1, <1>3 DEF LevelsInv
  <2> QED
    BY <1>1, <1>3, <2>1, MapsKept DEF RunnerInv
<1>9. DeclaredInv'
  <2>1. queryable' \subseteq 0..nextLevel - 1
    BY <1>1, <1>2 DEF DeclaredInv
  <2>2. \A l \in DOMAIN levels : l \in queryable <=> l \in DOMAIN pgm
    BY <1>1, <1>3 DEF DeclaredInv
  <2> QED
    BY <1>3, <1>5, <2>1, <2>2 DEF DeclaredInv
<1> QED
  BY <1>1, <1>4, <1>6, <1>7, <1>8, <1>9 DEF RunnerInv

LEMMA BuildPgmKeeps ==
  ASSUME RunnerClient, RunnerInv, NEW l \in DOMAIN levels, BuildPgm(l)
  PROVE  RunnerInv'
<1>1. [Next]_vars
  BY EngineTakesSteps DEF WNext
<1>2. /\ UNCHANGED <<levels, retired, nextLevel, job>> /\ pending = NoCall
      /\ UNCHANGED <<refs, order, oldRefs, pending, orphans>>
      /\ queryable' = queryable \cup {l} /\ pgm' = Put(pgm, l, KeysOf(l))
  BY DEF BuildPgm, BuildLevelPgm, IndexLevel, Declare, Free
<1>3. DOMAIN pgm' = DOMAIN pgm \cup {l}
  BY <1>2 DEF Put
<1> QED
  BY <1>1, <1>2, <1>3, DeclareKeeps

LEMMA QueryKeeps ==
  ASSUME RunnerClient, RunnerInv, NEW k \in Keys, Query(k)
  PROVE  RunnerInv'
<1>1. [Next]_vars
  BY EngineTakesSteps DEF WNext
<1>2. /\ UNCHANGED <<levels, retired, nextLevel, job, pgm>> /\ pending = NoCall
      /\ UNCHANGED <<refs, order, oldRefs, queryable, pending, orphans>>
  BY DEF Query, Free, vars
<1>3. /\ {} \in SUBSET DOMAIN levels
      /\ queryable' = queryable \cup {} /\ DOMAIN pgm' = DOMAIN pgm \cup {}
  BY <1>2
<1> QED
  BY <1>1, <1>2, <1>3, DeclareKeeps

\* The runner binds the level of the call it waited for.
LEMMA BoundRefs ==
  ASSUME RefsInv, StackInv, EngineInv, pending # NoCall, PendingInv,
         Bind(pending.level), pending' = NoCall, UNCHANGED <<nextLevel, orphans>>,
         pending.level \in DOMAIN levels, pending.level \notin orphans
  PROVE  /\ RefsInv'
         /\ DOMAIN refs' = DOMAIN refs \cup {Len(refs) + 1} /\ Len(refs) + 1 \notin DOMAIN refs
         /\ Len(refs) + 1 \in Nat
         /\ refs'[Len(refs) + 1] = pending.level
         /\ \A r \in DOMAIN refs : refs'[r] = refs[r] /\ refs[r] # pending.level
<1>1. /\ refs \in Seq(Nat) /\ Len(refs) \in Nat /\ DOMAIN refs = 1..Len(refs)
      /\ \A r, s \in DOMAIN refs : refs[r] = refs[s] => r = s
      /\ \A r \in DOMAIN refs : refs[r] < nextLevel /\ refs[r] \notin orphans
                                /\ refs[r] # pending.level
  BY PendingFacts DEF RefsInv, PendingShape
<1>2. pending.level \in Nat /\ pending.level < nextLevel
  BY EngineFacts
<1>3. /\ refs' \in Seq(Nat) /\ Len(refs') = Len(refs) + 1 /\ DOMAIN refs' = 1..Len(refs) + 1
      /\ refs'[Len(refs) + 1] = pending.level
      /\ \A r \in 1..Len(refs) : refs'[r] = refs[r]
  <2>1. refs' = Append(refs, pending.level)
    BY DEF Bind
  <2> QED
    BY <1>1, <1>2, <2>1, AppendProperties
<1>4. /\ DOMAIN refs' = DOMAIN refs \cup {Len(refs) + 1} /\ Len(refs) + 1 \notin DOMAIN refs
      /\ \A r \in DOMAIN refs : refs'[r] = refs[r]
  BY <1>1, <1>3
<1>5. Coming' = {}
  BY DEF Coming
<1>6. RefsInv'
  <2>1. \A r, s \in DOMAIN refs' : refs'[r] = refs'[s] => r = s
    BY <1>1, <1>3, <1>4
  <2>2. \A r \in DOMAIN refs' : refs'[r] < nextLevel' /\ refs'[r] \notin Coming' \cup orphans'
    BY <1>1, <1>2, <1>3, <1>4, <1>5
  <2> QED
    BY <1>3, <2>1, <2>2 DEF RefsInv
<1> QED
  BY <1>1, <1>3, <1>4, <1>6

LEMMA ReturnBuildKeeps ==
  ASSUME RunnerClient, RunnerInv, ReturnBuild
  PROVE  RunnerInv'
<1> DEFINE n == Len(order)
           l == pending.level
           r == Len(refs) + 1
           e == [ref |-> r, map |-> pending.map]
<1>1. /\ [Next]_vars /\ EngineInv /\ EngineInv' /\ RefsInv /\ StackInv /\ RetiredInv /\ LevelsInv
      /\ MapsInv /\ DeclaredInv /\ PendingInv
  BY EngineTakesSteps, EngineInvStep DEF WNext, RunnerInv
<1>2. /\ UNCHANGED vars /\ UNCHANGED <<oldRefs, queryable, orphans>>
      /\ pending' = NoCall /\ Bind(l) /\ order' = <<e>> \o order
  BY DEF ReturnBuild, AddNewest
<1>3. /\ pending \in PendingBuilds /\ pending # NoCall /\ l \in Nat /\ pending.map \in Datasets
      /\ Coming = {l} /\ Gone = {} /\ job = Idle
      /\ Contents(l) = pending.map /\ l \notin DOMAIN pgm
  BY <1>1, PendingFacts DEF ReturnBuild, Waiting, PendingInv, BuildInv, PendingShape, Gone
<1>4. l \in DOMAIN levels /\ l \notin orphans /\ l \notin queryable
  BY <1>1, <1>3 DEF LevelsInv, DeclaredInv
<1>5. UNCHANGED <<levels, retired, nextLevel, pgm, job>>
  BY <1>2 DEF vars
<1>6. /\ RefsInv'
      /\ DOMAIN refs' = DOMAIN refs \cup {r} /\ r \notin DOMAIN refs /\ r \in Nat
      /\ refs'[r] = l
      /\ \A s \in DOMAIN refs : refs'[s] = refs[s] /\ refs[s] # l
  BY <1>1, <1>2, <1>3, <1>4, <1>5, BoundRefs
<1>7. /\ n \in Nat /\ DOMAIN order = 1..n
      /\ order \in Seq([ref : Nat, map : Datasets])
      /\ \A i \in 1..n : order[i].ref \in DOMAIN refs \ oldRefs
      /\ oldRefs \subseteq DOMAIN refs
  BY <1>1, StackFacts DEF StackInv, RetiredInv
<1>8. e \in [ref : Nat, map : Datasets] /\ e.ref = r /\ e.map = pending.map
  BY <1>3, <1>6
<1> HIDE DEF e, l, r, n
<1>9. /\ order' \in Seq([ref : Nat, map : Datasets]) /\ DOMAIN order' = 1..n + 1
      /\ order'[1] = e /\ \A i \in 1..n : order'[i + 1] = order[i]
  <2> DEFINE entries == [ref : Nat, map : Datasets]
  <2>1. order \in Seq(entries) /\ e \in entries /\ order' = <<e>> \o order
    BY <1>2, <1>7, <1>8
  <2> HIDE DEF entries
  <2>2. /\ order' \in Seq(entries) /\ Len(order') = Len(order) + 1 /\ order'[1] = e
        /\ \A i \in 1..Len(order) : order'[i + 1] = order[i]
    BY <2>1, Prepended
  <2>3. DOMAIN order' = 1..Len(order) + 1
    BY <2>2
  <2> QED
    BY <2>2, <2>3 DEF n, entries
<1>10. \A j \in DOMAIN order' : j = 1 \/ \E i \in 1..n : j = i + 1
  <2>1. \A j \in 1..n + 1 : j = 1 \/ (j - 1 \in 1..n /\ j = (j - 1) + 1)
    BY <1>7
  <2> QED
    BY <1>9, <2>1
<1>11. StackInv'
  <2>1. \A j \in DOMAIN order' : order'[j].ref \in DOMAIN refs' \ oldRefs'
    BY <1>2, <1>6, <1>7, <1>8, <1>9, <1>10
  <2>2. \A i, j \in DOMAIN order' : order'[i].ref = order'[j].ref => i = j
    <3>1. \A i, j \in 1..n : order[i].ref = order[j].ref => i = j
      BY <1>1, <1>7 DEF StackInv
    <3>2. \A i \in 1..n : order[i].ref # r
      BY <1>6, <1>7
    <3>3. \A j \in DOMAIN order' : \/ j = 1 /\ order'[j].ref = r
                                   \/ \E i \in 1..n : j = i + 1 /\ order'[j].ref = order[i].ref
      BY <1>8, <1>9, <1>10
    <3> QED
      BY <3>1, <3>2, <3>3
  <2> QED
    BY <1>9, <2>1, <2>2 DEF StackInv
<1>12. refs'[order'[1].ref] = l /\ \A i \in 1..n : refs'[order'[i + 1].ref] = LevelAt(i)
  BY <1>6, <1>7, <1>8, <1>9 DEF LevelAt
<1>13. RetiredInv'
  BY <1>1, <1>2, <1>5, <1>6 DEF RetiredInv
<1>14. Coming' = {} /\ Gone' = {} /\ PendingInv'
  <2>1. PendingInv'
    BY <1>2, <1>3, <1>5, IdleHasNoLevels
       DEF PendingInv, BuildInv, MergeInv, PendingBuilds, PendingMerges, NoCall
  <2> QED
    BY <1>2, <2>1, PendingFactsNext DEF PendingShape
<1>15. Bound' = Bound \cup {l}
  <2>1. Bound' = {refs'[order'[j].ref] : j \in DOMAIN order'}
    BY DEF Bound, LevelAt
  <2>2. Bound = {LevelAt(i) : i \in 1..n}
    BY <1>7 DEF Bound
  <2>3. 1 \in DOMAIN order' /\ \A i \in 1..n : i + 1 \in DOMAIN order'
    BY <1>7, <1>9
  <2> QED
    BY <1>10, <1>12, <2>1, <2>2, <2>3
<1>16. LevelsInv'
  BY <1>1, <1>2, <1>3, <1>5, <1>14, <1>15 DEF LevelsInv
<1>17. MapsInv'
  <2> SUFFICES ASSUME NEW j \in DOMAIN order'
               PROVE  \A m : m = refs'[order'[j].ref] => order'[j].map = Contents(m)'
    BY DEF MapsInv, LevelAt
  <2>1. \A m \in DOMAIN levels : Contents(m)' = Contents(m)
    BY <1>1, <1>5, RecordsOfKept
  <2>2. CASE j = 1
    <3>1. order'[j].map = Contents(l)
      BY <1>3, <1>8, <1>9, <2>2 DEF l
    <3> QED
      BY <1>4, <1>12, <2>1, <2>2, <3>1
  <2>3. ASSUME NEW i \in 1..n, j = i + 1
        PROVE  \A m : m = refs'[order'[j].ref] => order'[j].map = Contents(m)'
    <3>1. LevelAt(i) \in DOMAIN levels /\ order[i].map = Contents(LevelAt(i))
      BY <1>1, <1>3, <1>7 DEF LevelsInv, MapsInv, Bound
    <3> QED
      BY <1>9, <1>12, <2>1, <2>3, <3>1
  <2> QED
    BY <1>10, <2>2, <2>3
<1>18. DeclaredInv'
  BY <1>1, <1>2, <1>3, <1>4, <1>5, <1>14 DEF DeclaredInv, l
<1> QED
  BY <1>1, <1>6, <1>11, <1>13, <1>14, <1>16, <1>17, <1>18 DEF RunnerInv

\* The merged level takes the place of its two inputs, which stay behind as
\* retired refs.
LEMMA ReturnMergeKeeps ==
  ASSUME RunnerClient, RunnerInv, ReturnMerge
  PROVE  RunnerInv' /\ mismatches' = mismatches + 0
<1> DEFINE n == Len(order)
           l == pending.level
           newer == pending.newer
           older == pending.older
           r == Len(refs) + 1
           e == [ref |-> r, map |-> pending.map]
<1>1. /\ [Next]_vars /\ EngineInv /\ EngineInv' /\ RefsInv /\ StackInv /\ RetiredInv /\ LevelsInv
      /\ MapsInv /\ DeclaredInv /\ PendingInv
  BY EngineTakesSteps, EngineInvStep DEF WNext, RunnerInv
<1>2. /\ UNCHANGED vars /\ UNCHANGED orphans /\ queryable' = queryable \cup {l}
      /\ pending' = NoCall /\ Bind(l)
      /\ order' = ReplaceAt(RemoveAt(order, Position(newer) + 1), Position(newer), e)
      /\ oldRefs' = oldRefs \cup Replaced(Position(newer))
  BY DEF ReturnMerge, Declare
<1>3. /\ pending \in PendingMerges /\ pending # NoCall /\ l \in Nat /\ pending.map \in Datasets
      /\ Coming = {l} /\ Gone = {newer, older} /\ job = Idle
      /\ Contents(l) = pending.map /\ l \in DOMAIN pgm
  BY <1>1, PendingFacts DEF ReturnMerge, Waiting, PendingInv, MergeInv, PendingShape, Gone
<1>4. PICK i \in 1..n - 1 : LevelAt(i) = newer /\ LevelAt(i + 1) = older
  BY <1>1, <1>3 DEF PendingInv, MergeInv, MergedPair
<1>5. l \in DOMAIN levels /\ l \notin orphans /\ l \notin queryable
  BY <1>1, <1>3 DEF LevelsInv, DeclaredInv
<1>6. UNCHANGED <<levels, retired, nextLevel, pgm, job>>
  BY <1>2 DEF vars
<1>7. /\ RefsInv'
      /\ DOMAIN refs' = DOMAIN refs \cup {r} /\ r \notin DOMAIN refs /\ r \in Nat
      /\ refs'[r] = l
      /\ \A s \in DOMAIN refs : refs'[s] = refs[s] /\ refs[s] # l
  BY <1>1, <1>2, <1>3, <1>5, <1>6, BoundRefs
<1>8. /\ n \in Nat /\ DOMAIN order = 1..n
      /\ order \in Seq([ref : Nat, map : Datasets])
      /\ \A j \in 1..n : order[j].ref \in DOMAIN refs \ oldRefs
      /\ \A j, k \in 1..n : order[j].ref = order[k].ref => j = k
      /\ \A j, k \in 1..n : LevelAt(j) = LevelAt(k) => j = k
      /\ oldRefs \subseteq DOMAIN refs
  BY <1>1, StackFacts DEF StackInv, RetiredInv
<1>9. i \in 1..n /\ i + 1 \in 1..n /\ i \in Nat /\ i + 1 <= n
  BY <1>8
<1>10. Position(newer) = i
  BY <1>4, <1>8, <1>9 DEF Position
<1>11. e \in [ref : Nat, map : Datasets] /\ e.ref = r /\ e.map = pending.map
  BY <1>3, <1>7
<1> HIDE DEF e, l, r, n, newer, older
<1>12. /\ order' \in Seq([ref : Nat, map : Datasets]) /\ DOMAIN order' = 1..n - 1
       /\ order'[i] = e /\ \A j \in 1..i - 1 : order'[j] = order[j]
       /\ \A j \in i + 1..n - 1 : order'[j] = order[j + 1]
  <2> DEFINE entries == [ref : Nat, map : Datasets]
  <2>1. PICK k \in Nat : k = i + 1
    OBVIOUS
  <2>2. order \in Seq(entries) /\ e \in entries /\ order' = ReplaceAt(RemoveAt(order, k), i, e)
        /\ i \in 1..Len(order) - 1
    BY <1>2, <1>4, <1>8, <1>10, <1>11, <2>1 DEF n
  <2> HIDE DEF entries
  <2>5. CollapsedTo(entries, order, i, e, order')
    BY <2>1, <2>2, Collapsed
  <2>4. /\ order' \in Seq(entries) /\ Len(order') = Len(order) - 1 /\ order'[i] = e
        /\ \A j \in 1..i - 1 : order'[j] = order[j]
        /\ \A j \in i + 1..Len(order) - 1 : order'[j] = order[j + 1]
    BY <2>5 DEF CollapsedTo
  <2>3. DOMAIN order' = 1..Len(order) - 1
    BY <2>4
  <2> QED
    BY <2>3, <2>4 DEF n, entries
\* Every entry is the new one or an old one that is not replaced.
<1>13. \A j \in 1..n - 1 :
         \/ j = i /\ order'[j] = e
         \/ \E k \in 1..n : /\ k # i /\ k # i + 1 /\ order'[j] = order[k]
                            /\ (j < i /\ k = j) \/ (j > i /\ k = j + 1)
  <2> SUFFICES ASSUME NEW j \in 1..n - 1, j # i
               PROVE  \E k \in 1..n : /\ k # i /\ k # i + 1 /\ order'[j] = order[k]
                                      /\ (j < i /\ k = j) \/ (j > i /\ k = j + 1)
    BY <1>12
  <2>1. CASE j < i
    <3>1. j \in 1..i - 1 /\ j \in 1..n /\ j # i + 1
      BY <1>8, <1>9, <2>1
    <3> QED
      BY <1>12, <2>1, <3>1
  <2>2. CASE ~(j < i)
    <3>1. j > i /\ j \in i + 1..n - 1 /\ j + 1 \in 1..n /\ j + 1 # i /\ j + 1 # i + 1
      BY <1>8, <1>9, <2>2
    <3> QED
      BY <1>12, <3>1
  <2> QED
    BY <2>1, <2>2
<1>14. \A k \in 1..n : k # i /\ k # i + 1 => \E j \in 1..n - 1 : order'[j] = order[k]
  <2> SUFFICES ASSUME NEW k \in 1..n, k # i, k # i + 1
               PROVE  \E j \in 1..n - 1 : order'[j] = order[k]
    OBVIOUS
  <2>1. CASE k < i
    <3>1. k \in 1..i - 1 /\ k \in 1..n - 1
      BY <1>8, <1>9, <2>1
    <3> QED
      BY <1>12, <3>1
  <2>2. CASE ~(k < i)
    <3>1. k - 1 \in i + 1..n - 1 /\ (k - 1) + 1 = k /\ k - 1 \in 1..n - 1
      BY <1>8, <1>9, <2>2
    <3> QED
      BY <1>12, <3>1
  <2> QED
    BY <2>1, <2>2
<1>15. oldRefs' = oldRefs \cup {order[i].ref, order[i + 1].ref}
  BY <1>2, <1>10 DEF Replaced
<1>16. StackInv'
  <2>1. \A j \in DOMAIN order' : order'[j].ref \in DOMAIN refs' \ oldRefs'
    <3>1. r \in DOMAIN refs' \ oldRefs'
      BY <1>7, <1>8, <1>9, <1>15
    <3>2. \A k \in 1..n : k # i /\ k # i + 1 => order[k].ref \in DOMAIN refs' \ oldRefs'
      BY <1>7, <1>8, <1>9, <1>15
    <3>3. \A j \in 1..n - 1 : order'[j].ref \in DOMAIN refs' \ oldRefs'
      BY <1>11, <1>13, <3>1, <3>2
    <3> QED
      BY <1>12, <3>3
  <2>2. \A j, k \in DOMAIN order' : order'[j].ref = order'[k].ref => j = k
    <3> SUFFICES ASSUME NEW j \in 1..n - 1, NEW k \in 1..n - 1, order'[j].ref = order'[k].ref
                 PROVE  j = k
      BY <1>12
    <3>1. \A m \in 1..n : order[m].ref # r
      BY <1>7, <1>8
    <3>2. CASE j = i \/ k = i
      BY <1>11, <1>12, <1>13, <3>1, <3>2
    <3>3. CASE j # i /\ k # i
      <4>1. PICK a \in 1..n : /\ order'[j] = order[a]
                              /\ (j < i /\ a = j) \/ (j > i /\ a = j + 1)
        BY <1>13, <3>3
      <4>2. PICK b \in 1..n : /\ order'[k] = order[b]
                              /\ (k < i /\ b = k) \/ (k > i /\ b = k + 1)
        BY <1>13, <3>3
      <4>3. a = b
        BY <1>8, <4>1, <4>2
      <4> QED
        BY <1>9, <4>1, <4>2, <4>3
    <3> QED
      BY <3>2, <3>3
  <2> QED
    BY <1>12, <2>1, <2>2 DEF StackInv
<1>17. /\ refs'[order'[i].ref] = l
       /\ \A k \in 1..n : refs'[order[k].ref] = LevelAt(k) /\ LevelAt(k) # l
  BY <1>7, <1>8, <1>11, <1>12 DEF LevelAt
<1>18. RetiredInv'
  <2>1. refs'[order[i].ref] \in retired /\ refs'[order[i + 1].ref] \in retired
    BY <1>1, <1>3, <1>4, <1>9, <1>17 DEF LevelsInv
  <2>2. \A s \in oldRefs' : refs'[s] \in retired'
    BY <1>1, <1>6, <1>7, <1>8, <1>15, <2>1 DEF RetiredInv
  <2>3. oldRefs' \subseteq DOMAIN refs'
    BY <1>7, <1>8, <1>9, <1>15
  <2> QED
    BY <2>2, <2>3 DEF RetiredInv
<1>19. Coming' = {} /\ Gone' = {} /\ PendingInv'
  <2>1. PendingInv'
    BY <1>2, <1>3, <1>6, IdleHasNoLevels
       DEF PendingInv, BuildInv, MergeInv, PendingBuilds, PendingMerges, NoCall
  <2> QED
    BY <1>2, <2>1, PendingFactsNext DEF PendingShape
<1>20. Bound' = (Bound \ {newer, older}) \cup {l}
  <2>1. Bound' = {refs'[order'[j].ref] : j \in 1..n - 1}
    BY <1>12 DEF Bound, LevelAt
  <2>2. Bound = {LevelAt(k) : k \in 1..n}
    BY <1>8 DEF Bound
  <2>3. i \in 1..n - 1
    BY <1>4
  <2>4. \A k \in 1..n : LevelAt(k) \in {newer, older} <=> k \in {i, i + 1}
    BY <1>4, <1>8, <1>9
  <2>5. ASSUME NEW j \in 1..n - 1
        PROVE  refs'[order'[j].ref] \in (Bound \ {newer, older}) \cup {l}
    BY <1>13, <1>17, <2>2, <2>4
  <2>6. ASSUME NEW k \in 1..n, LevelAt(k) \notin {newer, older}
        PROVE  LevelAt(k) \in Bound'
    <3>1. PICK j \in 1..n - 1 : order'[j] = order[k]
      BY <1>14, <2>4, <2>6
    <3> QED
      BY <1>17, <2>1, <3>1
  <2>7. l \in Bound'
    BY <1>17, <2>1, <2>3
  <2> QED
    BY <2>1, <2>2, <2>5, <2>6, <2>7
<1>21. LevelsInv'
  BY <1>1, <1>2, <1>3, <1>6, <1>19, <1>20 DEF LevelsInv
<1>22. MapsInv'
  <2> SUFFICES ASSUME NEW j \in 1..n - 1
               PROVE  \A m : m = refs'[order'[j].ref] => order'[j].map = Contents(m)'
    BY <1>12 DEF MapsInv, LevelAt
  <2>1. \A m \in DOMAIN levels : Contents(m)' = Contents(m)
    BY <1>1, <1>6, RecordsOfKept
  <2>2. CASE j = i
    <3>1. order'[j].map = Contents(l)
      BY <1>3, <1>11, <1>12, <2>2 DEF l
    <3> QED
      BY <1>5, <1>17, <2>1, <2>2, <3>1
  <2>3. CASE j # i
    <3>1. PICK k \in 1..n : k # i /\ k # i + 1 /\ order'[j] = order[k]
      BY <1>13, <2>3
    <3>2. LevelAt(k) \in Bound \ Gone
      BY <1>3, <1>4, <1>8, <1>9, <3>1 DEF Bound
    <3>3. LevelAt(k) \in DOMAIN levels /\ order[k].map = Contents(LevelAt(k))
      BY <1>1, <1>8, <3>1, <3>2 DEF LevelsInv, MapsInv
    <3> QED
      BY <1>17, <2>1, <3>1, <3>3
  <2> QED
    BY <2>2, <2>3
<1>23. DeclaredInv'
  <2>1. nextLevel \in Nat /\ l < nextLevel /\ l \in Nat
    BY <1>1, <1>5, EngineFacts
  <2>2. queryable' \subseteq 0..nextLevel - 1
    BY <1>1, <1>2, <2>1 DEF DeclaredInv
  <2>3. \A m \in DOMAIN levels : m \in queryable' <=> m \in DOMAIN pgm
    BY <1>1, <1>2, <1>3 DEF DeclaredInv, l
  <2> QED
    BY <1>6, <1>19, <2>2, <2>3 DEF DeclaredInv
<1>24. mismatches' = mismatches + 0
  BY <1>1, <1>3 DEF ReturnMerge, PendingInv, MergeInv, MergedPair, l
<1> QED
  BY <1>1, <1>7, <1>16, <1>18, <1>19, <1>21, <1>22, <1>23, <1>24 DEF RunnerInv

-----------------------------------------------------------------------------
(* The engine at work on the pending call. *)

Quiet == UNCHANGED <<pending, orphans>>
Done == pending' = [pending EXCEPT !.done = TRUE] /\ UNCHANGED orphans

LEMMA EngineStepCases ==
  ASSUME TypeOK, EngineStep
  PROVE  /\ UNCHANGED <<refs, order, oldRefs, queryable, mismatches, outcome>>
         /\ \/ (PlaceBlock \/ IndexOutput \/ RetireNewer \/ FailPlacing) /\ Quiet
            \/ (FinishBuild \/ RetireOlder) /\ Done
            \/ AbortBuild /\ pending' = NoCall /\ orphans' = orphans \cup {job.out}
            \/ DiscardOutput /\ pending' = NoCall /\ UNCHANGED orphans
<1>1. FinishBuild \/ RetireOlder \/ AbortBuild \/ DiscardOutput => job' = Idle
  BY DEF FinishBuild, RetireOlder, AbortBuild, DiscardOutput
<1> QED
  BY <1>1 DEF EngineStep, Run, Quiet, Done

\* The call the engine works on is the pending one.
LEMMA BuildJob ==
  ASSUME RunnerInv, job.call = "build"
  PROVE  /\ job \in Builds /\ pending \in PendingBuilds /\ ~pending.done
         /\ job.out = pending.level /\ job.data = pending.map
         /\ Coming = {job.out} /\ Gone = {}
         /\ job.out \in DOMAIN levels /\ job.out \notin Bound \cup orphans \cup queryable \cup DOMAIN pgm
<1>1. job \in Builds
  BY EngineFacts, JobFields DEF RunnerInv, Registered
<1>2. pending \in PendingBuilds /\ ~pending.done /\ Coming = {pending.level} /\ pending.op = "build"
      /\ pending \notin PendingMerges
  BY <1>1, PendingFacts DEF RunnerInv, PendingShape, NoCall, PendingBuilds
<1>3. job.out = pending.level /\ job.data = pending.map /\ pending.level \notin DOMAIN pgm
  BY <1>2 DEF RunnerInv, PendingInv, BuildInv
<1>4. Gone = {}
  BY <1>2 DEF Gone
<1>5. job.out \in DOMAIN levels
  BY <1>2, <1>3 DEF RunnerInv, LevelsInv
<1>6. job.out \notin Bound \cup orphans \cup queryable
  BY <1>2, <1>3, StackFacts DEF RunnerInv, LevelsInv, DeclaredInv
<1> QED
  BY <1>1, <1>2, <1>3, <1>4, <1>5, <1>6

LEMMA MergeJob ==
  ASSUME RunnerInv, job.call \in {"merge", "discard", "retire_newer", "retire_older"}
  PROVE  /\ job \in Merges /\ pending \in PendingMerges /\ ~pending.done
         /\ job.out = pending.level /\ job.data = pending.map
         /\ job.newer = pending.newer /\ job.older = pending.older
         /\ Coming = {job.out}
         /\ Gone = IF job.call = "retire_older" THEN {job.newer} ELSE {}
         /\ job.newer \in Bound /\ job.older \in Bound /\ job.newer # job.older
         /\ job.out \in DOMAIN levels /\ job.out \notin Bound \cup orphans \cup queryable
<1>1. job \in Merges
  BY EngineFacts, JobFields DEF RunnerInv, Registered
<1>2. pending \in PendingMerges /\ ~pending.done /\ Coming = {pending.level}
  BY <1>1, PendingFacts DEF RunnerInv, PendingShape, NoCall, PendingMerges
<1>3. /\ job.out = pending.level /\ job.data = pending.map
      /\ job.newer = pending.newer /\ job.older = pending.older
      /\ \E i \in 1..Len(order) - 1 : MergedPair(i)
  BY <1>2 DEF RunnerInv, PendingInv, MergeInv
<1>4. Gone = IF job.call = "retire_older" THEN {job.newer} ELSE {}
  BY <1>2, <1>3 DEF Gone
<1>5. job.newer \in Bound /\ job.older \in Bound
  <2>1. PICK i \in 1..Len(order) - 1 : MergedPair(i)
    BY <1>3
  <2>2. i \in DOMAIN order /\ i + 1 \in DOMAIN order
    BY StackFacts DEF RunnerInv
  <2> QED
    BY <1>3, <2>1, <2>2 DEF MergedPair, Bound
<1>6. job.newer # job.older
  BY <1>1, EngineFacts DEF RunnerInv, Registered, JobLevels
<1>7. job.out \in DOMAIN levels
  BY <1>2, <1>3 DEF RunnerInv, LevelsInv
<1>8. job.out \notin Bound \cup orphans \cup queryable
  BY <1>2, <1>3, StackFacts DEF RunnerInv, LevelsInv, DeclaredInv
<1> QED
  BY <1>1, <1>2, <1>3, <1>4, <1>5, <1>6, <1>7, <1>8

\* What a step of the engine must leave of the invariant's parts.
LEMMA WorkKeeps ==
  ASSUME RunnerClient, RunnerInv, [Next]_vars, PendingInv',
         UNCHANGED <<refs, order, oldRefs, queryable, nextLevel>>, retired \subseteq retired',
         Coming' \subseteq Coming, Coming' \cup orphans' \subseteq Coming \cup orphans,
         orphans' \cap Coming' = {}, Gone \subseteq Gone', Gone' \subseteq retired',
         DOMAIN levels' = (Bound \ Gone') \cup Coming' \cup orphans',
         \A l \in Bound \ Gone' : levels'[l] = levels[l],
         \A l \in DOMAIN levels' \ Coming' : l \in queryable <=> l \in DOMAIN pgm'
  PROVE  RunnerInv'
<1>1. EngineInv' /\ EngineInv /\ RefsInv /\ StackInv /\ RetiredInv /\ LevelsInv /\ MapsInv /\ DeclaredInv
  BY EngineInvStep DEF RunnerInv
<1>2. nextLevel \in Nat
  BY <1>1, EngineFacts
<1>3. RefsInv' /\ StackInv' /\ RetiredInv' /\ Bound' = Bound
  BY <1>1, <1>2, RecordsKept
<1>4. LevelsInv'
  <2>1. orphans' \subseteq 0..nextLevel - 1
    <3>1. \A l \in Coming : l \in Nat /\ l < nextLevel
      BY <1>1, EngineFacts DEF LevelsInv
    <3>2. orphans \subseteq 0..nextLevel - 1
      BY <1>1 DEF LevelsInv
    <3>3. \A l \in Coming : l \in 0..nextLevel - 1
      BY <1>2, <3>1
    <3> QED
      BY <3>2, <3>3
  <2> QED
    BY <1>3, <2>1 DEF LevelsInv
<1>5. MapsInv'
  BY <1>1, MapsKept
<1>6. DeclaredInv'
  BY <1>1 DEF DeclaredInv
<1> QED
  BY <1>1, <1>3, <1>4, <1>5, <1>6 DEF RunnerInv

\* The records of the output when its last block has been placed.
LEMMA OutputComplete ==
  ASSUME EngineInv, job.call \in {"build", "merge"}, ~Placing
  PROVE  Contents(job.out) = job.data
<1>1. TypeOK /\ JobLevels
  BY EngineFacts DEF Registered
<1>2. /\ job \in Builds \/ job \in Merges
      /\ job.data \in Datasets /\ job.out \in DOMAIN levels
      /\ job.placed \in 0..NumBlocks(job.data) /\ PackedAs(job.out, Prefix(job.data, job.placed))
  BY <1>1, JobFields DEF EngineInv, PackedInv, JobPacked, BuildPacked, MergePacked, JobLevels
<1>3. job.placed = NumBlocks(job.data)
  BY <1>2, NumBlocksBounds DEF Placing
<1>4. PackedAs(job.out, job.data)
  BY <1>2, <1>3, PrefixEnds
<1> QED
  BY <1>1, <1>2, <1>4, PackedContents

\* The pending call's part of the invariant, for a call that goes on.
LEMMA PairKept ==
  ASSUME UNCHANGED <<refs, order>>, pending'.newer = pending.newer,
         pending'.older = pending.older, pending'.map = pending.map,
         pending'.counts = pending.counts, pending'.expected = pending.expected,
         \E i \in 1..Len(order) - 1 : MergedPair(i)
  PROVE  \E i \in 1..Len(order') - 1 : MergedPair(i)'
<1>1. PICK i \in 1..Len(order) - 1 : MergedPair(i)
  OBVIOUS
<1>2. MergedPair(i)'
  BY <1>1 DEF MergedPair, LevelAt
<1> QED
  BY <1>2

LEMMA PlaceKeeps ==
  ASSUME RunnerClient, RunnerInv, PlaceBlock, Quiet,
         UNCHANGED <<refs, order, oldRefs, queryable>>
  PROVE  RunnerInv'
<1> DEFINE l == job.out
<1>1. [Next]_vars /\ EngineInv /\ LevelsInv /\ DeclaredInv /\ PendingInv
  BY DEF Next, Run, RunnerInv
<1>2. /\ job.call = "build" \/ job.call = "merge"
      /\ Coming = {l} /\ Gone = {} /\ l \in DOMAIN levels /\ l \notin Bound \cup orphans
      /\ ~pending.done
  BY BuildJob, MergeJob DEF PlaceBlock, Placing
<1>3. /\ levels' = [levels EXCEPT ![l] = Append(@, nextBlock)] /\ pgm' = Drop(pgm, {l})
      /\ UNCHANGED <<retired, nextLevel>>
      /\ job' = [job EXCEPT !.placed = @ + 1]
  BY DEF PlaceBlock, CreateBlockInLevel, Attach
<1>4. DOMAIN pgm' = DOMAIN pgm \ {l} /\ DOMAIN levels' = DOMAIN levels
      /\ \A m \in DOMAIN levels : m # l => levels'[m] = levels[m]
  BY <1>3 DEF Drop
<1>5. PendingInv'
  <2>1. pending' = pending
    BY DEF Quiet
  <2>2. CASE job.call = "build"
    <3>1. job \in Builds /\ pending \in PendingBuilds /\ pending \notin PendingMerges
          /\ pending # NoCall /\ l = pending.level /\ job.data = pending.map
      BY <2>2, BuildJob DEF PendingBuilds, PendingMerges, NoCall
    <3>2. job' \in Builds /\ job'.out = job.out /\ job'.data = job.data
      BY <1>3, <3>1 DEF Builds
    <3>3. pending.level \notin DOMAIN pgm'
      BY <1>4, <3>1
    <3> QED
      BY <1>2, <2>1, <3>1, <3>2, <3>3 DEF PendingInv, BuildInv, MergeInv
  <2>3. CASE job.call = "merge"
    <3>1. /\ job \in Merges /\ pending \in PendingMerges /\ pending \notin PendingBuilds
          /\ pending # NoCall /\ l = pending.level /\ job.data = pending.map
          /\ job.newer = pending.newer /\ job.older = pending.older
      BY <2>3, MergeJob DEF PendingBuilds, PendingMerges, NoCall
    <3>2. /\ job' \in Merges /\ job'.out = job.out /\ job'.data = job.data
          /\ job'.newer = job.newer /\ job'.older = job.older /\ job'.call = "merge"
      BY <1>3, <2>3, <3>1 DEF Merges
    <3>3. \E i \in 1..Len(order') - 1 : MergedPair(i)'
      BY <1>1, <2>1, <3>1, PairKept DEF PendingInv, MergeInv
    <3> QED
      BY <1>2, <2>1, <3>1, <3>2, <3>3 DEF PendingInv, BuildInv, MergeInv
  <2> QED
    BY <1>2, <2>2, <2>3
<1>6. Coming' = Coming /\ orphans' = orphans
  BY DEF Quiet, Coming
<1>7. Gone' = {}
  <2>1. job'.call # "retire_older" /\ ~pending'.done
    <3>1. job \in Builds \/ job \in Merges
      BY <1>2, BuildJob, MergeJob
    <3>2. job'.call = job.call
      BY <1>3, <3>1 DEF Builds, Merges
    <3> QED
      BY <1>2, <3>2 DEF Quiet
  <2> QED
    BY <2>1 DEF Gone
<1>8. \A m \in DOMAIN levels' \ Coming' : m \in queryable <=> m \in DOMAIN pgm'
  BY <1>1, <1>2, <1>4, <1>6 DEF DeclaredInv
<1>9. /\ DOMAIN levels' = (Bound \ Gone') \cup Coming' \cup orphans'
      /\ \A m \in Bound \ Gone' : levels'[m] = levels[m]
      /\ orphans' \cap Coming' = {}
  BY <1>1, <1>2, <1>4, <1>6, <1>7 DEF LevelsInv
<1> QED
  BY <1>1, <1>2, <1>3, <1>5, <1>6, <1>7, <1>8, <1>9, WorkKeeps

LEMMA FinishBuildKeeps ==
  ASSUME RunnerClient, RunnerInv, FinishBuild, Done,
         UNCHANGED <<refs, order, oldRefs, queryable>>
  PROVE  RunnerInv'
<1> DEFINE l == job.out
<1>1. [Next]_vars /\ EngineInv /\ LevelsInv /\ DeclaredInv /\ PendingInv
  BY DEF Next, Run, RunnerInv
<1>2. /\ job \in Builds /\ pending \in PendingBuilds /\ l = pending.level /\ job.data = pending.map
      /\ Coming = {l} /\ Gone = {} /\ l \in DOMAIN levels /\ l \notin Bound \cup orphans \cup DOMAIN pgm
  BY BuildJob DEF FinishBuild
<1>3. /\ UNCHANGED <<levels, retired, nextLevel, pgm>> /\ job' = Idle
  BY DEF FinishBuild, registry
<1>4. /\ pending' \in PendingBuilds /\ pending' # NoCall /\ pending' \notin PendingMerges
      /\ pending'.level = l /\ pending'.map = pending.map /\ pending'.done
  BY <1>2 DEF Done, PendingBuilds, PendingMerges, NoCall
<1>5. \A m : m = l => Contents(m)' = Contents(m)
  BY <1>1, <1>2, <1>3, RecordsOfKept
<1>6. Contents(l) = pending.map
  BY <1>1, <1>2, OutputComplete DEF FinishBuild
<1> HIDE DEF l
<1>7. PendingInv'
  BY <1>2, <1>3, <1>4, <1>5, <1>6 DEF PendingInv, BuildInv, MergeInv
<1>8. Coming' = Coming /\ orphans' = orphans /\ Gone' = {}
  BY <1>2, <1>4 DEF Done, Coming, Gone
<1>9. \A m \in DOMAIN levels' \ Coming' : m \in queryable <=> m \in DOMAIN pgm'
  BY <1>1, <1>3, <1>8 DEF DeclaredInv
<1>10. /\ DOMAIN levels' = (Bound \ Gone') \cup Coming' \cup orphans'
       /\ \A m \in Bound \ Gone' : levels'[m] = levels[m]
       /\ orphans' \cap Coming' = {}
  BY <1>1, <1>2, <1>3, <1>8 DEF LevelsInv
<1> QED
  BY <1>1, <1>2, <1>3, <1>7, <1>8, <1>9, <1>10, WorkKeeps

\* The level of a build that raised stays in the registry, unbound.
LEMMA AbortBuildKeeps ==
  ASSUME RunnerClient, RunnerInv, AbortBuild, pending' = NoCall, orphans' = orphans \cup {job.out},
         UNCHANGED <<refs, order, oldRefs, queryable>>
  PROVE  RunnerInv'
<1> DEFINE l == job.out
<1>1. [Next]_vars /\ EngineInv /\ LevelsInv /\ DeclaredInv /\ PendingInv
  BY DEF Next, Run, RunnerInv
<1>2. /\ Coming = {l} /\ Gone = {} /\ l \in DOMAIN levels
      /\ l \notin Bound \cup orphans \cup queryable \cup DOMAIN pgm
  BY BuildJob DEF AbortBuild
<1>3. /\ UNCHANGED <<levels, retired, nextLevel, pgm>> /\ job' = Idle
  BY DEF AbortBuild, registry, CreateBlockCollides, CreateBlockCut,
     CreateBlockTorn, CreateBlockAlone
<1>4. PendingInv' /\ Coming' = {} /\ Gone' = {}
  <2>1. PendingInv'
    BY <1>3 DEF PendingInv, BuildInv, MergeInv, PendingBuilds, PendingMerges, NoCall
  <2> QED
    BY <2>1, PendingFactsNext DEF PendingShape
<1> HIDE DEF l
<1>5. \A m \in DOMAIN levels' \ Coming' : m \in queryable <=> m \in DOMAIN pgm'
  BY <1>1, <1>2, <1>3, <1>4 DEF DeclaredInv
<1>6. /\ DOMAIN levels' = (Bound \ Gone') \cup Coming' \cup orphans'
      /\ \A m \in Bound \ Gone' : levels'[m] = levels[m]
  BY <1>1, <1>2, <1>3, <1>4 DEF LevelsInv, l
<1> QED
  BY <1>1, <1>2, <1>3, <1>4, <1>5, <1>6, WorkKeeps DEF l

LEMMA IndexKeeps ==
  ASSUME RunnerClient, RunnerInv, IndexOutput, Quiet,
         UNCHANGED <<refs, order, oldRefs, queryable>>
  PROVE  RunnerInv'
<1> DEFINE l == job.out
<1>1. [Next]_vars /\ EngineInv /\ LevelsInv /\ DeclaredInv /\ PendingInv
  BY DEF Next, Run, RunnerInv
<1>2. /\ job \in Merges /\ pending \in PendingMerges /\ ~pending.done
      /\ l = pending.level /\ job.data = pending.map
      /\ job.newer = pending.newer /\ job.older = pending.older
      /\ Coming = {l} /\ Gone = {} /\ l \in DOMAIN levels /\ l \notin Bound \cup orphans
  BY MergeJob DEF IndexOutput
<1>3. /\ UNCHANGED <<levels, retired, nextLevel>> /\ pgm' = Put(pgm, l, KeysOf(l))
      /\ job' = [job EXCEPT !.call = "retire_newer"]
  BY DEF IndexOutput, IndexLevel
<1>4. DOMAIN pgm' = DOMAIN pgm \cup {l}
  BY <1>3 DEF Put
<1>5. pending' = pending /\ pending # NoCall /\ pending \notin PendingBuilds
  BY <1>2 DEF Quiet, PendingBuilds, PendingMerges, NoCall
<1>6. \A m : m = l => Contents(m)' = Contents(m)
  BY <1>1, <1>2, <1>3, RecordsOfKept
<1>7. Contents(l) = pending.map
  BY <1>1, <1>2, OutputComplete DEF IndexOutput
<1>8. /\ job' \in Merges /\ job'.out = job.out /\ job'.data = job.data
      /\ job'.newer = job.newer /\ job'.older = job.older /\ job'.call = "retire_newer"
  BY <1>2, <1>3 DEF Merges
<1>9. \E i \in 1..Len(order') - 1 : MergedPair(i)'
  BY <1>1, <1>2, <1>5, PairKept DEF PendingInv, MergeInv
<1> HIDE DEF l
<1>10. PendingInv'
  <2>1. l \in DOMAIN pgm'
    BY <1>4
  <2> QED
    <3>1. BuildInv'
      BY <1>5 DEF BuildInv
    <3>2. Contents(pending.level)' = pending'.map /\ pending'.level \in DOMAIN pgm'
      BY <1>2, <1>5, <1>6, <1>7, <2>1
    <3>3. MergeInv'
      BY <1>2, <1>5, <1>8, <1>9, <3>2 DEF MergeInv, l
    <3> QED
      BY <1>2, <1>5, <3>1, <3>3 DEF PendingInv
<1>11. Coming' = Coming /\ orphans' = orphans /\ Gone' = {}
  BY <1>2, <1>5, <1>8 DEF Quiet, Coming, Gone
<1>12. \A m \in DOMAIN levels' \ Coming' : m \in queryable <=> m \in DOMAIN pgm'
  BY <1>1, <1>2, <1>3, <1>4, <1>11 DEF DeclaredInv
<1>13. /\ DOMAIN levels' = (Bound \ Gone') \cup Coming' \cup orphans'
       /\ \A m \in Bound \ Gone' : levels'[m] = levels[m]
       /\ orphans' \cap Coming' = {}
  BY <1>1, <1>2, <1>3, <1>11 DEF LevelsInv
<1> QED
  BY <1>1, <1>2, <1>3, <1>10, <1>11, <1>12, <1>13, WorkKeeps

\* The torn block leaves the registry alone, and the merge is to be discarded.
LEMMA FailPlacingKeeps ==
  ASSUME RunnerClient, RunnerInv, FailPlacing, Quiet,
         UNCHANGED <<refs, order, oldRefs, queryable>>
  PROVE  RunnerInv'
<1> DEFINE l == job.out
<1>1. [Next]_vars /\ EngineInv /\ LevelsInv /\ DeclaredInv /\ PendingInv
  BY DEF Next, Run, RunnerInv
<1>2. /\ job \in Merges /\ pending \in PendingMerges /\ ~pending.done
      /\ l = pending.level /\ job.data = pending.map
      /\ job.newer = pending.newer /\ job.older = pending.older
      /\ Coming = {l} /\ Gone = {} /\ l \in DOMAIN levels /\ l \notin Bound \cup orphans
  BY MergeJob DEF FailPlacing
<1>3. /\ UNCHANGED <<levels, retired, nextLevel, pgm>>
      /\ job' = [job EXCEPT !.call = "discard"]
  BY DEF FailPlacing, registry, CreateBlockCollides, CreateBlockCut,
     CreateBlockTorn, CreateBlockAlone
<1>4. pending' = pending /\ pending # NoCall /\ pending \notin PendingBuilds
  BY <1>2 DEF Quiet, PendingBuilds, PendingMerges, NoCall
<1>5. /\ job' \in Merges /\ job'.out = job.out /\ job'.data = job.data
      /\ job'.newer = job.newer /\ job'.older = job.older /\ job'.call = "discard"
  BY <1>2, <1>3 DEF Merges
<1>6. \E i \in 1..Len(order') - 1 : MergedPair(i)'
  BY <1>1, <1>2, <1>4, PairKept DEF PendingInv, MergeInv
<1>7. PendingInv'
  BY <1>2, <1>4, <1>5, <1>6 DEF PendingInv, BuildInv, MergeInv
<1>8. Coming' = Coming /\ orphans' = orphans /\ Gone' = {}
  BY <1>2, <1>4, <1>5 DEF Quiet, Coming, Gone
<1> HIDE DEF l
<1>9. \A m \in DOMAIN levels' \ Coming' : m \in queryable <=> m \in DOMAIN pgm'
  BY <1>1, <1>3, <1>8 DEF DeclaredInv
<1>10. /\ DOMAIN levels' = (Bound \ Gone') \cup Coming' \cup orphans'
       /\ \A m \in Bound \ Gone' : levels'[m] = levels[m]
       /\ orphans' \cap Coming' = {}
  BY <1>1, <1>2, <1>3, <1>8 DEF LevelsInv
<1> QED
  BY <1>1, <1>2, <1>3, <1>7, <1>8, <1>9, <1>10, WorkKeeps

\* A failed merge takes its output with it, and the stack is what it was.
LEMMA DiscardKeeps ==
  ASSUME RunnerClient, RunnerInv, DiscardOutput, pending' = NoCall, UNCHANGED orphans,
         UNCHANGED <<refs, order, oldRefs, queryable>>
  PROVE  RunnerInv'
<1> DEFINE l == job.out
<1>1. [Next]_vars /\ EngineInv /\ LevelsInv /\ DeclaredInv /\ PendingInv
  BY DEF Next, Run, RunnerInv
<1>2. Coming = {l} /\ Gone = {} /\ l \in DOMAIN levels /\ l \notin Bound \cup orphans
  <2>1. job.call \in {"merge", "discard"}
    BY DEF DiscardOutput
  <2> QED
    BY <2>1, MergeJob
<1>3. /\ levels' = Drop(levels, {l}) /\ pgm' = Drop(pgm, {l}) /\ retired' = retired \cup {l}
      /\ nextLevel' = nextLevel /\ job' = Idle
  BY DEF DiscardOutput, DropOutput, Retire, Deregister
<1>4. /\ DOMAIN levels' = DOMAIN levels \ {l} /\ DOMAIN pgm' = DOMAIN pgm \ {l}
      /\ \A m \in DOMAIN levels : m # l => levels'[m] = levels[m]
  BY <1>3 DEF Drop
<1>5. PendingInv' /\ Coming' = {} /\ Gone' = {}
  <2>1. PendingInv'
    BY <1>3 DEF PendingInv, BuildInv, MergeInv, PendingBuilds, PendingMerges, NoCall
  <2> QED
    BY <2>1, PendingFactsNext DEF PendingShape
<1> HIDE DEF l
<1>6. \A m \in DOMAIN levels' \ Coming' : m \in queryable <=> m \in DOMAIN pgm'
  BY <1>1, <1>2, <1>4, <1>5 DEF DeclaredInv
<1>7. /\ DOMAIN levels' = (Bound \ Gone') \cup Coming' \cup orphans'
      /\ \A m \in Bound \ Gone' : levels'[m] = levels[m]
  BY <1>1, <1>2, <1>4, <1>5 DEF LevelsInv
<1> QED
  BY <1>1, <1>2, <1>3, <1>5, <1>6, <1>7, WorkKeeps

LEMMA RetireNewerKeeps ==
  ASSUME RunnerClient, RunnerInv, RetireNewer, Quiet,
         UNCHANGED <<refs, order, oldRefs, queryable>>
  PROVE  RunnerInv'
<1> DEFINE l == job.out
           newer == job.newer
<1>1. [Next]_vars /\ EngineInv /\ LevelsInv /\ DeclaredInv /\ PendingInv
  BY DEF Next, Run, RunnerInv
<1>2. /\ job \in Merges /\ pending \in PendingMerges /\ ~pending.done
      /\ l = pending.level /\ job.data = pending.map
      /\ newer = pending.newer /\ job.older = pending.older
      /\ Coming = {l} /\ Gone = {} /\ l \in DOMAIN levels /\ l \notin Bound \cup orphans
      /\ newer \in Bound
  BY MergeJob DEF RetireNewer
<1>3. /\ levels' = Drop(levels, {newer}) /\ pgm' = Drop(pgm, {newer})
      /\ retired' = retired \cup {newer} /\ nextLevel' = nextLevel
      /\ job' = [job EXCEPT !.call = "retire_older"]
  BY DEF RetireNewer, Retire, Deregister
<1>4. /\ DOMAIN levels' = DOMAIN levels \ {newer} /\ DOMAIN pgm' = DOMAIN pgm \ {newer}
      /\ \A m \in DOMAIN levels : m # newer => levels'[m] = levels[m]
  BY <1>3 DEF Drop
<1>5. pending' = pending /\ pending # NoCall /\ pending \notin PendingBuilds
  BY <1>2 DEF Quiet, PendingBuilds, PendingMerges, NoCall
<1>6. l # newer /\ l \in DOMAIN pgm /\ Contents(l) = pending.map
  BY <1>1, <1>2 DEF PendingInv, MergeInv, RetireNewer
<1>7. \A m : m = l => Contents(m)' = Contents(m)
  BY <1>1, <1>2, <1>4, <1>6, RecordsOfKept
<1>8. /\ job' \in Merges /\ job'.out = job.out /\ job'.data = job.data
      /\ job'.newer = job.newer /\ job'.older = job.older /\ job'.call = "retire_older"
  BY <1>2, <1>3 DEF Merges
<1>9. \E i \in 1..Len(order') - 1 : MergedPair(i)'
  BY <1>1, <1>2, <1>5, PairKept DEF PendingInv, MergeInv
<1> HIDE DEF l
<1>10. PendingInv'
  <2>1. l \in DOMAIN pgm'
    BY <1>4, <1>6
  <2> QED
    <3>1. BuildInv'
      BY <1>5 DEF BuildInv
    <3>2. Contents(pending.level)' = pending'.map /\ pending'.level \in DOMAIN pgm'
      BY <1>2, <1>5, <1>6, <1>7, <2>1
    <3>3. MergeInv'
      BY <1>2, <1>5, <1>8, <1>9, <3>2 DEF MergeInv, l
    <3> QED
      BY <1>2, <1>5, <3>1, <3>3 DEF PendingInv
<1>11. Coming' = Coming /\ orphans' = orphans /\ Gone' = {newer}
  BY <1>2, <1>5, <1>8 DEF Quiet, Coming, Gone
<1> HIDE DEF newer
<1>12. newer \notin orphans \cup Coming
  BY <1>2, StackFacts DEF RunnerInv
<1>13. \A m \in DOMAIN levels' \ Coming' : m \in queryable <=> m \in DOMAIN pgm'
  BY <1>1, <1>2, <1>4, <1>11 DEF DeclaredInv
<1>14. /\ DOMAIN levels' = (Bound \ Gone') \cup Coming' \cup orphans'
       /\ \A m \in Bound \ Gone' : levels'[m] = levels[m]
       /\ orphans' \cap Coming' = {}
  BY <1>1, <1>2, <1>4, <1>11, <1>12 DEF LevelsInv
<1> QED
  BY <1>1, <1>2, <1>3, <1>10, <1>11, <1>13, <1>14, WorkKeeps

LEMMA RetireOlderKeeps ==
  ASSUME RunnerClient, RunnerInv, RetireOlder, Done,
         UNCHANGED <<refs, order, oldRefs, queryable>>
  PROVE  RunnerInv'
<1> DEFINE l == job.out
           newer == job.newer
           older == job.older
<1>1. [Next]_vars /\ EngineInv /\ LevelsInv /\ DeclaredInv /\ PendingInv
  BY DEF Next, Run, RunnerInv
<1>2. /\ job \in Merges /\ pending \in PendingMerges /\ ~pending.done
      /\ l = pending.level /\ job.data = pending.map
      /\ newer = pending.newer /\ older = pending.older
      /\ Coming = {l} /\ Gone = {newer} /\ l \in DOMAIN levels /\ l \notin Bound \cup orphans
      /\ newer \in Bound /\ older \in Bound /\ newer # older
  BY MergeJob DEF RetireOlder
<1>3. older \in DOMAIN levels /\ newer \in retired
  BY <1>1, <1>2 DEF LevelsInv
<1>4. /\ levels' = Drop(levels, {older}) /\ pgm' = Drop(pgm, {older})
      /\ retired' = retired \cup {older} /\ nextLevel' = nextLevel /\ job' = Idle
  <2>1. ~RetireTorn(older)
    BY <1>1, <1>3, EngineFacts DEF AllReadable, LevelReadable, BlocksOf, RetireTorn
  <2> QED
    BY <2>1 DEF RetireOlder, Retire, Deregister
<1>5. /\ DOMAIN levels' = DOMAIN levels \ {older} /\ DOMAIN pgm' = DOMAIN pgm \ {older}
      /\ \A m \in DOMAIN levels : m # older => levels'[m] = levels[m]
  BY <1>4 DEF Drop
<1>6. /\ pending' \in PendingMerges /\ pending' # NoCall /\ pending' \notin PendingBuilds
      /\ pending'.level = l /\ pending'.map = pending.map /\ pending'.done
      /\ pending'.newer = newer /\ pending'.older = older
      /\ pending'.counts = pending.counts /\ pending'.expected = pending.expected
  BY <1>2 DEF Done, PendingBuilds, PendingMerges, NoCall
<1>7. l # older /\ l \in DOMAIN pgm /\ Contents(l) = pending.map
  BY <1>1, <1>2 DEF PendingInv, MergeInv, RetireOlder
<1>8. \A m : m = l => Contents(m)' = Contents(m)
  BY <1>1, <1>2, <1>5, <1>7, RecordsOfKept
<1>9. \E i \in 1..Len(order') - 1 : MergedPair(i)'
  BY <1>1, <1>2, <1>6, PairKept DEF PendingInv, MergeInv
<1> HIDE DEF l, newer, older
<1>10. PendingInv'
  <2>1. l \in DOMAIN pgm'
    BY <1>5, <1>7
  <2> QED
    BY <1>4, <1>6, <1>7, <1>8, <1>9, <2>1 DEF PendingInv, BuildInv, MergeInv
<1>11. Coming' = Coming /\ orphans' = orphans /\ Gone' = {newer, older}
  BY <1>2, <1>6 DEF Done, Coming, Gone
<1>12. older \notin orphans \cup Coming
  BY <1>2, StackFacts DEF RunnerInv
<1>13. \A m \in DOMAIN levels' \ Coming' : m \in queryable <=> m \in DOMAIN pgm'
  BY <1>1, <1>2, <1>5, <1>11 DEF DeclaredInv
<1>14. /\ DOMAIN levels' = (Bound \ Gone') \cup Coming' \cup orphans'
       /\ \A m \in Bound \ Gone' : levels'[m] = levels[m]
       /\ orphans' \cap Coming' = {}
  BY <1>1, <1>2, <1>5, <1>11, <1>12 DEF LevelsInv
<1> QED
  BY <1>1, <1>2, <1>3, <1>4, <1>10, <1>11, <1>13, <1>14, WorkKeeps

-----------------------------------------------------------------------------
(* The invariant holds. *)

LEMMA RunnerInit == WInit => RunnerInv
<1> SUFFICES ASSUME WInit
             PROVE  RunnerInv
  OBVIOUS
<1>1. EngineInv
  BY PackedInvInit DEF WInit, Init, EngineInv, PgmCurrent, EmptyDict
<1>2. Coming = {} /\ Gone = {} /\ Bound = {} /\ order = <<>> /\ refs = <<>> /\ orphans = {}
  BY DEF WInit, Coming, Gone, Bound, NoCall, PendingMerges
<1>3. RefsInv /\ StackInv /\ RetiredInv /\ MapsInv
  BY <1>2 DEF WInit, RefsInv, StackInv, RetiredInv, MapsInv
<1>4. LevelsInv /\ DeclaredInv
  BY <1>2 DEF WInit, Init, LevelsInv, DeclaredInv, EmptyDict
<1>5. PendingInv
  BY DEF WInit, Init, PendingInv, BuildInv, MergeInv, PendingBuilds, PendingMerges, NoCall
<1> QED
  BY <1>1, <1>3, <1>4, <1>5 DEF RunnerInv

LEMMA RunnerInvStep ==
  ASSUME RunnerClient, RunnerInv, [WNext]_allVars
  PROVE  RunnerInv'
<1>1. ASSUME NEW d \in Batches, Build(d)
      PROVE  RunnerInv'
  BY <1>1, BuildKeeps
<1>2. CASE ReturnBuild
  BY <1>2, ReturnBuildKeeps
<1>3. ASSUME NEW l \in DOMAIN levels, BuildPgm(l)
      PROVE  RunnerInv'
  BY <1>3, BuildPgmKeeps
<1>4. ASSUME NEW newer \in DOMAIN levels, NEW older \in DOMAIN levels, Merge(newer, older)
      PROVE  RunnerInv'
  BY <1>4, MergeKeeps
<1>5. CASE ReturnMerge
  BY <1>5, ReturnMergeKeeps
<1>6. ASSUME NEW k \in Keys, Query(k)
      PROVE  RunnerInv'
  BY <1>6, QueryKeeps
<1>7. CASE EngineStep
  <2>1. /\ UNCHANGED <<refs, order, oldRefs, queryable, mismatches, outcome>>
        /\ \/ (PlaceBlock \/ IndexOutput \/ RetireNewer \/ FailPlacing) /\ Quiet
           \/ (FinishBuild \/ RetireOlder) /\ Done
           \/ AbortBuild /\ pending' = NoCall /\ orphans' = orphans \cup {job.out}
           \/ DiscardOutput /\ pending' = NoCall /\ UNCHANGED orphans
    BY <1>7, EngineFacts, EngineStepCases DEF RunnerInv, Registered
  <2> QED
    BY <2>1, PlaceKeeps, IndexKeeps, RetireNewerKeeps, FailPlacingKeeps, FinishBuildKeeps,
       RetireOlderKeeps, AbortBuildKeeps, DiscardKeeps
<1>8. CASE UNCHANGED allVars
  <2>1. /\ [Next]_vars /\ EngineInv /\ LevelsInv /\ DeclaredInv /\ PendingInv
        /\ UNCHANGED vars /\ UNCHANGED runner
    BY <1>8, EngineTakesSteps DEF allVars, RunnerInv, vars, runner
  <2>2. UNCHANGED <<levels, retired, nextLevel, pgm, job>>
    BY <2>1 DEF vars
  <2>3. UNCHANGED <<refs, order, oldRefs, queryable, pending, orphans>>
    BY <2>1 DEF runner
  <2>4. Coming' = Coming /\ Gone' = Gone
    BY <2>2, <2>3 DEF Coming, Gone
  <2>5. PendingInv'
    <3>1. BuildInv'
      <4> SUFFICES ASSUME pending \in PendingBuilds
                   PROVE  BuildInv'
        BY <2>3 DEF BuildInv
      <4>1. pending.done => \A m : m = pending.level => Contents(m)' = Contents(m)
        BY <2>1, <2>2, PendingFacts, RecordsOfKept DEF LevelsInv, PendingShape, PendingBuilds, NoCall
      <4> QED
        BY <2>1, <2>2, <2>3, <4>1 DEF PendingInv, BuildInv
    <3>2. MergeInv'
      <4> SUFFICES ASSUME pending \in PendingMerges
                   PROVE  MergeInv'
        BY <2>3 DEF MergeInv
      <4>1. \A m : m = pending.level => Contents(m)' = Contents(m)
        BY <2>1, <2>2, PendingFacts, RecordsOfKept DEF LevelsInv, PendingShape, PendingMerges, NoCall
      <4>2. \E i \in 1..Len(order') - 1 : MergedPair(i)'
        BY <2>1, <2>3, PairKept DEF PendingInv, MergeInv
      <4> QED
        BY <2>1, <2>2, <2>3, <4>1, <4>2 DEF PendingInv, MergeInv
    <3> QED
      BY <2>1, <2>2, <2>3, <3>1, <3>2 DEF PendingInv
  <2> QED
    BY <2>1, <2>2, <2>3, <2>4, <2>5, WorkKeeps DEF LevelsInv, DeclaredInv
<1> QED
  BY <1>1, <1>2, <1>3, <1>4, <1>5, <1>6, <1>7, <1>8 DEF WNext

LEMMA RunnerInvariant ==
  ASSUME RunnerClient
  PROVE  WSpec => []RunnerInv
<1>1. RunnerInv /\ [WNext]_allVars => RunnerInv'
  BY RunnerInvStep
<1> QED
  BY RunnerInit, <1>1, PTL DEF WSpec

\* Whatever the runner has built, merged and seen fail, _verify_state passes
\* between two of its calls.
THEOREM VerificationAlwaysPasses ==
  ASSUME RunnerClient
  PROVE  WSpec => []VerificationPasses
<1>1. RunnerInv => VerificationPasses
  <2> SUFFICES ASSUME RunnerInv, pending = NoCall
               PROVE  /\ {LevelAt(i) : i \in DOMAIN order} = DOMAIN levels \ orphans
                      /\ \A r \in oldRefs : refs[r] \in retired
                      /\ \A i \in DOMAIN order : LET l == LevelAt(i) IN Packed(l) /\ Increasing(l) /\ order[i].map = Contents(l)
                      /\ \A l \in DOMAIN levels : l \in queryable <=> l \in DOMAIN pgm
    BY DEF VerificationPasses
  <2>1. Coming = {} /\ Gone = {}
    BY PendingFacts DEF RunnerInv, PendingShape
  <2>2. {LevelAt(i) : i \in DOMAIN order} = DOMAIN levels \ orphans
    BY <2>1, StackFacts DEF RunnerInv, LevelsInv, Bound
  <2>3. ASSUME NEW i \in DOMAIN order
        PROVE  Packed(LevelAt(i)) /\ Increasing(LevelAt(i)) /\ order[i].map = Contents(LevelAt(i))
    <3>1. LevelAt(i) \in DOMAIN levels /\ TypeOK
      BY <2>2, EngineFacts DEF RunnerInv, Registered
    <3>2. PICK e \in Datasets : PackedAs(LevelAt(i), e)
      BY <3>1 DEF RunnerInv, EngineInv, PackedInv, LevelsPacked
    <3>3. order[i].map = Contents(LevelAt(i))
      BY <2>1 DEF RunnerInv, MapsInv
    <3> QED
      BY <3>1, <3>2, <3>3, PackedCanonical
  <2> QED
    BY <2>1, <2>2, <2>3 DEF RunnerInv, RetiredInv, DeclaredInv
<1> QED
  BY <1>1, RunnerInvariant, PTL

-----------------------------------------------------------------------------
(* Queries. *)

\* What lookup_levels finds is what the oracle finds, in the same level.
LEMMA LookupFinds ==
  ASSUME RunnerInv, pending = NoCall, NEW k \in Keys, NEW last \in 0..Len(order),
         \A i \in DOMAIN order : Occupied(i) => LevelAt(i) \in DOMAIN pgm,
         LookupLevels(k, last)
  PROVE  /\ OracleHit(k) = IF last = 0 THEN {} ELSE {last}
         /\ EngineValues(k, last) = OracleValues(k)
<1>1. Gone = {}
  BY PendingFacts DEF RunnerInv, PendingShape
<1>2. \A i \in DOMAIN order : /\ order[i].map = Contents(LevelAt(i))
                             /\ DOMAIN order[i].map = KeysOf(LevelAt(i))
  BY <1>1 DEF RunnerInv, MapsInv, Contents
<1>3. \A i \in DOMAIN order : ~Occupied(i) => k \notin DOMAIN order[i].map
  BY <1>2 DEF Occupied, KeysOf, BlocksOf
<1>4. LookupExact
  BY ExactLookups DEF RunnerInv, EngineInv
<1>5. \A i \in DOMAIN order : Occupied(i) /\ MayHit(i, k) => k \in DOMAIN order[i].map
  BY <1>2, <1>4 DEF LookupExact, MayHit
<1>6. \A i \in DOMAIN order : Occupied(i) /\ MayMiss(i, k) => k \notin DOMAIN order[i].map
  BY <1>2, <1>4 DEF LookupExact, MayMiss
<1>7. DOMAIN order = 1..Len(order) /\ Len(order) \in Nat
  BY StackFacts DEF RunnerInv
<1>8. CASE last = 0
  <2>1. \A i \in DOMAIN order : k \notin DOMAIN order[i].map
    BY <1>3, <1>6, <1>8 DEF LookupLevels
  <2>2. OracleHit(k) = {}
    BY <2>1 DEF OracleHit
  <2> QED
    BY <1>8, <2>2 DEF EngineValues, OracleValues
<1>9. CASE last # 0
  <2>1. last \in DOMAIN order /\ k \in DOMAIN order[last].map
    BY <1>5, <1>7, <1>9 DEF LookupLevels
  <2>2. \A i \in 1..last - 1 : i \in DOMAIN order /\ k \notin DOMAIN order[i].map
    <3>1. \A i \in 1..last - 1 : i \in DOMAIN order
      BY <1>7, <2>1
    <3> QED
      BY <1>3, <1>6, <1>9, <3>1 DEF LookupLevels
  <2>3. OracleHit(k) = {last}
    <3>1. \A i \in 1..Len(order) : i = last \/ i \in 1..last - 1 \/ last \in 1..i - 1
      BY <1>7, <2>1
    <3> QED
      BY <1>7, <2>1, <2>2, <3>1 DEF OracleHit
  <2>4. EngineValues(k, last) = {order[last].map[k]}
    BY <1>2, <1>9, <2>1 DEF EngineValues
  <2> QED
    BY <1>9, <2>3, <2>4 DEF OracleValues
<1> QED
  BY <1>8, <1>9

LEMMA SearchedAgree ==
  ASSUME RunnerInv, NonEmptyInv, pending = NoCall, NEW k \in Keys, NEW last \in 0..Len(order),
         OracleHit(k) = IF last = 0 THEN {} ELSE {last}
  PROVE  EngineSearched(last) = OracleSearched(k)
<1>1. Gone = {}
  BY PendingFacts DEF RunnerInv, PendingShape
<1>2. \A i \in DOMAIN order : Occupied(i)
  <2> SUFFICES ASSUME NEW i \in DOMAIN order, ~Occupied(i)
               PROVE  FALSE
    OBVIOUS
  <2>1. order[i].map = Contents(LevelAt(i)) /\ DOMAIN order[i].map = KeysOf(LevelAt(i))
    BY <1>1 DEF RunnerInv, MapsInv, Contents
  <2>2. DOMAIN order[i].map = {}
    BY <2>1 DEF Occupied, KeysOf, BlocksOf
  <2>3. order[i].map = EmptyDict
    BY <2>1, <2>2 DEF Contents, EmptyDict
  <2> QED
    BY <2>3 DEF NonEmptyInv
<1>3. last = 0 => OracleSearched(k) = DOMAIN order /\ EngineSearched(last) = DOMAIN order
  BY <1>2 DEF OracleSearched, EngineSearched
<1>4. last # 0 => OracleSearched(k) = {i \in DOMAIN order : i <= last}
                  /\ EngineSearched(last) = {i \in DOMAIN order : i <= last}
  BY <1>2 DEF OracleSearched, EngineSearched
<1> QED
  BY <1>3, <1>4

LEMMA OverlayNonEmpty ==
  ASSUME NEW f, NEW g, f \in Datasets, f # EmptyDict
  PROVE  Overlay(f, g) # EmptyDict
<1>1. DOMAIN f # {}
  BY DatasetIff DEF EmptyDict
<1> QED
  BY <1>1 DEF Overlay, EmptyDict

\* The stack after a write, and after a merge of the i-th and the next level.
GrownBy(o, d, p) ==
  /\ DOMAIN p = 1..Len(o) + 1 /\ p[1].map = d
  /\ \A j \in 1..Len(o) : p[j + 1] = o[j]

MergedAt(o, i, d, p) ==
  /\ DOMAIN p = 1..Len(o) - 1 /\ p[i].map = d
  /\ \A j \in 1..i - 1 : p[j] = o[j]
  /\ \A j \in i + 1..Len(o) - 1 : p[j] = o[j + 1]

LEMMA ReturnedBuild ==
  ASSUME RunnerInv, ReturnBuild
  PROVE  /\ pending \in PendingBuilds /\ pending # NoCall
         /\ GrownBy(order, pending.map, order')
<1> DEFINE e == [ref |-> Len(refs) + 1, map |-> pending.map]
<1>1. order' = <<e>> \o order /\ pending \in PendingBuilds /\ pending # NoCall
  BY PendingFacts DEF ReturnBuild, AddNewest, Waiting, RunnerInv, PendingShape, PendingBuilds, NoCall
<1>2. e.map = pending.map
  OBVIOUS
<1> HIDE DEF e
<1> DEFINE all == {e} \cup [ref : Nat, map : Datasets]
<1>3. order \in Seq(all) /\ e \in all
  <2>1. order \in Seq([ref : Nat, map : Datasets])
    BY DEF RunnerInv, StackInv
  <2> DEFINE entries == [ref : Nat, map : Datasets]
  <2> HIDE DEF entries
  <2>2. order \in Seq(entries)
    BY <2>1 DEF entries
  <2>3. order \in Seq({e} \cup entries)
    BY <2>2
  <2> QED
    BY <2>3 DEF entries
<1> HIDE DEF all
<1>4. /\ order' \in Seq(all) /\ Len(order') = Len(order) + 1 /\ order'[1] = e
      /\ \A j \in 1..Len(order) : order'[j + 1] = order[j]
  BY <1>1, <1>3, Prepended
<1>5. DOMAIN order' = 1..Len(order) + 1
  BY <1>4
<1> QED
  BY <1>1, <1>2, <1>4, <1>5 DEF GrownBy

LEMMA ReturnedMerge ==
  ASSUME RunnerInv, ReturnMerge
  PROVE  /\ pending \in PendingMerges /\ pending # NoCall
         /\ \E i \in 1..Len(order) - 1 : MergedPair(i) /\ MergedAt(order, i, pending.map, order')
<1> DEFINE e == [ref |-> Len(refs) + 1, map |-> pending.map]
           p == Position(pending.newer)
<1>1. order' = ReplaceAt(RemoveAt(order, p + 1), p, e) /\ pending \in PendingMerges
      /\ pending # NoCall
  BY PendingFacts DEF ReturnMerge, Waiting, RunnerInv, PendingShape, PendingMerges, NoCall
<1>2. PICK i \in 1..Len(order) - 1 : MergedPair(i)
  BY <1>1 DEF RunnerInv, PendingInv, MergeInv
<1>3. e.map = pending.map
  OBVIOUS
<1>4. p = i /\ i \in Nat
  <2>1. /\ DOMAIN order = 1..Len(order) /\ Len(order) \in Nat
        /\ \A j, k \in DOMAIN order : LevelAt(j) = LevelAt(k) => j = k
    BY StackFacts DEF RunnerInv
  <2>2. i \in DOMAIN order /\ i \in Nat
    BY <2>1
  <2> QED
    BY <1>2, <2>1, <2>2 DEF Position, MergedPair
<1> HIDE DEF e
<1> DEFINE all == {e} \cup [ref : Nat, map : Datasets]
<1>5. order \in Seq(all) /\ e \in all
  <2>1. order \in Seq([ref : Nat, map : Datasets])
    BY DEF RunnerInv, StackInv
  <2> DEFINE entries == [ref : Nat, map : Datasets]
  <2> HIDE DEF entries
  <2>2. order \in Seq(entries)
    BY <2>1 DEF entries
  <2>3. order \in Seq({e} \cup entries)
    BY <2>2
  <2> QED
    BY <2>3 DEF entries
<1> HIDE DEF all
<1>6. PICK k \in Nat : k = i + 1
  BY <1>4
<1>7. order' = ReplaceAt(RemoveAt(order, k), i, e)
  BY <1>1, <1>4, <1>6
<1> HIDE DEF p
<1>8. CollapsedTo(all, order, i, e, order')
  BY <1>2, <1>5, <1>6, <1>7, Collapsed
<1>9. order' \in Seq(all) /\ Len(order') = Len(order) - 1
  BY <1>8 DEF CollapsedTo
<1>10. DOMAIN order' = 1..Len(order) - 1
  BY <1>9
<1>11. MergedAt(order, i, pending.map, order')
  BY <1>3, <1>8, <1>10 DEF CollapsedTo, MergedAt
<1> QED
  BY <1>1, <1>2, <1>11

LEMMA AgreeStep ==
  ASSUME RunnerClient, ~AllowEmpty, RunnerInv, AgreeInv, [WNext]_allVars
  PROVE  AgreeInv'
<1>1. /\ DOMAIN order = 1..Len(order) /\ Len(order) \in Nat
      /\ \A i \in DOMAIN order : order[i].map \in Datasets /\ order[i].map # EmptyDict
      /\ mismatches = 0
  BY StackFacts DEF RunnerInv, AgreeInv, NonEmptyInv
<1>2. ASSUME NEW d \in Batches, Build(d)
      PROVE  AgreeInv'
  BY <1>1, <1>2 DEF Build, Call, AgreeInv, NonEmptyInv
<1>3. CASE ReturnBuild
  <2>1. GrownBy(order, pending.map, order') /\ pending.map # EmptyDict
    BY <1>3, ReturnedBuild DEF AgreeInv, NonEmptyInv
  <2>2. \A j \in 1..Len(order) + 1 : j = 1 \/ (j - 1 \in 1..Len(order) /\ j = (j - 1) + 1)
    BY <1>1
  <2>3. ASSUME NEW j \in 1..Len(order) + 1
        PROVE  order'[j].map # EmptyDict
    <3>1. CASE j = 1
      BY <2>1, <3>1 DEF GrownBy
    <3>2. CASE j - 1 \in 1..Len(order) /\ j = (j - 1) + 1
      <4>1. PICK i \in 1..Len(order) : j = i + 1
        BY <3>2
      <4>2. order'[j] = order[i]
        BY <2>1, <4>1 DEF GrownBy
      <4> QED
        BY <1>1, <4>2
    <3> QED
      BY <2>2, <3>1, <3>2
  <2>4. DOMAIN order' = 1..Len(order) + 1
    BY <2>1 DEF GrownBy
  <2>5. \A j \in DOMAIN order' : order'[j].map # EmptyDict
    BY <2>3, <2>4
  <2> QED
    BY <1>1, <1>3, <2>5 DEF ReturnBuild, AgreeInv, NonEmptyInv
<1>4. ASSUME NEW l \in DOMAIN levels, BuildPgm(l)
      PROVE  AgreeInv'
  BY <1>4 DEF BuildPgm, AgreeInv, NonEmptyInv
<1>5. ASSUME NEW newer \in DOMAIN levels, NEW older \in DOMAIN levels, Merge(newer, older)
      PROVE  AgreeInv'
  <2>1. PICK i \in 1..Len(order) - 1 : LevelAt(i) = newer /\ LevelAt(i + 1) = older
    BY <1>5 DEF Merge, Adjacent
  <2>2. i \in DOMAIN order /\ i + 1 \in DOMAIN order
    BY <1>1
  <2>3. Position(newer) = i
    BY <2>1, <2>2, StackFacts DEF Position, RunnerInv
  <2>4. ExpectedUnion(newer, older) # EmptyDict
    BY <1>1, <2>2, <2>3, OverlayNonEmpty DEF ExpectedUnion
  <2>5. pending'.map = ExpectedUnion(newer, older)
    BY <1>5 DEF Merge, Call
  <2> QED
    BY <1>1, <1>5, <2>4, <2>5 DEF Merge, AgreeInv, NonEmptyInv
<1>6. CASE ReturnMerge
  <2>1. mismatches' = mismatches + 0 /\ pending' = NoCall
    BY <1>6, ReturnMergeKeeps DEF ReturnMerge
  <2>2. PICK i \in 1..Len(order) - 1 : MergedAt(order, i, pending.map, order')
    BY <1>6, ReturnedMerge
  <2>3. pending.map # EmptyDict
    BY <1>6, ReturnedMerge DEF AgreeInv, NonEmptyInv
  <2>4. \A j \in 1..Len(order) - 1 : \/ j = i
                                     \/ j \in 1..i - 1 /\ j \in 1..Len(order)
                                     \/ j \in i + 1..Len(order) - 1 /\ j + 1 \in 1..Len(order)
    BY <1>1
  <2>5. \A j \in DOMAIN order' : order'[j].map # EmptyDict
    <3>1. ASSUME NEW j \in 1..Len(order) - 1
          PROVE  order'[j].map # EmptyDict
      <4>1. CASE j = i
        BY <2>2, <2>3, <4>1 DEF MergedAt
      <4>2. CASE j \in 1..i - 1 /\ j \in 1..Len(order)
        BY <1>1, <2>2, <4>2 DEF MergedAt
      <4>3. CASE j \in i + 1..Len(order) - 1 /\ j + 1 \in 1..Len(order)
        <5>1. order'[j] = order[j + 1]
          BY <2>2, <4>3 DEF MergedAt
        <5> QED
          BY <1>1, <4>3, <5>1
      <4> QED
        BY <2>4, <4>1, <4>2, <4>3
    <3>2. DOMAIN order' = 1..Len(order) - 1
      BY <2>2 DEF MergedAt
    <3> QED
      BY <3>1, <3>2
  <2> QED
    BY <1>1, <2>1, <2>5 DEF AgreeInv, NonEmptyInv
<1>7. ASSUME NEW k \in Keys, Query(k)
      PROVE  AgreeInv'
  <2>1. PICK last \in 0..Len(order) :
          /\ LookupLevels(k, last)
          /\ mismatches' = mismatches + (IF /\ EngineValues(k, last) = OracleValues(k)
                                            /\ EngineSearched(last) = OracleSearched(k)
                                         THEN 0 ELSE 1)
    BY <1>7 DEF Query
  <2>2. /\ pending = NoCall /\ UNCHANGED <<order, pending>>
        /\ \A i \in DOMAIN order : Occupied(i) => LevelAt(i) \in DOMAIN pgm
    BY <1>7 DEF Query, Free
  <2>3. /\ OracleHit(k) = IF last = 0 THEN {} ELSE {last}
        /\ EngineValues(k, last) = OracleValues(k)
    BY <2>1, <2>2, LookupFinds
  <2>4. EngineSearched(last) = OracleSearched(k)
    BY <2>2, <2>3, SearchedAgree DEF AgreeInv
  <2> QED
    BY <1>1, <2>1, <2>2, <2>3, <2>4 DEF AgreeInv, NonEmptyInv
<1>8. CASE EngineStep
  <2>1. UNCHANGED <<order, mismatches>>
    BY <1>8 DEF EngineStep
  <2>2. pending' = pending \/ pending' = NoCall \/ pending' = [pending EXCEPT !.done = TRUE]
    BY <1>8, EngineFacts, EngineStepCases DEF RunnerInv, Registered, Quiet, Done
  <2>3. pending' # NoCall => pending # NoCall /\ pending'.map = pending.map
    <3>1. pending \in {NoCall} \cup PendingBuilds \cup PendingMerges
      BY DEF RunnerInv, PendingInv
    <3>2. [NoCall EXCEPT !.done = TRUE] = NoCall
      BY DEF NoCall
    <3> QED
      BY <2>2, <3>1, <3>2 DEF PendingBuilds, PendingMerges
  <2> QED
    BY <1>1, <2>1, <2>3 DEF AgreeInv, NonEmptyInv
<1>9. CASE UNCHANGED allVars
  BY <1>1, <1>9 DEF allVars, runner, AgreeInv, NonEmptyInv
<1> QED
  BY <1>2, <1>3, <1>4, <1>5, <1>6, <1>7, <1>8, <1>9 DEF WNext

\* For every stack of levels, every history of writes, merges and failures and
\* every prediction of every index, the engine finds what the oracle finds, in
\* the levels the oracle searches, and merges what the oracle expects.
THEOREM QueriesAgree ==
  ASSUME RunnerClient, ~AllowEmpty
  PROVE  WSpec => []NoMismatch
<1>1. WInit => AgreeInv
  BY DEF WInit, AgreeInv, NonEmptyInv
<1>2. RunnerInv /\ AgreeInv /\ [WNext]_allVars => AgreeInv'
  BY AgreeStep
<1>3. AgreeInv => NoMismatch
  BY DEF AgreeInv, NoMismatch
<1> QED
  BY <1>1, <1>2, <1>3, RunnerInvariant, PTL DEF WSpec

-----------------------------------------------------------------------------
(* One last-write-wins map. *)

\* The newest entry of the stack o that has key k is the i-th.
NewestAt(o, k, i) ==
  i \in DOMAIN o /\ k \in DOMAIN o[i].map /\ \A j \in 1..i - 1 : k \notin DOMAIN o[j].map

KeysOfStack(o) == UNION {DOMAIN o[i].map : i \in DOMAIN o}

\* v maps every key of the stack o to its newest value.
Reads(o, v) ==
  /\ DOMAIN v = KeysOfStack(o) /\ v = [k \in DOMAIN v |-> v[k]]
  /\ \A k, i : NewestAt(o, k, i) => v[k] = o[i].map[k]

LEMMA NewestExists ==
  ASSUME NEW o, DOMAIN o = 1..Len(o), Len(o) \in Nat, NEW k \in KeysOfStack(o)
  PROVE  \E i : NewestAt(o, k, i)
<1> DEFINE T == {i \in DOMAIN o : k \in DOMAIN o[i].map}
<1>1. T \in SUBSET Nat /\ T # {}
  BY DEF KeysOfStack
<1>2. PICK i \in T : \A j \in T : i <= j
  BY <1>1, LeastNat
<1>3. \A j \in 1..i - 1 : j \in DOMAIN o /\ ~(i <= j)
  BY <1>1, <1>2
<1> QED
  BY <1>2, <1>3 DEF NewestAt

LEMMA ReadsUnique ==
  ASSUME NEW o, DOMAIN o = 1..Len(o), Len(o) \in Nat, NEW v, NEW w, Reads(o, v), Reads(o, w)
  PROVE  v = w
<1>1. DOMAIN v = DOMAIN w /\ v = [k \in DOMAIN v |-> v[k]] /\ w = [k \in DOMAIN w |-> w[k]]
  BY DEF Reads
<1>2. ASSUME NEW k \in DOMAIN v
      PROVE  v[k] = w[k]
  <2>1. PICK i : NewestAt(o, k, i)
    BY NewestExists DEF Reads
  <2> QED
    BY <2>1 DEF Reads
<1> QED
  BY <1>1, <1>2

LEMMA ReadsGrown ==
  ASSUME NEW o, DOMAIN o = 1..Len(o), Len(o) \in Nat, NEW v, Reads(o, v),
         NEW d, NEW p, GrownBy(o, d, p)
  PROVE  Reads(p, Overlay(d, v))
<1> DEFINE u == Overlay(d, v)
<1>1. /\ DOMAIN u = DOMAIN d \cup DOMAIN v
      /\ u = [k \in DOMAIN u |-> u[k]]
      /\ \A k \in DOMAIN d : u[k] = d[k]
      /\ \A k \in DOMAIN v \ DOMAIN d : u[k] = v[k]
  BY DEF Overlay
<1> HIDE DEF u
<1>2. /\ DOMAIN p = 1..Len(o) + 1 /\ 1 \in DOMAIN p /\ p[1].map = d
      /\ \A j \in 1..Len(o) : j + 1 \in DOMAIN p /\ p[j + 1] = o[j]
      /\ \A j \in DOMAIN p : j = 1 \/ (j - 1 \in 1..Len(o) /\ j = (j - 1) + 1)
  BY DEF GrownBy
<1>3. KeysOfStack(p) = DOMAIN d \cup KeysOfStack(o)
  <2>1. ASSUME NEW k \in KeysOfStack(p)
        PROVE  k \in DOMAIN d \cup KeysOfStack(o)
    <3>1. PICK j \in DOMAIN p : k \in DOMAIN p[j].map
      BY <2>1 DEF KeysOfStack
    <3>2. CASE j = 1
      BY <1>2, <3>1, <3>2
    <3>3. CASE j # 1
      <4>1. PICK i \in 1..Len(o) : j = i + 1
        BY <1>2, <3>3
      <4>2. p[j] = o[i]
        BY <1>2, <4>1
      <4> QED
        BY <3>1, <4>2 DEF KeysOfStack
    <3> QED
      BY <3>2, <3>3
  <2>2. ASSUME NEW i \in DOMAIN o, NEW k \in DOMAIN o[i].map
        PROVE  k \in KeysOfStack(p)
    <3>1. PICK j \in DOMAIN p : p[j] = o[i]
      BY <1>2
    <3> QED
      BY <3>1 DEF KeysOfStack
  <2>3. \A k \in DOMAIN d : k \in KeysOfStack(p)
    BY <1>2 DEF KeysOfStack
  <2>4. \A k \in KeysOfStack(o) : k \in KeysOfStack(p)
    BY <2>2 DEF KeysOfStack
  <2> QED
    BY <2>1, <2>3, <2>4
<1>4. ASSUME NEW k, NEW j, NewestAt(p, k, j)
      PROVE  u[k] = p[j].map[k]
  <2>1. j \in DOMAIN p /\ k \in DOMAIN p[j].map /\ \A m \in 1..j - 1 : k \notin DOMAIN p[m].map
    BY <1>4 DEF NewestAt
  <2>2. CASE j = 1
    BY <1>1, <1>2, <2>1, <2>2
  <2>3. CASE j # 1
    <3>1. PICK i \in 1..Len(o) : j = i + 1
      BY <1>2, <2>1, <2>3
    <3>2. p[j] = o[i] /\ i \in Nat
      BY <1>2, <3>1
    <3>3. k \notin DOMAIN d
      <4>1. 1 \in 1..j - 1
        BY <3>1
      <4> QED
        BY <1>2, <2>1, <4>1
    <3>4. ASSUME NEW m \in 1..i - 1
          PROVE  k \notin DOMAIN o[m].map
      <4>1. m \in 1..Len(o) /\ m + 1 \in 1..j - 1
        BY <3>1
      <4>2. p[m + 1] = o[m]
        BY <1>2, <4>1
      <4> QED
        BY <2>1, <4>1, <4>2
    <3>5. NewestAt(o, k, i)
      BY <2>1, <3>1, <3>2, <3>4 DEF NewestAt
    <3>6. k \in DOMAIN v
      BY <2>1, <3>1, <3>2 DEF Reads, KeysOfStack
    <3> QED
      BY <1>1, <3>2, <3>3, <3>5, <3>6 DEF Reads
  <2> QED
    BY <2>2, <2>3
<1>5. DOMAIN v = KeysOfStack(o)
  BY DEF Reads
<1> QED
  BY <1>1, <1>3, <1>4, <1>5 DEF Reads, u

LEMMA ReadsMerged ==
  ASSUME NEW o, DOMAIN o = 1..Len(o), Len(o) \in Nat, NEW v, Reads(o, v),
         NEW i \in 1..Len(o) - 1, NEW d, d = Overlay(o[i].map, o[i + 1].map),
         NEW p, MergedAt(o, i, d, p)
  PROVE  Reads(p, v)
<1> DEFINE n == Len(o)
           f == o[i].map
           g == o[i + 1].map
<1>1. /\ i \in Nat /\ n \in Nat /\ i \in 1..n /\ i + 1 \in 1..n /\ i \in 1..n - 1
      /\ DOMAIN d = DOMAIN f \cup DOMAIN g
      /\ \A k \in DOMAIN f : d[k] = f[k]
      /\ \A k \in DOMAIN g \ DOMAIN f : d[k] = g[k]
  BY DEF Overlay
<1>2. /\ DOMAIN p = 1..n - 1 /\ p[i].map = d
      /\ \A j \in 1..i - 1 : p[j] = o[j]
      /\ \A j \in i + 1..n - 1 : p[j] = o[j + 1]
  BY DEF MergedAt
<1> HIDE DEF n
<1>3. \A j \in 1..n - 1 : j \in 1..i - 1 \/ j = i \/ j \in i + 1..n - 1
  BY <1>1
<1>4. \A j \in 1..n : j \in 1..i - 1 \/ j = i \/ j = i + 1 \/ j - 1 \in i + 1..n - 1
  BY <1>1
<1>5. KeysOfStack(p) = KeysOfStack(o)
  <2>1. ASSUME NEW j \in 1..n - 1, NEW k \in DOMAIN p[j].map
        PROVE  \E m \in 1..n : k \in DOMAIN o[m].map
    <3>1. CASE j \in 1..i - 1
      <4>1. j \in 1..n
        BY <1>1, <3>1
      <4> QED
        BY <1>2, <2>1, <3>1, <4>1
    <3>2. CASE j = i
      BY <1>1, <1>2, <2>1, <3>2
    <3>3. CASE j \in i + 1..n - 1
      <4>1. j + 1 \in 1..n
        BY <1>1, <3>3
      <4>2. p[j] = o[j + 1]
        BY <1>2, <3>3
      <4> QED
        BY <2>1, <4>1, <4>2
    <3> QED
      BY <1>3, <3>1, <3>2, <3>3
  <2>2. ASSUME NEW m \in 1..n, NEW k \in DOMAIN o[m].map
        PROVE  \E j \in 1..n - 1 : k \in DOMAIN p[j].map
    <3>1. CASE m \in 1..i - 1
      <4>1. m \in 1..n - 1
        BY <1>1, <3>1
      <4> QED
        BY <1>2, <2>2, <3>1, <4>1
    <3>2. CASE m = i \/ m = i + 1
      BY <1>1, <1>2, <2>2, <3>2
    <3>3. CASE m - 1 \in i + 1..n - 1
      <4>1. PICK j \in Nat : j = m - 1
        BY <1>1, <3>3
      <4>2. j \in i + 1..n - 1 /\ j \in 1..n - 1 /\ j + 1 = m
        BY <1>1, <3>3, <4>1
      <4>3. p[j] = o[j + 1]
        BY <1>2, <4>2
      <4> QED
        BY <2>2, <4>2, <4>3
    <3> QED
      BY <1>4, <3>1, <3>2, <3>3
  <2>3. DOMAIN o = 1..n /\ DOMAIN p = 1..n - 1
    BY <1>2 DEF n
  <2>4. ASSUME NEW k
        PROVE  k \in KeysOfStack(p) <=> \E j \in 1..n - 1 : k \in DOMAIN p[j].map
    BY <2>3 DEF KeysOfStack
  <2>5. ASSUME NEW k
        PROVE  k \in KeysOfStack(o) <=> \E m \in 1..n : k \in DOMAIN o[m].map
    BY <2>3 DEF KeysOfStack
  <2>6. \A k : k \in KeysOfStack(p) <=> k \in KeysOfStack(o)
    BY <2>1, <2>2, <2>4, <2>5
  <2> QED
    BY <2>6
<1>6. ASSUME NEW k, NEW j, NewestAt(p, k, j)
      PROVE  v[k] = p[j].map[k]
  <2>1. j \in 1..n - 1 /\ k \in DOMAIN p[j].map /\ \A m \in 1..j - 1 : k \notin DOMAIN p[m].map
    BY <1>2, <1>6 DEF NewestAt
  <2>2. DOMAIN o = 1..n
    BY DEF n
  <2>3. CASE j \in 1..i - 1
    <3>1. j \in 1..n /\ \A m \in 1..j - 1 : m \in 1..i - 1
      BY <1>1, <2>3
    <3>2. NewestAt(o, k, j)
      BY <1>2, <2>1, <2>2, <2>3, <3>1 DEF NewestAt
    <3> QED
      BY <1>2, <2>3, <3>2 DEF Reads
  <2>4. CASE j = i
    <3>1. \A m \in 1..i - 1 : k \notin DOMAIN o[m].map
      BY <1>2, <2>1, <2>4
    <3>2. CASE k \in DOMAIN f
      <4>1. NewestAt(o, k, i)
        BY <1>1, <2>2, <3>1, <3>2 DEF NewestAt
      <4> QED
        BY <1>1, <1>2, <2>4, <3>2, <4>1 DEF Reads
    <3>3. CASE k \notin DOMAIN f
      <4>1. \A m \in 1..(i + 1) - 1 : m = i \/ m \in 1..i - 1
        BY <1>1
      <4>2. k \in DOMAIN g
        BY <1>1, <1>2, <2>1, <2>4, <3>3
      <4>3. NewestAt(o, k, i + 1)
        BY <1>1, <2>2, <3>1, <3>3, <4>1, <4>2 DEF NewestAt
      <4> QED
        BY <1>1, <1>2, <2>4, <3>3, <4>2, <4>3 DEF Reads
    <3> QED
      BY <3>2, <3>3
  <2>5. CASE j \in i + 1..n - 1
    <3>1. j + 1 \in 1..n /\ p[j] = o[j + 1]
      BY <1>1, <1>2, <2>5
    <3>2. ASSUME NEW m \in 1..(j + 1) - 1
          PROVE  k \notin DOMAIN o[m].map
      <4>1. CASE m \in 1..i - 1
        <5>1. m \in 1..j - 1
          BY <1>1, <2>5, <4>1
        <5> QED
          BY <1>2, <2>1, <4>1, <5>1
      <4>2. CASE m = i \/ m = i + 1
        <5>1. i \in 1..j - 1
          BY <1>1, <2>5
        <5> QED
          BY <1>1, <1>2, <2>1, <4>2, <5>1
      <4>3. CASE m \notin 1..i - 1 /\ m # i /\ m # i + 1
        <5>1. PICK a \in Nat : a = m - 1
          BY <1>1, <4>3
        <5>2. a \in i + 1..n - 1 /\ a \in 1..j - 1 /\ a + 1 = m
          BY <1>1, <2>5, <4>3, <5>1
        <5>3. p[a] = o[a + 1]
          BY <1>2, <5>2
        <5> QED
          BY <2>1, <5>2, <5>3
      <4> QED
        BY <4>1, <4>2, <4>3
    <3>3. NewestAt(o, k, j + 1)
      BY <2>1, <2>2, <3>1, <3>2 DEF NewestAt
    <3> QED
      BY <3>1, <3>3 DEF Reads
  <2> QED
    BY <1>3, <2>1, <2>3, <2>4, <2>5
<1> QED
  BY <1>5, <1>6 DEF Reads

-----------------------------------------------------------------------------
\* The first of the maps c that has key k is the i-th.
FirstWith(c, k, i) == k \in DOMAIN c[i] /\ \A j \in 1..i - 1 : k \notin DOMAIN c[j]

KeysOfMaps(D, c) == UNION {DOMAIN c[i] : i \in D}

\* View, for the maps c at the positions D.
Newest(D, c) == [k \in KeysOfMaps(D, c) |-> c[CHOOSE i \in D : FirstWith(c, k, i)][k]]

LEMMA NewestReads ==
  ASSUME NEW o, NEW c, NEW D, D = 1..Len(o), Len(o) \in Nat, KeysOfMaps(D, c) = KeysOfStack(o),
         \A k, i : \A m \in D : NewestAt(o, k, i) /\ FirstWith(c, k, m) => c[m][k] = o[i].map[k]
  PROVE  Reads(o, Newest(D, c))
<1>1. ASSUME NEW k \in KeysOfMaps(D, c)
      PROVE  \E m \in D : FirstWith(c, k, m)
  <2> DEFINE T == {i \in D : k \in DOMAIN c[i]}
  <2>1. T \in SUBSET Nat /\ T # {}
    BY DEF KeysOfMaps
  <2>2. PICK i \in T : \A j \in T : i <= j
    BY <2>1, LeastNat
  <2>3. \A j \in 1..i - 1 : j \in D /\ ~(i <= j)
    BY <2>1, <2>2
  <2> QED
    BY <2>2, <2>3 DEF FirstWith
<1>2. ASSUME NEW k, NEW i, NewestAt(o, k, i), k \in KeysOfMaps(D, c)
      PROVE  Newest(D, c)[k] = o[i].map[k]
  <2>1. Newest(D, c)[k] = c[CHOOSE m \in D : FirstWith(c, k, m)][k]
    BY <1>2 DEF Newest
  <2>2. PICK m \in D : m = (CHOOSE x \in D : FirstWith(c, k, x)) /\ FirstWith(c, k, m)
    BY <1>1, <1>2
  <2> QED
    BY <1>2, <2>1, <2>2
<1>3. \A k, i : NewestAt(o, k, i) => k \in KeysOfMaps(D, c)
  BY DEF NewestAt, KeysOfStack
<1>4. /\ DOMAIN Newest(D, c) = KeysOfStack(o)
      /\ Newest(D, c) = [k \in DOMAIN Newest(D, c) |-> Newest(D, c)[k]]
  BY DEF Newest
<1> QED
  BY <1>2, <1>3, <1>4 DEF Reads

\* Maps that are those of the stack.
LEMMA SameReads ==
  ASSUME NEW o, NEW c, DOMAIN o = 1..Len(o), NEW D, D = 1..Len(o), Len(o) \in Nat,
         \A i \in 1..Len(o) : c[i] = o[i].map
  PROVE  Reads(o, Newest(D, c))
<1>1. ASSUME NEW k
      PROVE  k \in KeysOfMaps(D, c) <=> k \in KeysOfStack(o)
  BY DEF KeysOfMaps, KeysOfStack
<1>2. ASSUME NEW k, NEW i, NEW m \in D, NewestAt(o, k, i), FirstWith(c, k, m)
      PROVE  c[m][k] = o[i].map[k]
  <2>1. i \in 1..Len(o) /\ k \in DOMAIN o[i].map /\ \A j \in 1..i - 1 : k \notin DOMAIN o[j].map
    BY <1>2 DEF NewestAt
  <2>2. m \in 1..Len(o) /\ k \in DOMAIN c[m] /\ \A j \in 1..m - 1 : k \notin DOMAIN c[j]
    BY <1>2 DEF FirstWith
  <2>3. m = i \/ m \in 1..i - 1 \/ i \in 1..m - 1
    BY <2>1, <2>2
  <2> QED
    BY <2>1, <2>2, <2>3
<1>3. KeysOfMaps(D, c) = KeysOfStack(o)
  BY <1>1
<1> QED
  BY <1>2, <1>3, NewestReads

\* Two neighbours that both show their union.
LEMMA PairReads ==
  ASSUME NEW o, NEW c, DOMAIN o = 1..Len(o), NEW D, D = 1..Len(o), Len(o) \in Nat,
         NEW p \in 1..Len(o) - 1, NEW u, u = Overlay(o[p].map, o[p + 1].map),
         c[p] = u, c[p + 1] = u,
         \A i \in 1..Len(o) : i # p /\ i # p + 1 => c[i] = o[i].map
  PROVE  Reads(o, Newest(D, c))
<1> DEFINE n == Len(o)
           f == o[p].map
           g == o[p + 1].map
<1>1. /\ p \in Nat /\ p \in 1..n /\ p + 1 \in 1..n /\ p \in 1..(p + 1) - 1
      /\ DOMAIN u = DOMAIN f \cup DOMAIN g
      /\ \A k \in DOMAIN f : u[k] = f[k]
      /\ \A k \in DOMAIN g \ DOMAIN f : u[k] = g[k]
  BY DEF Overlay
<1>2. ASSUME NEW k
      PROVE  k \in KeysOfMaps(D, c) <=> k \in KeysOfStack(o)
  <2>1. k \in KeysOfMaps(D, c) <=> \E i \in 1..n : k \in DOMAIN c[i]
    BY DEF KeysOfMaps
  <2>2. k \in KeysOfStack(o) <=> \E i \in 1..n : k \in DOMAIN o[i].map
    BY DEF KeysOfStack
  <2>3. ASSUME NEW i \in 1..n, k \in DOMAIN c[i]
        PROVE  \E j \in 1..n : k \in DOMAIN o[j].map
    BY <1>1, <2>3
  <2>4. ASSUME NEW i \in 1..n, k \in DOMAIN o[i].map
        PROVE  \E j \in 1..n : k \in DOMAIN c[j]
    <3>1. CASE i = p \/ i = p + 1
      BY <1>1, <2>4, <3>1
    <3>2. CASE i # p /\ i # p + 1
      BY <2>4, <3>2
    <3> QED
      BY <3>1, <3>2
  <2> QED
    BY <2>1, <2>2, <2>3, <2>4
<1>3. ASSUME NEW k, NEW i, NEW m \in D, NewestAt(o, k, i), FirstWith(c, k, m)
      PROVE  c[m][k] = o[i].map[k]
  <2>1. i \in 1..n /\ k \in DOMAIN o[i].map /\ \A j \in 1..i - 1 : k \notin DOMAIN o[j].map
    BY <1>3 DEF NewestAt
  <2>2. m \in 1..n /\ k \in DOMAIN c[m] /\ \A j \in 1..m - 1 : k \notin DOMAIN c[j]
    BY <1>3 DEF FirstWith
  <2>3. CASE i = p \/ i = p + 1
    <3>1. k \in DOMAIN u /\ u[k] = o[i].map[k]
      <4>1. CASE i = p
        BY <1>1, <2>1, <4>1
      <4>2. CASE i = p + 1
        <5>1. k \in DOMAIN g /\ k \notin DOMAIN f
          BY <1>1, <2>1, <4>2
        <5> QED
          BY <1>1, <4>2, <5>1
      <4> QED
        BY <2>3, <4>1, <4>2
    <3>2. m \notin 1..p - 1
      <4> SUFFICES ASSUME m \in 1..p - 1
                   PROVE  FALSE
        OBVIOUS
      <4>1. m \in 1..n /\ m # p /\ m # p + 1 /\ m \in 1..i - 1
        BY <1>1, <2>2, <2>3
      <4> QED
        BY <2>1, <2>2, <4>1
    <3>3. p \notin 1..m - 1
      BY <2>2, <3>1
    <3>4. m = p
      BY <1>1, <2>2, <3>2, <3>3
    <3> QED
      BY <3>1, <3>4
  <2>4. CASE i # p /\ i # p + 1
    <3>1. k \in DOMAIN c[i] /\ c[i] = o[i].map
      BY <2>1, <2>4
    <3>2. i \notin 1..m - 1
      BY <2>2, <3>1
    <3>3. ASSUME m \in 1..i - 1
          PROVE  FALSE
      <4>1. CASE m = p \/ m = p + 1
        <5>1. k \in DOMAIN f \/ k \in DOMAIN g
          BY <1>1, <2>2, <4>1
        <5>2. p \in 1..i - 1 /\ p + 1 \in 1..i - 1
          BY <1>1, <2>1, <2>4, <3>3, <4>1
        <5> QED
          BY <2>1, <5>1, <5>2
      <4>2. CASE m # p /\ m # p + 1
        BY <2>1, <2>2, <3>3, <4>2
      <4> QED
        BY <4>1, <4>2
    <3>4. m = i
      BY <2>1, <2>2, <3>2, <3>3
    <3> QED
      BY <3>1, <3>4
  <2> QED
    BY <2>3, <2>4
<1>4. KeysOfMaps(D, c) = KeysOfStack(o)
  BY <1>2
<1> QED
  BY <1>3, <1>4, NewestReads

\* A merge has been published and the oracle does not know it yet.
Published == pending.op = "merge" /\ (pending.done \/ job.call \in {"retire_newer", "retire_older"})

LEMMA PlanMaps ==
  ASSUME RunnerInv
  PROVE  /\ ~Published => \A i \in DOMAIN order : PlanContents[i] = order[i].map
         /\ Published => \E p \in 1..Len(order) - 1 :
              /\ pending.map = Overlay(order[p].map, order[p + 1].map)
              /\ PlanContents[p] = pending.map /\ PlanContents[p + 1] = pending.map
              /\ \A i \in DOMAIN order : i # p /\ i # p + 1 => PlanContents[i] = order[i].map
<1>1. /\ DOMAIN order = 1..Len(order) /\ Len(order) \in Nat
      /\ \A i, j \in DOMAIN order : LevelAt(i) = LevelAt(j) => i = j
  BY StackFacts DEF RunnerInv
<1>3. PendingShape
  BY PendingFacts DEF RunnerInv
<1>4. ASSUME ~Published
      PROVE  \A i \in DOMAIN order : PlanContents[i] = order[i].map
  <2>1. Gone = {}
    BY <1>3, <1>4 DEF Published, Gone, PendingShape
  <2>2. \A i \in DOMAIN order : Plan[i] = LevelAt(i)
    BY <1>4 DEF Plan, Published
  <2> QED
    BY <2>1, <2>2 DEF PlanContents, RunnerInv, MapsInv
<1>5. ASSUME Published
      PROVE  \E p \in 1..Len(order) - 1 :
               /\ pending.map = Overlay(order[p].map, order[p + 1].map)
               /\ PlanContents[p] = pending.map /\ PlanContents[p + 1] = pending.map
               /\ \A i \in DOMAIN order : i # p /\ i # p + 1 => PlanContents[i] = order[i].map
  <2>1. pending \in PendingMerges
    BY <1>3, <1>5 DEF Published, PendingShape
  <2>2. Contents(pending.level) = pending.map
    BY <1>5, <2>1 DEF RunnerInv, PendingInv, MergeInv, Published
  <2>3. PICK p \in 1..Len(order) - 1 : MergedPair(p)
    BY <2>1 DEF RunnerInv, PendingInv, MergeInv
  <2>4. p \in DOMAIN order /\ p + 1 \in DOMAIN order
    BY <1>1, <2>3
  <2>5. LevelAt(p) = pending.newer /\ LevelAt(p + 1) = pending.older
        /\ pending.map = Overlay(order[p].map, order[p + 1].map)
    BY <2>3 DEF MergedPair
  <2>6. Gone \subseteq {pending.newer, pending.older}
    BY DEF Gone
  <2>7. \A i \in DOMAIN order :
          Plan[i] = IF LevelAt(i) \in {pending.newer, pending.older} THEN pending.level ELSE LevelAt(i)
    BY <1>5 DEF Plan, Published
  <2>8. PlanContents[p] = pending.map /\ PlanContents[p + 1] = pending.map
    BY <2>2, <2>4, <2>5, <2>7 DEF PlanContents
  <2>9. ASSUME NEW i \in DOMAIN order, i # p, i # p + 1
        PROVE  PlanContents[i] = order[i].map
    <3>1. LevelAt(i) \notin {pending.newer, pending.older}
      BY <1>1, <2>4, <2>5, <2>9
    <3>2. LevelAt(i) \notin Gone /\ Plan[i] = LevelAt(i)
      BY <2>6, <2>7, <3>1
    <3> QED
      BY <3>2 DEF PlanContents, RunnerInv, MapsInv
  <2> QED
    BY <2>5, <2>8, <2>9
<1> QED
  BY <1>4, <1>5

\* What a query of the user sees is what the oracle's stack says, between two
\* calls and in the middle of one.
LEMMA ViewReads == RunnerInv => Reads(order, View)
<1> SUFFICES ASSUME RunnerInv
             PROVE  Reads(order, View)
  OBVIOUS
<1>1. DOMAIN order = 1..Len(order) /\ Len(order) \in Nat
  BY StackFacts DEF RunnerInv
<1>3. View = Newest(DOMAIN order, PlanContents)
  BY DEF View, Newest, KeysOfMaps, FirstWith
<1>4. CASE ~Published
  <2>1. \A i \in 1..Len(order) : PlanContents[i] = order[i].map
    BY <1>1, <1>4, PlanMaps
  <2>2. Reads(order, Newest(DOMAIN order, PlanContents))
    BY <1>1, <2>1, SameReads
  <2> QED
    BY <1>3, <2>2
<1>5. CASE Published
  <2>1. PICK p \in 1..Len(order) - 1 :
          /\ pending.map = Overlay(order[p].map, order[p + 1].map)
          /\ PlanContents[p] = pending.map /\ PlanContents[p + 1] = pending.map
          /\ \A i \in DOMAIN order : i # p /\ i # p + 1 => PlanContents[i] = order[i].map
    BY <1>5, PlanMaps
  <2>2. Reads(order, Newest(DOMAIN order, PlanContents))
    BY <1>1, <2>1, PairReads
  <2> QED
    BY <1>3, <2>2
<1> QED
  BY <1>4, <1>5

LEMMA ViewReadsNext == (RunnerInv => Reads(order, View))'
BY ViewReads, PTL

LEMMA SameMapOperators ==
  /\ \A f, g : Map!Overlay(f, g) = Overlay(f, g)
  /\ Map!EmptyDict = EmptyDict
BY DEF Map!Overlay, Overlay, Map!EmptyDict, EmptyDict

\* A step that leaves the stack alone leaves the map alone.
LEMMA SameView ==
  ASSUME RunnerInv, RunnerInv', order' = order
  PROVE  View' = View
<1>1. Reads(order, View) /\ Reads(order, View')
  BY ViewReads, ViewReadsNext
<1>2. DOMAIN order = 1..Len(order) /\ Len(order) \in Nat
  BY StackFacts DEF RunnerInv
<1> QED
  BY <1>1, <1>2, ReadsUnique

\* The value a stack reads for a key, found or not.
LEMMA ReadsHit ==
  ASSUME RunnerInv, pending = NoCall, NEW k
  PROVE  OracleValues(k) = IF k \in DOMAIN View THEN {View[k]} ELSE {}
<1>1. Reads(order, View)
  BY ViewReads
<1>2. DOMAIN order = 1..Len(order) /\ Len(order) \in Nat
  BY StackFacts DEF RunnerInv
<1>3. \A i : i \in OracleHit(k) <=> NewestAt(order, k, i)
  BY DEF OracleHit, NewestAt
<1>4. CASE k \in DOMAIN View
  <2>1. PICK i : NewestAt(order, k, i)
    BY <1>1, <1>2, <1>4, NewestExists DEF Reads
  <2>2. \A j \in OracleHit(k) : order[j].map[k] = View[k]
    BY <1>1, <1>3 DEF Reads
  <2>3. i \in OracleHit(k)
    BY <1>3, <2>1
  <2> QED
    BY <1>4, <2>2, <2>3 DEF OracleValues
<1>5. CASE k \notin DOMAIN View
  <2>1. OracleHit(k) = {}
    BY <1>1, <1>5 DEF Reads, KeysOfStack, OracleHit
  <2> QED
    BY <1>5, <2>1 DEF OracleValues
<1> QED
  BY <1>4, <1>5

LEMMA MapStep ==
  ASSUME RunnerClient, RunnerInv, [WNext]_allVars
  PROVE  [Map!Next]_<<View, outcome>>
<1>1. RunnerInv'
  BY RunnerInvStep
<1>2. DOMAIN order = 1..Len(order) /\ Len(order) \in Nat
  BY StackFacts DEF RunnerInv
<1>3. ASSUME order' = order, outcome' = NoAnswer
      PROVE  Map!Next
  <2>1. View' = View
    BY <1>1, <1>3, SameView
  <2> QED
    BY <1>3, <2>1 DEF Map!Next, Map!Forget
<1>4. ASSUME NEW d \in Batches, Build(d)
      PROVE  Map!Next
  BY <1>3, <1>4 DEF Build, Call
<1>5. ASSUME NEW l \in DOMAIN levels, BuildPgm(l)
      PROVE  Map!Next
  BY <1>3, <1>5 DEF BuildPgm
<1>6. ASSUME NEW newer \in DOMAIN levels, NEW older \in DOMAIN levels, Merge(newer, older)
      PROVE  Map!Next
  BY <1>3, <1>6 DEF Merge, Call
<1>7. ASSUME ReturnBuild
      PROVE  Map!Next
  <2>1. pending \in PendingBuilds /\ GrownBy(order, pending.map, order')
    BY <1>7, ReturnedBuild
  <2>2. Reads(order', Overlay(pending.map, View))
    BY <1>2, <2>1, ViewReads, ReadsGrown
  <2>3. DOMAIN order' = 1..Len(order') /\ Len(order') \in Nat
    BY <1>1, StackFactsNext DEF RunnerInv
  <2>4. View' = Overlay(pending.map, View)
    BY <1>1, <2>2, <2>3, ViewReadsNext, ReadsUnique
  <2>5. pending.map \in Batches /\ outcome' = outcome
    BY <1>7, <2>1 DEF PendingBuilds, ReturnBuild
  <2>6. Map!Write(pending.map)
    BY <2>4, <2>5, SameMapOperators DEF Map!Write
  <2> QED
    BY <2>5, <2>6 DEF Map!Next
<1>8. ASSUME ReturnMerge
      PROVE  UNCHANGED <<View, outcome>>
  <2>1. PICK i \in 1..Len(order) - 1 : MergedPair(i) /\ MergedAt(order, i, pending.map, order')
    BY <1>8, ReturnedMerge
  <2>2. pending.map = Overlay(order[i].map, order[i + 1].map)
    BY <2>1 DEF MergedPair
  <2>3. Reads(order', View)
    BY <1>2, <2>1, <2>2, ViewReads, ReadsMerged
  <2>4. DOMAIN order' = 1..Len(order') /\ Len(order') \in Nat
    BY <1>1, StackFactsNext DEF RunnerInv
  <2>5. View' = View
    BY <1>1, <2>3, <2>4, ViewReadsNext, ReadsUnique
  <2> QED
    BY <1>8, <2>5 DEF ReturnMerge
<1>9. ASSUME NEW k \in Keys, Query(k)
      PROVE  Map!Next
  <2>1. PICK last \in 0..Len(order) :
          LookupLevels(k, last) /\ outcome' = [key |-> k, values |-> EngineValues(k, last)]
    BY <1>9 DEF Query
  <2>2. /\ pending = NoCall /\ order' = order
        /\ \A i \in DOMAIN order : Occupied(i) => LevelAt(i) \in DOMAIN pgm
    BY <1>9 DEF Query, Free
  <2>3. EngineValues(k, last) = OracleValues(k)
    BY <2>1, <2>2, LookupFinds
  <2>4. View' = View
    BY <1>1, <2>2, SameView
  <2>5. Map!Query(k)
    BY <2>1, <2>2, <2>3, <2>4, ReadsHit DEF Map!Query, Map!Lookup
  <2> QED
    BY <2>5 DEF Map!Next
<1>10. ASSUME EngineStep
       PROVE  UNCHANGED <<View, outcome>>
  <2>1. order' = order /\ outcome' = outcome
    BY <1>10 DEF EngineStep
  <2> QED
    BY <1>1, <2>1, SameView
<1>11. ASSUME UNCHANGED allVars
       PROVE  UNCHANGED <<View, outcome>>
  <2>1. order' = order /\ outcome' = outcome
    BY <1>11 DEF allVars, runner
  <2> QED
    BY <1>1, <2>1, SameView
<1> QED
  BY <1>4, <1>5, <1>6, <1>7, <1>8, <1>9, <1>10, <1>11 DEF WNext

\* The stack of levels is one last-write-wins map: a write overlays its batch,
\* a query answers with the value last written, and index builds, merges, their
\* failures and every step inside a call are invisible.
THEOREM StackIsOneMap ==
  ASSUME RunnerClient
  PROVE  WSpec => ImplementsKVMap
<1>1. WInit => Map!Init
  <2> SUFFICES ASSUME WInit
               PROVE  Map!Init
    OBVIOUS
  <2>1. DOMAIN order = {}
    BY DEF WInit
  <2>2. View = EmptyDict
    BY <2>1 DEF View, EmptyDict
  <2> QED
    BY <2>2, SameMapOperators DEF WInit, Map!Init
<1>2. RunnerInv /\ [WNext]_allVars => [Map!Next]_<<View, outcome>>
  BY MapStep
<1> QED
  BY RunnerInvariant, <1>1, <1>2, PTL DEF WSpec, ImplementsKVMap, Map!Spec
=============================================================================
