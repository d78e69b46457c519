---------------------------- MODULE BinSchedule ----------------------------
(***************************************************************************)
(* The content-bound bin schedule (content_schedule.py) of one merge: the  *)
(* plans of the source and of the target (BinAllocation) are bound to the  *)
(* two runs, every bin gets an interior point among its own keys, and the  *)
(* bins are read in the order of those points.                             *)
(*                                                                         *)
(* A run is the sequence of its keys: all of its blocks are full but the   *)
(* last one (LogicalBlockRunView).  An interior point is the pair by which *)
(* interior_point_sort_key orders it.                                      *)
(*                                                                         *)
(* Beside the schedule the module keeps, as a history, the fetches of the  *)
(* pinned merge loop that the schedule projects.                           *)
(*                                                                         *)
(* A definition marked "Variant" is no part of the specification: it is a  *)
(* plausible mistake in the definition below it, for which some property   *)
(* must fail.                                                              *)
(***************************************************************************)
EXTENDS BinAllocation

CONSTANTS
  RunViews,        \* the runs a side may be bound to
  ItemsPerBlock,   \* items_per_block of both runs
  MaxTargetBlocks  \* bound: the largest plan of the target

ASSUME RunsAssumption ==
  \A run \in RunViews : run \in Seq(Int) /\ \A m, n \in 1..Len(run) : m < n => run[m] < run[n]
ASSUME ItemsAssumption == ItemsPerBlock \in Nat \ {0}

VARIABLES
  stage,    \* where the planning of the merge is
  side,     \* the side it is working on
  plan,     \* BlockAllocationPlan of each side
  run,      \* LogicalBlockRunView of each side
  points,   \* interiors, bin by bin
  unread,   \* next_unread of each side
  reads,    \* the abstract reads, as <<side, bin_index>>
  scanned,  \* the tagged interior points that have arrived
  fetched,  \* history: the fetches of the pinned loop
  unfetched \* history: its next unread bin of each side

Sides == {"source", "target"}
binding == <<run, points>>
scanning == <<unread, reads, scanned, fetched, unfetched>>
scheduleVars == <<stage, side, plan, binding, scanning>>
vars == <<allocVars, scheduleVars>>

NoPlan == [blocks |-> 0, bins |-> <<>>]
Zero == [s \in Sides |-> 0]

ScheduleInit ==
  /\ Idle
  /\ stage = "planning" /\ side = "source"
  /\ plan = [s \in Sides |-> NoPlan]
  /\ run = [s \in Sides |-> <<>>] /\ points = [s \in Sides |-> <<>>]
  /\ unread = Zero /\ unfetched = Zero /\ reads = <<>> /\ fetched = <<>>
  /\ scanned = [s \in Sides |-> {}]

-----------------------------------------------------------------------------
(* Planning: one allocate_block_bins for each side. *)

Ask ==
  /\ stage = "planning" /\ phase = "idle"
  /\ \E n \in BlockCounts, u \in Uppers :
       (side = "target" => n <= MaxTargetBlocks) /\ Begin(n, u)
  /\ UNCHANGED scheduleVars

Work ==
  /\ stage = "planning" /\ Allocate
  /\ UNCHANGED scheduleVars

\* The planner keeps nothing from one call to the next.
Forget ==
  /\ phase' = "idle" /\ blocks' = 0
  /\ lower' = 0 /\ upper' = 0 /\ capacity' = 0 /\ tails' = <<>>
  /\ loads' = <<>> /\ totals' = <<0>>
  /\ blockSums' = <<>> /\ noisySums' = <<>> /\ prefix' = <<0>> /\ addedError' = 0
  /\ bins' = <<>>

\* The caller keeps the plan.
Keep ==
  /\ stage = "planning" /\ phase = "planned"
  /\ plan' = [plan EXCEPT ![side] = [blocks |-> blocks, bins |-> bins]]
  /\ side' = IF side = "source" THEN "target" ELSE "source"
  /\ stage' = IF side = "source" THEN "planning" ELSE "binding"
  /\ Forget
  /\ UNCHANGED <<binding, scanning>>

-----------------------------------------------------------------------------
(* Binding and sampling, the source first. *)

BinCountOf(s) == Len(plan[s].bins)
BinOf(s, k) == plan[s].bins[k]
EmptyReal(s, k) == BinOf(s, k).start = BinOf(s, k).stop

\* A plan binds only a run of its own number of blocks.
Bind(view) ==
  /\ stage = "binding"
  /\ IF CeilDiv(Len(view), ItemsPerBlock) = plan[side].blocks
     THEN stage' = "sampling" /\ run' = [run EXCEPT ![side] = view]
     ELSE stage' = "refused" /\ UNCHANGED run
  /\ UNCHANGED <<allocVars, side, plan, points, scanning>>

\* The positions in the run of the records in the blocks of the bin k.
RealRecords(s, k) ==
  (BinOf(s, k).start * ItemsPerBlock + 1) .. Smaller(BinOf(s, k).stop * ItemsPerBlock, Len(run[s]))

RealPoint(key) == <<0, key>>

\* Variant: the sentinel is the smallest key.
DummyFirst == <<-1, 0>>

DummyPosInf == <<1, 0>>

Sampling == stage = "sampling" /\ Len(points[side]) < BinCountOf(side)

\* A bin with real blocks gets a point among its keys: the sampler may draw any.
SampleReal(m) ==
  /\ Sampling
  /\ LET k == Len(points[side]) + 1
     IN  /\ m \in RealRecords(side, k)
         /\ points' = [points EXCEPT ![side] = Append(@, RealPoint(run[side][m]))]
  /\ UNCHANGED <<allocVars, stage, side, plan, run, scanning>>

SampleEmpty ==
  /\ Sampling
  /\ EmptyReal(side, Len(points[side]) + 1)
  /\ points' = [points EXCEPT ![side] = Append(@, DummyPosInf)]
  /\ UNCHANGED <<allocVars, stage, side, plan, run, scanning>>

\* plan_swat_block_merge_schedule refuses runs that are no neighbours or have
\* other blocks, before it binds the source; sample_bin_interior_points refuses
\* a position outside the bin, from the caller's own sampler.
Refuse ==
  /\ \/ stage = "binding" /\ side = "source"
     \/ Sampling /\ ~EmptyReal(side, Len(points[side]) + 1)
  /\ stage' = "refused"
  /\ UNCHANGED <<allocVars, side, plan, binding, scanning>>

\* Variant: the preloaded bins are not counted as read.
PreloadUncounted(s) == 0

Preloaded(s) == IF BinCountOf(s) > 0 THEN 1 ELSE 0

Preloads == (IF BinCountOf("source") > 0 THEN <<<<"source", 0>>>> ELSE <<>>)
         \o (IF BinCountOf("target") > 0 THEN <<<<"target", 0>>>> ELSE <<>>)

\* Both sides are sampled: bin 0 of each is read before any point is scanned.
EndSampling ==
  /\ stage = "sampling" /\ Len(points[side]) = BinCountOf(side)
  /\ IF side = "source"
     THEN /\ stage' = "binding" /\ side' = "target"
          /\ UNCHANGED scanning
     ELSE /\ stage' = "scanning" /\ UNCHANGED <<side, scanned>>
          /\ reads' = Preloads /\ unread' = [s \in Sides |-> Preloaded(s)]
          /\ fetched' = Preloads /\ unfetched' = [s \in Sides |-> Preloaded(s)]
  /\ UNCHANGED <<allocVars, plan, binding>>

-----------------------------------------------------------------------------
(* Scanning: build_abstract_merge_schedule. *)

SignedTag(tag) == IF tag[1] = "source" THEN tag[2] ELSE -tag[2]
PointOf(tag) == points[tag[1]][tag[2]]

\* The pinned order of (interior point, signed tag) pairs.
Before(a, b) ==
  LET p == PointOf(a)
      q == PointOf(b)
  IN  \/ p[1] < q[1]
      \/ p[1] = q[1] /\ p[2] < q[2]
      \/ p = q /\ SignedTag(a) < SignedTag(b)

Unscanned == {tag \in Sides \X (1..Larger(BinCountOf("source"), BinCountOf("target"))) :
                tag[2] <= BinCountOf(tag[1]) /\ tag[2] \notin scanned[tag[1]]}

\* Variant: the last bin of a side is never asked for.
HasUnreadButLast(s) == unread[s] + 1 < BinCountOf(s)

HasUnread(s) == unread[s] < BinCountOf(s)

\* The side's next unread bin, if it has one.
ReadNext(s) ==
  IF HasUnread(s)
  THEN /\ reads' = Append(reads, <<s, unread[s]>>)
       /\ unread' = [unread EXCEPT ![s] = @ + 1]
  ELSE UNCHANGED <<reads, unread>>

HasUnfetched(s) == unfetched[s] < BinCountOf(s)

Fetch(s) ==
  /\ fetched' = Append(fetched, <<s, unfetched[s]>>)
  /\ unfetched' = [unfetched EXCEPT ![s] = @ + 1]

\* The pinned loop: a source tag whose side is exhausted fetches from the
\* target.
PinnedFetch(s) ==
  IF s = "source" /\ HasUnfetched("source") THEN Fetch("source")
  ELSE IF HasUnfetched("target") THEN Fetch("target")
  ELSE UNCHANGED <<fetched, unfetched>>

Arrive(tag) ==
  /\ stage = "scanning"
  /\ \A other \in Unscanned \ {tag} : Before(tag, other)
  /\ scanned' = [scanned EXCEPT ![tag[1]] = @ \cup {tag[2]}]
  /\ ReadNext(tag[1])
  /\ PinnedFetch(tag[1])
  /\ UNCHANGED <<allocVars, stage, side, plan, binding>>

ReadBins(s) == {reads[m][2] : m \in {n \in 1..Len(reads) : reads[n][1] = s}}

EveryBinRead ==
  /\ Len(reads) = BinCountOf("source") + BinCountOf("target")
  /\ \A s \in Sides : ReadBins(s) = 0..(BinCountOf(s) - 1)

\* The schedule is refused unless every bin is in it exactly once.
Publish ==
  /\ stage = "scanning" /\ Unscanned = {}
  /\ stage' = IF EveryBinRead THEN "scheduled" ELSE "badSchedule"
  /\ UNCHANGED <<allocVars, side, plan, binding, scanning>>

-----------------------------------------------------------------------------
Schedule ==
  \/ Work \/ Keep
  \/ \E view \in RunViews : Bind(view)
  \/ \E m \in 1..Len(run[side]) : SampleReal(m)
  \/ SampleEmpty \/ Refuse \/ EndSampling
  \/ \E tag \in Unscanned : Arrive(tag)
  \/ Publish

ScheduleNext == Ask \/ Schedule
ScheduleSpec == ScheduleInit /\ [][ScheduleNext]_vars

\* The call runs to its end once it is made.
ScheduleFair == ScheduleSpec /\ WF_vars(Schedule) /\ WF_vars(Ask)

-----------------------------------------------------------------------------
(* Properties. *)

Stages == {"planning", "binding", "sampling", "scanning", "scheduled", "refused", "badSchedule"}

PlanType == [blocks : Nat, bins : Seq([start : Nat, stop : Nat])]

\* What the scan reads and counts has its type.
ScheduleTypeOK ==
  /\ stage \in Stages /\ side \in Sides
  /\ plan \in [Sides -> PlanType]
  /\ unread \in [Sides -> Nat] /\ unfetched \in [Sides -> Nat]
  /\ reads \in Seq(Sides \X Nat) /\ fetched \in Seq(Sides \X Nat)
  /\ scanned \in [Sides -> SUBSET Nat]

\* "On well-formed input the projected sequences coincide": the schedule is at
\* all times a prefix of the fetches of the pinned loop, which runs ahead when
\* a tag of an exhausted source fetches from the target, and equals them when
\* the scan is over.
MatchesPinnedLoop ==
  /\ Len(reads) <= Len(fetched)
  /\ \A m \in 1..Len(reads) : reads[m] = fetched[m]
  /\ stage = "scheduled" => reads = fetched

\* The bins of a side are read in their order, each of them once, and the
\* finished schedule has all of them: its own check never refuses it.
EveryBinOnce ==
  /\ \A s \in Sides : ReadBins(s) = 0..(unread[s] - 1) /\ unread[s] <= BinCountOf(s)
  /\ \A m, n \in 1..Len(reads) :
       m < n /\ reads[m][1] = reads[n][1] => reads[m][2] < reads[n][2]
  /\ stage # "badSchedule"

EmptiesBefore(s, k) == Cardinality({m \in 1..(k - 1) : EmptyReal(s, m)})

\* When the interior point of a bin arrives, the bin has been read, except
\* that every bin without a real block before it may delay it by one read.
ReadBeforeArrival ==
  [][\A s \in Sides : \A k \in scanned'[s] \ scanned[s] :
       k <= unread[s] + EmptiesBefore(s, k)]_vars

\* A merge that is planned gets its schedule, unless its loads do not cover
\* the run, the run is not the one the plan was made for, or the call refuses.
ScheduleEnds ==
  <>(stage \in {"scheduled", "refused"} \/ phase \in {"insufficient", "strayLoad"})
=============================================================================
