-------------------------- MODULE FunctionalOracle --------------------------
(***************************************************************************)
(* The functional oracle of a SWAT merge (functional_oracle.py): it checks *)
(* the merge identity, begins an incremental merge job, drives it with a   *)
(* schedule of budgets and then with budgets of one, finalizes it, and     *)
(* checks the packing of the blocks it has collected before it answers.    *)
(* The job takes its steps as in IncrementalMerge; the oracle gives it no  *)
(* sink, and collects what its calls return.                               *)
(*                                                                         *)
(* A definition marked "Variant" is no part of the specification: it is a  *)
(* plausible mistake in the definition below it, for which some property   *)
(* must fail.                                                              *)
(***************************************************************************)
EXTENDS IncrementalMerge, FiniteSetsExt

CONSTANTS
  Schedules,  \* the schedules a caller may give
  MergeLevels \* the levels a caller may name

ASSUME SchedulesAssumption == \A s \in Schedules : s \in Seq(1..MaxQuantum)
ASSUME LevelsAssumption == MergeLevels \subseteq Nat

VARIABLES
  srcLevel, tgtLevel,  \* the levels of the two views
  policy,              \* is the schedule given or the default?
  schedule,            \* the budgets not yet applied
  applied,             \* the budgets applied
  verdict              \* what the oracle has come to

request == <<srcLevel, tgtLevel, policy>>
oracleVars == <<vars, request, schedule, applied, verdict>>

\* One budget large enough for every decision.
DrainBudget == Max({1, Len(src) + Len(tgt)})

OracleInit ==
  /\ Init
  /\ srcLevel \in MergeLevels /\ tgtLevel \in MergeLevels
  /\ policy \in {"default", "given"}
  /\ schedule \in (IF policy = "given" THEN Schedules ELSE {<<DrainBudget>>})
  /\ applied = <<>>
  /\ verdict = "asked"

-----------------------------------------------------------------------------
(* Only a merge of a level L into the level L + 1 is begun. *)
Adjacent == tgtLevel = srcLevel + 1

Refuse ==
  /\ verdict = "asked" /\ ~Adjacent
  /\ verdict' = "refused"
  /\ UNCHANGED <<vars, request, schedule, applied>>

BeginJob ==
  /\ verdict = "asked" /\ Adjacent
  /\ verdict' = "driving"
  /\ UNCHANGED <<vars, request, schedule, applied>>

Driving == verdict = "driving" /\ ~inCall

\* The next budget of the schedule, while the job is not done.
ApplyNext ==
  /\ Driving /\ ~done /\ schedule # <<>>
  /\ Advance(Head(schedule))
  /\ applied' = Append(applied, Head(schedule))
  /\ schedule' = Tail(schedule)
  /\ UNCHANGED <<request, verdict>>

\* The schedule has run out: one decision at a time.
Drain ==
  /\ Driving /\ ~done /\ schedule = <<>>
  /\ Advance(1)
  /\ applied' = Append(applied, 1)
  /\ UNCHANGED <<request, schedule, verdict>>

JobStep ==
  /\ verdict = "driving"
  /\ Job
  /\ UNCHANGED <<request, schedule, applied, verdict>>

FinalizeJob ==
  /\ Driving /\ Finalize
  /\ UNCHANGED <<request, schedule, applied, verdict>>

ItemsIn(bs) ==
  LET total[n \in 0..Len(bs)] == IF n = 0 THEN 0 ELSE total[n - 1] + Len(bs[n].recs)
  IN  total[Len(bs)]

\* _check_canonical_packing of the collected blocks against the job's result.
CanonicalPacking(bs) ==
  /\ Len(bs) = result.blocks
  /\ \A n \in 1..Len(bs) : bs[n].rank = n - 1
  /\ ItemsIn(bs) = result.records
  /\ \A n \in 1..(Len(bs) - 1) : Len(bs[n].recs) = ItemsPerBlock
  /\ bs # <<>> => Len(bs[Len(bs)].recs) \in 1..ItemsPerBlock
  /\ LET keys == Flatten(bs) IN \A m, n \in 1..Len(keys) : m < n => keys[m].key < keys[n].key

Answer ==
  /\ Driving /\ result # NotFinalized
  /\ verdict' = IF CanonicalPacking(returned) THEN "answered" ELSE "selfRefused"
  /\ UNCHANGED <<vars, request, schedule, applied>>

-----------------------------------------------------------------------------
OracleStep ==
  \/ Refuse \/ BeginJob \/ ApplyNext \/ Drain \/ JobStep \/ FinalizeJob \/ Answer

OracleSpec == OracleInit /\ [][OracleStep]_oracleVars

\* The oracle is one sequential call: it does not stop between two of its steps.
OracleFair == OracleSpec /\ WF_oracleVars(OracleStep)

-----------------------------------------------------------------------------
(* Properties. *)

MergedKeys == {rec.key : rec \in Abstract!Merged(src, tgt)}
\* The records of the merge in the order of their keys.
CanonicalStream ==
  LET rank(k) == Cardinality({other \in MergedKeys : other < k})
  IN  [n \in 1..Cardinality(MergedKeys) |->
         CHOOSE rec \in Abstract!Merged(src, tgt) : rank(rec.key) = n - 1]

\* "The result is identical for every legal schedule": the answer is the
\* canonical packing of the newer-wins union with its counts, a function of the
\* two runs alone.  Under the default policy the job is called once.
AnswerIsCanonical ==
  verdict = "answered" =>
    LET all == CanonicalStream
        count == (Len(all) + ItemsPerBlock - 1) \div ItemsPerBlock
        size(n) == Min({ItemsPerBlock, Len(all) - (n - 1) * ItemsPerBlock})
    IN  /\ returned = [n \in 1..count |->
                         [rank |-> n - 1,
                          recs |-> SubSeq(all, (n - 1) * ItemsPerBlock + 1,
                                               (n - 1) * ItemsPerBlock + size(n))]]
        /\ result = [records |-> Len(all), blocks |-> count,
                      duplicates |-> Len(src) + Len(tgt) - Len(all)]
        /\ policy = "default" => Len(applied) = 1

\* The oracle's self-check never refuses what the job has done, and a merge
\* whose levels are not adjacent is refused before any output exists.
SelfCheckPasses ==
  /\ verdict # "selfRefused"
  /\ verdict = "refused" => delivered = <<>> /\ calls = 0

\* The oracle gives a result, or refuses the identity of the merge.
OracleAnswers == <>(verdict \in {"answered", "refused"})
=============================================================================
