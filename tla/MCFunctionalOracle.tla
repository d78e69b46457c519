------------------------- MODULE MCFunctionalOracle -------------------------
(* Small instances of FunctionalOracle. *)
EXTENDS FunctionalOracle, SequencesExt

\* All strictly increasing runs over four keys, one of them negative.
MCRuns == {SetToSortSeq(S, LAMBDA a, b : a < b) : S \in SUBSET {-1, 0, 2, 5}}

\* The empty schedule, and up to three budgets: schedules that end before the
\* job, at its end and after it.
MCSchedules == UNION {[1..n -> 1..3] : n \in 0..3}
=============================================================================
