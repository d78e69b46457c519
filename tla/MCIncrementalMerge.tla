------------------------- MODULE MCIncrementalMerge -------------------------
(* Small instances of IncrementalMerge. *)
EXTENDS IncrementalMerge, FiniteSets, SequencesExt

\* All strictly increasing runs over four keys, one of them negative.
MCKeys == {-1, 0, 2, 5}
MCRuns == {SetToSortSeq(S, LAMBDA a, b : a < b) : S \in SUBSET MCKeys}
MCRuns3 == {SetToSortSeq(S, LAMBDA a, b : a < b) : S \in SUBSET {-1, 0, 2}}
=============================================================================
