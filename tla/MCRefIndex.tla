----------------------------- MODULE MCRefIndex -----------------------------
(* Small instances of RefIndex. *)
EXTENDS RefIndex, TLC

Sorted(S) ==
  [n \in 1..Cardinality(S) |-> CHOOSE x \in S : Cardinality({y \in S : y < x}) = n - 1]

Experiment(layout, contents) ==
  [layout |-> layout, levels |-> [level \in DOMAIN contents |-> Sorted(contents[level])]]

\* One indexed level with any keys, in the order of its blocks.
Single == {Experiment("ordered", (3 :> S)) : S \in {T \in SUBSET (0..8) : Cardinality(T) <= 8}}

\* A level without index over an indexed one that shares keys with it, placed
\* by any permutation.
Pairs ==
  {Experiment("static_prp", (1 :> A) @@ (3 :> B)) :
     A \in {{}, {4}, {0, 5}}, B \in {{}, {0, 2, 3, 5, 8}, {1, 2, 4, 5, 6, 8}}}

\* Three levels with a gap between them, an empty level above the used ones, two
\* indexed levels of which the newer one prefetches, and two experiments the
\* index refuses.
Others ==
  { Experiment("ordered", (1 :> {3, 7}) @@ (2 :> {0, 3, 4, 8}) @@ (4 :> {1, 2, 3, 5, 7})),
    Experiment("static_prp", (1 :> {6}) @@ (2 :> {2, 5, 7}) @@ (4 :> {})),
    Experiment("ordered", (2 :> {0, 2, 4, 6}) @@ (4 :> {3})),
    Experiment("ordered", (1 :> {0, 1, 2})), Experiment("ordered", (0 :> {5})) }

MCExperiments == Single \cup Pairs \cup Others

\* The keys of the items, and one below and one above all of them.
MCKeys == -1..9
=============================================================================
