--------------------------- MODULE MCLETWorkload ----------------------------
(* Small instances of LETWorkload. *)
EXTENDS LETWorkload, TLC

CONSTANTS v1, v2, v3

MCKeys == 1..4
MCValues == {v1, v2, v3}

\* Three writes of overlapping keys: {1, 2, 4}, {2, 3} and {3}.
MCBatches ==
  {(1 :> v1) @@ (2 :> v1) @@ (4 :> v1), (2 :> v2) @@ (3 :> v2), (3 :> v3)}

MCBatchesEmpty == {EmptyDict, (2 :> v2) @@ (3 :> v2)}
=============================================================================
