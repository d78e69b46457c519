---------------------------- MODULE MCLETEngine -----------------------------
(* Small instances of LETEngine. *)
EXTENDS LETEngine, TLC

CONSTANTS v1, v2

MCKeys == 1..4
MCValues == {v1, v2}

\* Batches that overlap (newer wins) and interleave, of one block and of one
\* and a half.
MCBatches ==
  {(1 :> v1) @@ (2 :> v1) @@ (4 :> v1),
   (2 :> v2) @@ (3 :> v2)}

\* A key below, a key inside and keys above: appended, they keep the order of
\* a level or break it.
MCAppends ==
  {(1 :> v1),
   (2 :> v2) @@ (3 :> v2),
   (2 :> v1) @@ (3 :> v1) @@ (4 :> v1)}

\* One block of each size.
MCBlocks == {(1 :> v1), (2 :> v2) @@ (3 :> v2)}

\* The client that only builds, indexes, relocates, merges and retires.
CanonicalCalls == {"build_pgm", "relocate", "retire"}

\* The client that also fills levels by hand.
OpenCalls == AllCalls \ {"create_level", "share"}
AppendCalls == {"append", "build_pgm"}
=============================================================================
