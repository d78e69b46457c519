----------------------------- MODULE LevelStore -----------------------------
(***************************************************************************)
(* What the engine promises of its levels, with no blocks, slots or ids of *)
(* blocks: each active level is a set of records, a merge that is asked    *)
(* for either fails or replaces its two levels by their newer-wins union   *)
(* in one step, and nothing else changes what a level holds.               *)
(***************************************************************************)
EXTENDS LETRecords

CONSTANTS
  Batches,     \* the record collections the client passes
  LevelIds     \* the level ids in use

VARIABLES
  content,     \* active level -> its records
  asked        \* <<newer, older>> while a merge is asked for, else <<>>

Init == content = EmptyDict /\ asked = <<>>

\* Level ids are handed out one after the other and never reused, so a new
\* one is above every active one.
NewIds == {out \in LevelIds : \A l \in DOMAIN content : out > l}

\* A build that has been cut short leaves the first blocks of its batch.
Publish(l, d) ==
  /\ asked = <<>>
  /\ \E n \in 0..NumBlocks(d) : content' = Put(content, l, Prefix(d, n))
  /\ UNCHANGED asked

Ask(newer, older) ==
  /\ asked = <<>> /\ newer # older
  /\ asked' = <<newer, older>>
  /\ UNCHANGED content

Replace(out) ==
  /\ asked # <<>>
  /\ content' = Put(Drop(content, {asked[1], asked[2]}), out,
                    Overlay(content[asked[1]], content[asked[2]]))
  /\ asked' = <<>>

Fail == asked # <<>> /\ asked' = <<>> /\ UNCHANGED content

Retire(l) == asked = <<>> /\ content' = Drop(content, {l}) /\ UNCHANGED asked

Next ==
  \/ \E l \in NewIds, d \in Batches \cup {EmptyDict} : Publish(l, d)
  \/ \E newer, older \in DOMAIN content : Ask(newer, older)
  \/ \E out \in NewIds : Replace(out)
  \/ Fail
  \/ \E l \in DOMAIN content : Retire(l)

Spec == Init /\ [][Next]_<<content, asked>>
=============================================================================
