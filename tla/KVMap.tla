------------------------------- MODULE KVMap --------------------------------
(***************************************************************************)
(* What a stack of levels promises to its user: one map from keys to       *)
(* values, where the last write of a key wins and a query answers with the *)
(* value last written.                                                      *)
(***************************************************************************)
EXTENDS LETRecords

CONSTANTS
  Batches,     \* the batches that are written
  NoAnswer     \* no query has been answered since the last call

VARIABLES
  map,         \* the records written so far
  answer       \* the answer of the last call, when it was a query

Lookup(k) == IF k \in DOMAIN map THEN {map[k]} ELSE {}

Init == map = EmptyDict /\ answer = NoAnswer

Write(d) == map' = Overlay(d, map) /\ UNCHANGED answer

Query(k) == answer' = [key |-> k, values |-> Lookup(k)] /\ UNCHANGED map

Forget == answer' = NoAnswer /\ UNCHANGED map

Next == (\E d \in Batches : Write(d)) \/ (\E k \in Keys : Query(k)) \/ Forget

Spec == Init /\ [][Next]_<<map, answer>>
=============================================================================
