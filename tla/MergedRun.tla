----------------------------- MODULE MergedRun ------------------------------
(***************************************************************************)
(* The newer-wins merge of two sorted runs as one stream: its records come *)
(* out one by one, each the smallest one not yet out, and the merge is     *)
(* done when all of them are.  Who asks for how many records at a time is  *)
(* not part of the result.                                                  *)
(***************************************************************************)
EXTENDS Integers, Sequences

CONSTANT Runs       \* the strictly increasing key sequences to merge

VARIABLES
  src, tgt,         \* the newer run and the older run
  stream,           \* the records out so far
  done

KeysIn(run) == {run[n] : n \in 1..Len(run)}

\* source only -> source value; target only -> target value; same key ->
\* source value.
Merged(s, t) ==
  {[key |-> k, from |-> "source"] : k \in KeysIn(s)}
    \cup {[key |-> k, from |-> "target"] : k \in KeysIn(t) \ KeysIn(s)}

Emitted == {stream[n] : n \in 1..Len(stream)}
Missing == Merged(src, tgt) \ Emitted

Init ==
  /\ src \in Runs /\ tgt \in Runs
  /\ stream = <<>> /\ done = FALSE

Emit ==
  /\ ~done
  /\ \E r \in Missing :
       /\ \A o \in Missing : r.key <= o.key
       /\ stream' = Append(stream, r)
  /\ UNCHANGED <<src, tgt, done>>

Finish ==
  /\ Missing = {}
  /\ done' = TRUE
  /\ UNCHANGED <<src, tgt, stream>>

Next == Emit \/ Finish

Spec == Init /\ [][Next]_<<src, tgt, stream, done>>
=============================================================================
