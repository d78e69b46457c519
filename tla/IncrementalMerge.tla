-------------------------- MODULE IncrementalMerge --------------------------
(***************************************************************************)
(* The resumable newer-wins merge (incremental_merge.py): a job holds two  *)
(* cursors and at most one incomplete output block, and each call          *)
(* advance(q) makes at most q output decisions.  A decision is one step;   *)
(* the caller chooses every q, and the sink that receives the blocks may   *)
(* raise out of the middle of a decision.                                   *)
(*                                                                         *)
(* The records' payloads are opaque: a record is its key and the run it    *)
(* comes from.  The incremental PGM is the stream of records it has        *)
(* consumed (its segmentation is a function of that stream).                *)
(*                                                                         *)
(* A definition marked "Variant" is no part of the specification: it is a  *)
(* plausible mistake in the definition below it, for which some property   *)
(* must fail.                                                              *)
(***************************************************************************)
EXTENDS Integers, Sequences

CONSTANTS
  Runs,           \* the input runs (LogicalRunView), strictly increasing
  ItemsPerBlock,  \* records per output block
  SinkRaises,     \* may the caller's sink raise?
  MaxQuantum,     \* bound: the largest budget of one advance
  MaxCalls        \* bound: the number of calls of advance

StrictlyIncreasing(run) ==
  \A m, n \in 1..Len(run) : m < n => run[m] < run[n]

ASSUME RunsAssumption == \A run \in Runs : run \in Seq(Int) /\ StrictlyIncreasing(run)
ASSUME ItemsAssumption == ItemsPerBlock \in Nat \ {0}
ASSUME BoundsAssumption ==
  /\ SinkRaises \in BOOLEAN /\ MaxQuantum \in Nat \ {0} /\ MaxCalls \in Nat

VARIABLES
  src, tgt,     \* _source (newer) and _target (older)
  i, j,         \* _source_cursor, _target_cursor
  stream,       \* the records consumed by _pgm, in order
  pending,      \* _pending_keys and _pending_values
  emitted,      \* _emitted_blocks
  duplicates,   \* _duplicate_count
  done,         \* _done
  left,         \* decisions the call in progress may still make
  inCall,       \* is a call of advance in progress?
  calls,        \* _advance_calls
  payload,      \* the blocks the call in progress will return
  returned,     \* the blocks returned to the caller so far
  delivered,    \* the blocks handed to the sink so far
  result        \* _finalized

inputs == <<src, tgt>>
cursors == <<i, j, duplicates>>
handed == <<payload, returned, delivered>>
vars == <<src, tgt, i, j, stream, pending, emitted, duplicates, done, left,
          inCall, calls, payload, returned, delivered, result>>

NotFinalized == [records |-> -1, blocks |-> -1, duplicates |-> -1]

Init ==
  /\ src \in Runs /\ tgt \in Runs
  /\ i = 0 /\ j = 0 /\ duplicates = 0
  /\ stream = <<>> /\ pending = <<>> /\ emitted = 0
  /\ done = FALSE /\ left = 0 /\ inCall = FALSE /\ calls = 0
  /\ payload = <<>> /\ returned = <<>> /\ delivered = <<>>
  /\ result = NotFinalized

-----------------------------------------------------------------------------
(* The next decision. *)

\* Variant: the merge is over when one run is.
OneExhausted == i = Len(src) \/ j = Len(tgt)

Exhausted == i = Len(src) /\ j = Len(tgt)

\* Variant: on equal keys only the target is taken.
TakesSmallerSource == i < Len(src) /\ (j = Len(tgt) \/ src[i + 1] < tgt[j + 1])

TakesSource == i < Len(src) /\ (j = Len(tgt) \/ src[i + 1] <= tgt[j + 1])
TakesTarget == j < Len(tgt) /\ (i = Len(src) \/ tgt[j + 1] <= src[i + 1])

\* Variant: on equal keys the record is the target's.
OlderRecord ==
  IF TakesTarget THEN [key |-> tgt[j + 1], from |-> "target"]
                 ELSE [key |-> src[i + 1], from |-> "source"]

NextRecord ==
  IF TakesSource THEN [key |-> src[i + 1], from |-> "source"]
                 ELSE [key |-> tgt[j + 1], from |-> "target"]

\* add_key refuses a key that is not above the last one.
KeyRefused == stream # <<>> /\ NextRecord.key <= stream[Len(stream)].key

\* Variant: both cursors move at every decision.
MoveBoth == i' = i + 1 /\ j' = j + 1 /\ UNCHANGED duplicates

\* Variant: equal keys move the source cursor only.
MoveOne ==
  /\ i' = IF TakesSource THEN i + 1 ELSE i
  /\ j' = IF TakesSource THEN j ELSE j + 1
  /\ UNCHANGED duplicates

MoveCursors ==
  /\ i' = IF TakesSource THEN i + 1 ELSE i
  /\ j' = IF TakesTarget THEN j + 1 ELSE j
  /\ duplicates' = IF TakesSource /\ TakesTarget THEN duplicates + 1 ELSE duplicates

\* An exception leaves advance: the blocks of this call are not returned.
Raise == inCall' = FALSE /\ left' = 0 /\ payload' = <<>>

\* Variant: the records stay in the job.
CutKeeping(recs) ==
  /\ pending' = recs
  /\ emitted' = emitted + 1
  /\ delivered' = Append(delivered, [rank |-> emitted, recs |-> recs])

\* _flush_block up to the sink: the block is cut and counted, and the records
\* are dropped from the job before the sink sees the block.
Cut(recs) ==
  /\ pending' = <<>>
  /\ emitted' = emitted + 1
  /\ delivered' = Append(delivered, [rank |-> emitted, recs |-> recs])

-----------------------------------------------------------------------------
(* advance(q). *)

\* After DONE the call is a no-op.
Advance(q) ==
  /\ ~inCall /\ ~done
  /\ calls < MaxCalls
  /\ inCall' = TRUE /\ left' = q /\ payload' = <<>>
  /\ calls' = calls + 1
  /\ UNCHANGED <<inputs, cursors, stream, pending, emitted, done, returned, delivered, result>>

Deciding == inCall /\ left > 0 /\ ~Exhausted

\* The record is kept in the block under way.
DecideKeep ==
  /\ Deciding /\ ~KeyRefused
  /\ Len(pending) + 1 # ItemsPerBlock
  /\ pending' = Append(pending, NextRecord)
  /\ stream' = Append(stream, NextRecord)
  /\ MoveCursors
  /\ left' = left - 1
  /\ UNCHANGED <<inputs, emitted, done, inCall, calls, handed, result>>

\* The record completes a block, which the sink takes.
DecideFlush ==
  /\ Deciding /\ ~KeyRefused
  /\ Len(pending) + 1 = ItemsPerBlock
  /\ stream' = Append(stream, NextRecord)
  /\ Cut(Append(pending, NextRecord))
  /\ payload' = Append(payload, delivered'[Len(delivered')])
  /\ MoveCursors
  /\ left' = left - 1
  /\ UNCHANGED <<inputs, done, inCall, calls, returned, result>>

\* The record completes a block and the sink raises: the cursors have not
\* moved.
DecideSinkRaises ==
  /\ Deciding /\ ~KeyRefused /\ SinkRaises
  /\ Len(pending) + 1 = ItemsPerBlock
  /\ stream' = Append(stream, NextRecord)
  /\ Cut(Append(pending, NextRecord))
  /\ Raise
  /\ UNCHANGED <<inputs, cursors, done, calls, returned, result>>

\* The PGM refuses the key, after the record has joined the pending block.
DecideRefused ==
  /\ Deciding /\ KeyRefused
  /\ pending' = Append(pending, NextRecord)
  /\ Raise
  /\ UNCHANGED <<inputs, cursors, stream, emitted, done, calls, returned, delivered, result>>

Returning == inCall /\ (left = 0 \/ Exhausted)

\* The call returns its blocks.
GiveBack(blocks) ==
  /\ returned' = returned \o blocks
  /\ inCall' = FALSE /\ left' = 0 /\ payload' = <<>>

\* The call ends with nothing left to flush.
Return ==
  /\ Returning
  /\ ~Exhausted \/ pending = <<>>
  /\ done' = Exhausted
  /\ GiveBack(payload)
  /\ UNCHANGED <<inputs, cursors, stream, pending, emitted, calls, delivered, result>>

\* The merge is over and the last block is partial.
ReturnLast ==
  /\ Returning /\ Exhausted /\ pending # <<>>
  /\ done' = TRUE
  /\ Cut(pending)
  /\ GiveBack(Append(payload, delivered'[Len(delivered')]))
  /\ UNCHANGED <<inputs, cursors, stream, calls, result>>

\* done is set before the last block is flushed.
ReturnSinkRaises ==
  /\ Returning /\ Exhausted /\ pending # <<>> /\ SinkRaises
  /\ done' = TRUE
  /\ Cut(pending)
  /\ Raise
  /\ UNCHANGED <<inputs, cursors, stream, calls, returned, result>>

\* Variant: the last, partial block is not counted.
FullBlocksOnly ==
  [records |-> Len(stream), blocks |-> Len(stream) \div ItemsPerBlock, duplicates |-> duplicates]

Totals == [records |-> Len(stream), blocks |-> emitted, duplicates |-> duplicates]

\* finalize is refused before DONE and idempotent after.
Finalize ==
  /\ done /\ ~inCall /\ result = NotFinalized
  /\ result' = Totals
  /\ UNCHANGED <<inputs, cursors, stream, pending, emitted, done, left, inCall, calls, handed>>

-----------------------------------------------------------------------------
Job ==
  \/ DecideKeep \/ DecideFlush \/ DecideSinkRaises \/ DecideRefused
  \/ Return \/ ReturnLast \/ ReturnSinkRaises

Next == (\E q \in 1..MaxQuantum : Advance(q)) \/ Job \/ Finalize

Spec == Init /\ [][Next]_vars

-----------------------------------------------------------------------------
(* Properties. *)

Record == [key : Int, from : {"source", "target"}]
Block == [rank : Nat, recs : Seq(Record)]

\* Every variable has its type and the cursors are in their runs.
TypeOK ==
  /\ src \in Runs /\ tgt \in Runs
  /\ i \in 0..Len(src) /\ j \in 0..Len(tgt)
  /\ stream \in Seq(Record) /\ pending \in Seq(Record)
  /\ emitted \in Nat /\ duplicates \in Nat
  /\ done \in BOOLEAN /\ inCall \in BOOLEAN
  /\ left \in Nat /\ calls \in Nat
  /\ payload \in Seq(Block) /\ returned \in Seq(Block) /\ delivered \in Seq(Block)
  /\ result \in [records : Int, blocks : Int, duplicates : Int]

Abstract == INSTANCE MergedRun

\* The resumable job implements the one-shot merge: whatever budgets the
\* caller chooses and wherever the sink raises, the stream is the newer-wins
\* sorted union, one record at a time, and DONE is said only at its end.
ImplementsMergedRun == Abstract!Spec

\* The keys of the output stream are strictly increasing: no record is
\* emitted twice, not even by the call that follows one a sink has cut.  The
\* refinement implies it; the proofs use it by itself.
StreamIncreasing ==
  \A m, n \in 1..Len(stream) : m < n => stream[m].key < stream[n].key

\* DONE is never said too early, and then the stream holds, for every key of
\* either run, the source's record if it has one and the target's if not.
DoneIsComplete ==
  done => {stream[n] : n \in 1..Len(stream)} = Abstract!Merged(src, tgt)

\* "At most one not-yet-complete logical output block is retained": the
\* pending records never fill a block between two steps.
PendingBounded == Len(pending) < ItemsPerBlock

Flatten(blocks) ==
  LET f[n \in 0..Len(blocks)] == IF n = 0 THEN <<>> ELSE f[n - 1] \o blocks[n].recs
  IN  f[Len(blocks)]

\* The records of the stream before the n-th block.
Placed(n) == (n - 1) * ItemsPerBlock

\* The blocks handed out and the pending records are the stream, in its order:
\* nothing is lost or repeated at the boundary of a block or of a call.
NothingLost ==
  /\ \A n \in 1..Len(delivered) : \A k \in 1..Len(delivered[n].recs) :
       delivered[n].recs[k] = stream[Placed(n) + k]
  /\ \A k \in 1..Len(pending) : pending[k] = stream[Placed(Len(delivered) + 1) + k]
  /\ Len(stream) = Len(pending)
                     + IF delivered = <<>> THEN 0
                       ELSE Placed(Len(delivered)) + Len(delivered[Len(delivered)].recs)

\* Every block but the last one of a finished merge is full, and their ranks
\* count up from 0 (canonical packing of the target level).
BlocksCanonical ==
  \A n \in 1..Len(delivered) :
    /\ delivered[n].rank = n - 1
    /\ \/ Len(delivered[n].recs) = ItemsPerBlock
       \/ done /\ n = Len(delivered) /\ Len(delivered[n].recs) \in 1..ItemsPerBlock

\* The caller that keeps only the returned payloads gets every block the sink
\* gets, once and in order.
PayloadIsDelivery == returned \o payload = delivered

\* The finalized counters describe the merge: one record for every key, one
\* duplicate for every shared one, and no block but the last short.
ResultTruthful ==
  result # NotFinalized =>
    /\ result.records = Len(src) + Len(tgt) - result.duplicates
    /\ result.records = Len(stream)
    /\ (result.blocks - 1) * ItemsPerBlock < result.records
    /\ result.records <= result.blocks * ItemsPerBlock
=============================================================================
