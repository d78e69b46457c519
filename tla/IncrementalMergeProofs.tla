----------------------- MODULE IncrementalMergeProofs -----------------------
(***************************************************************************)
(* The resumable merge implements the one-shot merge, for all runs, block  *)
(* sizes and budgets and wherever the caller's sink raises.                *)
(***************************************************************************)
EXTENDS IncrementalMerge, SequenceTheorems, TLAPS

-----------------------------------------------------------------------------
(* Types. *)

\* The runs are sequences of integers.
LEMMA RunType ==
  ASSUME NEW run \in Runs
  PROVE  run \in Seq(Int) /\ Len(run) \in Nat /\ DOMAIN run = 1..Len(run)
BY RunsAssumption

\* The next decision is about a record, and moves the cursors inside the runs.
LEMMA NextType ==
  ASSUME TypeOK, ~Exhausted
  PROVE  NextRecord \in Record /\ (MoveCursors => i' \in 0..Len(src) /\ j' \in 0..Len(tgt))
<1>1. src \in Seq(Int) /\ tgt \in Seq(Int) /\ i \in 0..Len(src) /\ j \in 0..Len(tgt)
  BY RunType DEF TypeOK
<1>2. TakesSource => i + 1 \in 1..Len(src)
  BY <1>1 DEF TakesSource
<1>3. TakesTarget => j + 1 \in 1..Len(tgt)
  BY <1>1 DEF TakesTarget
<1>4. TakesSource \/ TakesTarget
  <2>1. CASE i < Len(src) /\ j < Len(tgt)
    <3>1. src[i + 1] \in Int /\ tgt[j + 1] \in Int
      BY <1>1, <2>1
    <3> QED
      BY <2>1, <3>1 DEF TakesSource, TakesTarget
  <2> QED
    BY <1>1, <2>1 DEF Exhausted, TakesSource, TakesTarget
<1>5. NextRecord \in Record
  BY <1>1, <1>2, <1>3, <1>4 DEF NextRecord, Record
<1>6. MoveCursors => i' \in 0..Len(src) /\ j' \in 0..Len(tgt)
  BY <1>1, <1>2, <1>3 DEF MoveCursors
<1> QED
  BY <1>5, <1>6

\* The operations of a call keep the types of what they change.
LEMMA CutType ==
  ASSUME TypeOK, NEW recs \in Seq(Record), Cut(recs)
  PROVE  /\ pending' \in Seq(Record) /\ emitted' \in Nat /\ delivered' \in Seq(Block)
         /\ delivered' # <<>> /\ delivered'[Len(delivered')] \in Block
<1>1. [rank |-> emitted, recs |-> recs] \in Block
  BY DEF TypeOK, Block
<1>2. delivered \in Seq(Block) /\ delivered' = Append(delivered, [rank |-> emitted, recs |-> recs])
  BY DEF TypeOK, Cut
<1>3. pending' \in Seq(Record) /\ emitted' \in Nat
  BY DEF TypeOK, Cut
<1> HIDE DEF Block
<1> QED
  BY <1>1, <1>2, <1>3

\* A step of the job whatever the budget of the call: MaxQuantum bounds the
\* budgets TLC enumerates, not what follows from a call.
AnyStep == (\E q \in Nat : Advance(q)) \/ Job \/ Finalize

LEMMA NextIsAnyStep == [Next]_vars => [AnyStep]_vars
<1>1. \A q \in 1..MaxQuantum : q \in Nat
  BY BoundsAssumption
<1> QED
  BY <1>1 DEF Next, AnyStep

LEMMA StepType ==
  ASSUME TypeOK, [AnyStep]_vars
  PROVE  TypeOK'
<1> USE DEF inputs, cursors, handed
<1>0. /\ src \in Runs /\ tgt \in Runs /\ i \in 0..Len(src) /\ j \in 0..Len(tgt)
      /\ stream \in Seq(Record) /\ pending \in Seq(Record)
      /\ emitted \in Nat /\ duplicates \in Nat /\ done \in BOOLEAN /\ inCall \in BOOLEAN
      /\ left \in Nat /\ calls \in Nat
      /\ payload \in Seq(Block) /\ returned \in Seq(Block) /\ delivered \in Seq(Block)
      /\ result \in [records : Int, blocks : Int, duplicates : Int]
  BY DEF TypeOK
<1>1. <<>> \in Seq(Record) /\ <<>> \in Seq(Block)
  OBVIOUS
<1>2. ASSUME ~Exhausted
      PROVE  Append(stream, NextRecord) \in Seq(Record) /\ Append(pending, NextRecord) \in Seq(Record)
  BY <1>0, <1>2, NextType
<1>3. MoveCursors => duplicates' \in Nat
  BY <1>0 DEF MoveCursors
<1> HIDE DEF Record, Block
<1>4. ASSUME NEW q \in Nat, Advance(q)
      PROVE  TypeOK'
  BY <1>0, <1>1, <1>4 DEF Advance, TypeOK
<1>5. CASE DecideKeep
  BY <1>0, <1>2, <1>3, <1>5, NextType DEF DecideKeep, Deciding, TypeOK
<1>6. CASE DecideFlush
  <2>1. Append(pending, NextRecord) \in Seq(Record) /\ Append(stream, NextRecord) \in Seq(Record)
    BY <1>2, <1>6 DEF DecideFlush, Deciding
  <2>2. /\ pending' \in Seq(Record) /\ emitted' \in Nat /\ delivered' \in Seq(Block)
        /\ delivered'[Len(delivered')] \in Block
    BY <2>1, <1>6, CutType DEF DecideFlush
  <2> QED
    BY <1>0, <1>3, <1>6, <2>1, <2>2, NextType DEF DecideFlush, Deciding, TypeOK
<1>7. CASE DecideSinkRaises
  <2>1. Append(pending, NextRecord) \in Seq(Record) /\ Append(stream, NextRecord) \in Seq(Record)
    BY <1>2, <1>7 DEF DecideSinkRaises, Deciding
  <2>2. pending' \in Seq(Record) /\ emitted' \in Nat /\ delivered' \in Seq(Block)
    BY <2>1, <1>7, CutType DEF DecideSinkRaises
  <2> QED
    BY <1>0, <1>1, <1>7, <2>1, <2>2 DEF DecideSinkRaises, Raise, TypeOK
<1>8. CASE DecideRefused
  BY <1>0, <1>1, <1>2, <1>8 DEF DecideRefused, Deciding, Raise, TypeOK
<1>9. CASE Return
  <2>1. done' \in BOOLEAN
    BY <1>9 DEF Return, Exhausted
  <2>2. returned' \in Seq(Block)
    <3>1. returned' = returned \o payload
      BY <1>9 DEF Return, GiveBack
    <3> QED
      BY <1>0, <3>1
  <2>3. UNCHANGED <<src, tgt, i, j, duplicates, stream, pending, emitted, calls, delivered, result>>
    BY <1>9 DEF Return
  <2>4. inCall' = FALSE /\ left' = 0 /\ payload' = <<>>
    BY <1>9 DEF Return, GiveBack
  <2> QED
    BY <1>0, <1>1, <2>1, <2>2, <2>3, <2>4 DEF TypeOK
<1>10. CASE ReturnLast
  <2>1. /\ pending' \in Seq(Record) /\ emitted' \in Nat /\ delivered' \in Seq(Block)
        /\ delivered'[Len(delivered')] \in Block
    BY <1>0, <1>10, CutType DEF ReturnLast
  <2>2. returned' \in Seq(Block)
    <3>1. Append(payload, delivered'[Len(delivered')]) \in Seq(Block)
      BY <1>0, <2>1
    <3>2. returned' = returned \o Append(payload, delivered'[Len(delivered')])
      BY <1>10 DEF ReturnLast, GiveBack
    <3> QED
      BY <1>0, <3>1, <3>2
  <2> QED
    BY <1>0, <1>1, <1>10, <2>1, <2>2 DEF ReturnLast, GiveBack, TypeOK
<1>11. CASE ReturnSinkRaises
  <2>1. pending' \in Seq(Record) /\ emitted' \in Nat /\ delivered' \in Seq(Block)
    BY <1>0, <1>11, CutType DEF ReturnSinkRaises
  <2> QED
    BY <1>0, <1>1, <1>11, <2>1 DEF ReturnSinkRaises, Raise, TypeOK
<1>12. CASE Finalize
  BY <1>0, <1>12 DEF Finalize, Totals, TypeOK
<1>13. CASE UNCHANGED vars
  BY <1>0, <1>13 DEF vars, TypeOK
<1> QED
  BY <1>4, <1>5, <1>6, <1>7, <1>8, <1>9, <1>10, <1>11, <1>12, <1>13 DEF AnyStep, Job

LEMMA InitType == Init => TypeOK
<1> SUFFICES ASSUME Init
             PROVE  TypeOK
  OBVIOUS
<1>1. src \in Runs /\ tgt \in Runs /\ i \in 0..Len(src) /\ j \in 0..Len(tgt)
  BY RunType DEF Init
<1>2. result \in [records : Int, blocks : Int, duplicates : Int]
  BY DEF Init, NotFinalized
<1>3. <<>> \in Seq(Record) /\ <<>> \in Seq(Block)
  OBVIOUS
<1> QED
  BY <1>1, <1>2, <1>3 DEF Init, TypeOK

\* The cursors never leave their runs and every variable has its type.
THEOREM TypesAlwaysHold == Spec => []TypeOK
<1>1. TypeOK /\ [Next]_vars => TypeOK'
  BY StepType, NextIsAnyStep
<1> QED
  BY InitType, <1>1, PTL DEF Spec

-----------------------------------------------------------------------------
(* The cursors split both runs at one key: what is behind them is smaller   *)
(* than what is ahead of them, across the runs too.                         *)

Split ==
  /\ \A m \in 1..i, n \in i + 1..Len(src) : src[m] < src[n]
  /\ \A m \in 1..j, n \in j + 1..Len(tgt) : tgt[m] < tgt[n]
  /\ \A m \in 1..i, n \in j + 1..Len(tgt) : src[m] < tgt[n]
  /\ \A m \in 1..j, n \in i + 1..Len(src) : tgt[m] < src[n]

\* The records of the merge that are behind the cursors.
Taken ==
  {[key |-> src[m], from |-> "source"] : m \in 1..i}
    \cup {[key |-> tgt[m], from |-> "target"] :
            m \in {n \in 1..j : tgt[n] \notin Abstract!KeysIn(src)}}

\* What is used of the runs and cursors below.
LEMMA RunFacts ==
  ASSUME TypeOK
  PROVE  /\ src \in Seq(Int) /\ tgt \in Seq(Int)
         /\ Len(src) \in Nat /\ Len(tgt) \in Nat
         /\ i \in 0..Len(src) /\ j \in 0..Len(tgt)
         /\ \A m \in 1..Len(src) : src[m] \in Int
         /\ \A m \in 1..Len(tgt) : tgt[m] \in Int
         /\ \A m, n \in 1..Len(src) : m < n => src[m] < src[n]
         /\ \A m, n \in 1..Len(tgt) : m < n => tgt[m] < tgt[n]
<1>1. src \in Runs /\ tgt \in Runs /\ i \in 0..Len(src) /\ j \in 0..Len(tgt)
  BY DEF TypeOK
<1>2. ASSUME NEW run \in Runs
      PROVE  /\ run \in Seq(Int) /\ Len(run) \in Nat
             /\ \A m \in 1..Len(run) : run[m] \in Int
             /\ \A m, n \in 1..Len(run) : m < n => run[m] < run[n]
  <2>1. run \in Seq(Int) /\ Len(run) \in Nat /\ DOMAIN run = 1..Len(run)
    BY RunType
  <2>2. \A m \in 1..Len(run) : run[m] \in Int
    BY <2>1
  <2>3. StrictlyIncreasing(run)
    BY RunsAssumption
  <2> QED
    BY <2>1, <2>2, <2>3 DEF StrictlyIncreasing
<1> QED
  BY <1>1, <1>2

\* Whichever run the next record is taken from, nothing ahead is smaller.
LEMMA Choice ==
  ASSUME TypeOK, Split, ~Exhausted
  PROVE  /\ TakesSource =>
              /\ i + 1 \in 1..Len(src)
              /\ \A n \in i + 1..Len(src) : src[i + 1] <= src[n]
              /\ \A n \in j + 1..Len(tgt) : src[i + 1] <= tgt[n]
         /\ ~TakesSource =>
              /\ TakesTarget /\ j + 1 \in 1..Len(tgt)
              /\ \A n \in j + 1..Len(tgt) : tgt[j + 1] <= tgt[n]
              /\ \A n \in i + 1..Len(src) : tgt[j + 1] < src[n]
              /\ tgt[j + 1] \notin Abstract!KeysIn(src)
<1>1. /\ Len(src) \in Nat /\ Len(tgt) \in Nat /\ i \in 0..Len(src) /\ j \in 0..Len(tgt)
      /\ \A m \in 1..Len(src) : src[m] \in Int
      /\ \A m \in 1..Len(tgt) : tgt[m] \in Int
      /\ \A m, n \in 1..Len(src) : m < n => src[m] < src[n]
      /\ \A m, n \in 1..Len(tgt) : m < n => tgt[m] < tgt[n]
  BY RunFacts
<1>2. \A n \in i + 1..Len(src) : src[i + 1] <= src[n]
  <2> TAKE n \in i + 1..Len(src)
  <2>1. i + 1 \in 1..Len(src) /\ n \in 1..Len(src) /\ (i + 1 = n \/ i + 1 < n)
    BY <1>1
  <2>2. src[i + 1] \in Int /\ src[n] \in Int /\ (i + 1 < n => src[i + 1] < src[n])
    BY <1>1, <2>1
  <2> QED
    BY <2>1, <2>2
<1>5. \A n \in j + 1..Len(tgt) : tgt[j + 1] <= tgt[n]
  <2> TAKE n \in j + 1..Len(tgt)
  <2>1. j + 1 \in 1..Len(tgt) /\ n \in 1..Len(tgt) /\ (j + 1 = n \/ j + 1 < n)
    BY <1>1
  <2>2. tgt[j + 1] \in Int /\ tgt[n] \in Int /\ (j + 1 < n => tgt[j + 1] < tgt[n])
    BY <1>1, <2>1
  <2> QED
    BY <2>1, <2>2
<1>3. CASE TakesSource
  <2>1. i + 1 \in 1..Len(src) /\ src[i + 1] \in Int
    BY <1>1, <1>3 DEF TakesSource
  <2>3. \A n \in j + 1..Len(tgt) : src[i + 1] <= tgt[n]
    <3> TAKE n \in j + 1..Len(tgt)
    <3>1. j < Len(tgt) /\ tgt[j + 1] \in Int /\ tgt[n] \in Int
      BY <1>1
    <3>2. src[i + 1] <= tgt[j + 1]
      BY <1>3, <3>1, <1>1 DEF TakesSource
    <3>3. tgt[j + 1] <= tgt[n]
      BY <1>5
    <3> QED
      BY <2>1, <3>1, <3>2, <3>3
  <2> QED
    BY <1>2, <1>3, <2>1, <2>3
<1>4. CASE ~TakesSource
  <2>1. i = Len(src) \/ (j < Len(tgt) /\ tgt[j + 1] < src[i + 1])
    BY <1>1, <1>4 DEF TakesSource
  <2>2. j < Len(tgt) /\ j + 1 \in 1..Len(tgt) /\ tgt[j + 1] \in Int
    BY <1>1, <2>1 DEF Exhausted
  <2>3. TakesTarget
    BY <1>1, <2>1, <2>2 DEF TakesTarget
  <2>5. \A n \in i + 1..Len(src) : tgt[j + 1] < src[n]
    <3> TAKE n \in i + 1..Len(src)
    <3>1. src[n] \in Int /\ src[i + 1] \in Int /\ tgt[j + 1] < src[i + 1]
      BY <1>1, <2>1
    <3>2. src[i + 1] <= src[n]
      BY <1>2
    <3> QED
      BY <2>2, <3>1, <3>2
  <2>6. \A n \in 1..i : src[n] < tgt[j + 1]
    BY <1>1, <2>2 DEF Split
  <2>7. \A n \in 1..Len(src) : src[n] # tgt[j + 1]
    BY <1>1, <2>2, <2>5, <2>6
  <2> QED
    BY <1>4, <1>5, <2>2, <2>3, <2>5, <2>7 DEF Abstract!KeysIn
<1> QED
  BY <1>3, <1>4

\* A decision moves the split past its record.
LEMMA SplitMoves ==
  ASSUME TypeOK, Split, ~Exhausted, MoveCursors, UNCHANGED inputs
  PROVE  Split'
<1>0. src' = src /\ tgt' = tgt
  BY DEF inputs
<1>1. /\ Len(src) \in Nat /\ Len(tgt) \in Nat /\ i \in 0..Len(src) /\ j \in 0..Len(tgt)
      /\ \A m \in 1..Len(src) : src[m] \in Int
      /\ \A m \in 1..Len(tgt) : tgt[m] \in Int
      /\ \A m, n \in 1..Len(src) : m < n => src[m] < src[n]
      /\ \A m, n \in 1..Len(tgt) : m < n => tgt[m] < tgt[n]
  BY RunFacts
<1>2. i' \in 0..Len(src) /\ j' \in 0..Len(tgt)
  BY NextType
<1>3. /\ i' = IF TakesSource THEN i + 1 ELSE i
      /\ j' = IF TakesTarget THEN j + 1 ELSE j
  BY DEF MoveCursors
<1>4. \A m \in 1..i', n \in i' + 1..Len(src) : src[m] < src[n]
  <2>1. ASSUME NEW c \in 0..Len(src), NEW m \in 1..c, NEW n \in c + 1..Len(src)
        PROVE  src[m] < src[n]
    <3>1. m \in 1..Len(src) /\ n \in 1..Len(src) /\ m < n
      BY <1>1
    <3> QED
      BY <1>1, <3>1
  <2> QED
    BY <1>2, <2>1
<1>5. \A m \in 1..j', n \in j' + 1..Len(tgt) : tgt[m] < tgt[n]
  <2>1. ASSUME NEW c \in 0..Len(tgt), NEW m \in 1..c, NEW n \in c + 1..Len(tgt)
        PROVE  tgt[m] < tgt[n]
    <3>1. m \in 1..Len(tgt) /\ n \in 1..Len(tgt) /\ m < n
      BY <1>1
    <3> QED
      BY <1>1, <3>1
  <2> QED
    BY <1>2, <2>1
<1>6. \A m \in 1..i', n \in j' + 1..Len(tgt) : src[m] < tgt[n]
  <2> TAKE m \in 1..i', n \in j' + 1..Len(tgt)
  <2>1. n \in j + 1..Len(tgt) /\ n \in 1..Len(tgt) /\ m \in 1..Len(src)
    BY <1>1, <1>2, <1>3
  <2>2. src[m] \in Int /\ tgt[n] \in Int /\ tgt[j + 1] \in Int /\ j + 1 \in 1..Len(tgt)
    BY <1>1, <2>1
  <2>3. CASE m \in 1..i
    BY <2>1, <2>3 DEF Split
  <2>4. CASE m \notin 1..i
    <3>1. TakesSource /\ m = i + 1
      BY <1>1, <1>3, <2>4
    <3>2. src[m] <= tgt[j + 1]
      BY <1>1, <2>1, <3>1 DEF TakesSource
    <3>3. CASE TakesTarget
      <4>1. tgt[j + 1] < tgt[n]
        BY <1>1, <1>3, <2>1, <2>2, <3>3
      <4> QED
        BY <2>2, <3>2, <4>1
    <3>4. CASE ~TakesTarget
      <4>1. src[m] < tgt[j + 1]
        BY <1>1, <2>1, <2>2, <3>1, <3>4 DEF TakesTarget
      <4>2. j + 1 = n \/ tgt[j + 1] < tgt[n]
        BY <1>1, <2>1, <2>2
      <4> QED
        BY <2>2, <4>1, <4>2
    <3> QED
      BY <3>3, <3>4
  <2> QED
    BY <2>3, <2>4
<1>7. \A m \in 1..j', n \in i' + 1..Len(src) : tgt[m] < src[n]
  <2> TAKE m \in 1..j', n \in i' + 1..Len(src)
  <2>1. n \in i + 1..Len(src) /\ n \in 1..Len(src) /\ m \in 1..Len(tgt)
    BY <1>1, <1>2, <1>3
  <2>2. tgt[m] \in Int /\ src[n] \in Int /\ src[i + 1] \in Int /\ i + 1 \in 1..Len(src)
    BY <1>1, <2>1
  <2>3. CASE m \in 1..j
    BY <2>1, <2>3 DEF Split
  <2>4. CASE m \notin 1..j
    <3>1. TakesTarget /\ m = j + 1
      BY <1>1, <1>3, <2>4
    <3>2. tgt[m] <= src[i + 1]
      BY <1>1, <2>1, <3>1 DEF TakesTarget
    <3>3. CASE TakesSource
      <4>1. src[i + 1] < src[n]
        BY <1>1, <1>3, <2>1, <2>2, <3>3
      <4> QED
        BY <2>2, <3>2, <4>1
    <3>4. CASE ~TakesSource
      <4>1. tgt[m] < src[i + 1]
        BY <1>1, <2>1, <2>2, <3>1, <3>4 DEF TakesSource
      <4>2. i + 1 = n \/ src[i + 1] < src[n]
        BY <1>1, <2>1, <2>2
      <4> QED
        BY <2>2, <4>1, <4>2
    <3> QED
      BY <3>3, <3>4
  <2> QED
    BY <2>3, <2>4
<1> QED
  BY <1>0, <1>4, <1>5, <1>6, <1>7 DEF Split

\* ... and takes exactly that record: on equal keys the target's is dropped.
LEMMA TakenGrows ==
  ASSUME TypeOK, Split, ~Exhausted, MoveCursors, UNCHANGED inputs
  PROVE  Taken' = Taken \cup {NextRecord}
<1>0. src' = src /\ tgt' = tgt
  BY DEF inputs
<1>1. /\ Len(src) \in Nat /\ Len(tgt) \in Nat /\ i \in 0..Len(src) /\ j \in 0..Len(tgt)
      /\ \A m \in 1..Len(src) : src[m] \in Int
      /\ \A m \in 1..Len(tgt) : tgt[m] \in Int
  BY RunFacts
<1>2. i + 1 \in Nat /\ j + 1 \in Nat /\ 1..i + 1 = 1..i \cup {i + 1} /\ 1..j + 1 = 1..j \cup {j + 1}
  BY <1>1
<1>3. CASE TakesSource
  <2>1. NextRecord = [key |-> src[i + 1], from |-> "source"] /\ i' = i + 1
    BY <1>3 DEF NextRecord, MoveCursors
  <2>2. j' = j \/ (j' = j + 1 /\ tgt[j + 1] \in Abstract!KeysIn(src))
    <3>1. CASE TakesTarget
      <4>1. i + 1 \in 1..Len(src) /\ j + 1 \in 1..Len(tgt)
        BY <1>1, <1>3, <3>1 DEF TakesSource, TakesTarget
      <4>2. src[i + 1] <= tgt[j + 1] /\ tgt[j + 1] <= src[i + 1]
        BY <1>1, <1>3, <3>1, <4>1 DEF TakesSource, TakesTarget
      <4>3. src[i + 1] = tgt[j + 1]
        BY <1>1, <4>1, <4>2
      <4> QED
        BY <3>1, <4>1, <4>3 DEF MoveCursors, Abstract!KeysIn
    <3>2. CASE ~TakesTarget
      BY <3>2 DEF MoveCursors
    <3> QED
      BY <3>1, <3>2
  <2>3. {n \in 1..j' : tgt[n] \notin Abstract!KeysIn(src)} = {n \in 1..j : tgt[n] \notin Abstract!KeysIn(src)}
    BY <1>2, <2>2
  <2>4. {[key |-> src[m], from |-> "source"] : m \in 1..i'}
          = {[key |-> src[m], from |-> "source"] : m \in 1..i} \cup {NextRecord}
    BY <1>2, <2>1
  <2> QED
    BY <1>0, <2>3, <2>4 DEF Taken, Abstract!KeysIn
<1>4. CASE ~TakesSource
  <2>1. TakesTarget /\ tgt[j + 1] \notin Abstract!KeysIn(src)
    BY <1>4, Choice
  <2>2. NextRecord = [key |-> tgt[j + 1], from |-> "target"] /\ i' = i /\ j' = j + 1
    BY <1>4, <2>1 DEF NextRecord, MoveCursors
  <2>3. {n \in 1..j' : tgt[n] \notin Abstract!KeysIn(src)}
          = {n \in 1..j : tgt[n] \notin Abstract!KeysIn(src)} \cup {j + 1}
    BY <1>2, <2>1, <2>2
  <2> QED
    BY <1>0, <2>2, <2>3 DEF Taken, Abstract!KeysIn
<1> QED
  BY <1>3, <1>4

\* The next record is the least one of the merge that is not yet taken.
LEMMA NextIsLeast ==
  ASSUME TypeOK, Split, ~Exhausted
  PROVE  /\ NextRecord \in Abstract!Merged(src, tgt) \ Taken
         /\ \A o \in Abstract!Merged(src, tgt) \ Taken : NextRecord.key <= o.key
<1>1. /\ Len(src) \in Nat /\ Len(tgt) \in Nat /\ i \in 0..Len(src) /\ j \in 0..Len(tgt)
      /\ \A m \in 1..Len(src) : src[m] \in Int
      /\ \A m \in 1..Len(tgt) : tgt[m] \in Int
  BY RunFacts
<1>2. ASSUME NEW o \in Abstract!Merged(src, tgt) \ Taken
      PROVE  \/ \E n \in i + 1..Len(src) : o.key = src[n]
             \/ \E n \in j + 1..Len(tgt) : o.key = tgt[n]
  <2>1. CASE \E n \in 1..Len(src) : o = [key |-> src[n], from |-> "source"]
    <3>1. PICK n \in 1..Len(src) : o = [key |-> src[n], from |-> "source"]
      BY <2>1
    <3>2. n \notin 1..i
      BY <3>1, <1>2 DEF Taken
    <3>3. n \in i + 1..Len(src)
      BY <1>1, <3>2
    <3> QED
      BY <3>1, <3>3
  <2>2. CASE \E n \in 1..Len(tgt) :
               tgt[n] \notin Abstract!KeysIn(src) /\ o = [key |-> tgt[n], from |-> "target"]
    <3>1. PICK n \in 1..Len(tgt) :
            tgt[n] \notin Abstract!KeysIn(src) /\ o = [key |-> tgt[n], from |-> "target"]
      BY <2>2
    <3>2. n \notin 1..j
      BY <3>1, <1>2 DEF Taken
    <3>3. n \in j + 1..Len(tgt)
      BY <1>1, <3>2
    <3> QED
      BY <3>1, <3>3
  <2> QED
    BY <1>2, <2>1, <2>2 DEF Abstract!Merged, Abstract!KeysIn
<1>3. CASE TakesSource
  <2>1. NextRecord = [key |-> src[i + 1], from |-> "source"] /\ i + 1 \in 1..Len(src)
    BY <1>3, Choice DEF NextRecord
  <2>2. \A m \in 1..i : src[m] # src[i + 1]
    <3> TAKE m \in 1..i
    <3>1. i + 1 \in i + 1..Len(src) /\ m \in 1..Len(src)
      BY <1>1, <2>1
    <3> QED
      BY <1>1, <2>1, <3>1 DEF Split
  <2>3. NextRecord \in Abstract!Merged(src, tgt) \ Taken
    BY <2>1, <2>2 DEF Abstract!Merged, Abstract!KeysIn, Taken
  <2>4. \A o \in Abstract!Merged(src, tgt) \ Taken : NextRecord.key <= o.key
    BY <1>2, <1>3, <2>1, Choice
  <2> QED
    BY <2>3, <2>4
<1>4. CASE ~TakesSource
  <2>1. /\ NextRecord = [key |-> tgt[j + 1], from |-> "target"] /\ j + 1 \in 1..Len(tgt)
        /\ tgt[j + 1] \notin Abstract!KeysIn(src)
    BY <1>4, Choice DEF NextRecord
  <2>2. \A m \in 1..j : tgt[m] # tgt[j + 1]
    <3> TAKE m \in 1..j
    <3>1. j + 1 \in j + 1..Len(tgt) /\ m \in 1..Len(tgt)
      BY <1>1, <2>1
    <3> QED
      BY <1>1, <2>1, <3>1 DEF Split
  <2>3. NextRecord \in Abstract!Merged(src, tgt) \ Taken
    BY <2>1, <2>2 DEF Abstract!Merged, Abstract!KeysIn, Taken
  <2>4. \A o \in Abstract!Merged(src, tgt) \ Taken : NextRecord.key <= o.key
    <3> TAKE o \in Abstract!Merged(src, tgt) \ Taken
    <3>1. CASE \E n \in i + 1..Len(src) : o.key = src[n]
      <4>1. PICK n \in i + 1..Len(src) : o.key = src[n]
        BY <3>1
      <4>2. tgt[j + 1] < src[n]
        BY <1>4, Choice
      <4>3. src[n] \in Int /\ tgt[j + 1] \in Int
        BY <1>1, <2>1
      <4> QED
        BY <2>1, <4>1, <4>2, <4>3
    <3>2. CASE \E n \in j + 1..Len(tgt) : o.key = tgt[n]
      BY <1>4, <2>1, <3>2, Choice
    <3> QED
      BY <1>2, <3>1, <3>2
  <2> QED
    BY <2>3, <2>4
<1> QED
  BY <1>3, <1>4

\* Behind two exhausted cursors is the whole merge.
LEMMA TakenAll ==
  ASSUME TypeOK, Exhausted
  PROVE  Taken = Abstract!Merged(src, tgt)
<1>1. {[key |-> src[m], from |-> "source"] : m \in 1..i}
        = {[key |-> k, from |-> "source"] : k \in Abstract!KeysIn(src)}
  BY DEF Exhausted, Abstract!KeysIn
<1>2. {[key |-> tgt[m], from |-> "target"] : m \in {n \in 1..j : tgt[n] \notin Abstract!KeysIn(src)}}
        = {[key |-> k, from |-> "target"] : k \in Abstract!KeysIn(tgt) \ Abstract!KeysIn(src)}
  BY DEF Exhausted, Abstract!KeysIn
<1> QED
  BY <1>1, <1>2 DEF Taken, Abstract!Merged

-----------------------------------------------------------------------------
(* The stream. *)

\* Appending a record to the stream adds it to what is emitted.
LEMMA EmittedGrows ==
  ASSUME TypeOK, NEW r \in Record, stream' = Append(stream, r)
  PROVE  Abstract!Emitted' = Abstract!Emitted \cup {r}
<1>1. stream \in Seq(Record) /\ Len(stream) \in Nat
  BY DEF TypeOK
<1>2. /\ Len(stream') = Len(stream) + 1
      /\ stream'[Len(stream) + 1] = r
      /\ \A n \in 1..Len(stream) : stream'[n] = stream[n]
  BY <1>1
<1>3. 1..Len(stream) + 1 = 1..Len(stream) \cup {Len(stream) + 1}
  BY <1>1
<1> QED
  BY <1>2, <1>3 DEF Abstract!Emitted

\* A record that the PGM accepts extends a strictly increasing stream.
LEMMA AppendIncreasing ==
  ASSUME TypeOK, StreamIncreasing, ~KeyRefused, NextRecord \in Record,
         stream' = Append(stream, NextRecord)
  PROVE  StreamIncreasing'
<1>1. stream \in Seq(Record) /\ Len(stream) \in Nat
  BY DEF TypeOK
<1>2. /\ Len(stream') = Len(stream) + 1
      /\ stream'[Len(stream) + 1] = NextRecord
      /\ \A n \in 1..Len(stream) : stream'[n] = stream[n]
  BY <1>1
<1>3. NextRecord.key \in Int /\ \A n \in 1..Len(stream) : stream[n].key \in Int
  <2>1. \A n \in 1..Len(stream) : stream[n] \in Record
    BY <1>1
  <2>2. \A r \in Record : r.key \in Int
    BY DEF Record
  <2> QED
    BY <2>1, <2>2
<1>4. SUFFICES ASSUME NEW m \in 1..Len(stream'), NEW n \in 1..Len(stream'), m < n
               PROVE  stream'[m].key < stream'[n].key
  BY DEF StreamIncreasing
<1>5. CASE n \in 1..Len(stream)
  <2>1. m \in 1..Len(stream)
    BY <1>1, <1>2, <1>4, <1>5
  <2> QED
    BY <1>2, <1>4, <1>5, <2>1 DEF StreamIncreasing
<1>6. CASE n \notin 1..Len(stream)
  <2>1. n = Len(stream) + 1 /\ m \in 1..Len(stream) /\ Len(stream) \in 1..Len(stream) /\ stream # <<>>
    BY <1>1, <1>2, <1>4, <1>6
  <2>2. stream[Len(stream)].key < NextRecord.key
    BY <1>3, <2>1 DEF KeyRefused
  <2>3. m = Len(stream) \/ stream[m].key < stream[Len(stream)].key
    BY <1>1, <2>1 DEF StreamIncreasing
  <2>4. stream[m].key < NextRecord.key
    BY <1>3, <2>1, <2>2, <2>3
  <2> QED
    BY <1>2, <2>1, <2>4
<1> QED
  BY <1>5, <1>6

\* Where the stream stands: it has the records behind the cursors, and the
\* next one too when the sink has raised while that record was being decided;
\* the PGM then refuses the record for ever.
StreamStands ==
  \/ Abstract!Emitted = Taken
  \/ /\ ~Exhausted /\ KeyRefused
     /\ Abstract!Emitted = Taken \cup {NextRecord}

MergeInv ==
  /\ TypeOK
  /\ Split
  /\ StreamIncreasing
  /\ inCall => ~done
  /\ done => Exhausted
  /\ StreamStands

\* At the end the stream is the whole merge.
LEMMA StandsAtEnd ==
  ASSUME MergeInv, Exhausted
  PROVE  Abstract!Emitted = Abstract!Merged(src, tgt) /\ Abstract!Missing = {}
BY TakenAll DEF MergeInv, StreamStands, Abstract!Missing

\* While the PGM accepts the next record, that one is the least missing one.
LEMMA NextIsMissing ==
  ASSUME MergeInv, ~Exhausted, ~KeyRefused
  PROVE  /\ Abstract!Emitted = Taken
         /\ NextRecord \in Abstract!Missing
         /\ \A o \in Abstract!Missing : NextRecord.key <= o.key
<1>1. TypeOK /\ Split /\ Abstract!Emitted = Taken
  BY DEF MergeInv, StreamStands
<1> QED
  BY <1>1, NextIsLeast DEF Abstract!Missing

LEMMA InitMerge == Init => MergeInv
<1> SUFFICES ASSUME Init
             PROVE  MergeInv
  OBVIOUS
<1>1. TypeOK
  BY InitType
<1>2. Split
  BY DEF Init, Split
<1>3. StreamIncreasing
  BY DEF Init, StreamIncreasing
<1>4. Abstract!Emitted = {} /\ Taken = {}
  BY DEF Init, Abstract!Emitted, Taken
<1> QED
  BY <1>1, <1>2, <1>3, <1>4 DEF Init, MergeInv, StreamStands

\* A step that leaves the runs, the cursors and the stream alone leaves the
\* invariant's statements about them alone.
LEMMA Untouched ==
  ASSUME MergeInv, TypeOK', UNCHANGED <<src, tgt, i, j, stream>>
  PROVE  /\ Split' /\ StreamIncreasing' /\ StreamStands'
         /\ Exhausted' = Exhausted
<1>1. Split' /\ StreamIncreasing' /\ Exhausted' = Exhausted
  BY DEF MergeInv, Split, StreamIncreasing, Exhausted
<1>2. Abstract!Emitted' = Abstract!Emitted /\ Taken' = Taken
  BY DEF Abstract!Emitted, Taken, Abstract!KeysIn
<1>3. NextRecord' = NextRecord /\ KeyRefused' = KeyRefused
  BY DEF NextRecord, TakesSource, KeyRefused
<1> QED
  BY <1>1, <1>2, <1>3 DEF MergeInv, StreamStands

\* A decision that moves the cursors past the record it emits.
LEMMA Decided ==
  ASSUME MergeInv, TypeOK', Deciding, ~KeyRefused, MoveCursors, UNCHANGED inputs,
         stream' = Append(stream, NextRecord)
  PROVE  Split' /\ StreamIncreasing' /\ StreamStands'
<1>1. TypeOK /\ Split /\ StreamIncreasing /\ ~Exhausted
  BY DEF MergeInv, Deciding
<1>2. NextRecord \in Record
  BY <1>1, NextType
<1>3. Abstract!Emitted' = Abstract!Emitted \cup {NextRecord}
  BY <1>1, <1>2, EmittedGrows
<1>4. Taken' = Taken \cup {NextRecord}
  BY <1>1, TakenGrows
<1>5. Abstract!Emitted = Taken
  BY <1>1, NextIsMissing
<1> QED
  BY <1>1, <1>2, <1>3, <1>4, <1>5, SplitMoves, AppendIncreasing DEF StreamStands

LEMMA StepMerge ==
  ASSUME MergeInv, [AnyStep]_vars
  PROVE  MergeInv'
<1> USE DEF inputs, cursors, handed
<1>1. TypeOK /\ TypeOK'
  BY StepType DEF MergeInv
<1>2. ASSUME NEW q \in Nat, Advance(q)
      PROVE  MergeInv'
  BY <1>1, <1>2, Untouched DEF Advance, MergeInv
<1>3. CASE DecideKeep
  <2>1. Split' /\ StreamIncreasing' /\ StreamStands'
    BY <1>1, <1>3, Decided DEF DecideKeep
  <2> QED
    BY <1>1, <1>3, <2>1 DEF DecideKeep, Deciding, MergeInv
<1>4. CASE DecideFlush
  <2>1. Split' /\ StreamIncreasing' /\ StreamStands'
    BY <1>1, <1>4, Decided DEF DecideFlush
  <2> QED
    BY <1>1, <1>4, <2>1 DEF DecideFlush, Deciding, MergeInv
<1>5. CASE DecideSinkRaises
  <2>1. /\ ~Exhausted /\ ~KeyRefused /\ inCall /\ stream' = Append(stream, NextRecord)
        /\ UNCHANGED <<src, tgt, i, j, done>> /\ inCall' = FALSE
    BY <1>5 DEF DecideSinkRaises, Deciding, Raise
  <2>2. NextRecord \in Record
    BY <1>1, <2>1, NextType
  <2>3. Abstract!Emitted' = Taken \cup {NextRecord}
    BY <1>1, <2>1, <2>2, EmittedGrows, NextIsMissing
  <2>4. NextRecord' = NextRecord /\ Taken' = Taken /\ Exhausted' = Exhausted /\ Split'
    BY <2>1 DEF NextRecord, TakesSource, Taken, Abstract!KeysIn, Exhausted, Split, MergeInv
  <2>5. KeyRefused'
    <3>1. stream' # <<>> /\ stream'[Len(stream')] = NextRecord
      <4>1. stream \in Seq(Record) /\ stream' = Append(stream, NextRecord)
        BY <1>1, <2>1 DEF TypeOK
      <4> QED
        BY <2>2, <4>1
    <3>2. NextRecord.key \in Int
      BY <2>2 DEF Record
    <3> QED
      BY <2>4, <3>1, <3>2 DEF KeyRefused
  <2>6. StreamIncreasing'
    BY <1>1, <2>1, <2>2, AppendIncreasing DEF MergeInv
  <2>7. StreamStands'
    BY <2>1, <2>3, <2>4, <2>5 DEF StreamStands
  <2> QED
    BY <1>1, <2>1, <2>4, <2>6, <2>7 DEF MergeInv
<1>6. CASE DecideRefused
  BY <1>1, <1>6, Untouched DEF DecideRefused, Deciding, Raise, MergeInv
<1>7. CASE Return
  BY <1>1, <1>7, Untouched DEF Return, Returning, GiveBack, MergeInv
<1>8. CASE ReturnLast
  BY <1>1, <1>8, Untouched DEF ReturnLast, Returning, GiveBack, MergeInv
<1>9. CASE ReturnSinkRaises
  BY <1>1, <1>9, Untouched DEF ReturnSinkRaises, Returning, Raise, MergeInv
<1>10. CASE Finalize
  BY <1>1, <1>10, Untouched DEF Finalize, MergeInv
<1>11. CASE UNCHANGED vars
  BY <1>1, <1>11, Untouched DEF vars, MergeInv
<1> QED
  BY <1>2, <1>3, <1>4, <1>5, <1>6, <1>7, <1>8, <1>9, <1>10, <1>11 DEF AnyStep, Job

LEMMA MergeAlways == Spec => []MergeInv
<1>1. MergeInv /\ [Next]_vars => MergeInv'
  BY StepMerge, NextIsAnyStep
<1> QED
  BY InitMerge, <1>1, PTL DEF Spec

\* No key is emitted twice or out of order, whatever the budgets and however
\* often the sink raises and the caller retries.
THEOREM StreamAlwaysIncreasing == Spec => []StreamIncreasing
<1>1. MergeInv => StreamIncreasing
  BY DEF MergeInv
<1> QED
  BY MergeAlways, <1>1, PTL

\* DONE means that the stream is the newer-wins sorted union of the two runs.
THEOREM DoneAlwaysComplete == Spec => []DoneIsComplete
<1>1. MergeInv => DoneIsComplete
  BY StandsAtEnd DEF MergeInv, DoneIsComplete, Abstract!Emitted
<1> QED
  BY MergeAlways, <1>1, PTL

-----------------------------------------------------------------------------
(* The refinement. *)

\* A decision the PGM accepts emits the least missing record.
LEMMA DecisionEmits ==
  ASSUME MergeInv, Deciding, ~KeyRefused, UNCHANGED <<src, tgt, done>>,
         stream' = Append(stream, NextRecord)
  PROVE  Abstract!Emit
BY NextIsMissing DEF MergeInv, Deciding, Abstract!Emit

\* A step that sets done only at the end of both runs finishes the merge.
LEMMA EndFinishes ==
  ASSUME MergeInv, inCall, UNCHANGED <<src, tgt, stream>>, done' = Exhausted
  PROVE  Abstract!Finish \/ UNCHANGED <<src, tgt, stream, done>>
<1>1. CASE Exhausted
  BY <1>1, StandsAtEnd DEF Abstract!Finish
<1>2. CASE ~Exhausted
  <2>1. done \in BOOLEAN /\ ~done
    BY DEF MergeInv, TypeOK
  <2>2. done' \in BOOLEAN /\ ~done'
    BY <1>2 DEF Exhausted
  <2>3. done' = done
    BY <2>1, <2>2
  <2> QED
    BY <2>3
<1> QED
  BY <1>1, <1>2

LEMMA StepRefines ==
  ASSUME MergeInv, [Next]_vars
  PROVE  [Abstract!Next]_<<src, tgt, stream, done>>
<1> USE DEF inputs, cursors, handed
<1>1. ASSUME NEW q \in 1..MaxQuantum, Advance(q)
      PROVE  UNCHANGED <<src, tgt, stream, done>>
  BY <1>1 DEF Advance
<1>2. CASE DecideKeep
  BY <1>2, DecisionEmits DEF DecideKeep, Abstract!Next
<1>3. CASE DecideFlush
  BY <1>3, DecisionEmits DEF DecideFlush, Abstract!Next
<1>4. CASE DecideSinkRaises
  BY <1>4, DecisionEmits DEF DecideSinkRaises, Abstract!Next
<1>5. CASE DecideRefused
  BY <1>5 DEF DecideRefused
<1>6. CASE Return
  BY <1>6, EndFinishes DEF Return, Returning, Abstract!Next
<1>7. CASE ReturnLast
  <2>1. Exhausted /\ inCall /\ done' = Exhausted
    BY <1>7 DEF ReturnLast, Returning, Exhausted
  <2> QED
    BY <1>7, <2>1, EndFinishes DEF ReturnLast, Abstract!Next
<1>8. CASE ReturnSinkRaises
  <2>1. Exhausted /\ inCall /\ done' = Exhausted
    BY <1>8 DEF ReturnSinkRaises, Returning, Exhausted
  <2> QED
    BY <1>8, <2>1, EndFinishes DEF ReturnSinkRaises, Abstract!Next
<1>9. CASE Finalize
  BY <1>9 DEF Finalize
<1>10. CASE UNCHANGED vars
  BY <1>10 DEF vars
<1> QED
  BY <1>1, <1>2, <1>3, <1>4, <1>5, <1>6, <1>7, <1>8, <1>9, <1>10 DEF Next, Job

\* The resumable merge implements the one-shot merge: the budgets of the calls
\* and the exceptions of the sink are invisible in the stream.
THEOREM MergeImplementsRun == Spec => ImplementsMergedRun
<1>1. Init => Abstract!Init
  BY DEF Init, Abstract!Init
<1>2. MergeInv /\ [Next]_vars => [Abstract!Next]_<<src, tgt, stream, done>>
  BY StepRefines
<1> QED
  BY MergeAlways, <1>1, <1>2, PTL DEF Spec, ImplementsMergedRun, Abstract!Spec

-----------------------------------------------------------------------------
(* The blocks, for a sink that does not raise. *)

\* Records behind the cursors are smaller than the next one: a stream of them
\* is never refused.
LEMMA NeverRefused ==
  ASSUME MergeInv, Abstract!Emitted = Taken, ~Exhausted
  PROVE  ~KeyRefused
<1>1. /\ src \in Seq(Int) /\ tgt \in Seq(Int) /\ Len(src) \in Nat /\ Len(tgt) \in Nat
      /\ i \in 0..Len(src) /\ j \in 0..Len(tgt) /\ TypeOK /\ Split
      /\ \A m \in 1..Len(src) : src[m] \in Int
      /\ \A m \in 1..Len(tgt) : tgt[m] \in Int
  BY RunFacts DEF MergeInv
<1>2. SUFFICES ASSUME stream # <<>> PROVE ~(NextRecord.key <= stream[Len(stream)].key)
  BY DEF KeyRefused
<1> DEFINE last == stream[Len(stream)]
<1>3. last \in Taken
  <2>1. Len(stream) \in 1..Len(stream) BY <1>1, <1>2 DEF TypeOK
  <2>2. last \in Abstract!Emitted BY <2>1 DEF Abstract!Emitted
  <2> QED BY <2>2
<1>4. \/ \E m \in 1..i : last.key = src[m]
      \/ \E m \in 1..j : last.key = tgt[m]
  BY <1>3 DEF Taken
<1> HIDE DEF last
<1>5. CASE TakesSource
  <2>1. i + 1 \in 1..Len(src) /\ i + 1 \in i + 1..Len(src) /\ NextRecord.key = src[i + 1]
    BY <1>1, <1>5 DEF TakesSource, NextRecord
  <2>2. src[i + 1] \in Int BY <1>1, <2>1
  <2>3. \A m \in 1..i : src[m] < src[i + 1] /\ src[m] \in Int
    BY <1>1, <2>1 DEF Split
  <2>4. \A m \in 1..j : tgt[m] < src[i + 1] /\ tgt[m] \in Int
    BY <1>1, <2>1 DEF Split
  <2> QED BY <1>4, <2>1, <2>2, <2>3, <2>4 DEF last
<1>6. CASE ~TakesSource
  <2>1. j + 1 \in 1..Len(tgt) /\ NextRecord.key = tgt[j + 1]
    BY <1>1, <1>6, Choice DEF NextRecord
  <2>2. j + 1 \in j + 1..Len(tgt) BY <1>1, <2>1
  <2>3. tgt[j + 1] \in Int BY <1>1, <2>1
  <2>4. \A m \in 1..i : src[m] < tgt[j + 1] /\ src[m] \in Int
    BY <1>1, <2>2 DEF Split
  <2>5. \A m \in 1..j : tgt[m] < tgt[j + 1] /\ tgt[m] \in Int
    BY <1>1, <2>2 DEF Split
  <2> QED BY <1>4, <2>1, <2>3, <2>4, <2>5 DEF last
<1> QED BY <1>5, <1>6

\* Blocks follow each other without gaps.
LEMMA PlacedNext ==
  ASSUME NEW n \in Nat \ {0}
  PROVE  /\ Placed(n) \in Nat /\ Placed(n + 1) = Placed(n) + ItemsPerBlock
         /\ Placed(n + 1) = n * ItemsPerBlock /\ Placed(1) = 0
<1>1. ItemsPerBlock \in Nat \ {0} BY ItemsAssumption
<1>2. \A a, b \in Nat : a * b \in Nat OBVIOUS
<1>3. n - 1 \in Nat BY <1>1
<1>4. Placed(n) \in Nat BY <1>1, <1>2, <1>3 DEF Placed
<1>5. (n + 1) - 1 = n /\ n * ItemsPerBlock = (n - 1) * ItemsPerBlock + ItemsPerBlock
  BY <1>1
<1>6. Placed(n + 1) = n * ItemsPerBlock BY <1>5 DEF Placed
<1>7. Placed(1) = 0 BY <1>1 DEF Placed
<1> QED BY <1>4, <1>5, <1>6, <1>7 DEF Placed

LEMMA PlacedOrder ==
  ASSUME NEW n \in Nat \ {0}, NEW e \in Nat \ {0}, n <= e
  PROVE  Placed(n) <= Placed(e)
<1>1. ItemsPerBlock \in Nat BY ItemsAssumption
<1>2. \A a, b, c \in Nat : a <= b => a * c <= b * c OBVIOUS
<1>3. n - 1 \in Nat /\ e - 1 \in Nat /\ n - 1 <= e - 1 OBVIOUS
<1> QED BY <1>1, <1>2, <1>3 DEF Placed

\* Before the end all blocks are full.
LEMMA FullBlocks ==
  ASSUME TypeOK, NothingLost, BlocksCanonical, ~done
  PROVE  /\ \A n \in 1..Len(delivered) : Len(delivered[n].recs) = ItemsPerBlock
         /\ Len(stream) = Placed(Len(delivered) + 1) + Len(pending)
<1>1. /\ delivered \in Seq(Block) /\ Len(delivered) \in Nat /\ Len(pending) \in Nat
      /\ Len(stream) \in Nat
  BY DEF TypeOK
<1>2. \A n \in 1..Len(delivered) : Len(delivered[n].recs) = ItemsPerBlock
  BY DEF BlocksCanonical
<1>3. CASE delivered = <<>>
  <2>1. Len(stream) = Len(pending) + 0 BY <1>3 DEF NothingLost
  <2>2. Len(delivered) + 1 = 1 BY <1>3
  <2>3. Placed(1) = 0 BY PlacedNext
  <2> QED BY <1>1, <1>2, <2>1, <2>2, <2>3
<1>4. CASE delivered # <<>>
  <2> DEFINE e == Len(delivered)
  <2>1. e \in Nat \ {0} /\ e \in 1..Len(delivered) BY <1>1, <1>4
  <2>2. Len(stream) = Len(pending) + (Placed(e) + Len(delivered[e].recs))
    BY <1>4 DEF NothingLost
  <2>3. Len(delivered[e].recs) = ItemsPerBlock BY <1>2, <2>1
  <2> HIDE DEF e
  <2>4. Placed(e + 1) = Placed(e) + ItemsPerBlock /\ Placed(e) \in Nat BY <2>1, PlacedNext
  <2>5. Len(stream) = Placed(e + 1) + Len(pending)
    BY <1>1, <2>2, <2>3, <2>4, ItemsAssumption
  <2> QED BY <1>2, <2>5 DEF e
<1> QED BY <1>3, <1>4

\* Cutting the records that follow the last block keeps the blocks canonical.
LEMMA CutFills ==
  ASSUME TypeOK, NothingLost, BlocksCanonical, ~done, emitted = Len(delivered),
         NEW recs \in Seq(Record), Cut(recs),
         Len(recs) = ItemsPerBlock \/ (done' /\ Len(recs) \in 1..ItemsPerBlock),
         Len(stream') = Placed(Len(delivered) + 1) + Len(recs),
         \A k \in 1..Len(recs) : recs[k] = stream'[Placed(Len(delivered) + 1) + k],
         \A m \in 1..Len(stream) : stream'[m] = stream[m]
  PROVE  NothingLost' /\ BlocksCanonical' /\ emitted' = Len(delivered') /\ pending' = <<>>
<1> DEFINE e == Len(delivered)
           block == [rank |-> emitted, recs |-> recs]
<1>1. /\ delivered \in Seq(Block) /\ e \in Nat /\ Len(pending) \in Nat /\ Len(stream) \in Nat
      /\ emitted = e /\ Len(recs) \in Nat
  <2>1. delivered \in Seq(Block) /\ pending \in Seq(Record) /\ stream \in Seq(Record)
    BY DEF TypeOK
  <2>2. Len(delivered) \in Nat /\ Len(pending) \in Nat /\ Len(stream) \in Nat /\ Len(recs) \in Nat
    BY <2>1
  <2> QED BY <2>1, <2>2
<1>2. /\ \A n \in 1..e : Len(delivered[n].recs) = ItemsPerBlock
      /\ Len(stream) = Placed(e + 1) + Len(pending)
  BY FullBlocks
<1>3. delivered' = Append(delivered, block) /\ pending' = <<>> /\ emitted' = e + 1
  BY <1>1 DEF Cut
<1>4. block \in Block BY <1>1 DEF Block
<1> HIDE DEF block
<1>5. /\ Len(delivered') = e + 1 /\ delivered'[e + 1] = block
      /\ \A n \in 1..e : delivered'[n] = delivered[n]
  BY <1>1, <1>3, <1>4
<1>6. block.rank = e /\ block.recs = recs BY <1>1 DEF block
<1>7. ItemsPerBlock \in Nat \ {0} BY ItemsAssumption
<1>8. Placed(e + 1) \in Nat BY <1>1, PlacedNext
<1>13. /\ Len(stream') = Placed(e + 1) + Len(recs)
       /\ \A k \in 1..Len(recs) : recs[k] = stream'[Placed(e + 1) + k]
  OBVIOUS
<1>14. /\ \A n \in 1..e : \A k \in 1..Len(delivered[n].recs) :
            delivered[n].recs[k] = stream[Placed(n) + k]
       /\ \A n \in 1..e : delivered[n].rank = n - 1
  BY DEF NothingLost, BlocksCanonical
<1> HIDE DEF e
<1>9. ASSUME NEW n \in 1..(e + 1), NEW k \in 1..Len(delivered'[n].recs)
      PROVE  delivered'[n].recs[k] = stream'[Placed(n) + k]
  <2>1. CASE n = e + 1
    <3>1. delivered'[n].recs = recs BY <1>5, <1>6, <2>1
    <3> QED BY <1>13, <2>1, <3>1
  <2>2. CASE n # e + 1
    <3>1. n \in 1..e /\ n \in Nat \ {0} BY <1>1, <2>2
    <3>2. delivered'[n] = delivered[n] /\ k \in 1..ItemsPerBlock BY <1>2, <1>5, <3>1
    <3>3. Placed(n) \in Nat /\ Placed(n + 1) = Placed(n) + ItemsPerBlock BY <3>1, PlacedNext
    <3>4. Placed(n + 1) <= Placed(e + 1) BY <1>1, <3>1, PlacedOrder
    <3>5. Placed(n) + k \in 1..Len(stream)
      <4>1. Placed(e + 1) <= Len(stream) BY <1>1, <1>2, <1>8
      <4>2. k \in Nat /\ 1 <= k /\ k <= ItemsPerBlock BY <1>7, <3>2
      <4>3. Placed(n) + k <= Placed(n + 1) BY <1>7, <3>3, <4>2
      <4>4. Placed(n + 1) \in Nat BY <1>7, <3>3
      <4>5. Placed(n) + k <= Len(stream) BY <1>1, <1>8, <3>3, <3>4, <4>1, <4>2, <4>3, <4>4
      <4> QED BY <1>1, <3>3, <4>2, <4>5
    <3> QED BY <1>14, <3>1, <3>2, <3>5
  <2> QED BY <2>1, <2>2
<1>10. ASSUME NEW n \in 1..(e + 1)
       PROVE  /\ delivered'[n].rank = n - 1
              /\ \/ Len(delivered'[n].recs) = ItemsPerBlock
                 \/ done' /\ n = e + 1 /\ Len(delivered'[n].recs) \in 1..ItemsPerBlock
  <2>1. CASE n = e + 1 BY <1>1, <1>5, <1>6, <2>1
  <2>2. CASE n # e + 1
    <3>1. n \in 1..e BY <1>1, <2>2
    <3> QED BY <1>2, <1>5, <1>14, <3>1
  <2> QED BY <2>1, <2>2
<1>11. BlocksCanonical' BY <1>5, <1>10 DEF BlocksCanonical
<1>12. NothingLost'
  <2>1. delivered' # <<>> BY <1>1, <1>5
  <2>2. Len(stream') = Len(pending') + (Placed(Len(delivered')) + Len(delivered'[Len(delivered')].recs))
    BY <1>1, <1>3, <1>5, <1>6, <1>8, <1>13
  <2>3. \A k \in 1..Len(pending') : FALSE BY <1>3
  <2>4. \A n \in 1..Len(delivered') : \A k \in 1..Len(delivered'[n].recs) :
          delivered'[n].recs[k] = stream'[Placed(n) + k]
    BY <1>5, <1>9
  <2> QED BY <2>1, <2>2, <2>3, <2>4 DEF NothingLost, Placed
<1> QED BY <1>3, <1>5, <1>11, <1>12

BlockInv ==
  /\ MergeInv
  /\ Abstract!Emitted = Taken
  /\ i + j = Len(stream) + duplicates
  /\ emitted = Len(delivered)
  /\ NothingLost /\ BlocksCanonical /\ PendingBounded /\ PayloadIsDelivery
  /\ ~inCall => payload = <<>>
  /\ done => pending = <<>>
  /\ result # NotFinalized => done /\ result = Totals

LEMMA InitBlocks == Init => BlockInv
<1> SUFFICES ASSUME Init PROVE BlockInv OBVIOUS
<1>1. MergeInv BY InitMerge
<1>2. Abstract!Emitted = Taken BY DEF Init, Abstract!Emitted, Taken
<1>3. NothingLost /\ BlocksCanonical BY DEF Init, NothingLost, BlocksCanonical
<1>4. PendingBounded BY ItemsAssumption DEF Init, PendingBounded
<1>5. PayloadIsDelivery
  <2>1. returned = <<>> /\ payload = <<>> /\ delivered = <<>> BY DEF Init
  <2> QED BY <2>1 DEF PayloadIsDelivery
<1> QED BY <1>1, <1>2, <1>3, <1>4, <1>5 DEF Init, BlockInv

\* A decision moves the cursors past one record, or past two of one key.
LEMMA DecisionCounts ==
  ASSUME BlockInv, Deciding, MoveCursors, UNCHANGED inputs, MergeInv',
         stream' = Append(stream, NextRecord)
  PROVE  /\ Abstract!Emitted' = Taken'
         /\ i' + j' = Len(stream') + duplicates'
         /\ NextRecord \in Record
         /\ Len(stream') = Len(stream) + 1 /\ stream'[Len(stream) + 1] = NextRecord
         /\ \A m \in 1..Len(stream) : stream'[m] = stream[m]
<1>1. /\ TypeOK /\ Split /\ ~Exhausted /\ MergeInv /\ Abstract!Emitted = Taken
      /\ i + j = Len(stream) + duplicates
  BY DEF BlockInv, MergeInv, Deciding
<1>2. NextRecord \in Record BY <1>1, NextType
<1>3. Abstract!Emitted' = Abstract!Emitted \cup {NextRecord} BY <1>1, <1>2, EmittedGrows
<1>4. Taken' = Taken \cup {NextRecord} BY <1>1, TakenGrows
<1>5. stream \in Seq(Record) /\ Len(stream) \in Nat /\ duplicates \in Nat /\ i \in Int /\ j \in Int
  BY <1>1, RunFacts DEF TypeOK
<1>6. /\ Len(stream') = Len(stream) + 1 /\ stream'[Len(stream) + 1] = NextRecord
      /\ \A m \in 1..Len(stream) : stream'[m] = stream[m]
  BY <1>2, <1>5
<1>7. TakesSource \/ TakesTarget BY <1>1, Choice
<1>8. i' + j' = Len(stream') + duplicates'
  BY <1>1, <1>5, <1>6, <1>7 DEF MoveCursors
<1> QED BY <1>1, <1>2, <1>3, <1>4, <1>6, <1>8

\* A step between decisions.
LEMMA BetweenDecisions ==
  ASSUME BlockInv, MergeInv', UNCHANGED <<src, tgt, i, j, duplicates, stream, pending, emitted, delivered>>,
         done => done'
  PROVE  /\ Abstract!Emitted' = Taken' /\ i' + j' = Len(stream') + duplicates'
         /\ emitted' = Len(delivered')
         /\ NothingLost' /\ BlocksCanonical' /\ PendingBounded'
<1>1. Abstract!Emitted' = Abstract!Emitted /\ Taken' = Taken
  BY DEF Abstract!Emitted, Taken, Abstract!KeysIn
<1>2. NothingLost' BY DEF BlockInv, NothingLost, Placed
<1>3. BlocksCanonical' BY DEF BlockInv, BlocksCanonical
<1>4. PendingBounded' BY DEF BlockInv, PendingBounded
<1> QED BY <1>1, <1>2, <1>3, <1>4 DEF BlockInv

\* Handing a block to the caller and to the sink keeps both in step.
LEMMA AppendBoth ==
  ASSUME NEW a \in Seq(Block), NEW b \in Seq(Block), NEW x \in Block
  PROVE  a \o Append(b, x) = Append(a \o b, x)
<1> HIDE DEF Block
<1> DEFINE l == a \o Append(b, x)
           r == Append(a \o b, x)
<1>1. /\ Append(b, x) \in Seq(Block) /\ Len(Append(b, x)) = Len(b) + 1
      /\ Append(b, x)[Len(b) + 1] = x
      /\ \A n \in 1..Len(b) : Append(b, x)[n] = b[n]
      /\ Len(a) \in Nat /\ Len(b) \in Nat
  OBVIOUS
<1>2. /\ l \in Seq(Block) /\ Len(l) = Len(a) + (Len(b) + 1)
      /\ \A n \in 1..(Len(a) + (Len(b) + 1)) :
           l[n] = IF n <= Len(a) THEN a[n] ELSE Append(b, x)[n - Len(a)]
  BY <1>1, ConcatProperties
<1>3. /\ a \o b \in Seq(Block) /\ Len(a \o b) = Len(a) + Len(b)
      /\ \A n \in 1..(Len(a) + Len(b)) : (a \o b)[n] = IF n <= Len(a) THEN a[n] ELSE b[n - Len(a)]
  BY ConcatProperties
<1>4. /\ r \in Seq(Block) /\ Len(r) = Len(a) + Len(b) + 1
      /\ r[Len(a) + Len(b) + 1] = x
      /\ \A n \in 1..(Len(a) + Len(b)) : r[n] = (a \o b)[n]
  BY <1>3
<1> HIDE DEF l, r
<1>5. ASSUME NEW n \in 1..Len(l) PROVE l[n] = r[n]
  <2> DEFINE p == Len(a)
             q == Len(b)
  <2>0. p \in Nat /\ q \in Nat /\ n \in 1..(p + (q + 1)) BY <1>1, <1>2
  <2>1. CASE n = Len(a) + Len(b) + 1
    <3>1. n - Len(a) = Len(b) + 1 /\ ~(n <= Len(a)) BY <1>1, <2>1
    <3> QED BY <1>1, <1>2, <1>4, <2>1, <3>1
  <2>2. CASE n # Len(a) + Len(b) + 1
    <3>1. n \in 1..(Len(a) + Len(b))
      <4>1. n # p + q + 1 BY <2>2
      <4> HIDE DEF p, q
      <4>2. n \in 1..(p + q) BY <2>0, <4>1
      <4> QED BY <4>2 DEF p, q
    <3>2. ~(n <= Len(a)) => n - Len(a) \in 1..Len(b) BY <1>1, <3>1
    <3> QED BY <1>1, <1>2, <1>3, <1>4, <3>1, <3>2
  <2> QED BY <2>1, <2>2
<1>6. Len(l) = Len(r) BY <1>1, <1>2, <1>4
<1>7. l = r BY <1>2, <1>4, <1>5, <1>6, SeqEqual
<1> QED BY <1>7 DEF l, r

LEMMA KeepBlocks ==
  ASSUME BlockInv, MergeInv', DecideKeep
  PROVE  BlockInv'
<1>1. /\ Deciding /\ Len(pending) + 1 # ItemsPerBlock /\ MoveCursors
      /\ pending' = Append(pending, NextRecord) /\ stream' = Append(stream, NextRecord)
      /\ UNCHANGED <<src, tgt, emitted, done, inCall, payload, returned, delivered, result>>
  BY DEF DecideKeep, inputs, handed
<1>2. /\ TypeOK /\ NothingLost /\ BlocksCanonical /\ PendingBounded /\ PayloadIsDelivery
      /\ inCall /\ ~done /\ emitted = Len(delivered)
  BY <1>1 DEF BlockInv, MergeInv, Deciding
<1>3. /\ Abstract!Emitted' = Taken' /\ i' + j' = Len(stream') + duplicates'
      /\ NextRecord \in Record
      /\ Len(stream') = Len(stream) + 1 /\ stream'[Len(stream) + 1] = NextRecord
      /\ \A m \in 1..Len(stream) : stream'[m] = stream[m]
  BY <1>1, DecisionCounts DEF inputs
<1> DEFINE e == Len(delivered)
<1>4. /\ pending \in Seq(Record) /\ Len(pending) \in Nat /\ Len(stream) \in Nat
      /\ delivered \in Seq(Block) /\ e \in Nat
  BY <1>2 DEF TypeOK
<1>5. /\ Len(pending') = Len(pending) + 1 /\ pending'[Len(pending) + 1] = NextRecord
      /\ \A k \in 1..Len(pending) : pending'[k] = pending[k]
  BY <1>1, <1>3, <1>4
<1>6. /\ \A n \in 1..e : Len(delivered[n].recs) = ItemsPerBlock
      /\ Len(stream) = Placed(e + 1) + Len(pending)
  BY <1>2, FullBlocks
<1> HIDE DEF e
<1>7. ItemsPerBlock \in Nat \ {0} /\ Placed(e + 1) \in Nat
  <2>1. e + 1 \in Nat \ {0} BY <1>4
  <2> QED BY <2>1, PlacedNext, ItemsAssumption
<1>8. /\ \A n \in 1..e : \A k \in 1..Len(delivered[n].recs) :
           delivered[n].recs[k] = stream[Placed(n) + k]
      /\ \A k \in 1..Len(pending) : pending[k] = stream[Placed(e + 1) + k]
      /\ Len(stream) = Len(pending)
                         + IF delivered = <<>> THEN 0 ELSE Placed(e) + Len(delivered[e].recs)
  BY <1>2 DEF NothingLost, e
<1>9. ASSUME NEW n \in 1..e, NEW k \in 1..Len(delivered[n].recs)
      PROVE  delivered[n].recs[k] = stream'[Placed(n) + k]
  <2>1. n \in Nat \ {0} /\ k \in 1..ItemsPerBlock BY <1>4, <1>6
  <2>2. Placed(n) \in Nat /\ Placed(n + 1) = Placed(n) + ItemsPerBlock BY <2>1, PlacedNext
  <2>3. Placed(n + 1) <= Placed(e + 1) BY <1>4, <2>1, PlacedOrder
  <2>4. Placed(n) + k \in 1..Len(stream)
    <3>1. Placed(e + 1) <= Len(stream) BY <1>4, <1>6, <1>7
    <3>2. k \in Nat /\ 1 <= k /\ k <= ItemsPerBlock BY <1>7, <2>1
    <3>3. Placed(n) + k <= Placed(n + 1) BY <1>7, <2>2, <3>2
    <3>4. Placed(n + 1) \in Nat BY <1>7, <2>2
    <3>5. Placed(n) + k <= Len(stream) BY <1>4, <1>7, <2>2, <2>3, <3>1, <3>2, <3>3, <3>4
    <3> QED BY <1>4, <2>2, <3>2, <3>5
  <2> QED BY <1>3, <1>8, <2>4
<1>10. ASSUME NEW k \in 1..Len(pending')
       PROVE  pending'[k] = stream'[Placed(e + 1) + k]
  <2>1. CASE k = Len(pending) + 1
    <3>1. Placed(e + 1) + k = Len(stream) + 1 BY <1>4, <1>6, <1>7, <2>1
    <3> QED BY <1>3, <1>5, <2>1, <3>1
  <2>2. CASE k # Len(pending) + 1
    <3>1. k \in 1..Len(pending) BY <1>4, <1>5, <2>2
    <3>2. Placed(e + 1) + k \in 1..Len(stream) BY <1>4, <1>6, <1>7, <3>1
    <3> QED BY <1>3, <1>5, <1>8, <3>1, <3>2
  <2> QED BY <2>1, <2>2
<1>11. NothingLost'
  <2> DEFINE given == IF delivered = <<>> THEN 0 ELSE Placed(e) + Len(delivered[e].recs)
  <2>1. Len(stream') = Len(pending') + given
    <3>1. given \in Int
      <4>1. CASE delivered = <<>> BY <4>1
      <4>2. CASE delivered # <<>>
        <5>1. e \in Nat \ {0} /\ e \in 1..e BY <1>4, <4>2 DEF e
        <5>2. Placed(e) \in Nat BY <5>1, PlacedNext
        <5>3. Len(delivered[e].recs) = ItemsPerBlock BY <1>6, <5>1
        <5>4. Placed(e) + Len(delivered[e].recs) \in Int BY <1>7, <5>2, <5>3
        <5> QED BY <4>2, <5>4
      <4> QED BY <4>1, <4>2
    <3>2. Len(stream) = Len(pending) + given BY <1>8
    <3> HIDE DEF given
    <3> QED BY <1>3, <1>4, <1>5, <3>1, <3>2
  <2> QED BY <1>1, <1>9, <1>10, <2>1 DEF NothingLost, Placed, e
<1>12. BlocksCanonical' BY <1>1, <1>2 DEF BlocksCanonical
<1>13. PendingBounded' BY <1>1, <1>2, <1>4, <1>5, <1>7 DEF PendingBounded
<1>14. result' = NotFinalized BY <1>1, <1>2 DEF BlockInv
<1> QED BY <1>1, <1>2, <1>3, <1>11, <1>12, <1>13, <1>14 DEF BlockInv, PayloadIsDelivery

LEMMA FlushBlocks ==
  ASSUME BlockInv, MergeInv', DecideFlush
  PROVE  BlockInv'
<1> DEFINE recs == Append(pending, NextRecord)
           block == [rank |-> emitted, recs |-> recs]
<1>1. /\ Deciding /\ Len(pending) + 1 = ItemsPerBlock /\ MoveCursors
      /\ stream' = Append(stream, NextRecord) /\ Cut(recs)
      /\ payload' = Append(payload, delivered'[Len(delivered')])
      /\ UNCHANGED <<src, tgt, done, inCall, returned, result>>
  BY DEF DecideFlush, inputs
<1>2. /\ TypeOK /\ NothingLost /\ BlocksCanonical /\ PayloadIsDelivery
      /\ inCall /\ ~done /\ emitted = Len(delivered)
  BY <1>1 DEF BlockInv, MergeInv, Deciding
<1>3. /\ Abstract!Emitted' = Taken' /\ i' + j' = Len(stream') + duplicates'
      /\ NextRecord \in Record
      /\ Len(stream') = Len(stream) + 1 /\ stream'[Len(stream) + 1] = NextRecord
      /\ \A m \in 1..Len(stream) : stream'[m] = stream[m]
  BY <1>1, DecisionCounts DEF inputs
<1>4. /\ pending \in Seq(Record) /\ Len(pending) \in Nat /\ Len(stream) \in Nat
      /\ delivered \in Seq(Block) /\ returned \in Seq(Block) /\ payload \in Seq(Block)
      /\ Len(delivered) \in Nat
  BY <1>2 DEF TypeOK
<1>5. /\ recs \in Seq(Record) /\ Len(recs) = Len(pending) + 1
      /\ recs[Len(pending) + 1] = NextRecord
      /\ \A k \in 1..Len(pending) : recs[k] = pending[k]
  BY <1>3, <1>4
<1>6. /\ Len(stream) = Placed(Len(delivered) + 1) + Len(pending)
      /\ Placed(Len(delivered) + 1) \in Nat
  BY <1>2, <1>4, FullBlocks, PlacedNext
<1>7. block \in Block BY <1>2, <1>5 DEF Block, TypeOK
<1>8. delivered' = Append(delivered, block) BY <1>1 DEF Cut
<1> HIDE DEF recs, block
<1>9. ASSUME NEW k \in 1..Len(recs)
      PROVE  recs[k] = stream'[Placed(Len(delivered) + 1) + k]
  <2>1. CASE k = Len(pending) + 1
    <3>1. Placed(Len(delivered) + 1) + k = Len(stream) + 1 BY <1>4, <1>6, <2>1
    <3> QED BY <1>3, <1>5, <2>1, <3>1
  <2>2. CASE k # Len(pending) + 1
    <3>1. k \in 1..Len(pending) BY <1>4, <1>5, <2>2
    <3>2. Placed(Len(delivered) + 1) + k \in 1..Len(stream) BY <1>4, <1>6, <3>1
    <3>3. pending[k] = stream[Placed(Len(delivered) + 1) + k] BY <1>2, <3>1 DEF NothingLost
    <3> QED BY <1>3, <1>5, <3>1, <3>2, <3>3
  <2> QED BY <2>1, <2>2
<1>10. Len(stream') = Placed(Len(delivered) + 1) + Len(recs)
  BY <1>3, <1>4, <1>5, <1>6
<1>11. Len(recs) = ItemsPerBlock BY <1>1, <1>5
<1>12. NothingLost' /\ BlocksCanonical' /\ emitted' = Len(delivered') /\ pending' = <<>>
  BY <1>1, <1>2, <1>3, <1>5, <1>9, <1>10, <1>11, CutFills
<1>13. PayloadIsDelivery'
  <2>1. delivered'[Len(delivered')] = block BY <1>4, <1>7, <1>8
  <2>2. payload' = Append(payload, block) /\ returned' = returned BY <1>1, <2>1
  <2>3. returned \o Append(payload, block) = Append(returned \o payload, block)
    BY <1>4, <1>7, AppendBoth
  <2> QED BY <1>2, <1>8, <2>2, <2>3 DEF PayloadIsDelivery
<1>14. PendingBounded' BY <1>12, ItemsAssumption DEF PendingBounded
<1>15. result' = NotFinalized BY <1>1, <1>2 DEF BlockInv
<1> QED BY <1>1, <1>2, <1>3, <1>12, <1>13, <1>14, <1>15 DEF BlockInv

LEMMA LastBlock ==
  ASSUME BlockInv, MergeInv', ReturnLast
  PROVE  BlockInv'
<1> DEFINE block == [rank |-> emitted, recs |-> pending]
<1>1. /\ inCall /\ pending # <<>> /\ done' = TRUE /\ Cut(pending)
      /\ returned' = returned \o Append(payload, delivered'[Len(delivered')])
      /\ inCall' = FALSE /\ payload' = <<>>
      /\ UNCHANGED <<src, tgt, i, j, duplicates, stream, result>>
  BY DEF ReturnLast, Returning, GiveBack, inputs, cursors
<1>2. /\ TypeOK /\ NothingLost /\ BlocksCanonical /\ PendingBounded /\ PayloadIsDelivery
      /\ ~done /\ emitted = Len(delivered)
  BY <1>1 DEF BlockInv, MergeInv
<1>3. /\ pending \in Seq(Record) /\ Len(pending) \in Nat /\ Len(stream) \in Nat
      /\ delivered \in Seq(Block) /\ returned \in Seq(Block) /\ payload \in Seq(Block)
      /\ Len(delivered) \in Nat
  BY <1>2 DEF TypeOK
<1>4. Len(pending) \in 1..ItemsPerBlock
  BY <1>1, <1>2, <1>3, ItemsAssumption DEF PendingBounded
<1>5. Len(stream) = Placed(Len(delivered) + 1) + Len(pending)
  BY <1>2, FullBlocks
<1>6. /\ \A k \in 1..Len(pending) : pending[k] = stream[Placed(Len(delivered) + 1) + k]
      /\ stream' = stream
  BY <1>1, <1>2 DEF NothingLost
<1>7. NothingLost' /\ BlocksCanonical' /\ emitted' = Len(delivered') /\ pending' = <<>>
  BY <1>1, <1>2, <1>3, <1>4, <1>5, <1>6, CutFills
<1>8. block \in Block BY <1>2, <1>3 DEF Block, TypeOK
<1>9. delivered' = Append(delivered, block) BY <1>1 DEF Cut
<1> HIDE DEF block
<1>10. PayloadIsDelivery'
  <2>1. delivered'[Len(delivered')] = block BY <1>3, <1>8, <1>9
  <2>2. returned' = Append(returned \o payload, block)
    BY <1>1, <1>3, <1>8, <2>1, AppendBoth
  <2>3. returned \o payload = delivered BY <1>2 DEF PayloadIsDelivery
  <2>4. returned' = delivered' BY <1>9, <2>2, <2>3
  <2>5. delivered' \in Seq(Block) BY <1>3, <1>8, <1>9
  <2>6. returned' \o payload' = returned' BY <1>1, <2>4, <2>5, ConcatEmptySeq
  <2> QED BY <2>4, <2>6 DEF PayloadIsDelivery
<1>11. PendingBounded' BY <1>7, ItemsAssumption DEF PendingBounded
<1>12. Abstract!Emitted' = Taken'
  <2>1. Abstract!Emitted' = Abstract!Emitted /\ Taken' = Taken
    BY <1>1 DEF Abstract!Emitted, Taken, Abstract!KeysIn
  <2> QED BY <2>1 DEF BlockInv
<1>13. result' = NotFinalized BY <1>1, <1>2 DEF BlockInv
<1>14. i' + j' = Len(stream') + duplicates' BY <1>1 DEF BlockInv
<1> QED BY <1>1, <1>7, <1>10, <1>11, <1>12, <1>13, <1>14 DEF BlockInv

LEMMA StepBlocks ==
  ASSUME ~SinkRaises, BlockInv, [AnyStep]_vars
  PROVE  BlockInv'
<1> USE DEF inputs, cursors, handed
<1>1. MergeInv /\ MergeInv' /\ TypeOK BY StepMerge DEF BlockInv, MergeInv
<1>2. ASSUME NEW q \in Nat, Advance(q)
      PROVE  BlockInv'
  <2>1. /\ ~inCall /\ ~done /\ inCall' = TRUE /\ payload' = <<>>
        /\ UNCHANGED <<src, tgt, i, j, duplicates, stream, pending, emitted, delivered, done, returned, result>>
    BY <1>2 DEF Advance
  <2>2. payload = <<>> BY <2>1 DEF BlockInv
  <2>3. PayloadIsDelivery' BY <2>1, <2>2 DEF BlockInv, PayloadIsDelivery
  <2>4. result' = NotFinalized BY <2>1 DEF BlockInv
  <2> QED BY <1>1, <2>1, <2>3, <2>4, BetweenDecisions DEF BlockInv
<1>3. CASE DecideKeep BY <1>1, <1>3, KeepBlocks
<1>4. CASE DecideFlush BY <1>1, <1>4, FlushBlocks
<1>5. CASE DecideSinkRaises BY <1>5 DEF DecideSinkRaises
<1>6. CASE DecideRefused
  BY <1>1, <1>6, NeverRefused DEF DecideRefused, Deciding, BlockInv
<1>7. CASE Return
  <2>1. /\ inCall /\ (~Exhausted \/ pending = <<>>) /\ done' = Exhausted
        /\ returned' = returned \o payload /\ inCall' = FALSE /\ payload' = <<>>
        /\ UNCHANGED <<src, tgt, i, j, duplicates, stream, pending, emitted, delivered, result>>
    BY <1>7 DEF Return, Returning, GiveBack
  <2>2. ~done BY <2>1 DEF BlockInv, MergeInv
  <2>3. PayloadIsDelivery'
    <3>1. returned' = delivered BY <2>1 DEF BlockInv, PayloadIsDelivery
    <3>2. returned' \o payload' = returned' BY <1>1, <2>1, <3>1, ConcatEmptySeq DEF TypeOK
    <3> QED BY <2>1, <3>1, <3>2 DEF PayloadIsDelivery
  <2>4. done' => pending' = <<>> BY <2>1
  <2>5. result' = NotFinalized BY <2>1, <2>2 DEF BlockInv
  <2> QED BY <1>1, <2>1, <2>2, <2>3, <2>4, <2>5, BetweenDecisions DEF BlockInv
<1>8. CASE ReturnLast BY <1>1, <1>8, LastBlock
<1>9. CASE ReturnSinkRaises BY <1>9 DEF ReturnSinkRaises
<1>10. CASE Finalize
  <2>1. /\ done /\ ~inCall /\ result' = Totals
        /\ UNCHANGED <<src, tgt, i, j, duplicates, stream, pending, emitted, delivered, done, inCall,
                       payload, returned>>
    BY <1>10 DEF Finalize
  <2>2. PayloadIsDelivery' BY <2>1 DEF BlockInv, PayloadIsDelivery
  <2>3. Totals' = Totals BY <2>1 DEF Totals
  <2> QED BY <1>1, <2>1, <2>2, <2>3, BetweenDecisions DEF BlockInv
<1>11. CASE UNCHANGED vars
  <2>1. UNCHANGED <<src, tgt, i, j, duplicates, stream, pending, emitted, delivered, done, inCall,
                    payload, returned, result>>
    BY <1>11 DEF vars
  <2>2. PayloadIsDelivery' BY <2>1 DEF BlockInv, PayloadIsDelivery
  <2>3. Totals' = Totals BY <2>1 DEF Totals
  <2> QED BY <1>1, <2>1, <2>2, <2>3, BetweenDecisions DEF BlockInv
<1> QED
  BY <1>2, <1>3, <1>4, <1>5, <1>6, <1>7, <1>8, <1>9, <1>10, <1>11 DEF AnyStep, Job

LEMMA BlocksAlways ==
  ASSUME ~SinkRaises
  PROVE  Spec => []BlockInv
<1>1. BlockInv /\ [Next]_vars => BlockInv'
  BY StepBlocks, NextIsAnyStep
<1> QED BY InitBlocks, <1>1, PTL DEF Spec

\* incremental_merge.py:28: at most one incomplete block is retained, as long
\* as the sink does not raise.
THEOREM PendingAlwaysBounded ==
  ASSUME ~SinkRaises
  PROVE  Spec => []PendingBounded
<1>1. BlockInv => PendingBounded BY DEF BlockInv
<1> QED BY BlocksAlways, <1>1, PTL

\* Every record of the stream is in the block and at the place the canonical
\* packing gives it, and the returned payloads are what the sink was given.
THEOREM BlocksAlwaysCanonical ==
  ASSUME ~SinkRaises
  PROVE  Spec => [](NothingLost /\ BlocksCanonical /\ PayloadIsDelivery)
<1>1. BlockInv => NothingLost /\ BlocksCanonical /\ PayloadIsDelivery BY DEF BlockInv
<1> QED BY BlocksAlways, <1>1, PTL

LEMMA CountsAdd ==
  ASSUME BlockInv
  PROVE  ResultTruthful
<1>1. SUFFICES ASSUME result # NotFinalized PROVE ResultTruthful BY DEF ResultTruthful
<1> DEFINE e == Len(delivered)
<1>2. /\ TypeOK /\ Exhausted /\ pending = <<>> /\ result = Totals /\ emitted = e
      /\ i + j = Len(stream) + duplicates /\ NothingLost /\ BlocksCanonical /\ done
  BY <1>1 DEF BlockInv, MergeInv
<1>3. /\ Len(stream) \in Nat /\ duplicates \in Nat /\ delivered \in Seq(Block) /\ e \in Nat
      /\ Len(src) \in Nat /\ Len(tgt) \in Nat
  BY <1>2, RunFacts DEF TypeOK
<1>4. /\ result.records = Len(stream) /\ result.blocks = e /\ result.duplicates = duplicates
  BY <1>2 DEF Totals
<1>5. result.records = Len(src) + Len(tgt) - result.duplicates
  BY <1>2, <1>3, <1>4 DEF Exhausted
<1>6. (e - 1) * ItemsPerBlock < Len(stream) /\ Len(stream) <= e * ItemsPerBlock
  <2>1. CASE delivered = <<>>
    <3>1. e = 0 /\ Len(stream) = 0 BY <1>2, <2>1 DEF NothingLost
    <3> QED BY <3>1, ItemsAssumption
  <2>2. CASE delivered # <<>>
    <3>1. e \in Nat \ {0} /\ e \in 1..Len(delivered) BY <1>3, <2>2
    <3>2. Len(stream) = 0 + (Placed(e) + Len(delivered[e].recs))
      BY <1>2, <2>2 DEF NothingLost
    <3>3. Len(delivered[e].recs) \in 1..ItemsPerBlock
      BY <1>2, <3>1, ItemsAssumption DEF BlocksCanonical
    <3> HIDE DEF e
    <3>4. /\ Placed(e) \in Nat /\ Placed(e + 1) = Placed(e) + ItemsPerBlock
          /\ Placed(e + 1) = e * ItemsPerBlock /\ Placed(e) = (e - 1) * ItemsPerBlock
      BY <3>1, PlacedNext DEF Placed
    <3>5. Placed(e) < Len(stream) /\ Len(stream) <= Placed(e + 1)
      BY <3>2, <3>3, <3>4, ItemsAssumption
    <3> QED BY <3>4, <3>5
  <2> QED BY <2>1, <2>2
<1> QED BY <1>4, <1>5, <1>6 DEF ResultTruthful

\* finalize reports one record for every key, one duplicate for every shared
\* one and the blocks that the records take.
THEOREM ResultAlwaysTruthful ==
  ASSUME ~SinkRaises
  PROVE  Spec => []ResultTruthful
<1>1. BlockInv => ResultTruthful BY CountsAdd
<1> QED BY BlocksAlways, <1>1, PTL
=============================================================================
