-------------------------------- MODULE Pgm --------------------------------
(***************************************************************************)
(* The canonical PGM of one sorted run of keys (pgm.py): a piecewise       *)
(* linear model of the rank of a key, built online, one point at a time,   *)
(* from the upper and the lower hull of the points' epsilon bands.         *)
(*                                                                         *)
(* build_batch_pgm adds the keys of a finished run; IncrementalPgmBuilder  *)
(* adds the keys a merge emits and may be asked for its index after any of *)
(* them.  Both drive the same model, so there is one action per kind of    *)
(* point, and BatchIndex is the index of the keys added so far.  The       *)
(* arithmetic is the code's: exact integers, division truncating to zero.  *)
(*                                                                         *)
(* A definition marked "Variant" is no part of the specification: it is a  *)
(* plausible mistake in the definition below it, for which some property   *)
(* must fail.                                                              *)
(***************************************************************************)
EXTENDS Integers, Sequences, FiniteSetsExt

CONSTANTS
  KeyUniverse,  \* the integer keys a run may have
  Epsilons      \* the error bounds a model may be built for

ASSUME UniverseAssumption == KeyUniverse \subseteq Int
ASSUME EpsilonAssumption == Epsilons \subseteq Nat

VARIABLES
  epsilon,      \* the bound of this model
  keys,         \* the keys added, in order: the rank of keys[n] is n - 1
  upper, lower, \* the hulls of the active segment, sequences of points
  upperStart, lowerStart,
  rectangle,    \* the four corners of the feasible region
  pointsInHull,
  startRank,    \* current_start_rank
  segments      \* the closed segments

hull == <<upper, lower, upperStart, lowerStart, rectangle, pointsInHull>>
pgmVars == <<epsilon, keys, hull, startRank, segments>>

-----------------------------------------------------------------------------
(* Exact geometry. *)

Point(x, y) == [x |-> x, y |-> y]
Origin == Point(0, 0)

Slope(a, b) == [dx |-> b.x - a.x, dy |-> b.y - a.y]
Flatter(s, t) == s.dy * t.dx < s.dx * t.dy

Cross(o, a, b) == (a.x - o.x) * (b.y - o.y) - (a.y - o.y) * (b.x - o.x)

EpsSub(value) == IF value <= epsilon THEN 0 ELSE value - epsilon

DivTrunc(num, den) == IF num >= 0 THEN num \div den ELSE -((-num) \div den)
RoundHalfToZero(num, den) ==
  DivTrunc(num + (IF num >= 0 THEN 1 ELSE -1) * (den \div 2), den)

-----------------------------------------------------------------------------
(* The model of one segment: _OptimalPiecewiseLinearModel. *)

Rank == Len(keys)
High(x) == Point(x, Rank + epsilon)
Low(x) == Point(x, EpsSub(Rank))

ResetModel ==
  /\ keys = <<>> /\ segments = <<>> /\ startRank = 0
  /\ upper = <<>> /\ lower = <<>> /\ upperStart = 1 /\ lowerStart = 1
  /\ rectangle = <<Origin, Origin, Origin, Origin>> /\ pointsInHull = 0

\* The first point of a segment.
StartHull(x) ==
  /\ rectangle' = [rectangle EXCEPT ![1] = High(x), ![2] = Low(x)]
  /\ upper' = <<High(x)>> /\ lower' = <<Low(x)>>
  /\ upperStart' = 1 /\ lowerStart' = 1 /\ pointsInHull' = 1

Steepest == Slope(rectangle[2], rectangle[4])
Flattest == Slope(rectangle[1], rectangle[3])

\* Variant: a line that touches the band is outside of it.
OutsideOrOn(x) ==
  \/ ~Flatter(Flattest, Slope(rectangle[3], High(x)))
  \/ ~Flatter(Slope(rectangle[4], Low(x)), Steepest)

\* No line passes all bands of the segment and the one of the new point.
Outside(x) ==
  \/ Flatter(Slope(rectangle[3], High(x)), Flattest)
  \/ Flatter(Steepest, Slope(rectangle[4], Low(x)))

\* The two branches of add_point: the point may lower the steepest feasible
\* line and it may raise the flattest one.
Lowers(x) == Flatter(Slope(rectangle[2], High(x)), Steepest)
Raises(x) == Flatter(Flattest, Slope(rectangle[1], Low(x)))

\* A hull loses the nodes at its end that are no corner any more.
UpperWith(x) ==
  LET kept == Max({m \in upperStart..Len(upper) :
                     m = upperStart \/ Cross(upper[m - 1], upper[m], High(x)) > 0})
  IN  Append(SubSeq(upper, 1, kept), High(x))

LowerWith(x, start) ==
  LET kept == Max({m \in start..Len(lower) :
                     m = start \/ Cross(lower[m - 1], lower[m], Low(x)) < 0})
  IN  Append(SubSeq(lower, 1, kept), Low(x))

\* Variant: the walk never leaves the node it starts from.
StartNode(x) == lowerStart

\* The walks over the hulls stop at the first node whose successor is worse.
LowerBest(x) ==
  Min({m \in lowerStart..Len(lower) :
         \/ m = Len(lower)
         \/ Flatter(Slope(lower[m], High(x)), Slope(lower[m + 1], High(x)))})

UpperBest(nodes, x) ==
  Min({m \in upperStart..Len(nodes) :
         \/ m = Len(nodes)
         \/ Flatter(Slope(nodes[m + 1], Low(x)), Slope(nodes[m], Low(x)))})

ExtendHull(x) ==
  LET newUpper == IF Lowers(x) THEN UpperWith(x) ELSE upper
      newStart == IF Lowers(x) THEN LowerBest(x) ELSE lowerStart
      best     == UpperBest(newUpper, x)
  IN  /\ upper' = newUpper
      /\ lowerStart' = newStart
      /\ lower' = IF Raises(x) THEN LowerWith(x, newStart) ELSE lower
      /\ upperStart' = IF Raises(x) THEN best ELSE upperStart
      /\ rectangle' =
           << IF Raises(x) THEN newUpper[best] ELSE rectangle[1],
              IF Lowers(x) THEN lower[newStart] ELSE rectangle[2],
              IF Raises(x) THEN Low(x) ELSE rectangle[3],
              IF Lowers(x) THEN High(x) ELSE rectangle[4] >>
      /\ pointsInHull' = pointsInHull + 1

-----------------------------------------------------------------------------
(* Segments. *)

\* _rank_line_certificate: the exact line, relative to the segment's first key.
Certificate(firstX) ==
  IF pointsInHull = 1
  THEN [slope |-> 0, origin |-> rectangle[1].y + rectangle[2].y, den |-> 2]
  ELSE LET s == Steepest
       IN  [slope  |-> s.dy,
            origin |-> s.dy * (firstX - rectangle[2].x) + rectangle[2].y * s.dx,
            den    |-> s.dx]

\* The search model's intercept is rounded to an integer.
Intercept(firstX) ==
  IF pointsInHull = 1
  THEN (rectangle[1].y + rectangle[2].y) \div 2
  ELSE RoundHalfToZero(Steepest.dy * (firstX - rectangle[2].x), Steepest.dx) + rectangle[2].y

\* Variant: a segment counts the point it has rejected.
EndRankWithRejected == Len(keys)

EndRank == Len(keys) - 1

\* _pgm_segment_from_geometry, for the ranks up to the last key added.
ActiveSegment ==
  LET firstX == keys[startRank + 1]
  IN  [startKey  |-> firstX,
       startRank |-> startRank,
       endRank   |-> EndRank,
       endKey    |-> keys[Len(keys)],
       slopeNum  |-> IF pointsInHull = 1 THEN 0 ELSE Steepest.dy,
       slopeDen  |-> IF pointsInHull = 1 THEN 1 ELSE Steepest.dx,
       intercept |-> Intercept(firstX),
       line      |-> Certificate(firstX)]

Increasing(x) == x \in KeyUniverse /\ (keys # <<>> => keys[Len(keys)] < x)

FirstPoint(x) ==
  /\ Increasing(x) /\ pointsInHull = 0
  /\ StartHull(x)
  /\ keys' = Append(keys, x)
  /\ UNCHANGED <<epsilon, startRank, segments>>

SecondPoint(x) ==
  /\ Increasing(x) /\ pointsInHull = 1
  /\ rectangle' = [rectangle EXCEPT ![3] = Low(x), ![4] = High(x)]
  /\ upper' = Append(upper, High(x)) /\ lower' = Append(lower, Low(x))
  /\ pointsInHull' = 2
  /\ keys' = Append(keys, x)
  /\ UNCHANGED <<epsilon, upperStart, lowerStart, startRank, segments>>

InsidePoint(x) ==
  /\ Increasing(x) /\ pointsInHull >= 2 /\ ~Outside(x)
  /\ ExtendHull(x)
  /\ keys' = Append(keys, x)
  /\ UNCHANGED <<epsilon, startRank, segments>>

\* A rejected point closes the segment and starts the next one.
OutsidePoint(x) ==
  /\ Increasing(x) /\ pointsInHull >= 2 /\ Outside(x)
  /\ segments' = Append(segments, ActiveSegment)
  /\ startRank' = Rank
  /\ StartHull(x)
  /\ keys' = Append(keys, x)
  /\ UNCHANGED epsilon

AddKey(x) == FirstPoint(x) \/ SecondPoint(x) \/ InsidePoint(x) \/ OutsidePoint(x)

Segments == IF keys = <<>> THEN <<>> ELSE Append(segments, ActiveSegment)

\* What build_batch_pgm and the builder's finalize return.
BatchIndex == [epsilon |-> epsilon, count |-> Len(keys), segments |-> Segments]

-----------------------------------------------------------------------------
(* Search. *)

FirstKey(pgm) == pgm.segments[1].startKey
LastKey(pgm) == pgm.segments[Len(pgm.segments)].endKey

SegmentIndex(pgm, q) == Max({m \in 1..Len(pgm.segments) : pgm.segments[m].startKey <= q})

Predict(segment, q) ==
  LET value == DivTrunc(segment.slopeNum * (q - segment.startKey), segment.slopeDen)
               + segment.intercept
  IN  IF value > 0 THEN value ELSE 0

\* Variant: the prediction is not capped by the next segment.
UncappedNext(pgm, m) == pgm.count

NextIntercept(pgm, m) ==
  IF m < Len(pgm.segments) THEN pgm.segments[m + 1].intercept ELSE pgm.count

Clamped(value, limit) == IF value > limit THEN limit ELSE IF value < 0 THEN 0 ELSE value

\* A prediction beyond the run or the next segment is drawn back.
Position(pgm, q) ==
  IF q < FirstKey(pgm) THEN 0
  ELSE IF q > LastKey(pgm) THEN pgm.count
  ELSE LET m    == SegmentIndex(pgm, q)
           p    == Predict(pgm.segments[m], q)
           next == NextIntercept(pgm, m)
       IN  Clamped(IF p > next THEN next ELSE p, pgm.count)

\* The candidate ranks [lo, hi).
Window(pgm, q) ==
  IF pgm.count = 0 THEN [lo |-> 0, hi |-> 0]
  ELSE LET pos == Position(pgm, q)
       IN  [lo |-> Clamped(pos - pgm.epsilon, pgm.count),
            hi |-> Clamped(pos + pgm.epsilon + 2, pgm.count)]

-----------------------------------------------------------------------------
PgmInit == ResetModel /\ epsilon \in Epsilons
PgmNext == \E x \in KeyUniverse : AddKey(x)
PgmSpec == PgmInit /\ [][PgmNext]_pgmVars

-----------------------------------------------------------------------------
(* Properties. *)

PointType == [x : Int, y : Nat]
LineType == [slope : Int, origin : Int, den : Nat \ {0}]
SegmentType ==
  [startKey : KeyUniverse, startRank : Nat, endRank : Nat, endKey : KeyUniverse,
   slopeNum : Int, slopeDen : Nat \ {0}, intercept : Int, line : LineType]

\* Every variable has its type, no line is vertical, and the active segment
\* starts where the closed ones end.
PgmTypeOK ==
  /\ epsilon \in Epsilons /\ keys \in Seq(KeyUniverse)
  /\ upper \in Seq(PointType) /\ lower \in Seq(PointType)
  /\ upperStart \in Nat \ {0} /\ lowerStart \in Nat \ {0}
  /\ rectangle \in [1..4 -> PointType]
  /\ pointsInHull \in Nat /\ startRank \in Nat /\ startRank + pointsInHull = Len(keys)
  /\ pointsInHull > 0 => upperStart <= Len(upper) /\ lowerStart <= Len(lower)
  /\ segments \in Seq(SegmentType)

\* The segments, closed and active, divide the run: each starts where the one
\* before it ends, with the keys at its two ranks, and the last one ends with
\* the run.  A closed segment keeps saying so while the run goes on.
SegmentsTile ==
  /\ keys # <<>> => Segments[Len(Segments)].endRank = Len(keys) - 1
  /\ \A m \in 1..Len(Segments) :
       LET s == Segments[m]
       IN  /\ s.startRank = (IF m = 1 THEN 0 ELSE Segments[m - 1].endRank + 1)
           /\ s.startRank <= s.endRank
           /\ s.startKey = keys[s.startRank + 1] /\ s.endKey = keys[s.endRank + 1]

InBand(line, delta, rank, eps) ==
  LET value == line.slope * delta + line.origin
  IN  /\ (IF rank < eps THEN 0 ELSE rank - eps) * line.den <= value
      /\ value <= (rank + eps) * line.den

\* "A canonical OPLM segment admits an exact rational affine line inside its
\* epsilon band for every point it covers": the certified line of every segment
\* passes the clipped band of each of its points, whatever the hulls have
\* dropped since the point was added.
CertificateInBand ==
  \A m \in 1..Len(Segments) :
    LET s == Segments[m]
    IN  /\ s.line.den > 0
        /\ \A r \in s.startRank..s.endRank :
             InBand(s.line, keys[r + 1] - s.startKey, r, epsilon)

Floor(r) == EpsSub(r)

\* A line passes the bands of the ranks from..to exactly if the steepest of the
\* slopes they force from below is no steeper than the flattest they allow.
Feasible(from, to) ==
  \A a, c \in from..to : \A b \in (a + 1)..to, d \in (c + 1)..to :
    (Floor(b) - (a + epsilon)) * (keys[d + 1] - keys[c + 1])
      <= (d + epsilon - Floor(c)) * (keys[b + 1] - keys[a + 1])

\* A segment ends only where it must: no line at all passes the bands of its
\* points and of the point that started the next segment.
SegmentsMaximal ==
  \A m \in 1..Len(segments) : ~Feasible(segments[m].startRank, segments[m].endRank + 1)

\* The ranks below pos hold smaller keys, and those from pos on do not.
IsLowerBound(run, q, pos) ==
  /\ pos \in 0..Len(run)
  /\ \A m \in 1..pos : run[m] < q
  /\ \A m \in (pos + 1)..Len(run) : run[m] >= q

\* The run has the key q at the rank r.
HeldAt(run, q, r) == r < Len(run) /\ run[r + 1] = q

\* lo..hi "is guaranteed to find the true insertion point": of the keys of the
\* run, of keys between them, below them and above them.  The rank of a key of
\* the run is below hi: it is one of the positions that are searched.
WindowHoldsLowerBound ==
  \A q \in KeyUniverse :
    LET w == Window(BatchIndex, q)
    IN  \E pos \in w.lo..w.hi :
          IsLowerBound(keys, q, pos) /\ (HeldAt(keys, q, pos) => pos < w.hi)
=============================================================================
