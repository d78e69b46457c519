------------------------------ MODULE PgmProofs ------------------------------
(***************************************************************************)
(* Theorems about Pgm: every segment's line passes the band of every one   *)
(* of its points (CertificatesInBand), a segment ends only where it must   *)
(* (SegmentsAreMaximal), and a search window holds the lower bound of any  *)
(* key (WindowsHoldLowerBound), whatever the keys and the error bound.     *)
(*                                                                         *)
(* The argument is geometric.  The code keeps two hulls and four corners,  *)
(* and drops nodes of both; what the rest stands for is Region: the        *)
(* corners are the extreme slopes over all bands added since the segment   *)
(* began, and a line that passes the remaining nodes passes all.  Upper    *)
(* and lower hull are each other's mirror image, so that the lemmas about  *)
(* one of them, stated for a direction "up", serve both.                   *)
(***************************************************************************)
EXTENDS Pgm, IntegerSets, FiniteSetTheorems, SequenceTheorems

-----------------------------------------------------------------------------
(* The types of the model under construction. *)

\* Nothing of the lower hull is newer than the last key.
Older ==
  keys # <<>> =>
    /\ \A m \in 1..Len(lower) : lower[m].x <= keys[Len(keys)]
    /\ rectangle[2].x <= keys[Len(keys)]

Model ==
  /\ PgmTypeOK
  /\ pointsInHull = 0 => keys = <<>>
  /\ Older
  /\ pointsInHull >= 2 => rectangle[2].x < rectangle[4].x

\* Points of a new rank have their type.
LEMMA PointsType ==
  ASSUME PgmTypeOK, NEW x \in Int
  PROVE  /\ High(x) \in PointType /\ Low(x) \in PointType
         /\ High(x).x = x /\ Low(x).x = x
<1>1. epsilon \in Nat BY EpsilonAssumption DEF PgmTypeOK
<1>2. Len(keys) \in Nat BY DEF PgmTypeOK
<1> QED BY <1>1, <1>2 DEF High, Low, Point, PointType, EpsSub, Rank

\* Truncated quotients of integers are integers.
LEMMA DivTruncType ==
  ASSUME NEW num \in Int, NEW den \in Nat \ {0}
  PROVE  DivTrunc(num, den) \in Int
BY DEF DivTrunc

\* So are rounded ones.
LEMMA RoundType ==
  ASSUME NEW num \in Int, NEW den \in Nat \ {0}
  PROVE  RoundHalfToZero(num, den) \in Int
<1> DEFINE sign == IF num >= 0 THEN 1 ELSE -1
<1>1. sign \in Int /\ den \div 2 \in Int OBVIOUS
<1> HIDE DEF sign
<1>2. \A a, b \in Int : a * b \in Int OBVIOUS
<1>3. num + sign * (den \div 2) \in Int
  <2> DEFINE h == den \div 2
  <2>1. h \in Int BY <1>1
  <2> HIDE DEF h
  <2>2. sign * h \in Int BY <1>1, <1>2, <2>1
  <2>3. num + sign * h \in Int BY <2>2
  <2> QED BY <2>3 DEF h
<1> QED BY <1>3, DivTruncType DEF RoundHalfToZero, sign

\* A rectangle that is not vertical gives a line with a positive denominator.
LEMMA SteepestType ==
  ASSUME PgmTypeOK, rectangle[2].x < rectangle[4].x
  PROVE  Steepest.dx \in Nat \ {0} /\ Steepest.dy \in Int
<1>1. rectangle[2] \in PointType /\ rectangle[4] \in PointType
  BY DEF PgmTypeOK
<1> QED BY <1>1 DEF Steepest, Slope, PointType

\* The active segment of a model with points has its type.
LEMMA ActiveType ==
  ASSUME Model, keys # <<>>
  PROVE  ActiveSegment \in SegmentType
<1>1. /\ keys \in Seq(KeyUniverse) /\ pointsInHull \in Nat \ {0} /\ startRank \in Nat
      /\ startRank + pointsInHull = Len(keys)
  BY DEF Model, PgmTypeOK
<1>2. Len(keys) \in Nat \ {0} /\ startRank + 1 \in 1..Len(keys) /\ Len(keys) \in 1..Len(keys)
  BY <1>1
<1>3. keys[startRank + 1] \in KeyUniverse /\ keys[Len(keys)] \in KeyUniverse /\ EndRank \in Nat
  BY <1>1, <1>2 DEF EndRank
<1> DEFINE firstX == keys[startRank + 1]
<1>4. firstX \in Int BY <1>3, UniverseAssumption
<1>5. /\ rectangle[1] \in PointType /\ rectangle[2] \in PointType
      /\ rectangle[1].y \in Nat /\ rectangle[2].y \in Nat /\ rectangle[2].x \in Int
  <2>1. rectangle[1] \in PointType /\ rectangle[2] \in PointType BY DEF Model, PgmTypeOK
  <2> QED BY <2>1 DEF PointType
<1>6. CASE pointsInHull = 1
  <2>1. Certificate(firstX) \in LineType /\ Intercept(firstX) \in Int
    BY <1>5, <1>6 DEF Certificate, Intercept, LineType
  <2> QED BY <1>1, <1>3, <1>6, <2>1 DEF ActiveSegment, SegmentType
<1>7. CASE pointsInHull # 1
  <2>1. Steepest.dx \in Nat \ {0} /\ Steepest.dy \in Int
    BY <1>1, <1>7, SteepestType DEF Model
  <2> DEFINE d == firstX - rectangle[2].x
             p == Steepest.dy
             q == Steepest.dx
             y == rectangle[2].y
  <2>2. d \in Int /\ p \in Int /\ q \in Nat \ {0} /\ y \in Nat BY <1>4, <1>5, <2>1
  <2>3. Certificate(firstX) = [slope |-> p, origin |-> p * d + y * q, den |-> q]
    BY <1>7 DEF Certificate
  <2>4. Intercept(firstX) = RoundHalfToZero(p * d, q) + y
    BY <1>7 DEF Intercept
  <2> HIDE DEF d, p, q, y, firstX
  <2>5. \A a, b \in Int : a * b \in Int OBVIOUS
  <2>6. p * d \in Int /\ y * q \in Int BY <2>2, <2>5
  <2>7. p * d + y * q \in Int BY <2>6
  <2>8. Certificate(firstX) \in LineType BY <2>2, <2>3, <2>7 DEF LineType
  <2>9. RoundHalfToZero(p * d, q) \in Int BY <2>2, <2>6, RoundType
  <2>10. Intercept(firstX) \in Int BY <2>2, <2>4, <2>9
  <2> QED BY <1>1, <1>3, <1>7, <2>1, <2>8, <2>10 DEF ActiveSegment, SegmentType, firstX
<1> QED BY <1>6, <1>7

\* The first point of a segment keeps the model.
LEMMA StartKeeps ==
  ASSUME PgmTypeOK, NEW x \in KeyUniverse, StartHull(x), keys' = Append(keys, x),
         epsilon' = epsilon, segments' \in Seq(SegmentType), startRank' = Len(keys)
  PROVE  Model'
<1>1. High(x) \in PointType /\ Low(x) \in PointType /\ Low(x).x = x /\ x \in Int
  BY PointsType, UniverseAssumption
<1>2. /\ rectangle \in [1..4 -> PointType] /\ keys \in Seq(KeyUniverse) /\ Len(keys) \in Nat
      /\ epsilon \in Epsilons
  BY DEF PgmTypeOK
<1>3. /\ keys' \in Seq(KeyUniverse) /\ Len(keys') = Len(keys) + 1 /\ keys'[Len(keys')] = x
      /\ keys' # <<>>
  BY <1>2
<1>4. upper' \in Seq(PointType) /\ lower' \in Seq(PointType) /\ Len(upper') = 1 /\ Len(lower') = 1
  BY <1>1 DEF StartHull
<1>5. rectangle' \in [1..4 -> PointType] /\ rectangle'[2] = Low(x)
  BY <1>1, <1>2 DEF StartHull
<1>6. /\ upperStart' = 1 /\ lowerStart' = 1 /\ pointsInHull' = 1 /\ lower'[1] = Low(x)
  BY DEF StartHull
<1>7. PgmTypeOK'
  BY <1>2, <1>3, <1>4, <1>5, <1>6 DEF PgmTypeOK
<1>8. Older'
  BY <1>1, <1>3, <1>4, <1>5, <1>6 DEF Older
<1> QED BY <1>6, <1>7, <1>8 DEF Model

\* A point inside the feasible region keeps the model: the walks and the
\* pruning stay inside the hulls, and the point is right of all lower nodes.
LEMMA ExtendKeeps ==
  ASSUME Model, NEW x \in KeyUniverse, InsidePoint(x)
  PROVE  Model'
<1>1. High(x) \in PointType /\ Low(x) \in PointType /\ Low(x).x = x /\ High(x).x = x /\ x \in Int
  BY PointsType, UniverseAssumption DEF Model
<1>2. /\ rectangle \in [1..4 -> PointType] /\ keys \in Seq(KeyUniverse) /\ Len(keys) \in Nat
      /\ epsilon \in Epsilons /\ epsilon' = epsilon
      /\ upper \in Seq(PointType) /\ Len(upper) \in Nat /\ lower \in Seq(PointType) /\ Len(lower) \in Nat
      /\ pointsInHull \in Nat /\ pointsInHull >= 2 /\ startRank \in Nat /\ startRank' = startRank
      /\ startRank + pointsInHull = Len(keys)
      /\ upperStart \in Nat \ {0} /\ lowerStart \in Nat \ {0}
      /\ upperStart <= Len(upper) /\ lowerStart <= Len(lower)
      /\ segments' \in Seq(SegmentType)
      /\ keys' = Append(keys, x)
  BY DEF Model, PgmTypeOK, InsidePoint
<1>3. /\ keys' \in Seq(KeyUniverse) /\ Len(keys') = Len(keys) + 1 /\ keys'[Len(keys')] = x
      /\ keys' # <<>> /\ keys # <<>>
  BY <1>2
<1>4. keys[Len(keys)] \in Int /\ keys[Len(keys)] < x
  <2>1. keys[Len(keys)] \in KeyUniverse BY <1>2, <1>3
  <2> QED BY <1>3, <2>1, UniverseAssumption DEF InsidePoint, Increasing
<1>5. /\ \A m \in 1..Len(lower) : lower[m] \in PointType /\ lower[m].x \in Int /\ lower[m].x < x
  <2>1. \A m \in 1..Len(lower) : lower[m] \in PointType BY <1>2
  <2>2. \A m \in 1..Len(lower) : lower[m].x \in Int BY <2>1 DEF PointType
  <2>3. \A m \in 1..Len(lower) : lower[m].x <= keys[Len(keys)] BY <1>3 DEF Model, Older
  <2> QED BY <1>1, <1>4, <2>1, <2>2, <2>3
<1>6. LowerBest(x) \in lowerStart..Len(lower)
  <2> DEFINE T == {m \in lowerStart..Len(lower) :
                     \/ m = Len(lower)
                     \/ Flatter(Slope(lower[m], High(x)), Slope(lower[m + 1], High(x)))}
  <2>1. Len(lower) \in T BY <1>2
  <2>2. \A m \in T : m \in lowerStart..Len(lower) OBVIOUS
  <2>3. LowerBest(x) = Min(T) BY DEF LowerBest
  <2> HIDE DEF T
  <2>4. T \in SUBSET Int /\ T # {} /\ lowerStart \in Int /\ \A m \in T : lowerStart <= m
    BY <1>2, <2>1, <2>2
  <2>5. Min(T) \in T BY <2>4, MinIsLeast
  <2> QED BY <2>2, <2>3, <2>5
<1> DEFINE newUpper == IF Lowers(x) THEN UpperWith(x) ELSE upper
           newStart == IF Lowers(x) THEN LowerBest(x) ELSE lowerStart
           best     == UpperBest(newUpper, x)
<1>7. newUpper \in Seq(PointType) /\ Len(newUpper) \in Nat /\ upperStart <= Len(newUpper)
  <2>1. CASE Lowers(x)
    <3> DEFINE T == {m \in upperStart..Len(upper) :
                       m = upperStart \/ Cross(upper[m - 1], upper[m], High(x)) > 0}
               kept == Max(T)
    <3>1. upperStart \in T BY <1>2
    <3>2. \A m \in T : m \in upperStart..Len(upper) OBVIOUS
    <3>3. UpperWith(x) = Append(SubSeq(upper, 1, kept), High(x)) BY DEF UpperWith
    <3> HIDE DEF T
    <3>4. T \in SUBSET Int /\ T # {} /\ Len(upper) \in Int /\ \A m \in T : m <= Len(upper)
      BY <1>2, <3>1, <3>2
    <3>5. kept \in upperStart..Len(upper) BY <3>2, <3>4, MaxIsGreatest
    <3> HIDE DEF kept
    <3>6. kept \in 1..Len(upper) BY <1>2, <3>5
    <3>7. SubSeq(upper, 1, kept) \in Seq(PointType) /\ Len(SubSeq(upper, 1, kept)) = kept
      <4>1. upper \in Seq(PointType) /\ Len(upper) \in Nat BY <1>2
      <4> QED BY <4>1, <3>6, SubSeqProperties
    <3>8. UpperWith(x) \in Seq(PointType) /\ Len(UpperWith(x)) = kept + 1
      BY <1>1, <3>3, <3>6, <3>7
    <3> QED BY <1>2, <2>1, <3>5, <3>8
  <2>2. CASE ~Lowers(x) BY <1>2, <2>2
  <2> QED BY <2>1, <2>2
<1>8. newStart \in lowerStart..Len(lower) BY <1>2, <1>6
<1> HIDE DEF newUpper, newStart
<1>9. best \in upperStart..Len(newUpper)
  <2> DEFINE T == {m \in upperStart..Len(newUpper) :
                     \/ m = Len(newUpper)
                     \/ Flatter(Slope(newUpper[m + 1], Low(x)), Slope(newUpper[m], Low(x)))}
  <2>1. Len(newUpper) \in T BY <1>2, <1>7
  <2>2. \A m \in T : m \in upperStart..Len(newUpper) OBVIOUS
  <2>3. best = Min(T) BY DEF UpperBest
  <2> HIDE DEF T
  <2>4. T \in SUBSET Int /\ T # {} /\ upperStart \in Int /\ \A m \in T : upperStart <= m
    BY <1>2, <2>1, <2>2
  <2> QED BY <2>2, <2>3, <2>4, MinIsLeast
<1>10. /\ LowerWith(x, newStart) \in Seq(PointType)
       /\ Len(LowerWith(x, newStart)) \in Nat /\ newStart <= Len(LowerWith(x, newStart))
       /\ \A m \in 1..Len(LowerWith(x, newStart)) : LowerWith(x, newStart)[m].x <= x
  <2> DEFINE T == {m \in newStart..Len(lower) :
                     m = newStart \/ Cross(lower[m - 1], lower[m], Low(x)) < 0}
             kept == Max(T)
  <2>1. T \in SUBSET Int /\ T # {} /\ Len(lower) \in Int /\ \A m \in T : m <= Len(lower)
    BY <1>2, <1>8
  <2>2. \A m \in T : m \in newStart..Len(lower) OBVIOUS
  <2>3. LowerWith(x, newStart) = Append(SubSeq(lower, 1, kept), Low(x)) BY DEF LowerWith
  <2> HIDE DEF T
  <2>4. kept \in newStart..Len(lower) BY <2>1, <2>2, MaxIsGreatest
  <2> HIDE DEF kept
  <2>5. kept \in 1..Len(lower) BY <1>2, <1>8, <2>4
  <2>6. /\ SubSeq(lower, 1, kept) \in Seq(PointType) /\ Len(SubSeq(lower, 1, kept)) = kept
        /\ \A m \in 1..kept : SubSeq(lower, 1, kept)[m] = lower[m]
    BY <1>2, <2>5, SubSeqProperties
  <2> DEFINE new == LowerWith(x, newStart)
  <2>7. /\ new \in Seq(PointType) /\ Len(new) = kept + 1 /\ new[kept + 1] = Low(x)
        /\ \A m \in 1..kept : new[m] = lower[m]
    BY <1>1, <2>3, <2>5, <2>6
  <2> HIDE DEF new
  <2>8. ASSUME NEW m \in 1..Len(new) PROVE new[m].x <= x
    <3>1. CASE m = kept + 1 BY <1>1, <2>7, <3>1
    <3>2. CASE m # kept + 1
      <4>1. m \in 1..kept /\ m \in 1..Len(lower) BY <2>5, <2>7, <3>2
      <4>2. new[m] = lower[m] BY <2>7, <4>1
      <4> QED BY <1>1, <1>5, <4>1, <4>2
    <3> QED BY <3>1, <3>2
  <2>9. Len(new) \in Nat /\ newStart <= Len(new)
    <3>1. kept \in Nat /\ newStart \in Int /\ newStart <= kept BY <1>8, <2>4, <2>5
    <3> QED BY <2>7, <3>1
  <2> QED BY <2>7, <2>8, <2>9 DEF new
<1>11. newUpper[best] \in PointType /\ lower[newStart] \in PointType /\ lower[newStart].x < x
  <2>1. best \in 1..Len(newUpper) /\ newStart \in 1..Len(lower) BY <1>2, <1>7, <1>8, <1>9
  <2> QED BY <1>5, <1>7, <2>1
<1>12. /\ upper' = newUpper /\ lowerStart' = newStart
       /\ lower' = IF Raises(x) THEN LowerWith(x, newStart) ELSE lower
       /\ upperStart' = IF Raises(x) THEN best ELSE upperStart
       /\ rectangle' =
           << IF Raises(x) THEN newUpper[best] ELSE rectangle[1],
              IF Lowers(x) THEN lower[newStart] ELSE rectangle[2],
              IF Raises(x) THEN Low(x) ELSE rectangle[3],
              IF Lowers(x) THEN High(x) ELSE rectangle[4] >>
       /\ pointsInHull' = pointsInHull + 1
  BY Zenon DEF InsidePoint, ExtendHull, newUpper, newStart, best
<1> HIDE DEF best
<1>13. /\ upper' \in Seq(PointType) /\ lower' \in Seq(PointType)
       /\ upperStart' \in Nat \ {0} /\ lowerStart' \in Nat \ {0}
       /\ upperStart' <= Len(upper') /\ lowerStart' <= Len(lower')
       /\ \A m \in 1..Len(lower') : lower'[m].x <= x
  <2>1. upper' \in Seq(PointType) /\ lowerStart' \in Nat \ {0} BY <1>2, <1>7, <1>8, <1>12
  <2>2. upperStart' \in Nat \ {0} /\ upperStart' <= Len(upper')
    <3>1. upper' = newUpper /\ upperStart' = IF Raises(x) THEN best ELSE upperStart BY <1>12
    <3>2. best \in Nat \ {0} /\ best <= Len(newUpper) BY <1>2, <1>7, <1>9
    <3>3. upperStart \in Nat \ {0} /\ upperStart <= Len(newUpper) BY <1>2, <1>7
    <3> QED BY <3>1, <3>2, <3>3
  <2>3. CASE Raises(x)
    <3>1. lower' = LowerWith(x, newStart) /\ lowerStart' = newStart BY <1>12, <2>3
    <3> QED BY <1>10, <2>1, <2>2, <3>1
  <2>4. CASE ~Raises(x)
    <3>1. lower' = lower /\ lowerStart' = newStart BY <1>12, <2>4
    <3>2. \A m \in 1..Len(lower) : lower[m].x <= x BY <1>1, <1>5
    <3>3. newStart <= Len(lower) /\ lower \in Seq(PointType) BY <1>2, <1>8
    <3> QED BY <2>1, <2>2, <3>1, <3>2, <3>3
  <2> QED BY <2>3, <2>4
<1>14. /\ rectangle' \in [1..4 -> PointType]
       /\ rectangle'[2].x < x /\ rectangle'[2].x < rectangle'[4].x
  <2>1. /\ rectangle[1] \in PointType /\ rectangle[2] \in PointType
        /\ rectangle[3] \in PointType /\ rectangle[4] \in PointType
    BY <1>2
  <2>2. rectangle[2].x \in Int /\ rectangle[2].x < x /\ rectangle[2].x < rectangle[4].x
    <3>1. rectangle[2].x \in Int BY <2>1 DEF PointType
    <3>2. rectangle[2].x <= keys[Len(keys)] BY <1>3 DEF Model, Older
    <3> QED BY <1>1, <1>2, <1>4, <3>1, <3>2 DEF Model
  <2> QED BY <1>1, <1>11, <1>12, <2>1, <2>2
<1>15. PgmTypeOK'
  <2>1. pointsInHull' \in Nat /\ startRank' + pointsInHull' = Len(keys')
    BY <1>2, <1>3, <1>12
  <2>2. /\ epsilon' \in Epsilons /\ segments' \in Seq(SegmentType) /\ keys' \in Seq(KeyUniverse)
        /\ startRank' \in Nat
    BY <1>2, <1>3
  <2> QED BY <1>13, <1>14, <2>1, <2>2, Zenon DEF PgmTypeOK
<1>16. Older'
  <2>1. rectangle'[2] \in PointType BY <1>14
  <2>2. rectangle'[2].x \in Int BY <2>1 DEF PointType
  <2> QED BY <1>1, <1>3, <1>13, <1>14, <2>2 DEF Older
<1>17. pointsInHull' # 0 /\ rectangle'[2].x < rectangle'[4].x BY <1>2, <1>12, <1>14
<1> QED BY <1>15, <1>16, <1>17 DEF Model

\* Every new key keeps the model.
LEMMA AddKeeps ==
  ASSUME Model, NEW x \in KeyUniverse, AddKey(x)
  PROVE  Model'
<1>1. /\ keys \in Seq(KeyUniverse) /\ Len(keys) \in Nat /\ pointsInHull \in Nat /\ startRank \in Nat
      /\ startRank + pointsInHull = Len(keys) /\ segments \in Seq(SegmentType) /\ PgmTypeOK
  BY DEF Model, PgmTypeOK
<1>2. CASE FirstPoint(x)
  <2>1. startRank' = Len(keys) /\ segments' \in Seq(SegmentType)
    BY <1>1, <1>2 DEF FirstPoint
  <2> QED BY <1>1, <1>2, <2>1, StartKeeps DEF FirstPoint
<1>3. CASE SecondPoint(x)
  <2>1. High(x) \in PointType /\ Low(x) \in PointType /\ Low(x).x = x /\ High(x).x = x /\ x \in Int
    BY <1>1, PointsType, UniverseAssumption
  <2>2. /\ rectangle \in [1..4 -> PointType] /\ epsilon \in Epsilons
        /\ upper \in Seq(PointType) /\ Len(upper) \in Nat /\ lower \in Seq(PointType) /\ Len(lower) \in Nat
        /\ upperStart \in Nat \ {0} /\ lowerStart \in Nat \ {0} /\ pointsInHull = 1
        /\ upperStart <= Len(upper) /\ lowerStart <= Len(lower)
    BY <1>3 DEF Model, PgmTypeOK, SecondPoint
  <2>3. keys # <<>> /\ keys[Len(keys)] \in Int /\ keys[Len(keys)] < x
    <3>1. keys # <<>> BY <1>1, <2>2
    <3>2. keys[Len(keys)] \in KeyUniverse BY <1>1, <3>1
    <3> QED BY <1>3, <3>1, <3>2, UniverseAssumption DEF SecondPoint, Increasing
  <2>4. /\ keys' \in Seq(KeyUniverse) /\ Len(keys') = Len(keys) + 1 /\ keys'[Len(keys')] = x
        /\ keys' # <<>>
    <3>1. keys' = Append(keys, x) BY <1>3 DEF SecondPoint
    <3> QED BY <1>1, <3>1
  <2>5. /\ lower' \in Seq(PointType) /\ Len(lower') = Len(lower) + 1 /\ lower'[Len(lower')] = Low(x)
        /\ \A m \in 1..Len(lower) : lower'[m] = lower[m]
    BY <1>3, <2>1, <2>2 DEF SecondPoint
  <2>6. upper' \in Seq(PointType) /\ Len(upper') = Len(upper) + 1
    BY <1>3, <2>1, <2>2 DEF SecondPoint
  <2>7. /\ rectangle' \in [1..4 -> PointType] /\ rectangle'[2] = rectangle[2]
        /\ rectangle'[4] = High(x)
    BY <1>3, <2>1, <2>2 DEF SecondPoint
  <2>8. rectangle[2].x \in Int /\ rectangle[2].x < x
    <3>1. rectangle[2] \in PointType BY <2>2
    <3>2. rectangle[2].x \in Int BY <3>1 DEF PointType
    <3>3. rectangle[2].x <= keys[Len(keys)] BY <2>3 DEF Model, Older
    <3> QED BY <2>1, <2>3, <3>2, <3>3
  <2>9. ASSUME NEW m \in 1..Len(lower') PROVE lower'[m].x <= x
    <3>1. CASE m = Len(lower') BY <2>1, <2>5, <3>1
    <3>2. CASE m # Len(lower')
      <4> DEFINE n == Len(lower)
      <4>1. n \in Nat /\ m \in 1..(n + 1) /\ m # n + 1 BY <2>2, <2>5, <3>2
      <4> HIDE DEF n
      <4>2. m \in 1..n BY <4>1
      <4>3. m \in 1..Len(lower) BY <4>2 DEF n
      <4>4. lower[m] \in PointType BY <2>2, <4>3
      <4>5. lower[m].x \in Int BY <4>4 DEF PointType
      <4>6. lower[m].x <= keys[Len(keys)] BY <2>3, <4>3 DEF Model, Older
      <4> QED BY <2>1, <2>3, <2>5, <4>3, <4>5, <4>6
    <3> QED BY <3>1, <3>2
  <2>10. PgmTypeOK'
    <3>1. /\ epsilon' = epsilon /\ startRank' = startRank /\ segments' = segments
          /\ upperStart' = upperStart /\ lowerStart' = lowerStart /\ pointsInHull' = 2
      BY <1>3 DEF SecondPoint
    <3>2. upperStart' <= Len(upper') /\ lowerStart' <= Len(lower') BY <2>2, <2>5, <2>6, <3>1
    <3>3. startRank' + pointsInHull' = Len(keys') BY <1>1, <2>2, <2>4, <3>1
    <3> QED BY <1>1, <2>2, <2>4, <2>5, <2>6, <2>7, <3>1, <3>2, <3>3 DEF PgmTypeOK
  <2>11. Older' BY <2>1, <2>4, <2>7, <2>8, <2>9 DEF Older
  <2>12. pointsInHull' = 2 BY <1>3 DEF SecondPoint
  <2> QED BY <2>1, <2>7, <2>8, <2>10, <2>11, <2>12 DEF Model
<1>4. CASE InsidePoint(x)
  BY <1>4, ExtendKeeps
<1>5. CASE OutsidePoint(x)
  <2>1. keys # <<>> BY <1>1, <1>5 DEF OutsidePoint
  <2>2. ActiveSegment \in SegmentType BY <2>1, ActiveType
  <2>3. startRank' = Len(keys) /\ segments' \in Seq(SegmentType)
    BY <1>1, <1>5, <2>2 DEF OutsidePoint, Rank
  <2> QED BY <1>1, <1>5, <2>3, StartKeeps DEF OutsidePoint
<1> QED BY <1>2, <1>3, <1>4, <1>5 DEF AddKey

\* The model of no key is well formed.
LEMMA ResetGood ==
  ASSUME ResetModel, epsilon \in Epsilons
  PROVE  Model
<1>1. rectangle \in [1..4 -> PointType]
  <2>1. Origin \in PointType BY DEF Origin, Point, PointType
  <2> QED BY <2>1 DEF ResetModel
<1>2. PgmTypeOK
  BY <1>1 DEF ResetModel, PgmTypeOK
<1> QED BY <1>2 DEF Model, Older, ResetModel

\* pgm.py: every variable of the model keeps its type, and above all no line of
\* a segment is vertical: its denominator is never 0, whatever the keys are.
THEOREM PgmTypeCorrect == PgmSpec => []PgmTypeOK
<1>1. PgmInit => Model
  BY ResetGood DEF PgmInit
<1>2. Model /\ [PgmNext]_pgmVars => Model'
  <2> SUFFICES ASSUME Model, [PgmNext]_pgmVars PROVE Model' OBVIOUS
  <2>1. CASE PgmNext BY <2>1, AddKeeps DEF PgmNext
  <2>2. CASE UNCHANGED pgmVars
    BY <2>2 DEF Model, PgmTypeOK, Older, pgmVars, hull
  <2> QED BY <2>1, <2>2
<1>3. Model => PgmTypeOK
  BY DEF Model
<1> QED BY <1>1, <1>2, <1>3, PTL DEF PgmSpec

-----------------------------------------------------------------------------
(* Geometry. *)

IntPoint == [x : Int, y : Int]

\* The comparisons of slopes and the sides of lines, as they are (up) and in
\* the mirror that turns the plane upside down.
NotSteeper(up, p, q, u, v) ==
  IF up THEN ~Flatter(Slope(u, v), Slope(p, q)) ELSE ~Flatter(Slope(p, q), Slope(u, v))
Under(up, p, q, r) == IF up THEN Cross(p, q, r) <= 0 ELSE Cross(p, q, r) >= 0
Down(up, p, q) == IF up THEN p.y <= q.y ELSE p.y >= q.y

\* Slopes are ordered: the one step that takes a product of three numbers.
LEMMA QuotientsOrdered ==
  ASSUME NEW a \in Int, NEW b \in Int, NEW c \in Int, NEW d \in Int, NEW e \in Int, NEW f \in Int,
         b > 0, d > 0, f > 0, a * d <= c * b, c * f <= e * d
  PROVE  a * f <= e * b
<1>1. (a * d) * f <= (c * b) * f
  <2>1. \A m, n \in Int : m <= n => m * f <= n * f OBVIOUS
  <2>2. a * d \in Int /\ c * b \in Int OBVIOUS
  <2> QED BY <2>1, <2>2
<1>2. (c * f) * b <= (e * d) * b
  <2>1. \A m, n \in Int : m <= n => m * b <= n * b OBVIOUS
  <2>2. c * f \in Int /\ e * d \in Int OBVIOUS
  <2> QED BY <2>1, <2>2
<1>3. (a * f) * d <= (e * b) * d
  <2>1. (a * f) * d = (a * d) * f /\ (c * b) * f = (c * f) * b /\ (e * d) * b = (e * b) * d OBVIOUS
  <2> DEFINE m1 == (a * f) * d
             m2 == (c * f) * b
             m3 == (e * b) * d
  <2>2. m1 \in Int /\ m2 \in Int /\ m3 \in Int OBVIOUS
  <2>3. m1 <= m2 /\ m2 <= m3 BY <1>1, <1>2, <2>1
  <2> HIDE DEF m1, m2, m3
  <2>4. m1 <= m3 BY <2>2, <2>3
  <2> QED BY <2>4 DEF m1, m3
<1>4. \A m, n \in Int : m * d <= n * d => m <= n
  <2> SUFFICES ASSUME NEW m \in Int, NEW n \in Int, m > n PROVE m * d > n * d OBVIOUS
  <2> QED OBVIOUS
<1> QED
  <2>1. a * f \in Int /\ e * b \in Int OBVIOUS
  <2> QED BY <1>3, <1>4, <2>1

\* What the comparisons say of the coordinates.
LEMMA Coordinates ==
  ASSUME NEW up \in BOOLEAN, NEW p \in IntPoint, NEW q \in IntPoint, NEW u \in IntPoint,
         NEW v \in IntPoint
  PROVE  /\ p.x \in Int /\ p.y \in Int
         /\ NotSteeper(up, p, q, u, v) <=>
              IF up THEN (q.y - p.y) * (v.x - u.x) <= (v.y - u.y) * (q.x - p.x)
                    ELSE (v.y - u.y) * (q.x - p.x) <= (q.y - p.y) * (v.x - u.x)
         /\ Under(up, p, q, u) <=>
              IF up THEN (u.y - p.y) * (q.x - p.x) <= (q.y - p.y) * (u.x - p.x)
                    ELSE (q.y - p.y) * (u.x - p.x) <= (u.y - p.y) * (q.x - p.x)
<1>1. \A z \in IntPoint : z.x \in Int /\ z.y \in Int BY DEF IntPoint
<1> DEFINE a == q.x - p.x
           b == q.y - p.y
           c == v.x - u.x
           d == v.y - u.y
           e == u.x - p.x
           f == u.y - p.y
<1>2. a \in Int /\ b \in Int /\ c \in Int /\ d \in Int /\ e \in Int /\ f \in Int BY <1>1
<1>4. NotSteeper(up, p, q, u, v) <=> IF up THEN ~(d * a < c * b) ELSE ~(b * c < a * d)
  BY DEF NotSteeper, Flatter, Slope
<1>5. Under(up, p, q, u) <=> IF up THEN a * f - b * e <= 0 ELSE a * f - b * e >= 0
  BY DEF Under, Cross
<1> HIDE DEF a, b, c, d, e, f
<1>6. b * c \in Int /\ d * a \in Int /\ a * f \in Int /\ b * e \in Int /\ c * b = b * c
      /\ a * d = d * a /\ f * a = a * f
  BY <1>2
<1>7. NotSteeper(up, p, q, u, v) <=> IF up THEN b * c <= d * a ELSE d * a <= b * c
  BY <1>4, <1>6
<1>8. Under(up, p, q, u) <=> IF up THEN f * a <= b * e ELSE b * e <= f * a
  BY <1>5, <1>6
<1> QED BY <1>1, <1>7, <1>8 DEF a, b, c, d, e, f

\* The order of slopes is transitive.
LEMMA SteeperTransitive ==
  ASSUME NEW up \in BOOLEAN, NEW p \in IntPoint, NEW q \in IntPoint, NEW u \in IntPoint,
         NEW v \in IntPoint, NEW w \in IntPoint, NEW z \in IntPoint,
         p.x < q.x, u.x < v.x, w.x < z.x,
         NotSteeper(up, p, q, u, v), NotSteeper(up, u, v, w, z)
  PROVE  NotSteeper(up, p, q, w, z)
<1>1. \A r \in IntPoint : r.x \in Int /\ r.y \in Int BY DEF IntPoint
<1> DEFINE a == q.y - p.y
           b == q.x - p.x
           c == v.y - u.y
           d == v.x - u.x
           e == z.y - w.y
           f == z.x - w.x
<1>2. a \in Int /\ b \in Int /\ c \in Int /\ d \in Int /\ e \in Int /\ f \in Int BY <1>1
<1>3. b > 0 /\ d > 0 /\ f > 0 BY <1>1
<1>4. IF up THEN a * d <= c * b ELSE c * b <= a * d BY Coordinates
<1>5. IF up THEN c * f <= e * d ELSE e * d <= c * f BY Coordinates
<1>7. NotSteeper(up, p, q, w, z) <=> IF up THEN a * f <= e * b ELSE e * b <= a * f BY Coordinates
<1> HIDE DEF a, b, c, d, e, f
<1>6. IF up THEN a * f <= e * b ELSE e * b <= a * f
  <2>1. CASE up BY <1>2, <1>3, <1>4, <1>5, <2>1, QuotientsOrdered
  <2>2. CASE ~up BY <1>2, <1>3, <1>4, <1>5, <2>2, QuotientsOrdered
  <2> QED BY <2>1, <2>2
<1> QED BY <1>6, <1>7

\* Any two slopes are ordered.
LEMMA SteeperTotal ==
  ASSUME NEW up \in BOOLEAN, NEW p \in IntPoint, NEW q \in IntPoint, NEW u \in IntPoint,
         NEW v \in IntPoint
  PROVE  NotSteeper(up, p, q, u, v) \/ NotSteeper(up, u, v, p, q)
<1>1. p.x \in Int /\ p.y \in Int /\ q.x \in Int /\ q.y \in Int /\ u.x \in Int /\ u.y \in Int
      /\ v.x \in Int /\ v.y \in Int
  BY DEF IntPoint
<1> DEFINE m == (q.y - p.y) * (v.x - u.x)
           n == (v.y - u.y) * (q.x - p.x)
<1>2. m \in Int /\ n \in Int BY <1>1
<1>3. NotSteeper(up, p, q, u, v) <=> IF up THEN m <= n ELSE n <= m BY Coordinates
<1>4. NotSteeper(up, u, v, p, q) <=> IF up THEN n <= m ELSE m <= n BY Coordinates
<1> HIDE DEF m, n
<1> QED BY <1>2, <1>3, <1>4

\* The offsets of u and v from p, and the line's, decide both comparisons.
Offset(up, p, q, u, v, d, n, a, b, c, e) ==
  /\ d = q.x - p.x /\ n = q.y - p.y
  /\ a = u.x - p.x /\ b = u.y - p.y /\ c = v.x - p.x /\ e = v.y - p.y
  /\ Under(up, p, q, u) <=> IF up THEN b * d <= n * a ELSE n * a <= b * d
  /\ Under(up, p, q, v) <=> IF up THEN e * d <= n * c ELSE n * c <= e * d
  /\ Under(~up, p, q, v) <=> IF up THEN n * c <= e * d ELSE e * d <= n * c
  /\ NotSteeper(up, p, q, u, v) <=>
       IF up THEN n * (c - a) <= (e - b) * d ELSE (e - b) * d <= n * (c - a)
  /\ NotSteeper(up, u, v, p, q) <=>
       IF up THEN (e - b) * d <= n * (c - a) ELSE n * (c - a) <= (e - b) * d

\* There are such offsets.
LEMMA Offsets ==
  ASSUME NEW up \in BOOLEAN, NEW p \in IntPoint, NEW q \in IntPoint, NEW u \in IntPoint,
         NEW v \in IntPoint
  PROVE  \E d, n, a, b, c, e \in Int : Offset(up, p, q, u, v, d, n, a, b, c, e)
<1>1. p.x \in Int /\ p.y \in Int /\ q.x \in Int /\ q.y \in Int /\ u.x \in Int /\ u.y \in Int
      /\ v.x \in Int /\ v.y \in Int
  BY DEF IntPoint
<1> DEFINE d == q.x - p.x
           n == q.y - p.y
           a == u.x - p.x
           b == u.y - p.y
           c == v.x - p.x
           e == v.y - p.y
<1>2. d \in Int /\ n \in Int /\ a \in Int /\ b \in Int /\ c \in Int /\ e \in Int BY <1>1
<1>3. v.x - u.x = c - a /\ v.y - u.y = e - b BY <1>1
<1>4. /\ Under(up, p, q, u) <=> IF up THEN b * d <= n * a ELSE n * a <= b * d
      /\ Under(up, p, q, v) <=> IF up THEN e * d <= n * c ELSE n * c <= e * d
      /\ Under(~up, p, q, v) <=> IF ~up THEN e * d <= n * c ELSE n * c <= e * d
  BY Coordinates
<1>5. /\ NotSteeper(up, p, q, u, v) <=>
           IF up THEN n * (v.x - u.x) <= (v.y - u.y) * d ELSE (v.y - u.y) * d <= n * (v.x - u.x)
      /\ NotSteeper(up, u, v, p, q) <=>
           IF up THEN (v.y - u.y) * d <= n * (v.x - u.x) ELSE n * (v.x - u.x) <= (v.y - u.y) * d
  BY Coordinates
<1> HIDE DEF d, n, a, b, c, e
<1>6. /\ NotSteeper(up, p, q, u, v) <=>
           IF up THEN n * (c - a) <= (e - b) * d ELSE (e - b) * d <= n * (c - a)
      /\ NotSteeper(up, u, v, p, q) <=>
           IF up THEN (e - b) * d <= n * (c - a) ELSE n * (c - a) <= (e - b) * d
  BY <1>3, <1>5
<1>7. Offset(up, p, q, u, v, d, n, a, b, c, e)
  BY <1>4, <1>6 DEF d, n, a, b, c, e, Offset
<1> QED BY <1>2, <1>7

\* From a point under a line to one over it the slope is at least the line's.
LEMMA Between ==
  ASSUME NEW up \in BOOLEAN, NEW p \in IntPoint, NEW q \in IntPoint, NEW u \in IntPoint,
         NEW v \in IntPoint, Under(up, p, q, u), Under(~up, p, q, v)
  PROVE  NotSteeper(up, p, q, u, v)
<1>1. PICK d, n, a, b, c, e \in Int : Offset(up, p, q, u, v, d, n, a, b, c, e)
  BY Offsets
<1>2. n * (c - a) = n * c - n * a /\ (e - b) * d = e * d - b * d OBVIOUS
<1>3. n * c \in Int /\ n * a \in Int /\ e * d \in Int /\ b * d \in Int OBVIOUS
<1> QED BY <1>1, <1>2, <1>3 DEF Offset

\* Left of a point under a line, a point is under it that the slope leads to.
LEMMA LeftUnder ==
  ASSUME NEW up \in BOOLEAN, NEW p \in IntPoint, NEW q \in IntPoint, NEW u \in IntPoint,
         NEW v \in IntPoint, Under(up, p, q, v), NotSteeper(up, p, q, u, v)
  PROVE  Under(up, p, q, u)
<1>1. PICK d, n, a, b, c, e \in Int : Offset(up, p, q, u, v, d, n, a, b, c, e)
  BY Offsets
<1>2. n * (c - a) = n * c - n * a /\ (e - b) * d = e * d - b * d OBVIOUS
<1>3. n * c \in Int /\ n * a \in Int /\ e * d \in Int /\ b * d \in Int OBVIOUS
<1> QED BY <1>1, <1>2, <1>3 DEF Offset

\* The same to the right.
LEMMA RightUnder ==
  ASSUME NEW up \in BOOLEAN, NEW p \in IntPoint, NEW q \in IntPoint, NEW u \in IntPoint,
         NEW v \in IntPoint, Under(up, p, q, u), NotSteeper(up, u, v, p, q)
  PROVE  Under(up, p, q, v)
<1>1. PICK d, n, a, b, c, e \in Int : Offset(up, p, q, u, v, d, n, a, b, c, e)
  BY Offsets
<1>2. n * (c - a) = n * c - n * a /\ (e - b) * d = e * d - b * d OBVIOUS
<1>3. n * c \in Int /\ n * a \in Int /\ e * d \in Int /\ b * d \in Int OBVIOUS
<1> QED BY <1>1, <1>2, <1>3 DEF Offset

\* A line passes its two points.
LEMMA LineEnds ==
  ASSUME NEW up \in BOOLEAN, NEW p \in IntPoint, NEW q \in IntPoint
  PROVE  Under(up, p, q, p) /\ Under(up, p, q, q)
<1>1. p.x \in Int /\ p.y \in Int /\ q.x \in Int /\ q.y \in Int BY DEF IntPoint
<1> DEFINE d == q.x - p.x
           n == q.y - p.y
<1>2. d \in Int /\ n \in Int /\ p.x - p.x = 0 /\ p.y - p.y = 0 BY <1>1
<1>3. /\ Under(up, p, q, p) <=> IF up THEN 0 * d <= n * 0 ELSE n * 0 <= 0 * d
      /\ Under(up, p, q, q) <=> IF up THEN n * d <= n * d ELSE n * d <= n * d
  BY <1>2, Coordinates
<1> HIDE DEF d, n
<1>4. 0 * d = 0 /\ n * 0 = 0 /\ n * d \in Int BY <1>2
<1> QED BY <1>3, <1>4

\* Straight below a point under a line.
LEMMA UnderDown ==
  ASSUME NEW up \in BOOLEAN, NEW p \in IntPoint, NEW q \in IntPoint, NEW u \in IntPoint,
         NEW v \in IntPoint, p.x < q.x, u.x = v.x, Down(up, u, v), Under(up, p, q, v)
  PROVE  Under(up, p, q, u)
<1>1. p.x \in Int /\ p.y \in Int /\ q.x \in Int /\ q.y \in Int /\ u.x \in Int /\ u.y \in Int
      /\ v.x \in Int /\ v.y \in Int
  BY DEF IntPoint
<1>2. PICK d, n, a, b, c, e \in Int : Offset(up, p, q, u, v, d, n, a, b, c, e)
  BY Offsets
<1>7. d = q.x - p.x /\ a = u.x - p.x /\ b = u.y - p.y /\ c = v.x - p.x /\ e = v.y - p.y
  BY <1>2 DEF Offset
<1>3. d > 0 /\ a = c /\ IF up THEN b <= e ELSE e <= b BY <1>1, <1>7 DEF Down
<1>4. \A i, j \in Int : i <= j => i * d <= j * d BY <1>3
<1>5. IF up THEN b * d <= e * d ELSE e * d <= b * d BY <1>3, <1>4
<1>6. b * d \in Int /\ e * d \in Int /\ n * a \in Int OBVIOUS
<1> QED BY <1>2, <1>3, <1>5, <1>6 DEF Offset

\* A point straight below another one is seen from the left as the steeper.
LEMMA StraightBelow ==
  ASSUME NEW up \in BOOLEAN, NEW u \in IntPoint, NEW v \in IntPoint, NEW t \in IntPoint,
         u.x < t.x, v.x = t.x, Down(up, v, t), v.y # t.y
  PROVE  ~NotSteeper(up, v, t, u, t)
<1>1. u.x \in Int /\ u.y \in Int /\ v.x \in Int /\ v.y \in Int /\ t.x \in Int /\ t.y \in Int
  BY DEF IntPoint
<1> DEFINE d == t.x - u.x
           n == t.y - u.y
           h == t.y - v.y
<1>2. d \in Int /\ n \in Int /\ h \in Int /\ d > 0 /\ t.x - v.x = 0 /\ (IF up THEN h > 0 ELSE h < 0)
  BY <1>1 DEF Down
<1>3. NotSteeper(up, v, t, u, t) <=> IF up THEN h * d <= n * 0 ELSE n * 0 <= h * d
  BY <1>2, Coordinates
<1> HIDE DEF d, n, h
<1>4. n * 0 = 0 /\ (h > 0 => h * d > 0) /\ (h < 0 => h * d < 0) BY <1>2
<1> QED BY <1>2, <1>3, <1>4

\* A chord and its halves: the same comparison in four forms.
LEMMA Chord ==
  ASSUME NEW up \in BOOLEAN, NEW p \in IntPoint, NEW q \in IntPoint, NEW r \in IntPoint
  PROVE  /\ NotSteeper(up, p, q, q, r) <=> Under(~up, p, q, r)
         /\ NotSteeper(up, p, r, q, r) <=> Under(~up, p, q, r)
         /\ NotSteeper(up, p, q, p, r) <=> Under(~up, p, q, r)
<1>1. p.x \in Int /\ p.y \in Int /\ q.x \in Int /\ q.y \in Int /\ r.x \in Int /\ r.y \in Int
  BY DEF IntPoint
<1> DEFINE d == q.x - p.x
           n == q.y - p.y
           c == r.x - p.x
           e == r.y - p.y
<1>2. /\ d \in Int /\ n \in Int /\ c \in Int /\ e \in Int
      /\ r.x - q.x = c - d /\ r.y - q.y = e - n
  BY <1>1
<1>3. /\ Under(~up, p, q, r) <=> IF ~up THEN e * d <= n * c ELSE n * c <= e * d
      /\ NotSteeper(up, p, q, q, r) <=>
           IF up THEN n * (c - d) <= (e - n) * d ELSE (e - n) * d <= n * (c - d)
      /\ NotSteeper(up, p, r, q, r) <=>
           IF up THEN e * (c - d) <= (e - n) * c ELSE (e - n) * c <= e * (c - d)
      /\ NotSteeper(up, p, q, p, r) <=> IF up THEN n * c <= e * d ELSE e * d <= n * c
  BY <1>2, Coordinates
<1> HIDE DEF d, n, c, e
<1>4. /\ n * (c - d) = n * c - n * d /\ (e - n) * d = e * d - n * d
      /\ e * (c - d) = e * c - e * d /\ (e - n) * c = e * c - n * c
  BY <1>2
<1>5. n * c \in Int /\ n * d \in Int /\ e * d \in Int /\ e * c \in Int BY <1>2
<1> QED BY <1>3, <1>4, <1>5

\* The mirror turns the order of slopes around.
LEMMA Mirrored ==
  ASSUME NEW up \in BOOLEAN, NEW p, NEW q, NEW u, NEW v
  PROVE  /\ NotSteeper(~up, p, q, u, v) <=> NotSteeper(up, u, v, p, q)
         /\ Down(~up, p, q) <=> Down(up, q, p)
         /\ (~up) \in BOOLEAN /\ (~(~up)) = up
<1>1. NotSteeper(~up, p, q, u, v) <=> NotSteeper(up, u, v, p, q)
  <2>1. CASE up BY <2>1 DEF NotSteeper
  <2>2. CASE ~up BY <2>2 DEF NotSteeper
  <2> QED BY <2>1, <2>2
<1>3. (~up) \in BOOLEAN /\ (~(~up)) = up
  <2>1. CASE up = TRUE BY <2>1, Zenon
  <2>2. CASE up = FALSE BY <2>2, Zenon
  <2> QED BY <2>1, <2>2, Zenon
<1>2. Down(~up, p, q) <=> Down(up, q, p)
  <2>1. CASE up BY <2>1 DEF Down
  <2>2. CASE ~up BY <2>2 DEF Down
  <2> QED BY <2>1, <2>2
<1> QED BY <1>1, <1>2, <1>3, Zenon

-----------------------------------------------------------------------------
(* The feasible region: the lines over the points L and under the points H. *)

\* The flattest of the lines passes a and b, the steepest one c and d.
Corners(up, L, H, a, b, c, d) ==
  /\ L \subseteq IntPoint /\ H \subseteq IntPoint
  /\ a \in H /\ b \in L /\ a.x < b.x
  /\ c \in L /\ d \in H /\ c.x < d.x
  /\ \A p \in H, q \in L : p.x < q.x => NotSteeper(up, p, q, a, b)
  /\ \A p \in L, q \in H : p.x < q.x => NotSteeper(up, c, d, p, q)
  /\ NotSteeper(up, a, b, c, d)
  /\ \A p \in L, q \in H : p.x = q.x => Down(up, p, q)

\* Upside down, over is under and steep is flat.
LEMMA CornersMirrored ==
  ASSUME NEW up \in BOOLEAN, NEW L, NEW H, NEW a, NEW b, NEW c, NEW d
  PROVE  Corners(~up, H, L, c, d, a, b) <=> Corners(up, L, H, a, b, c, d)
<1>1. /\ \A p, q : NotSteeper(~up, p, q, c, d) <=> NotSteeper(up, c, d, p, q)
      /\ \A p, q : NotSteeper(~up, a, b, p, q) <=> NotSteeper(up, p, q, a, b)
      /\ NotSteeper(~up, c, d, a, b) <=> NotSteeper(up, a, b, c, d)
      /\ \A p, q : Down(~up, p, q) <=> Down(up, q, p)
  BY Mirrored
<1>2. (\A p \in L, q \in H : p.x = q.x => Down(up, p, q))
        <=> (\A p \in H, q \in L : p.x = q.x => Down(~up, p, q))
  <2>1. ASSUME \A p \in L, q \in H : p.x = q.x => Down(up, p, q), NEW p \in H, NEW q \in L, p.x = q.x
        PROVE  Down(~up, p, q)
    BY <1>1, <2>1
  <2>2. ASSUME \A p \in H, q \in L : p.x = q.x => Down(~up, p, q), NEW p \in L, NEW q \in H, p.x = q.x
        PROVE  Down(up, p, q)
    BY <1>1, <2>2
  <2> QED BY <2>1, <2>2
<1> DEFINE A(s, S, T, u, v) == \A p \in S, q \in T : p.x < q.x => NotSteeper(s, p, q, u, v)
           B(s, S, T, u, v) == \A p \in S, q \in T : p.x < q.x => NotSteeper(s, u, v, p, q)
<1>3. (B(up, L, H, c, d) <=> A(~up, L, H, c, d)) /\ (A(up, H, L, a, b) <=> B(~up, H, L, a, b))
  BY <1>1
<1> QED BY <1>1, <1>2, <1>3, Zenon DEF Corners

\* The steepest line is over L and under H.
LEMMA SteepestPasses ==
  ASSUME NEW up \in BOOLEAN, NEW L, NEW H, NEW a, NEW b, NEW c, NEW d, Corners(up, L, H, a, b, c, d)
  PROVE  (\A p \in L : Under(up, c, d, p)) /\ (\A q \in H : Under(~up, c, d, q))
<1>1. /\ a \in IntPoint /\ b \in IntPoint /\ c \in IntPoint /\ d \in IntPoint
      /\ c.x \in Int /\ d.x \in Int
      /\ a.x < b.x /\ c.x < d.x /\ c \in L /\ d \in H
  BY DEF Corners, IntPoint
<1>2. (~up) \in BOOLEAN BY Mirrored, Zenon
<1>3. Under(up, c, d, d) /\ Under(~up, c, d, c) BY <1>1, <1>2, LineEnds
<1>4. ASSUME NEW p \in L PROVE Under(up, c, d, p)
  <2>1. p \in IntPoint /\ p.x \in Int BY DEF Corners, IntPoint
  <2>2. CASE p.x < d.x
    <3>1. NotSteeper(up, c, d, p, d) BY <1>1, <2>2 DEF Corners
    <3> QED BY <1>1, <1>3, <2>1, <3>1, LeftUnder
  <2>3. CASE p.x = d.x
    <3>1. Down(up, p, d) BY <1>1, <2>3 DEF Corners
    <3> QED BY <1>1, <1>3, <2>1, <2>3, <3>1, UnderDown
  <2>4. CASE d.x < p.x
    <3>1. NotSteeper(up, d, p, a, b) /\ NotSteeper(up, a, b, c, d) BY <1>1, <2>4 DEF Corners
    <3>2. NotSteeper(up, d, p, c, d) BY <1>1, <2>1, <2>4, <3>1, SteeperTransitive
    <3> QED BY <1>1, <1>3, <2>1, <3>2, RightUnder
  <2> QED BY <1>1, <2>1, <2>2, <2>3, <2>4
<1>5. ASSUME NEW q \in H PROVE Under(~up, c, d, q)
  <2>1. q \in IntPoint /\ q.x \in Int BY DEF Corners, IntPoint
  <2>2. CASE c.x < q.x
    <3>1. NotSteeper(up, c, d, c, q) BY <1>1, <2>2 DEF Corners
    <3>2. NotSteeper(~up, c, q, c, d) BY <3>1, Mirrored
    <3> QED BY <1>1, <1>2, <1>3, <2>1, <3>2, RightUnder
  <2>3. CASE c.x = q.x
    <3>1. Down(up, c, q) BY <1>1, <2>3 DEF Corners
    <3>2. Down(~up, q, c) BY <3>1, Mirrored
    <3> QED BY <1>1, <1>2, <1>3, <2>1, <2>3, <3>2, UnderDown
  <2>4. CASE q.x < c.x
    <3>1. NotSteeper(up, q, c, a, b) /\ NotSteeper(up, a, b, c, d) BY <1>1, <2>4 DEF Corners
    <3>2. NotSteeper(up, q, c, c, d) BY <1>1, <2>1, <2>4, <3>1, SteeperTransitive
    <3>3. NotSteeper(~up, c, d, q, c) BY <3>2, Mirrored
    <3> QED BY <1>1, <1>2, <1>3, <2>1, <3>3, LeftUnder
  <2> QED BY <1>1, <2>1, <2>2, <2>3, <2>4
<1> QED BY <1>4, <1>5

\* So is the flattest line.
LEMMA FlattestPasses ==
  ASSUME NEW up \in BOOLEAN, NEW L, NEW H, NEW a, NEW b, NEW c, NEW d, Corners(up, L, H, a, b, c, d)
  PROVE  (\A p \in L : Under(up, a, b, p)) /\ (\A q \in H : Under(~up, a, b, q))
<1>1. (~up) \in BOOLEAN /\ (~(~up)) = up BY Mirrored, Zenon
<1>2. Corners(~up, H, L, c, d, a, b) BY CornersMirrored
<1>3. (\A p \in H : Under(~up, a, b, p)) /\ (\A q \in L : Under(~(~up), a, b, q))
  BY <1>1, <1>2, SteepestPasses
<1> QED BY <1>1, <1>3

-----------------------------------------------------------------------------
(* The hull of L, from its node at start on. *)

Hull(up, L, nodes, start) ==
  /\ nodes \in Seq(IntPoint) /\ start \in 1..Len(nodes)
  /\ \A m \in start..Len(nodes) : nodes[m] \in L
  /\ \A m, n \in start..Len(nodes) : m < n => nodes[m].x < nodes[n].x
  /\ \A m \in start + 1..Len(nodes) - 1 : ~Under(~up, nodes[m - 1], nodes[m], nodes[m + 1])

\* The hull stands for all of L: a line whose slope is feasible and that is
\* over the nodes is over L, whatever nodes have been dropped.
Covers(up, L, nodes, start, a, b, c, d) ==
  \A p, q \in IntPoint :
    /\ p.x < q.x /\ NotSteeper(up, a, b, p, q) /\ NotSteeper(up, p, q, c, d)
    /\ \A m \in start..Len(nodes) : Under(up, p, q, nodes[m])
    => \A r \in L : Under(up, p, q, r)

\* If t is seen from r as steeper than from q, so it is from the next node.
LEMMA StillSteeper ==
  ASSUME NEW up \in BOOLEAN, NEW r \in IntPoint, NEW q \in IntPoint, NEW s \in IntPoint,
         NEW t \in IntPoint, r.x < q.x, q.x < s.x, s.x < t.x,
         ~Under(~up, r, q, s), ~NotSteeper(up, q, t, r, t)
  PROVE  ~NotSteeper(up, s, t, q, t)
<1>1. r.x \in Int /\ q.x \in Int /\ s.x \in Int /\ t.x \in Int /\ q.x < t.x /\ r.x < t.x
  BY DEF IntPoint
<1>2. (~up) \in BOOLEAN /\ (~(~up)) = up BY Mirrored, Zenon
<1>3. ~NotSteeper(up, r, q, q, s) BY Chord
<1>4. NotSteeper(up, q, s, r, q) BY <1>3, SteeperTotal
<1>5. ~NotSteeper(up, q, t, r, q)
  <2>1. NotSteeper(~up, r, t, q, t) <=> NotSteeper(~up, r, q, q, t) BY <1>2, Chord
  <2>2. NotSteeper(~up, r, t, q, t) <=> NotSteeper(up, q, t, r, t) BY Mirrored
  <2>3. NotSteeper(~up, r, q, q, t) <=> NotSteeper(up, q, t, r, q) BY Mirrored
  <2> QED BY <2>1, <2>2, <2>3
<1>6. ASSUME NotSteeper(up, s, t, q, t) PROVE FALSE
  <2>1. NotSteeper(~up, q, t, s, t) <=> NotSteeper(~up, q, s, q, t) BY <1>2, Chord
  <2>2. NotSteeper(~up, q, t, s, t) <=> NotSteeper(up, s, t, q, t) BY Mirrored
  <2>3. NotSteeper(~up, q, s, q, t) <=> NotSteeper(up, q, t, q, s) BY Mirrored
  <2>4. NotSteeper(up, q, t, q, s) BY <1>6, <2>1, <2>2, <2>3
  <2> QED BY <1>1, <1>4, <1>5, <2>4, SteeperTransitive
<1> QED BY <1>6

\* The walk from start stops at k, the first node whose successor is worse.
WalkStops(up, nodes, start, t, k) ==
  /\ k \in start..Len(nodes)
  /\ k = Len(nodes) \/ ~NotSteeper(up, nodes[k + 1], t, nodes[k], t)
  /\ \A m \in start..k - 1 : NotSteeper(up, nodes[m + 1], t, nodes[m], t)

\* The walk over a hull stops at the node from which t is seen the least steep,
\* though it looks no further than one node ahead.
LEMMA WalkFindsBest ==
  ASSUME NEW up \in BOOLEAN, NEW L, NEW nodes, NEW start, Hull(up, L, nodes, start),
         NEW t \in IntPoint, nodes[start].x < t.x,
         \A m \in start..Len(nodes) :
           nodes[m].x < t.x \/ (nodes[m].x = t.x /\ Down(up, nodes[m], t) /\ nodes[m].y # t.y),
         NEW k, WalkStops(up, nodes, start, t, k)
  PROVE  /\ nodes[k].x < t.x
         /\ \A m \in start..Len(nodes) :
              nodes[m].x < t.x => NotSteeper(up, nodes[k], t, nodes[m], t)
<1> DEFINE n == Len(nodes)
<1>1. n \in Nat /\ start \in Nat /\ k \in Nat /\ start <= k /\ k <= n /\ 1 <= start
  BY DEF Hull, WalkStops
<1>0. /\ k = n \/ ~NotSteeper(up, nodes[k + 1], t, nodes[k], t)
      /\ \A m \in start..k - 1 : NotSteeper(up, nodes[m + 1], t, nodes[m], t)
  BY DEF WalkStops
<1>2. \A m \in start..n : m \in 1..n /\ nodes[m] \in IntPoint /\ nodes[m].x \in Int
  <2>1. \A m \in start..n : m \in 1..n BY <1>1
  <2>2. \A m \in 1..n : nodes[m] \in IntPoint BY DEF Hull
  <2> QED BY <2>1, <2>2 DEF IntPoint
<1>3. t.x \in Int BY DEF IntPoint
<1>4. nodes[k].x < t.x
  <2>1. CASE k = start BY <2>1
  <2>2. CASE k # start
    <3>1. k - 1 \in start..k - 1 /\ k - 1 \in start..n /\ k \in start..n /\ k - 1 < k /\ k - 1 + 1 = k
      BY <1>1, <2>2
    <3>2. NotSteeper(up, nodes[k], t, nodes[k - 1], t) BY <1>0, <3>1
    <3>3. nodes[k - 1].x < nodes[k].x BY <3>1 DEF Hull
    <3>4. nodes[k] \in IntPoint /\ nodes[k - 1] \in IntPoint BY <1>2, <3>1
    <3>5. CASE ~(nodes[k].x < t.x)
      <4>1. nodes[k].x = t.x /\ Down(up, nodes[k], t) /\ nodes[k].y # t.y BY <3>1, <3>5
      <4>2. nodes[k - 1].x < t.x BY <3>3, <4>1
      <4> QED BY <3>2, <3>4, <4>1, <4>2, StraightBelow
    <3> QED BY <3>5
  <2> QED BY <2>1, <2>2
<1>5. nodes[k] \in IntPoint BY <1>1, <1>2
<1>6. \A m \in start..k : nodes[m].x < t.x
  <2> SUFFICES ASSUME NEW m \in start..k PROVE nodes[m].x < t.x OBVIOUS
  <2>1. m \in start..n /\ k \in start..n /\ (m = k \/ m < k) BY <1>1
  <2>2. CASE m = k BY <1>4, <2>2
  <2>3. CASE m < k
    <3>1. nodes[m].x < nodes[k].x BY <2>1, <2>3 DEF Hull
    <3>2. nodes[m].x \in Int /\ nodes[k].x \in Int BY <1>2, <2>1
    <3> QED BY <1>3, <1>4, <3>1, <3>2
  <2> QED BY <2>1, <2>2, <2>3
\* Before the node: each one is no better than the next.
<1>7. \A m \in start..k : NotSteeper(up, nodes[k], t, nodes[m], t)
  <2> DEFINE B == {m \in start..k : ~NotSteeper(up, nodes[k], t, nodes[m], t)}
  <2>1. SUFFICES ASSUME B # {} PROVE FALSE OBVIOUS
  <2>2. B \in SUBSET Int /\ k \in Int /\ \A m \in B : m <= k BY <1>1
  <2>3. Max(B) \in B /\ \A m \in B : m <= Max(B)
    <3> HIDE DEF B
    <3> QED BY <2>1, <2>2, MaxIsGreatest
  <2> DEFINE g == Max(B)
  <2> HIDE DEF g
  <2>4. g \in start..k /\ ~NotSteeper(up, nodes[k], t, nodes[g], t) /\ \A m \in B : m <= g
    BY <2>3 DEF g
  <2>5. g # k BY <1>5, <2>4, SteeperTotal
  <2>6. g + 1 \in start..k /\ g \in start..k - 1 /\ g \in start..n /\ g + 1 \in start..n /\ g \in Nat
    BY <1>1, <2>4, <2>5
  <2>7. g + 1 \notin B BY <2>4, <2>6
  <2>8. NotSteeper(up, nodes[k], t, nodes[g + 1], t) BY <2>6, <2>7
  <2>9. NotSteeper(up, nodes[g + 1], t, nodes[g], t) BY <1>0, <2>6
  <2>10. nodes[g].x < t.x /\ nodes[g + 1].x < t.x BY <1>6, <2>4, <2>6
  <2>11. nodes[g] \in IntPoint /\ nodes[g + 1] \in IntPoint BY <1>2, <2>6
  <2> QED BY <1>4, <1>5, <2>4, <2>8, <2>9, <2>10, <2>11, SteeperTransitive
\* From the node on: each one is better than the next.
<1>8. \A m \in k..n - 1 : nodes[m + 1].x < t.x => ~NotSteeper(up, nodes[m + 1], t, nodes[m], t)
  <2> DEFINE B == {m \in k..n - 1 : /\ nodes[m + 1].x < t.x
                                    /\ NotSteeper(up, nodes[m + 1], t, nodes[m], t)}
  <2>1. SUFFICES ASSUME B # {} PROVE FALSE OBVIOUS
  <2>2. B \in SUBSET Int /\ k \in Int /\ \A m \in B : k <= m BY <1>1
  <2>3. Min(B) \in B /\ \A m \in B : Min(B) <= m
    <3> HIDE DEF B
    <3> QED BY <2>1, <2>2, MinIsLeast
  <2> DEFINE g == Min(B)
  <2> HIDE DEF g
  <2>4. /\ g \in k..n - 1 /\ nodes[g + 1].x < t.x /\ NotSteeper(up, nodes[g + 1], t, nodes[g], t)
        /\ \A m \in B : g <= m
    BY <2>3 DEF g
  <2>5. g # k
    <3>1. k # n BY <1>1, <2>4
    <3> QED BY <1>0, <2>4, <3>1
  <2>6. /\ g \in Nat /\ g - 1 \in k..n - 1 /\ g - 1 \in start..n /\ g \in start..n /\ g + 1 \in start..n
        /\ g \in start + 1..n - 1 /\ g - 1 < g /\ g < g + 1 /\ g - 1 + 1 = g
    BY <1>1, <2>4, <2>5
  <2>7. g - 1 \notin B BY <2>4, <2>6
  <2>8. nodes[g - 1].x < nodes[g].x /\ nodes[g].x < nodes[g + 1].x BY <2>6 DEF Hull
  <2>9. nodes[g - 1] \in IntPoint /\ nodes[g] \in IntPoint /\ nodes[g + 1] \in IntPoint
    BY <1>2, <2>6
  <2>10. nodes[g].x < t.x BY <1>2, <1>3, <2>4, <2>6, <2>8
  <2>11. ~NotSteeper(up, nodes[g], t, nodes[g - 1], t) BY <2>6, <2>7, <2>10
  <2>12. ~Under(~up, nodes[g - 1], nodes[g], nodes[g + 1]) BY <2>6 DEF Hull
  <2> QED BY <2>4, <2>8, <2>9, <2>11, <2>12, StillSteeper
<1>9. \A m \in k..n : nodes[m].x < t.x => NotSteeper(up, nodes[k], t, nodes[m], t)
  <2> DEFINE B == {m \in k..n : nodes[m].x < t.x /\ ~NotSteeper(up, nodes[k], t, nodes[m], t)}
  <2>1. SUFFICES ASSUME B # {} PROVE FALSE OBVIOUS
  <2>2. B \in SUBSET Int /\ k \in Int /\ \A m \in B : k <= m BY <1>1
  <2>3. Min(B) \in B /\ \A m \in B : Min(B) <= m
    <3> HIDE DEF B
    <3> QED BY <2>1, <2>2, MinIsLeast
  <2> DEFINE g == Min(B)
  <2> HIDE DEF g
  <2>4. /\ g \in k..n /\ nodes[g].x < t.x /\ ~NotSteeper(up, nodes[k], t, nodes[g], t)
        /\ \A m \in B : g <= m
    BY <2>3 DEF g
  <2>5. g # k BY <1>5, <2>4, SteeperTotal
  <2>6. /\ g \in Nat /\ g - 1 \in k..n - 1 /\ g - 1 \in k..n /\ g - 1 \in start..n /\ g \in start..n
        /\ g - 1 < g /\ g - 1 + 1 = g
    BY <1>1, <2>4, <2>5
  <2>7. nodes[g - 1].x < nodes[g].x BY <2>6 DEF Hull
  <2>8. nodes[g - 1] \in IntPoint /\ nodes[g] \in IntPoint BY <1>2, <2>6
  <2>9. nodes[g - 1].x < t.x BY <1>2, <1>3, <2>4, <2>6, <2>7
  <2>10. NotSteeper(up, nodes[k], t, nodes[g - 1], t) BY <2>4, <2>6, <2>9
  <2>11. ~NotSteeper(up, nodes[g], t, nodes[g - 1], t) BY <1>8, <2>4, <2>6
  <2>12. NotSteeper(up, nodes[g - 1], t, nodes[g], t) BY <2>8, <2>11, SteeperTotal
  <2> QED BY <1>4, <1>5, <2>4, <2>8, <2>9, <2>10, <2>12, SteeperTransitive
<1>10. \A m \in start..n : m \in start..k \/ m \in k..n BY <1>1
<1> QED BY <1>4, <1>7, <1>9, <1>10

\* The hull takes t as its last node, and loses the nodes after kept for it.
Prunes(up, nodes, start, t, kept, new) ==
  /\ kept \in start..Len(nodes)
  /\ kept = start \/ ~Under(~up, nodes[kept - 1], nodes[kept], t)
  /\ \A m \in kept + 1..Len(nodes) : Under(~up, nodes[m - 1], nodes[m], t)
  /\ new = Append(SubSeq(nodes, 1, kept), t)

\* A line over the nodes of new is over those of nodes too, and over t.
Replaces(up, nodes, start, t, new) ==
  \A p, q \in IntPoint :
    p.x < q.x /\ (\A m \in start..Len(new) : Under(up, p, q, new[m]))
      => /\ \A m \in start..Len(nodes) : Under(up, p, q, nodes[m])
         /\ Under(up, p, q, t)

\* The nodes a hull loses at its end are under every line that is over the
\* nodes it keeps and over the new one.
LEMMA PrunedHull ==
  ASSUME NEW up \in BOOLEAN, NEW L, NEW nodes, NEW start, Hull(up, L, nodes, start),
         NEW t \in IntPoint, \A m \in start..Len(nodes) : nodes[m].x < t.x,
         NEW kept, NEW new, Prunes(up, nodes, start, t, kept, new)
  PROVE  /\ Hull(up, L \cup {t}, new, start) /\ new[start] = nodes[start]
         /\ Replaces(up, nodes, start, t, new)
<1> DEFINE n == Len(nodes)
<1>1. /\ n \in Nat /\ start \in Nat /\ kept \in Nat /\ start <= kept /\ kept <= n /\ 1 <= start
      /\ nodes \in Seq(IntPoint)
  BY DEF Hull, Prunes
<1>0. /\ kept = start \/ ~Under(~up, nodes[kept - 1], nodes[kept], t)
      /\ \A m \in kept + 1..n : Under(~up, nodes[m - 1], nodes[m], t)
      /\ new = Append(SubSeq(nodes, 1, kept), t)
  BY DEF Prunes
<1>2. \A m \in start..n : m \in 1..n /\ nodes[m] \in IntPoint /\ nodes[m].x \in Int
  <2>1. \A m \in start..n : m \in 1..n BY <1>1
  <2>2. \A m \in 1..n : nodes[m] \in IntPoint BY DEF Hull
  <2> QED BY <2>1, <2>2 DEF IntPoint
<1>3. t.x \in Int BY DEF IntPoint
<1>4. /\ new \in Seq(IntPoint) /\ Len(new) = kept + 1 /\ new[kept + 1] = t
      /\ \A m \in 1..kept : new[m] = nodes[m]
  <2> DEFINE s == SubSeq(nodes, 1, kept)
  <2>1. s \in Seq(IntPoint) /\ Len(s) = kept /\ \A m \in 1..kept : s[m] = nodes[m]
    <3>1. kept \in 1..n BY <1>1
    <3> QED BY <1>1, <3>1, SubSeqProperties
  <2>2. new = Append(s, t) BY <1>0
  <2> HIDE DEF s
  <2> QED BY <1>1, <2>1, <2>2
<1>5. \A m \in start..kept + 1 : m = kept + 1 \/ (m \in 1..kept /\ m \in start..n) BY <1>1
<1>6. Hull(up, L \cup {t}, new, start)
  <2>1. start \in 1..Len(new) BY <1>1, <1>4
  <2>2. \A m \in start..Len(new) : new[m] \in L \cup {t}
    <3>1. \A m \in start..n : nodes[m] \in L BY DEF Hull
    <3> QED BY <1>4, <1>5, <3>1
  <2>3. ASSUME NEW m \in start..Len(new), NEW o \in start..Len(new), m < o
        PROVE  new[m].x < new[o].x
    <3>1. m \in 1..kept /\ m \in start..n /\ new[m] = nodes[m] BY <1>1, <1>4, <2>3
    <3>2. CASE o = kept + 1 BY <1>4, <3>1, <3>2
    <3>3. CASE o # kept + 1
      <4>1. o \in 1..kept /\ o \in start..n /\ new[o] = nodes[o] BY <1>4, <1>5, <3>3
      <4> QED BY <2>3, <3>1, <4>1 DEF Hull
    <3> QED BY <3>2, <3>3
  <2>4. ASSUME NEW m \in start + 1..Len(new) - 1
        PROVE  ~Under(~up, new[m - 1], new[m], new[m + 1])
    <3>1. m \in 1..kept /\ m - 1 \in 1..kept /\ new[m] = nodes[m] /\ new[m - 1] = nodes[m - 1]
      BY <1>1, <1>4
    <3>2. CASE m = kept
      <4>1. new[m + 1] = t /\ m # start BY <1>1, <1>4, <3>2
      <4> QED BY <1>0, <3>1, <3>2, <4>1
    <3>3. CASE m # kept
      <4>1. m \in start + 1..kept BY <1>1, <1>4
      <4>2. m + 1 \in 1..kept /\ m \in start + 1..n - 1
        <5> HIDE DEF n
        <5> QED BY <1>1, <3>3, <4>1
      <4>3. new[m + 1] = nodes[m + 1] BY <1>4, <4>2
      <4> QED BY <3>1, <4>2, <4>3 DEF Hull
    <3> QED BY <3>2, <3>3
  <2> QED BY <1>4, <2>1, <2>2, <2>3, <2>4 DEF Hull
<1>7. ASSUME NEW p \in IntPoint, NEW q \in IntPoint, p.x < q.x,
             \A m \in start..Len(new) : Under(up, p, q, new[m])
      PROVE  /\ \A m \in start..Len(nodes) : Under(up, p, q, nodes[m])
             /\ Under(up, p, q, t)
  <2>1. Under(up, p, q, t)
    <3>1. kept + 1 \in start..Len(new) BY <1>1, <1>4
    <3> QED BY <1>4, <1>7, <3>1
  <2>2. \A m \in start..kept : Under(up, p, q, nodes[m])
    <3>1. \A m \in start..kept : m \in start..Len(new) /\ m \in 1..kept BY <1>1, <1>4
    <3> QED BY <1>4, <1>7, <3>1
  <2> DEFINE B == {m \in start..n : ~Under(up, p, q, nodes[m])}
  <2>3. ASSUME B # {} PROVE FALSE
    <3>1. B \in SUBSET Int /\ start \in Int /\ \A m \in B : start <= m BY <1>1
    <3>2. Min(B) \in B /\ \A m \in B : Min(B) <= m
      <4> HIDE DEF B
      <4> QED BY <2>3, <3>1, MinIsLeast
    <3> DEFINE g == Min(B)
    <3> HIDE DEF g
    <3>3. g \in start..n /\ ~Under(up, p, q, nodes[g]) /\ \A m \in B : g <= m BY <3>2 DEF g
    <3>4. g \notin start..kept BY <2>2, <3>3
    <3>5. /\ g \in kept + 1..n /\ g - 1 \in start..n /\ g \in Nat /\ g - 1 < g
      BY <1>1, <3>3, <3>4
    <3>6. g - 1 \notin B BY <3>3, <3>5
    <3>7. Under(up, p, q, nodes[g - 1]) BY <3>5, <3>6
    <3>8. Under(~up, nodes[g - 1], nodes[g], t) BY <1>0, <3>5
    <3>9. nodes[g - 1] \in IntPoint /\ nodes[g] \in IntPoint BY <1>2, <3>3, <3>5
    <3>10. NotSteeper(up, nodes[g - 1], nodes[g], nodes[g], t) BY <3>8, <3>9, Chord
    <3>11. CASE NotSteeper(up, p, q, nodes[g], t)
      BY <2>1, <3>3, <3>9, <3>11, LeftUnder
    <3>12. CASE ~NotSteeper(up, p, q, nodes[g], t)
      <4>1. NotSteeper(up, nodes[g], t, p, q) BY <3>9, <3>12, SteeperTotal
      <4>2. NotSteeper(up, nodes[g - 1], nodes[g], p, q)
        <5>1. nodes[g].x < t.x BY <3>3
        <5>2. nodes[g - 1].x < nodes[g].x BY <3>3, <3>5 DEF Hull
        <5> QED BY <1>7, <3>9, <3>10, <4>1, <5>1, <5>2, SteeperTransitive
      <4> QED BY <3>3, <3>7, <3>9, <4>2, RightUnder
    <3> QED BY <3>11, <3>12
  <2>4. \A m \in start..n : Under(up, p, q, nodes[m]) BY <2>3
  <2> QED BY <2>1, <2>4
<1>8. start \in 1..kept BY <1>1
<1> QED BY <1>4, <1>6, <1>7, <1>8 DEF Replaces

\* All there is to know of the feasible region: its corners, and the two hulls
\* that start in them.
Region(up, L, H, near, ns, far, fs, a, b, c, d) ==
  /\ Corners(up, L, H, a, b, c, d)
  /\ Hull(up, L, near, ns) /\ near[ns] = c /\ Covers(up, L, near, ns, a, b, c, d)
  /\ Hull(~up, H, far, fs) /\ far[fs] = a /\ Covers(~up, H, far, fs, c, d, a, b)

\* A region upside down is a region.
LEMMA RegionMirrored ==
  ASSUME NEW up \in BOOLEAN, NEW L, NEW H, NEW near, NEW ns, NEW far, NEW fs,
         NEW a, NEW b, NEW c, NEW d
  PROVE  Region(~up, H, L, far, fs, near, ns, c, d, a, b)
           <=> Region(up, L, H, near, ns, far, fs, a, b, c, d)
<1>1. (~(~up)) = up BY Mirrored, Zenon
<1>2. Corners(~up, H, L, c, d, a, b) <=> Corners(up, L, H, a, b, c, d) BY CornersMirrored
<1> DEFINE A(s) == Hull(s, L, near, ns) /\ near[ns] = c /\ Covers(s, L, near, ns, a, b, c, d)
           B(s) == Hull(s, H, far, fs) /\ far[fs] = a /\ Covers(s, H, far, fs, c, d, a, b)
<1>3. Region(up, L, H, near, ns, far, fs, a, b, c, d) <=> Corners(up, L, H, a, b, c, d) /\ A(up) /\ B(~up)
  BY DEF Region
<1>4. Region(~up, H, L, far, fs, near, ns, c, d, a, b)
        <=> Corners(~up, H, L, c, d, a, b) /\ B(~up) /\ A(~(~up))
  BY DEF Region
<1> HIDE DEF A, B
<1>5. A(~(~up)) <=> A(up) BY <1>1
<1> QED BY <1>2, <1>3, <1>4, <1>5

\* The band of a new point ends in t: right of all points so far, but for the
\* other end of the band, which may be on the hull that is walked.
Target(up, L, H, near, ns, t) ==
  /\ t \in IntPoint
  /\ \A p \in L : p.x < t.x \/ (p.x = t.x /\ Down(up, p, t))
  /\ \A q \in H : q.x < t.x
  /\ \A m \in ns..Len(near) : near[m].x < t.x \/ near[m].y # t.y

\* t turns the steepest line down to the best node of the hull that is walked.
\* That line is feasible, and no line from a point of L to t is flatter.
LEMMA TurnedLine ==
  ASSUME NEW up \in BOOLEAN, NEW L, NEW H, NEW near, NEW ns, NEW far, NEW fs,
         NEW a, NEW b, NEW c, NEW d, Region(up, L, H, near, ns, far, fs, a, b, c, d),
         NEW t, Target(up, L, H, near, ns, t), Under(~up, a, b, t),
         ~NotSteeper(up, c, d, c, t),
         NEW k, WalkStops(up, near, ns, t, k)
  PROVE  /\ near[k] \in L /\ near[k].x < t.x
         /\ NotSteeper(up, a, b, near[k], t) /\ NotSteeper(up, near[k], t, c, d)
         /\ \A r \in L : Under(up, near[k], t, r)
         /\ \A r \in L : r.x < t.x => NotSteeper(up, near[k], t, r, t)
<1>1. /\ Corners(up, L, H, a, b, c, d) /\ Hull(up, L, near, ns) /\ near[ns] = c
      /\ Covers(up, L, near, ns, a, b, c, d)
  BY DEF Region
<1>2. /\ a \in IntPoint /\ b \in IntPoint /\ c \in IntPoint /\ d \in IntPoint /\ L \subseteq IntPoint
      /\ a.x < b.x /\ c.x < d.x /\ c \in L /\ d \in H
  BY <1>1 DEF Corners
<1>3. t \in IntPoint /\ (~up) \in BOOLEAN /\ (~(~up)) = up BY Mirrored, Zenon DEF Target
<1>4. \A r \in IntPoint : r.x \in Int BY DEF IntPoint
<1>5. c.x < t.x
  <2>1. d.x < t.x BY <1>2 DEF Target
  <2> QED BY <1>2, <1>3, <1>4, <2>1
<1>6. k \in ns..Len(near) /\ \A m \in ns..Len(near) : near[m] \in L
  BY <1>1 DEF Hull, WalkStops
<1>7. \A m \in ns..Len(near) :
        near[m].x < t.x \/ (near[m].x = t.x /\ Down(up, near[m], t) /\ near[m].y # t.y)
  <2> SUFFICES ASSUME NEW m \in ns..Len(near), ~(near[m].x < t.x)
               PROVE  near[m].x = t.x /\ Down(up, near[m], t) /\ near[m].y # t.y
    OBVIOUS
  <2>1. near[m] \in L BY <1>6
  <2> QED BY <2>1 DEF Target
<1>8. /\ near[k].x < t.x
      /\ \A m \in ns..Len(near) : near[m].x < t.x => NotSteeper(up, near[k], t, near[m], t)
  BY <1>1, <1>3, <1>5, <1>7, WalkFindsBest
<1> DEFINE v == near[k]
<1>9. v \in L /\ v \in IntPoint /\ v.x < t.x BY <1>2, <1>6, <1>8
<1>10. /\ \A m \in ns..Len(near) : near[m].x < t.x => NotSteeper(up, v, t, near[m], t)
  BY <1>8
<1> HIDE DEF v
<1>11. Under(up, v, t, t) /\ Under(~up, v, t, t) BY <1>3, <1>9, LineEnds
<1>12. NotSteeper(up, a, b, v, t)
  <2>1. Under(up, a, b, v) BY <1>1, <1>9, FlattestPasses
  <2> QED BY <1>2, <1>3, <1>9, <2>1, Between
<1>13. NotSteeper(up, v, t, c, d)
  <2>1. NotSteeper(up, v, t, c, t)
    <3>1. ns \in ns..Len(near) BY <1>1 DEF Hull
    <3> QED BY <1>1, <1>5, <1>10, <3>1
  <2>2. NotSteeper(up, c, t, c, d) BY <1>2, <1>3, SteeperTotal
  <2> QED BY <1>2, <1>3, <1>5, <1>9, <2>1, <2>2, SteeperTransitive
<1>14. \A m \in ns..Len(near) : Under(up, v, t, near[m])
  <2> SUFFICES ASSUME NEW m \in ns..Len(near) PROVE Under(up, v, t, near[m]) OBVIOUS
  <2>1. near[m] \in IntPoint BY <1>2, <1>6
  <2>2. CASE near[m].x < t.x
    <3>1. NotSteeper(up, v, t, near[m], t) BY <1>10, <2>2
    <3> QED BY <1>3, <1>9, <1>11, <2>1, <3>1, LeftUnder
  <2>3. CASE near[m].x = t.x /\ Down(up, near[m], t)
    BY <1>3, <1>9, <1>11, <2>1, <2>3, UnderDown
  <2> QED BY <1>7, <2>2, <2>3
<1>15. \A r \in L : Under(up, v, t, r)
  BY <1>1, <1>3, <1>9, <1>12, <1>13, <1>14 DEF Covers
<1>16. ASSUME NEW r \in L, r.x < t.x PROVE NotSteeper(up, v, t, r, t)
  BY <1>2, <1>3, <1>9, <1>11, <1>15, Between
<1> QED BY <1>9, <1>12, <1>13, <1>15, <1>16 DEF v

\* A point that lowers the steepest line keeps the region.
LEMMA RegionLowered ==
  ASSUME NEW up \in BOOLEAN, NEW L, NEW H, NEW near, NEW ns, NEW far, NEW fs,
         NEW a, NEW b, NEW c, NEW d, Region(up, L, H, near, ns, far, fs, a, b, c, d),
         NEW t, Target(up, L, H, near, ns, t), Under(~up, a, b, t),
         ~NotSteeper(up, c, d, c, t),
         NEW k, WalkStops(up, near, ns, t, k),
         NEW kept, NEW new, Prunes(~up, far, fs, t, kept, new)
  PROVE  Region(up, L, H \cup {t}, near, k, new, fs, a, b, near[k], t)
<1>1. /\ Corners(up, L, H, a, b, c, d)
      /\ Hull(up, L, near, ns) /\ near[ns] = c /\ Covers(up, L, near, ns, a, b, c, d)
      /\ Hull(~up, H, far, fs) /\ far[fs] = a /\ Covers(~up, H, far, fs, c, d, a, b)
  BY DEF Region
<1>2. /\ a \in IntPoint /\ b \in IntPoint /\ c \in IntPoint /\ d \in IntPoint
      /\ L \subseteq IntPoint /\ H \subseteq IntPoint
      /\ a.x < b.x /\ c.x < d.x /\ a \in H /\ b \in L /\ c \in L /\ d \in H
  BY <1>1 DEF Corners
<1>3. t \in IntPoint /\ (~up) \in BOOLEAN /\ (~(~up)) = up BY Mirrored, Zenon DEF Target
<1>4. \A r \in IntPoint : r.x \in Int BY DEF IntPoint
<1> DEFINE v == near[k]
<1>5. /\ v \in L /\ v.x < t.x
      /\ NotSteeper(up, a, b, v, t) /\ NotSteeper(up, v, t, c, d)
      /\ \A r \in L : Under(up, v, t, r)
      /\ \A r \in L : r.x < t.x => NotSteeper(up, v, t, r, t)
  BY TurnedLine
<1>6. v \in IntPoint BY <1>2, <1>5
<1>7. /\ ns \in Nat /\ k \in Nat /\ Len(near) \in Nat /\ 1 <= ns /\ ns <= k /\ k <= Len(near)
      /\ near \in Seq(IntPoint)
  BY <1>1 DEF Hull, WalkStops
<1>8. Hull(up, L, near, k)
  <2>1. \A m \in k..Len(near) : m \in ns..Len(near) BY <1>7
  <2>2. \A m \in k + 1..Len(near) - 1 : m \in ns + 1..Len(near) - 1 BY <1>7
  <2>3. k \in 1..Len(near) BY <1>7
  <2> QED BY <1>1, <1>7, <2>1, <2>2, <2>3 DEF Hull
<1>9. \A m \in ns..Len(near) : m \in k..Len(near) \/ m < k BY <1>7
<1>10. \A m \in ns..Len(near) : m < k => near[m].x < v.x BY <1>1, <1>7 DEF Hull
<1>11. \A m \in ns..Len(near) : near[m] \in L /\ near[m] \in IntPoint BY <1>1, <1>2 DEF Hull
<1>12. Under(up, v, t, t) /\ Under(~up, v, t, t) /\ Under(~up, v, t, v) /\ Under(up, v, t, v)
  BY <1>3, <1>6, LineEnds
<1> HIDE DEF v
<1>13. Corners(up, L, H \cup {t}, a, b, v, t)
  <2>1. ASSUME NEW p \in H \cup {t}, NEW q \in L, p.x < q.x PROVE NotSteeper(up, p, q, a, b)
    <3>1. CASE p \in H BY <1>1, <2>1, <3>1 DEF Corners
    <3>2. CASE p = t
      <4>1. q.x \in Int /\ t.x \in Int /\ (q.x < t.x \/ q.x = t.x)
        BY <1>2, <1>3, <1>4 DEF Target
      <4> QED BY <2>1, <3>2, <4>1
    <3> QED BY <3>1, <3>2
  <2>2. ASSUME NEW p \in L, NEW q \in H \cup {t}, p.x < q.x PROVE NotSteeper(up, v, t, p, q)
    <3>1. CASE q \in H
      <4>1. NotSteeper(up, c, d, p, q) BY <1>1, <2>2, <3>1 DEF Corners
      <4>2. p \in IntPoint /\ q \in IntPoint BY <1>2, <3>1
      <4> QED BY <1>2, <1>3, <1>5, <1>6, <2>2, <4>1, <4>2, SteeperTransitive
    <3>2. CASE q = t BY <1>5, <2>2, <3>2
    <3> QED BY <3>1, <3>2
  <2>3. ASSUME NEW p \in L, NEW q \in H \cup {t}, p.x = q.x PROVE Down(up, p, q)
    <3>1. CASE q \in H BY <1>1, <2>3, <3>1 DEF Corners
    <3>2. CASE q = t
      <4>1. p.x \in Int /\ t.x \in Int BY <1>2, <1>3, <1>4
      <4> QED BY <2>3, <3>2, <4>1 DEF Target
    <3> QED BY <3>1, <3>2
  <2> QED BY <1>2, <1>3, <1>5, <2>1, <2>2, <2>3 DEF Corners
<1>14. Covers(up, L, near, k, a, b, v, t)
  <2> SUFFICES ASSUME NEW p \in IntPoint, NEW q \in IntPoint,
                      p.x < q.x, NotSteeper(up, a, b, p, q), NotSteeper(up, p, q, v, t),
                      \A m \in k..Len(near) : Under(up, p, q, near[m])
               PROVE  \A r \in L : Under(up, p, q, r)
    BY DEF Covers
  <2>1. NotSteeper(up, p, q, c, d)
    BY <1>2, <1>3, <1>5, <1>6, SteeperTransitive
  <2>2. Under(up, p, q, v)
    <3>1. k \in k..Len(near) BY <1>7
    <3> QED BY <3>1 DEF v
  <2>3. ASSUME NEW m \in ns..Len(near), m < k PROVE Under(up, p, q, near[m])
    <3>1. near[m].x < v.x /\ near[m] \in L /\ near[m] \in IntPoint BY <1>10, <1>11, <2>3
    <3>2. NotSteeper(up, v, t, near[m], v)
      BY <1>3, <1>5, <1>6, <1>12, <3>1, Between
    <3>3. NotSteeper(up, p, q, near[m], v)
      BY <1>3, <1>5, <1>6, <3>1, <3>2, SteeperTransitive
    <3> QED BY <1>6, <2>2, <3>1, <3>3, LeftUnder
  <2>4. \A m \in ns..Len(near) : Under(up, p, q, near[m]) BY <1>9, <2>3
  <2> QED BY <1>1, <2>1, <2>4 DEF Covers
<1>15. /\ Hull(~up, H \cup {t}, new, fs) /\ new[fs] = a
       /\ Replaces(~up, far, fs, t, new)
  <2>1. \A m \in fs..Len(far) : far[m].x < t.x
    <3>1. \A m \in fs..Len(far) : far[m] \in H BY <1>1 DEF Hull
    <3> QED BY <3>1 DEF Target
  <2>2. PICK dn \in BOOLEAN : dn = (~up) BY <1>3
  <2>3. Hull(dn, H, far, fs) /\ Prunes(dn, far, fs, t, kept, new) BY <1>1, <2>2
  <2>4. Hull(dn, H \cup {t}, new, fs) /\ new[fs] = far[fs] /\ Replaces(dn, far, fs, t, new)
    BY <1>3, <2>1, <2>3, PrunedHull
  <2> QED BY <1>1, <2>2, <2>4
<1>16. Covers(~up, H \cup {t}, new, fs, v, t, a, b)
  <2> SUFFICES ASSUME NEW p \in IntPoint, NEW q \in IntPoint,
                      p.x < q.x, NotSteeper(~up, v, t, p, q), NotSteeper(~up, p, q, a, b),
                      \A m \in fs..Len(new) : Under(~up, p, q, new[m])
               PROVE  \A r \in H \cup {t} : Under(~up, p, q, r)
    BY DEF Covers
  <2>1. NotSteeper(~up, c, d, v, t) BY <1>5, Mirrored
  <2>2. NotSteeper(~up, c, d, p, q)
    BY <1>2, <1>3, <1>5, <1>6, <2>1, SteeperTransitive
  <2>3. \A m \in fs..Len(far) : Under(~up, p, q, far[m]) BY <1>15 DEF Replaces
  <2>4. Under(~up, p, q, t) BY <1>15 DEF Replaces
  <2>5. \A r \in H : Under(~up, p, q, r) BY <1>1, <2>2, <2>3 DEF Covers
  <2> QED BY <2>4, <2>5
<1>17. Region(up, L, H \cup {t}, near, k, new, fs, a, b, v, t)
  BY <1>8, <1>13, <1>14, <1>15, <1>16 DEF Region, v
<1> QED BY <1>17 DEF v

\* A point that leaves the steepest line as it is keeps the region and the
\* hulls: its band ends over that line.
LEMMA RegionKept ==
  ASSUME NEW up \in BOOLEAN, NEW L, NEW H, NEW near, NEW ns, NEW far, NEW fs,
         NEW a, NEW b, NEW c, NEW d, Region(up, L, H, near, ns, far, fs, a, b, c, d),
         NEW t, Target(up, L, H, near, ns, t), NotSteeper(up, c, d, c, t)
  PROVE  Region(up, L, H \cup {t}, near, ns, far, fs, a, b, c, d)
<1>1. /\ Corners(up, L, H, a, b, c, d)
      /\ Hull(up, L, near, ns) /\ near[ns] = c /\ Covers(up, L, near, ns, a, b, c, d)
      /\ Hull(~up, H, far, fs) /\ far[fs] = a /\ Covers(~up, H, far, fs, c, d, a, b)
  BY DEF Region
<1>2. /\ a \in IntPoint /\ b \in IntPoint /\ c \in IntPoint /\ d \in IntPoint
      /\ L \subseteq IntPoint /\ H \subseteq IntPoint
      /\ a.x < b.x /\ c.x < d.x /\ a \in H /\ b \in L /\ c \in L /\ d \in H
  BY <1>1 DEF Corners
<1>3. t \in IntPoint /\ (~up) \in BOOLEAN /\ (~(~up)) = up BY Mirrored, Zenon DEF Target
<1>4. \A r \in IntPoint : r.x \in Int BY DEF IntPoint
<1>5. /\ Under(up, c, d, d) /\ Under(~up, c, d, c) /\ Under(~up, c, d, d)
  BY <1>2, <1>3, LineEnds
<1>6. Under(~up, c, d, t)
  <2>1. NotSteeper(~up, c, t, c, d) BY Mirrored
  <2> QED BY <1>2, <1>3, <1>5, <2>1, RightUnder
<1>7. ASSUME NEW p \in L, p.x < t.x PROVE NotSteeper(up, c, d, p, t)
  <2>1. Under(up, c, d, p) BY <1>1, SteepestPasses
  <2>2. p \in IntPoint BY <1>2
  <2> QED BY <1>2, <1>3, <1>6, <2>1, <2>2, Between
<1>8. Corners(up, L, H \cup {t}, a, b, c, d)
  <2>1. ASSUME NEW p \in H \cup {t}, NEW q \in L, p.x < q.x PROVE NotSteeper(up, p, q, a, b)
    <3>1. CASE p \in H BY <1>1, <2>1, <3>1 DEF Corners
    <3>2. CASE p = t
      <4>1. q.x \in Int /\ t.x \in Int /\ (q.x < t.x \/ q.x = t.x)
        BY <1>2, <1>3, <1>4 DEF Target
      <4> QED BY <2>1, <3>2, <4>1
    <3> QED BY <3>1, <3>2
  <2>2. ASSUME NEW p \in L, NEW q \in H \cup {t}, p.x < q.x PROVE NotSteeper(up, c, d, p, q)
    <3>1. CASE q \in H BY <1>1, <2>2, <3>1 DEF Corners
    <3>2. CASE q = t BY <1>7, <2>2, <3>2
    <3> QED BY <3>1, <3>2
  <2>3. ASSUME NEW p \in L, NEW q \in H \cup {t}, p.x = q.x PROVE Down(up, p, q)
    <3>1. CASE q \in H BY <1>1, <2>3, <3>1 DEF Corners
    <3>2. CASE q = t
      <4>1. p.x \in Int /\ t.x \in Int BY <1>2, <1>3, <1>4
      <4> QED BY <2>3, <3>2, <4>1 DEF Target
    <3> QED BY <3>1, <3>2
  <2> QED BY <1>1, <1>3, <2>1, <2>2, <2>3 DEF Corners
<1>9. Hull(~up, H \cup {t}, far, fs) BY <1>1 DEF Hull
<1>10. Covers(~up, H \cup {t}, far, fs, c, d, a, b)
  <2> SUFFICES ASSUME NEW p \in IntPoint, NEW q \in IntPoint,
                      p.x < q.x, NotSteeper(~up, c, d, p, q), NotSteeper(~up, p, q, a, b),
                      \A m \in fs..Len(far) : Under(~up, p, q, far[m])
               PROVE  \A r \in H \cup {t} : Under(~up, p, q, r)
    BY DEF Covers
  <2>1. \A r \in H : Under(~up, p, q, r) BY <1>1 DEF Covers
  <2>2. Under(~up, p, q, d) BY <1>2, <2>1
  <2>3. NotSteeper(up, c, d, d, t) BY <1>2, <1>3, <1>5, <1>6, Between
  <2>4. NotSteeper(up, p, q, c, d) BY Mirrored
  <2>5. d.x < t.x BY <1>2 DEF Target
  <2>6. NotSteeper(up, p, q, d, t) BY <1>2, <1>3, <2>3, <2>4, <2>5, SteeperTransitive
  <2>7. NotSteeper(~up, d, t, p, q) BY <2>6, Mirrored
  <2>8. Under(~up, p, q, t) BY <1>2, <1>3, <2>2, <2>7, RightUnder
  <2> QED BY <2>1, <2>8
<1> QED BY <1>1, <1>8, <1>9, <1>10 DEF Region

-----------------------------------------------------------------------------
(* The model of the active segment. *)

\* The band of a rank that has been added.
HighAt(r) == Point(keys[r + 1], r + epsilon)
LowAt(r) == Point(keys[r + 1], EpsSub(r))

ActiveRanks == startRank..Len(keys) - 1
Highs == {HighAt(r) : r \in ActiveRanks}
Lows == {LowAt(r) : r \in ActiveRanks}

KeysSorted == \A m, n \in 1..Len(keys) : m < n => keys[m] < keys[n]

ActiveRegion ==
  Region(TRUE, Lows, Highs, lower, lowerStart, upper, upperStart,
         rectangle[1], rectangle[3], rectangle[2], rectangle[4])

OnePoint ==
  /\ rectangle[1] = HighAt(startRank) /\ rectangle[2] = LowAt(startRank)
  /\ upper = <<rectangle[1]>> /\ lower = <<rectangle[2]>>
  /\ upperStart = 1 /\ lowerStart = 1

\* What the hulls and the corners say of the points of the active segment.
Fitted ==
  /\ Model /\ KeysSorted
  /\ pointsInHull = 1 => OnePoint
  /\ pointsInHull >= 2 => ActiveRegion

\* Types of the bands, and what their order says of the ranks.
LEMMA BandTypes ==
  ASSUME PgmTypeOK, KeysSorted
  PROVE  /\ epsilon \in Nat /\ keys \in Seq(Int) /\ Len(keys) \in Nat
         /\ startRank \in Nat /\ pointsInHull \in Nat /\ startRank + pointsInHull = Len(keys)
         /\ \A r \in 0..Len(keys) - 1 :
              /\ r \in Nat /\ r + 1 \in 1..Len(keys) /\ keys[r + 1] \in Int
              /\ HighAt(r) \in IntPoint /\ HighAt(r).x = keys[r + 1] /\ HighAt(r).y = r + epsilon
              /\ LowAt(r) \in IntPoint /\ LowAt(r).x = keys[r + 1] /\ LowAt(r).y = EpsSub(r)
              /\ EpsSub(r) \in Nat /\ EpsSub(r) <= r + epsilon
         /\ \A r, s \in 0..Len(keys) - 1 : keys[r + 1] < keys[s + 1] <=> r < s
<1>1. /\ epsilon \in Nat /\ keys \in Seq(Int) /\ Len(keys) \in Nat
      /\ startRank \in Nat /\ pointsInHull \in Nat /\ startRank + pointsInHull = Len(keys)
  <2>1. keys \in Seq(KeyUniverse) /\ epsilon \in Nat
    BY EpsilonAssumption DEF PgmTypeOK
  <2>2. keys \in Seq(Int) BY <2>1, UniverseAssumption, SeqMonotonic
  <2> QED BY <2>1, <2>2 DEF PgmTypeOK
<1>2. ASSUME NEW r \in 0..Len(keys) - 1
      PROVE  /\ r \in Nat /\ r + 1 \in 1..Len(keys) /\ keys[r + 1] \in Int
             /\ EpsSub(r) \in Nat /\ EpsSub(r) <= r + epsilon
  <2>1. r \in Nat /\ r + 1 \in 1..Len(keys) BY <1>1
  <2>2. keys[r + 1] \in Int BY <1>1, <2>1
  <2>3. EpsSub(r) \in Nat /\ EpsSub(r) <= r + epsilon BY <1>1, <2>1 DEF EpsSub
  <2> QED BY <2>1, <2>2, <2>3
<1>3. ASSUME NEW r \in 0..Len(keys) - 1
      PROVE  /\ HighAt(r) \in IntPoint /\ HighAt(r).x = keys[r + 1] /\ HighAt(r).y = r + epsilon
             /\ LowAt(r) \in IntPoint /\ LowAt(r).x = keys[r + 1] /\ LowAt(r).y = EpsSub(r)
  <2>1. r + epsilon \in Int /\ EpsSub(r) \in Int /\ keys[r + 1] \in Int BY <1>1, <1>2
  <2> QED BY <2>1 DEF HighAt, LowAt, Point, IntPoint
<1>4. ASSUME NEW r \in 0..Len(keys) - 1, NEW s \in 0..Len(keys) - 1
      PROVE  keys[r + 1] < keys[s + 1] <=> r < s
  <2>1. /\ r \in Nat /\ s \in Nat /\ r + 1 \in 1..Len(keys) /\ s + 1 \in 1..Len(keys)
        /\ keys[r + 1] \in Int /\ keys[s + 1] \in Int
    BY <1>2
  <2>2. CASE r < s
    <3>1. r + 1 < s + 1 BY <2>1, <2>2
    <3> QED BY <2>1, <2>2, <3>1 DEF KeysSorted
  <2>3. CASE r = s BY <2>1, <2>3
  <2>4. CASE s < r
    <3>1. s + 1 < r + 1 BY <2>1, <2>4
    <3>2. keys[s + 1] < keys[r + 1] BY <2>1, <3>1 DEF KeysSorted
    <3> QED BY <2>1, <2>4, <3>2
  <2> QED BY <2>1, <2>2, <2>3, <2>4
<1> QED BY <1>1, <1>2, <1>3, <1>4

\* A new key is right of all bands.
LEMMA KeysStaySorted ==
  ASSUME PgmTypeOK, KeysSorted, NEW x \in KeyUniverse, Increasing(x), keys' = Append(keys, x)
  PROVE  /\ KeysSorted' /\ x \in Int /\ \A r \in 0..Len(keys) - 1 : keys[r + 1] < x
         /\ Len(keys') = Len(keys) + 1 /\ keys'[Len(keys) + 1] = x
         /\ \A m \in 1..Len(keys) : keys'[m] = keys[m]
<1>1. keys \in Seq(Int) /\ Len(keys) \in Nat BY BandTypes
<1>2. x \in Int BY UniverseAssumption
<1>3. /\ Len(keys') = Len(keys) + 1 /\ keys'[Len(keys) + 1] = x
      /\ \A m \in 1..Len(keys) : keys'[m] = keys[m] /\ keys[m] \in Int
  BY <1>1, <1>2
<1>4. \A m \in 1..Len(keys) : keys[m] < x
  <2> SUFFICES ASSUME NEW m \in 1..Len(keys) PROVE keys[m] < x OBVIOUS
  <2>1. keys # <<>> /\ Len(keys) \in 1..Len(keys) /\ (m = Len(keys) \/ m < Len(keys)) BY <1>1
  <2>2. keys[Len(keys)] < x BY <2>1 DEF Increasing
  <2>3. keys[m] \in Int /\ keys[Len(keys)] \in Int BY <1>3, <2>1
  <2>4. m < Len(keys) => keys[m] < keys[Len(keys)] BY <2>1 DEF KeysSorted
  <2> QED BY <1>2, <2>1, <2>2, <2>3, <2>4
<1>5. KeysSorted'
  <2> SUFFICES ASSUME NEW m \in 1..Len(keys'), NEW n \in 1..Len(keys'), m < n
               PROVE  keys'[m] < keys'[n]
    BY DEF KeysSorted
  <2>1. m \in 1..Len(keys) /\ (n \in 1..Len(keys) \/ n = Len(keys) + 1) BY <1>1, <1>3
  <2> QED BY <1>3, <1>4, <2>1 DEF KeysSorted
<1>6. \A r \in 0..Len(keys) - 1 : r + 1 \in 1..Len(keys) BY <1>1
<1> QED BY <1>2, <1>3, <1>4, <1>5, <1>6

\* The new point's band joins the bands of its segment.
LEMMA BandJoins ==
  ASSUME PgmTypeOK, KeysSorted, NEW x \in KeyUniverse, Increasing(x), keys' = Append(keys, x),
         epsilon' = epsilon, startRank' = startRank
  PROVE  Lows' = Lows \cup {Low(x)} /\ Highs' = Highs \cup {High(x)}
<1>1. /\ Len(keys) \in Nat /\ startRank \in Nat /\ startRank <= Len(keys)
  BY BandTypes
<1>2. /\ Len(keys') = Len(keys) + 1 /\ keys'[Len(keys) + 1] = x
      /\ \A m \in 1..Len(keys) : keys'[m] = keys[m]
  BY KeysStaySorted
<1>3. ActiveRanks' = ActiveRanks \cup {Len(keys)} BY <1>1, <1>2 DEF ActiveRanks
<1>4. \A r \in ActiveRanks : r + 1 \in 1..Len(keys) BY <1>1 DEF ActiveRanks
<1> DEFINE n == Len(keys)
           L(r) == Point(keys'[r + 1], EpsSub(r))
           H(r) == Point(keys'[r + 1], r + epsilon)
<1>5. Lows' = {L(r) : r \in ActiveRanks'} /\ Highs' = {H(r) : r \in ActiveRanks'}
  BY DEF Lows, Highs, LowAt, HighAt, EpsSub
<1>6. \A r \in ActiveRanks : L(r) = LowAt(r) /\ H(r) = HighAt(r)
  BY <1>2, <1>4 DEF LowAt, HighAt
<1>7. L(n) = Low(x) /\ H(n) = High(x) BY <1>2 DEF Low, High, Rank
<1> HIDE DEF L, H, n
<1>8. ActiveRanks' = ActiveRanks \cup {n} BY <1>3 DEF n
<1>9. Lows' = {L(r) : r \in ActiveRanks} \cup {L(n)} /\ Highs' = {H(r) : r \in ActiveRanks} \cup {H(n)}
  BY <1>5, <1>8
<1>10. {L(r) : r \in ActiveRanks} = Lows /\ {H(r) : r \in ActiveRanks} = Highs
  BY <1>6 DEF Lows, Highs
<1> QED BY <1>7, <1>9, <1>10

\* The code's walks and its pruning are the ones of the region.
LEMMA LowerWalk ==
  ASSUME NEW S, Hull(TRUE, S, lower, lowerStart), NEW x
  PROVE  WalkStops(TRUE, lower, lowerStart, High(x), LowerBest(x))
<1> DEFINE t == High(x)
           Q(m) == Flatter(Slope(lower[m], t), Slope(lower[m + 1], t))
           T == {m \in lowerStart..Len(lower) : m = Len(lower) \/ Q(m)}
<1>1. LowerBest(x) = Min(T) BY DEF LowerBest
<1>2. \A m : ~NotSteeper(TRUE, lower[m + 1], t, lower[m], t) <=> Q(m) BY DEF NotSteeper
<1> HIDE DEF Q, t
<1>3. /\ lowerStart \in Nat /\ Len(lower) \in Nat /\ lowerStart <= Len(lower)
      /\ lowerStart \in Int /\ T \in SUBSET Int /\ T # {} /\ \A m \in T : lowerStart <= m
  BY DEF Hull
<1>4. Min(T) \in T /\ \A m \in T : Min(T) <= m
  <2> HIDE DEF T
  <2> QED BY <1>3, MinIsLeast
<1> DEFINE k == Min(T)
<1> HIDE DEF k
<1>5. k \in T /\ \A m \in T : k <= m BY <1>4 DEF k
<1>6. \A m \in lowerStart..k - 1 : m \notin T /\ m \in lowerStart..Len(lower) /\ m # Len(lower)
  <2>1. \A m \in lowerStart..k - 1 : m \in Int /\ ~(k <= m) BY <1>3, <1>5
  <2> QED BY <1>3, <1>5, <2>1
<1>7. \A m \in lowerStart..k - 1 : NotSteeper(TRUE, lower[m + 1], t, lower[m], t)
  BY <1>2, <1>6
<1>8. k = Len(lower) \/ ~NotSteeper(TRUE, lower[k + 1], t, lower[k], t)
  BY <1>2, <1>5
<1>9. WalkStops(TRUE, lower, lowerStart, t, k) BY <1>5, <1>7, <1>8 DEF WalkStops
<1> QED BY <1>1, <1>9 DEF k, t

\* The same for the upper hull.
LEMMA UpperWalk ==
  ASSUME NEW S, NEW nodes, Hull(FALSE, S, nodes, upperStart), NEW x
  PROVE  WalkStops(FALSE, nodes, upperStart, Low(x), UpperBest(nodes, x))
<1> DEFINE t == Low(x)
           Q(m) == Flatter(Slope(nodes[m + 1], t), Slope(nodes[m], t))
           T == {m \in upperStart..Len(nodes) : m = Len(nodes) \/ Q(m)}
<1>1. UpperBest(nodes, x) = Min(T) BY DEF UpperBest
<1>2. \A m : ~NotSteeper(FALSE, nodes[m + 1], t, nodes[m], t) <=> Q(m) BY DEF NotSteeper
<1> HIDE DEF Q, t
<1>3. /\ upperStart \in Nat /\ Len(nodes) \in Nat /\ upperStart <= Len(nodes)
      /\ upperStart \in Int /\ T \in SUBSET Int /\ T # {} /\ \A m \in T : upperStart <= m
  BY DEF Hull
<1>4. Min(T) \in T /\ \A m \in T : Min(T) <= m
  <2> HIDE DEF T
  <2> QED BY <1>3, MinIsLeast
<1> DEFINE k == Min(T)
<1> HIDE DEF k
<1>5. k \in T /\ \A m \in T : k <= m BY <1>4 DEF k
<1>6. \A m \in upperStart..k - 1 : m \notin T /\ m \in upperStart..Len(nodes) /\ m # Len(nodes)
  <2>1. \A m \in upperStart..k - 1 : m \in Int /\ ~(k <= m) BY <1>3, <1>5
  <2> QED BY <1>3, <1>5, <2>1
<1>7. \A m \in upperStart..k - 1 : NotSteeper(FALSE, nodes[m + 1], t, nodes[m], t)
  BY <1>2, <1>6
<1>8. k = Len(nodes) \/ ~NotSteeper(FALSE, nodes[k + 1], t, nodes[k], t)
  BY <1>2, <1>5
<1>9. WalkStops(FALSE, nodes, upperStart, t, k) BY <1>5, <1>7, <1>8 DEF WalkStops
<1> QED BY <1>1, <1>9 DEF k, t

\* The cross product of integer points is an integer.
LEMMA CrossType ==
  ASSUME NEW p \in IntPoint, NEW q \in IntPoint, NEW r \in IntPoint
  PROVE  Cross(p, q, r) \in Int
<1>1. p.x \in Int /\ p.y \in Int /\ q.x \in Int /\ q.y \in Int /\ r.x \in Int /\ r.y \in Int
  BY DEF IntPoint
<1> QED BY <1>1 DEF Cross

\* The last node that is still a corner, of a hull that starts at one.
LEMMA LastCorner ==
  ASSUME NEW nodes, NEW start \in Nat, Len(nodes) \in Nat, start <= Len(nodes),
         NEW up \in BOOLEAN, NEW t,
         NEW T, \A m : m \in T <=> /\ m \in start..Len(nodes)
                                   /\ m = start \/ ~Under(~up, nodes[m - 1], nodes[m], t)
  PROVE  Prunes(up, nodes, start, t, Max(T), Append(SubSeq(nodes, 1, Max(T)), t))
<1>1. T \in SUBSET Int /\ T # {} /\ Len(nodes) \in Int /\ \A m \in T : m <= Len(nodes)
  <2>1. start \in T OBVIOUS
  <2> QED BY <2>1
<1>2. Max(T) \in T /\ \A m \in T : m <= Max(T)
  <2>1. \A U \in SUBSET Int : U # {} /\ (\A m \in U : m <= Len(nodes))
                                => Max(U) \in U /\ \A m \in U : m <= Max(U)
    BY <1>1, MaxIsGreatest
  <2> QED BY <1>1, <2>1
<1> DEFINE k == Max(T)
<1> HIDE DEF k
<1>3. k \in T /\ \A m \in T : m <= k BY <1>2 DEF k
<1>4. \A m \in k + 1..Len(nodes) : m \notin T /\ m \in start..Len(nodes)
  <2>1. k \in start..Len(nodes) BY <1>3
  <2>2. \A m \in k + 1..Len(nodes) : m \in Int /\ ~(m <= k) /\ m \in start..Len(nodes) BY <2>1
  <2> QED BY <1>3, <2>2
<1>5. \A m \in k + 1..Len(nodes) : Under(~up, nodes[m - 1], nodes[m], t) BY <1>4
<1>6. Prunes(up, nodes, start, t, k, Append(SubSeq(nodes, 1, k), t))
  BY <1>3, <1>5 DEF Prunes
<1> QED BY <1>6 DEF k

\* UpperWith prunes the upper hull.
LEMMA UpperPrunes ==
  ASSUME NEW S, Hull(FALSE, S, upper, upperStart), NEW x,
         High(x) \in IntPoint
  PROVE  \E kept : Prunes(FALSE, upper, upperStart, High(x), kept, UpperWith(x))
<1> DEFINE t == High(x)
           T == {m \in upperStart..Len(upper) :
                   m = upperStart \/ ~Under(~FALSE, upper[m - 1], upper[m], t)}
<1>1. upperStart \in Nat /\ Len(upper) \in Nat /\ upperStart <= Len(upper)
  BY DEF Hull
<1>2. T = {m \in upperStart..Len(upper) :
             m = upperStart \/ Cross(upper[m - 1], upper[m], t) > 0}
  <2> SUFFICES ASSUME NEW m \in upperStart..Len(upper), m # upperStart
               PROVE  ~Under(~FALSE, upper[m - 1], upper[m], t)
                        <=> Cross(upper[m - 1], upper[m], t) > 0
    OBVIOUS
  <2>1. m \in 1..Len(upper) /\ m - 1 \in 1..Len(upper) BY <1>1 DEF Hull
  <2>2. upper[m - 1] \in IntPoint /\ upper[m] \in IntPoint BY <2>1 DEF Hull
  <2>3. Cross(upper[m - 1], upper[m], t) \in Int BY <2>2, CrossType
  <2>4. Under(~FALSE, upper[m - 1], upper[m], t) <=> Cross(upper[m - 1], upper[m], t) <= 0
    BY DEF Under
  <2> QED BY <2>3, <2>4
<1>3. UpperWith(x) = Append(SubSeq(upper, 1, Max(T)), t)
  BY <1>2 DEF UpperWith
<1>4. FALSE \in BOOLEAN OBVIOUS
<1> HIDE DEF t
<1>5. Prunes(FALSE, upper, upperStart, t, Max(T), Append(SubSeq(upper, 1, Max(T)), t))
  BY <1>1, <1>4, LastCorner
<1> QED BY <1>3, <1>5 DEF t

\* LowerWith prunes the lower hull.
LEMMA LowerPrunes ==
  ASSUME NEW S, NEW start, Hull(TRUE, S, lower, start), NEW x,
         Low(x) \in IntPoint
  PROVE  \E kept : Prunes(TRUE, lower, start, Low(x), kept, LowerWith(x, start))
<1> DEFINE t == Low(x)
           T == {m \in start..Len(lower) :
                   m = start \/ ~Under(~TRUE, lower[m - 1], lower[m], t)}
<1>1. start \in Nat /\ Len(lower) \in Nat /\ start <= Len(lower)
  BY DEF Hull
<1>2. T = {m \in start..Len(lower) :
             m = start \/ Cross(lower[m - 1], lower[m], t) < 0}
  <2> SUFFICES ASSUME NEW m \in start..Len(lower), m # start
               PROVE  ~Under(~TRUE, lower[m - 1], lower[m], t)
                        <=> Cross(lower[m - 1], lower[m], t) < 0
    OBVIOUS
  <2>1. m \in 1..Len(lower) /\ m - 1 \in 1..Len(lower) BY <1>1 DEF Hull
  <2>2. lower[m - 1] \in IntPoint /\ lower[m] \in IntPoint BY <2>1 DEF Hull
  <2>3. Cross(lower[m - 1], lower[m], t) \in Int BY <2>2, CrossType
  <2>4. Under(~TRUE, lower[m - 1], lower[m], t) <=> Cross(lower[m - 1], lower[m], t) >= 0
    BY DEF Under
  <2> QED BY <2>3, <2>4
<1>3. LowerWith(x, start) = Append(SubSeq(lower, 1, Max(T)), t)
  BY <1>2 DEF LowerWith
<1>4. TRUE \in BOOLEAN OBVIOUS
<1> HIDE DEF t
<1>5. Prunes(TRUE, lower, start, t, Max(T), Append(SubSeq(lower, 1, Max(T)), t))
  BY <1>1, <1>4, LastCorner
<1> QED BY <1>3, <1>5 DEF t

\* Two bands have a region: its hulls are the bands' ends.
LEMMA TwoBands ==
  ASSUME NEW l0 \in IntPoint, NEW h0 \in IntPoint, NEW l1 \in IntPoint, NEW h1 \in IntPoint,
         h0.x = l0.x, h1.x = l1.x, l0.x < l1.x, l0.y <= h0.y, l1.y <= h1.y
  PROVE  Region(TRUE, {l0, l1}, {h0, h1}, <<l0, l1>>, 1, <<h0, h1>>, 1, h0, l1, l0, h1)
<1>1. l0.x \in Int /\ l0.y \in Int /\ h0.y \in Int /\ l1.x \in Int /\ l1.y \in Int /\ h1.y \in Int
  BY DEF IntPoint
<1>2. NotSteeper(TRUE, h0, l1, l0, h1)
  <2> DEFINE w == l1.x - l0.x
             m == l1.y - h0.y
             n == h1.y - l0.y
  <2>1. w \in Int /\ m \in Int /\ n \in Int /\ w > 0 /\ m <= n BY <1>1
  <2>2. h1.x - l0.x = w /\ l1.x - h0.x = w OBVIOUS
  <2>3. NotSteeper(TRUE, h0, l1, l0, h1) <=> m * w <= n * w BY <2>2, Coordinates
  <2> HIDE DEF w, m, n
  <2>4. m * w <= n * w BY <2>1
  <2> QED BY <2>3, <2>4
<1>3. NotSteeper(TRUE, h0, l1, h0, l1) /\ NotSteeper(TRUE, l0, h1, l0, h1)
  BY SteeperTotal
<1>4. Corners(TRUE, {l0, l1}, {h0, h1}, h0, l1, l0, h1)
  <2>1. ASSUME NEW p \in {h0, h1}, NEW q \in {l0, l1}, p.x < q.x
        PROVE  NotSteeper(TRUE, p, q, h0, l1)
    <3>1. p = h0 /\ q = l1 BY <1>1, <2>1
    <3> QED BY <1>3, <3>1
  <2>2. ASSUME NEW p \in {l0, l1}, NEW q \in {h0, h1}, p.x < q.x
        PROVE  NotSteeper(TRUE, l0, h1, p, q)
    <3>1. p = l0 /\ q = h1 BY <1>1, <2>2
    <3> QED BY <1>3, <3>1
  <2>3. ASSUME NEW p \in {l0, l1}, NEW q \in {h0, h1}, p.x = q.x
        PROVE  Down(TRUE, p, q)
    <3>1. p.y <= q.y BY <1>1, <2>3
    <3> QED BY <3>1 DEF Down
  <2> QED BY <1>1, <1>2, <2>1, <2>2, <2>3 DEF Corners
<1>5. ASSUME NEW up \in BOOLEAN, NEW u \in IntPoint, NEW v \in IntPoint, u.x < v.x,
             NEW a, NEW b, NEW c, NEW d
      PROVE  Hull(up, {u, v}, <<u, v>>, 1) /\ Covers(up, {u, v}, <<u, v>>, 1, a, b, c, d)
  <2> DEFINE s == <<u, v>>
  <2>1. s \in Seq(IntPoint) /\ Len(s) = 2 /\ s[1] = u /\ s[2] = v OBVIOUS
  <2> HIDE DEF s
  <2>2. \A m \in 1..2 : m = 1 \/ m = 2 OBVIOUS
  <2>3. 1 + 1..2 - 1 = {} /\ 1..2 # {} /\ 1 \in 1..2 /\ 2 \in 1..2 OBVIOUS
  <2>4. \A m, n \in 1..2 : m < n => m = 1 /\ n = 2 OBVIOUS
  <2>5. Hull(up, {u, v}, s, 1) BY <1>5, <2>1, <2>2, <2>3, <2>4 DEF Hull
  <2>6. Covers(up, {u, v}, s, 1, a, b, c, d) BY <2>1, <2>3 DEF Covers
  <2> QED BY <2>5, <2>6 DEF s
<1>6. h0.x < h1.x /\ (~TRUE) = FALSE OBVIOUS
<1>7. /\ Hull(TRUE, {l0, l1}, <<l0, l1>>, 1)
      /\ Covers(TRUE, {l0, l1}, <<l0, l1>>, 1, h0, l1, l0, h1)
  BY <1>5
<1>8. /\ Hull(FALSE, {h0, h1}, <<h0, h1>>, 1)
      /\ Covers(FALSE, {h0, h1}, <<h0, h1>>, 1, l0, h1, h0, l1)
  BY <1>5, <1>6
<1> QED BY <1>4, <1>6, <1>7, <1>8 DEF Region

\* The band of a new key.
LEMMA NewBand ==
  ASSUME PgmTypeOK, KeysSorted, NEW x \in KeyUniverse, Increasing(x), keys' = Append(keys, x)
  PROVE  /\ High(x) \in IntPoint /\ Low(x) \in IntPoint /\ High(x).x = x /\ Low(x).x = x
         /\ High(x).y = Len(keys) + epsilon /\ Low(x).y = EpsSub(Len(keys))
         /\ x \in Int /\ Low(x).y \in Int /\ High(x).y \in Int /\ Low(x).y <= High(x).y
         /\ (epsilon # 0 => Low(x).y < High(x).y)
         /\ \A p \in Lows \cup Highs : p \in IntPoint /\ p.x \in Int /\ p.x < x
<1>1. x \in Int /\ epsilon \in Nat /\ Len(keys) \in Nat /\ startRank \in Nat
  BY BandTypes, UniverseAssumption
<1>2. /\ EpsSub(Len(keys)) \in Nat /\ EpsSub(Len(keys)) <= Len(keys) + epsilon
      /\ (epsilon # 0 => EpsSub(Len(keys)) < Len(keys) + epsilon)
  BY <1>1 DEF EpsSub
<1>3. /\ High(x) \in IntPoint /\ Low(x) \in IntPoint /\ High(x).x = x /\ Low(x).x = x
      /\ High(x).y = Len(keys) + epsilon /\ Low(x).y = EpsSub(Len(keys))
  BY <1>1, <1>2 DEF High, Low, Point, Rank, IntPoint
<1>4. ASSUME NEW p \in Lows \cup Highs PROVE p \in IntPoint /\ p.x \in Int /\ p.x < x
  <2>1. PICK r \in ActiveRanks : p = LowAt(r) \/ p = HighAt(r) BY DEF Lows, Highs
  <2>2. r \in 0..Len(keys) - 1 BY <1>1 DEF ActiveRanks
  <2>3. keys[r + 1] < x BY <2>2, KeysStaySorted
  <2> QED BY <2>1, <2>2, <2>3, BandTypes
<1> QED BY <1>1, <1>2, <1>3, <1>4

\* SecondPoint gives a region.
LEMMA SecondFits ==
  ASSUME Fitted, NEW x \in KeyUniverse, SecondPoint(x)
  PROVE  ActiveRegion'
<1>1. /\ PgmTypeOK /\ KeysSorted /\ OnePoint /\ pointsInHull = 1
      /\ Increasing(x) /\ keys' = Append(keys, x) /\ epsilon' = epsilon /\ startRank' = startRank
  BY DEF Fitted, Model, SecondPoint
<1> DEFINE l0 == LowAt(startRank)
           h0 == HighAt(startRank)
           l1 == Low(x)
           h1 == High(x)
<1>2. Lows' = Lows \cup {l1} /\ Highs' = Highs \cup {h1} BY <1>1, BandJoins
<1>3. ActiveRanks = {startRank} /\ startRank \in 0..Len(keys) - 1
  BY <1>1, BandTypes DEF ActiveRanks
<1>4. Lows = {l0} /\ Highs = {h0} BY <1>3 DEF Lows, Highs
<1>5. l0 \in IntPoint /\ h0 \in IntPoint /\ h0.x = l0.x /\ l0.y <= h0.y
  BY <1>1, <1>3, BandTypes
<1>6. l1 \in IntPoint /\ h1 \in IntPoint /\ h1.x = l1.x /\ l0.x < l1.x /\ l1.y <= h1.y
  BY <1>1, <1>4, NewBand
<1>7. /\ rectangle' = [rectangle EXCEPT ![3] = l1, ![4] = h1]
      /\ upper' = Append(upper, h1) /\ lower' = Append(lower, l1)
      /\ upperStart' = 1 /\ lowerStart' = 1
      /\ rectangle[1] = h0 /\ rectangle[2] = l0 /\ upper = <<h0>> /\ lower = <<l0>>
  BY <1>1 DEF SecondPoint, OnePoint
<1>8. rectangle \in [1..4 -> PointType] BY <1>1 DEF PgmTypeOK
<1> HIDE DEF l0, h0, l1, h1
<1>9. /\ rectangle'[1] = h0 /\ rectangle'[2] = l0 /\ rectangle'[3] = l1 /\ rectangle'[4] = h1
  BY <1>7, <1>8
<1>10. upper' = <<h0, h1>> /\ lower' = <<l0, l1>>
  <2>1. ASSUME NEW p \in IntPoint, NEW q \in IntPoint PROVE Append(<<p>>, q) = <<p, q>>
    <3> DEFINE s == Append(<<p>>, q)
               t == <<p, q>>
    <3>1. s \in Seq(IntPoint) /\ t \in Seq(IntPoint) /\ Len(s) = 2 /\ Len(t) = 2
          /\ s[1] = p /\ s[2] = q /\ t[1] = p /\ t[2] = q
      OBVIOUS
    <3> HIDE DEF s, t
    <3>2. \A i \in 1..2 : i = 1 \/ i = 2 OBVIOUS
    <3>3. s = t BY <3>1, <3>2, SeqEqual
    <3> QED BY <3>3 DEF s, t
  <2>2. Append(<<h0>>, h1) = <<h0, h1>> /\ Append(<<l0>>, l1) = <<l0, l1>>
    BY <1>5, <1>6, <2>1
  <2> QED BY <1>7, <2>2, Zenon
<1>11. Lows' = {l0, l1} /\ Highs' = {h0, h1} BY <1>2, <1>4
<1>12. Region(TRUE, {l0, l1}, {h0, h1}, <<l0, l1>>, 1, <<h0, h1>>, 1, h0, l1, l0, h1)
  BY <1>5, <1>6, TwoBands
<1> QED BY <1>7, <1>9, <1>10, <1>11, <1>12 DEF ActiveRegion

\* A point inside the region: its band starts under the steepest line and ends
\* over the flattest one.
LEMMA InsideBand ==
  ASSUME Fitted, pointsInHull >= 2, NEW x \in KeyUniverse, Increasing(x), keys' = Append(keys, x),
         ~Outside(x)
  PROVE  /\ Under(FALSE, rectangle[1], rectangle[3], High(x))
         /\ Under(TRUE, rectangle[2], rectangle[4], Low(x))
<1>1. PgmTypeOK /\ KeysSorted /\ Corners(TRUE, Lows, Highs, rectangle[1], rectangle[3], rectangle[2], rectangle[4])
  BY DEF Fitted, Model, ActiveRegion, Region
<1>2. High(x) \in IntPoint /\ Low(x) \in IntPoint BY <1>1, NewBand
<1> DEFINE a == rectangle[1]
           b == rectangle[3]
           c == rectangle[2]
           d == rectangle[4]
<1>3. a \in IntPoint /\ b \in IntPoint /\ c \in IntPoint /\ d \in IntPoint
  BY <1>1 DEF Corners
<1>4. NotSteeper(FALSE, b, High(x), a, b) /\ NotSteeper(TRUE, d, Low(x), c, d)
  BY DEF Outside, NotSteeper, Steepest, Flattest
<1> HIDE DEF a, b, c, d
<1>5. TRUE \in BOOLEAN /\ FALSE \in BOOLEAN OBVIOUS
<1>6. Under(FALSE, a, b, b) /\ Under(TRUE, c, d, d) BY <1>3, LineEnds
<1>7. Under(FALSE, a, b, High(x)) BY <1>2, <1>3, <1>4, <1>6, RightUnder
<1>8. Under(TRUE, c, d, Low(x)) BY <1>2, <1>3, <1>4, <1>6, RightUnder
<1> QED BY <1>7, <1>8 DEF a, b, c, d

\* Bands without height lie on one line, and no point inside lowers it.
LEMMA BandsHaveHeight ==
  ASSUME Fitted, pointsInHull >= 2, NEW x \in KeyUniverse, Increasing(x), keys' = Append(keys, x),
         ~Outside(x), Lowers(x)
  PROVE  epsilon # 0
<1>1. PgmTypeOK /\ KeysSorted /\ Corners(TRUE, Lows, Highs, rectangle[1], rectangle[3], rectangle[2], rectangle[4])
  BY DEF Fitted, Model, ActiveRegion, Region
<1>2. High(x) \in IntPoint BY <1>1, NewBand
<1> DEFINE a == rectangle[1]
           b == rectangle[3]
           c == rectangle[2]
           d == rectangle[4]
           t == High(x)
<1>3. /\ a \in IntPoint /\ b \in IntPoint /\ c \in IntPoint /\ d \in IntPoint
      /\ c \in Lows /\ d \in Highs /\ a.x < b.x /\ c.x < d.x
      /\ \A p \in Highs, q \in Lows : p.x < q.x => NotSteeper(TRUE, p, q, a, b)
  BY <1>1 DEF Corners
<1>10. Corners(TRUE, Lows, Highs, a, b, c, d) BY <1>1
<1>5. Under(FALSE, a, b, t) BY InsideBand
<1>6. ~NotSteeper(TRUE, c, d, c, t) BY DEF Lowers, Steepest, NotSteeper
<1>7. c.x < t.x BY <1>1, <1>3, NewBand
<1>8. ASSUME epsilon = 0 PROVE Lows = Highs
  <2>1. \A r \in ActiveRanks : LowAt(r) = HighAt(r)
    <3> SUFFICES ASSUME NEW r \in ActiveRanks PROVE LowAt(r) = HighAt(r) OBVIOUS
    <3>1. r \in Nat BY <1>1, BandTypes DEF ActiveRanks
    <3>2. EpsSub(r) = r + epsilon BY <1>8, <3>1 DEF EpsSub
    <3> QED BY <3>2 DEF LowAt, HighAt
  <2> QED BY <2>1 DEF Lows, Highs
<1> HIDE DEF a, b, c, d, t
<1>4. Under(TRUE, a, b, c) BY <1>3, <1>10, FlattestPasses
<1>9. ASSUME epsilon = 0 PROVE FALSE
  <2>1. NotSteeper(TRUE, c, d, a, b) BY <1>3, <1>8, <1>9
  <2>2. NotSteeper(TRUE, a, b, c, t) BY <1>2, <1>3, <1>4, <1>5, Between DEF t
  <2>3. NotSteeper(TRUE, c, d, c, t)
    BY <1>2, <1>3, <1>7, <2>1, <2>2, SteeperTransitive DEF t
  <2> QED BY <1>6, <2>3
<1> QED BY <1>9

\* The first half of adding a point: its upper end and the lower hull.
LEMMA FirstHalf ==
  ASSUME Fitted, pointsInHull >= 2, NEW x \in KeyUniverse, Increasing(x), keys' = Append(keys, x),
         ~Outside(x)
  PROVE  Region(TRUE, Lows, Highs \cup {High(x)},
                lower, IF Lowers(x) THEN LowerBest(x) ELSE lowerStart,
                IF Lowers(x) THEN UpperWith(x) ELSE upper, upperStart,
                rectangle[1], rectangle[3],
                IF Lowers(x) THEN lower[LowerBest(x)] ELSE rectangle[2],
                IF Lowers(x) THEN High(x) ELSE rectangle[4])
<1> DEFINE a == rectangle[1]
           b == rectangle[3]
           c == rectangle[2]
           d == rectangle[4]
           t == High(x)
<1>1. PgmTypeOK /\ KeysSorted /\ Region(TRUE, Lows, Highs, lower, lowerStart, upper, upperStart, a, b, c, d)
  BY DEF Fitted, Model, ActiveRegion
<1>2. t \in IntPoint /\ t.x = x /\ \A p \in Lows \cup Highs : p.x < x BY <1>1, NewBand
<1>3. Hull(TRUE, Lows, lower, lowerStart) /\ Hull(FALSE, Highs, upper, upperStart)
  BY <1>1 DEF Region
<1>4. \A m \in lowerStart..Len(lower) : lower[m] \in Lows BY <1>3 DEF Hull
<1>5. Target(TRUE, Lows, Highs, lower, lowerStart, t) BY <1>2, <1>4 DEF Target
<1>6. Under(FALSE, a, b, t) BY InsideBand
<1>7. Lowers(x) <=> ~NotSteeper(TRUE, c, d, c, t) BY DEF Lowers, Steepest, NotSteeper
<1>8. WalkStops(TRUE, lower, lowerStart, t, LowerBest(x)) BY <1>3, LowerWalk
<1>9. PICK kept : Prunes(FALSE, upper, upperStart, t, kept, UpperWith(x)) BY <1>2, <1>3, UpperPrunes
<1>10. TRUE \in BOOLEAN /\ (~TRUE) = FALSE OBVIOUS
<1> HIDE DEF a, b, c, d, t
<1>11. CASE Lowers(x)
  <2>1. Region(TRUE, Lows, Highs \cup {t}, lower, LowerBest(x), UpperWith(x), upperStart,
               a, b, lower[LowerBest(x)], t)
    BY <1>1, <1>5, <1>6, <1>7, <1>8, <1>9, <1>10, <1>11, RegionLowered
  <2> QED BY <1>11, <2>1 DEF a, b, c, d, t
<1>12. CASE ~Lowers(x)
  <2>1. Region(TRUE, Lows, Highs \cup {t}, lower, lowerStart, upper, upperStart, a, b, c, d)
    BY <1>1, <1>5, <1>7, <1>10, <1>12, RegionKept
  <2> QED BY <1>12, <2>1 DEF a, b, c, d, t
<1> QED BY <1>11, <1>12

\* The second half: the new point's lower end and the upper hull, which may have
\* taken the upper end already.
LEMMA SecondHalf ==
  ASSUME Fitted, pointsInHull >= 2, NEW x \in KeyUniverse, Increasing(x), keys' = Append(keys, x),
         ~Outside(x),
         NEW u, u = IF Lowers(x) THEN UpperWith(x) ELSE upper,
         NEW ns, ns = IF Lowers(x) THEN LowerBest(x) ELSE lowerStart
  PROVE  Region(TRUE, Lows \cup {Low(x)}, Highs \cup {High(x)},
                IF Raises(x) THEN LowerWith(x, ns) ELSE lower, ns,
                u, IF Raises(x) THEN UpperBest(u, x) ELSE upperStart,
                IF Raises(x) THEN u[UpperBest(u, x)] ELSE rectangle[1],
                IF Raises(x) THEN Low(x) ELSE rectangle[3],
                IF Lowers(x) THEN lower[ns] ELSE rectangle[2],
                IF Lowers(x) THEN High(x) ELSE rectangle[4])
<1> DEFINE a == rectangle[1]
           b == rectangle[3]
           c == IF Lowers(x) THEN lower[ns] ELSE rectangle[2]
           d == IF Lowers(x) THEN High(x) ELSE rectangle[4]
           t == Low(x)
           h == High(x)
           H == Highs \cup {h}
<1>1. PgmTypeOK /\ KeysSorted BY DEF Fitted, Model
<1>2. Region(TRUE, Lows, H, lower, ns, u, upperStart, a, b, c, d)
  <2>1. CASE Lowers(x)
    <3>1. Region(TRUE, Lows, Highs \cup {High(x)}, lower, LowerBest(x), UpperWith(x), upperStart,
                 rectangle[1], rectangle[3], lower[LowerBest(x)], High(x))
      BY <2>1, FirstHalf
    <3> QED BY <2>1, <3>1
  <2>2. CASE ~Lowers(x)
    <3>1. Region(TRUE, Lows, Highs \cup {High(x)}, lower, lowerStart, upper, upperStart,
                 rectangle[1], rectangle[3], rectangle[2], rectangle[4])
      BY <2>2, FirstHalf
    <3> QED BY <2>2, <3>1
  <2> QED BY <2>1, <2>2
<1>3. /\ t \in IntPoint /\ h \in IntPoint /\ t.x = x /\ h.x = x /\ t.y <= h.y
      /\ t.y \in Int /\ h.y \in Int
      /\ (epsilon # 0 => t.y < h.y) /\ \A p \in Lows \cup Highs : p \in IntPoint /\ p.x < x
  BY <1>1, NewBand
<1>4. (~TRUE) = FALSE /\ (~FALSE) = TRUE OBVIOUS
<1>5. /\ Corners(TRUE, Lows, H, a, b, c, d)
      /\ Hull(TRUE, Lows, lower, ns) /\ Hull(FALSE, H, u, upperStart)
  BY <1>2, <1>4 DEF Region
<1>6. Under(TRUE, c, d, t)
  <2>1. CASE Lowers(x)
    <3>1. c \in IntPoint /\ c.x < h.x /\ d = h BY <1>5, <2>1 DEF Corners
    <3>2. Down(TRUE, t, h) BY <1>3 DEF Down
    <3>3. Under(TRUE, c, h, h) BY <1>3, <3>1, LineEnds
    <3> HIDE DEF c, d, t, h
    <3>4. Under(TRUE, c, h, t) BY <1>3, <3>1, <3>2, <3>3, UnderDown
    <3> QED BY <3>1, <3>4
  <2>2. CASE ~Lowers(x) BY <2>2, InsideBand
  <2> QED BY <2>1, <2>2
<1>7. \A m \in upperStart..Len(u) : u[m].x < t.x \/ u[m].y # t.y
  <2>1. CASE Lowers(x)
    <3>1. epsilon # 0 BY <2>1, BandsHaveHeight
    <3>2. \A m \in upperStart..Len(u) : u[m] \in H BY <1>5 DEF Hull
    <3> QED BY <1>3, <3>1, <3>2
  <2>2. CASE ~Lowers(x)
    <3>1. Hull(FALSE, Highs, upper, upperStart) BY <1>4 DEF Fitted, ActiveRegion, Region
    <3>2. \A m \in upperStart..Len(u) : u[m] \in Highs BY <2>2, <3>1 DEF Hull
    <3> QED BY <1>3, <3>2
  <2> QED BY <2>1, <2>2
<1>8. Target(FALSE, H, Lows, u, upperStart, t)
  <2>1. \A p \in H : p.x < t.x \/ (p.x = t.x /\ Down(FALSE, p, t))
    <3>1. Down(FALSE, h, t) BY <1>3 DEF Down
    <3> QED BY <1>3, <3>1
  <2> QED BY <1>3, <1>7, <2>1 DEF Target
<1>9. Raises(x) <=> ~NotSteeper(FALSE, a, b, a, t) BY DEF Raises, Flattest, NotSteeper
<1>10. WalkStops(FALSE, u, upperStart, t, UpperBest(u, x)) BY <1>5, UpperWalk
<1>11. PICK kept : Prunes(TRUE, lower, ns, t, kept, LowerWith(x, ns)) BY <1>3, <1>5, LowerPrunes
<1> HIDE DEF a, b, c, d, t, h, H
<1>12. Region(FALSE, H, Lows, u, upperStart, lower, ns, c, d, a, b)
  <2>1. Region(~TRUE, H, Lows, u, upperStart, lower, ns, c, d, a, b) BY <1>2, RegionMirrored
  <2> QED BY <1>4, <2>1
<1>13. CASE Raises(x)
  <2>1. /\ ~NotSteeper(FALSE, a, b, a, t) /\ Under(~FALSE, c, d, t)
        /\ Prunes(~FALSE, lower, ns, t, kept, LowerWith(x, ns))
    BY <1>4, <1>6, <1>9, <1>11, <1>13
  <2>2. Region(FALSE, H, Lows \cup {t}, u, UpperBest(u, x), LowerWith(x, ns), ns,
               c, d, u[UpperBest(u, x)], t)
    BY <1>8, <1>10, <1>12, <2>1, RegionLowered
  <2>3. Region(~FALSE, Lows \cup {t}, H, LowerWith(x, ns), ns, u, UpperBest(u, x),
               u[UpperBest(u, x)], t, c, d)
    BY <2>2, RegionMirrored
  <2>4. Region(TRUE, Lows \cup {t}, H, LowerWith(x, ns), ns, u, UpperBest(u, x),
               u[UpperBest(u, x)], t, c, d)
    BY <1>4, <2>3
  <2> QED BY <1>13, <2>4 DEF a, b, c, d, t, h, H
<1>14. CASE ~Raises(x)
  <2>1. NotSteeper(FALSE, a, b, a, t) BY <1>9, <1>14
  <2>2. Region(FALSE, H, Lows \cup {t}, u, upperStart, lower, ns, c, d, a, b)
    BY <1>8, <1>12, <2>1, RegionKept
  <2>3. Region(~FALSE, Lows \cup {t}, H, lower, ns, u, upperStart, a, b, c, d)
    BY <2>2, RegionMirrored
  <2>4. Region(TRUE, Lows \cup {t}, H, lower, ns, u, upperStart, a, b, c, d)
    BY <1>4, <2>3
  <2> QED BY <1>14, <2>4 DEF a, b, c, d, t, h, H
<1> QED BY <1>13, <1>14

\* InsidePoint keeps the region: ExtendHull is its two halves.
LEMMA InsideFits ==
  ASSUME Fitted, NEW x \in KeyUniverse, InsidePoint(x)
  PROVE  ActiveRegion'
<1>1. /\ PgmTypeOK /\ KeysSorted /\ pointsInHull >= 2 /\ ~Outside(x)
      /\ Increasing(x) /\ keys' = Append(keys, x) /\ epsilon' = epsilon /\ startRank' = startRank
      /\ ExtendHull(x)
  BY DEF Fitted, Model, InsidePoint
<1> DEFINE u == IF Lowers(x) THEN UpperWith(x) ELSE upper
           ns == IF Lowers(x) THEN LowerBest(x) ELSE lowerStart
<1>2. Region(TRUE, Lows \cup {Low(x)}, Highs \cup {High(x)},
             IF Raises(x) THEN LowerWith(x, ns) ELSE lower, ns,
             u, IF Raises(x) THEN UpperBest(u, x) ELSE upperStart,
             IF Raises(x) THEN u[UpperBest(u, x)] ELSE rectangle[1],
             IF Raises(x) THEN Low(x) ELSE rectangle[3],
             IF Lowers(x) THEN lower[ns] ELSE rectangle[2],
             IF Lowers(x) THEN High(x) ELSE rectangle[4])
  <2> HIDE DEF u, ns
  <2>1. /\ u = (IF Lowers(x) THEN UpperWith(x) ELSE upper)
        /\ ns = (IF Lowers(x) THEN LowerBest(x) ELSE lowerStart)
    BY DEF u, ns
  <2> QED BY <1>1, <2>1, SecondHalf
<1>3. /\ upper' = u /\ lowerStart' = ns
      /\ lower' = IF Raises(x) THEN LowerWith(x, ns) ELSE lower
      /\ upperStart' = IF Raises(x) THEN UpperBest(u, x) ELSE upperStart
      /\ rectangle' =
           << IF Raises(x) THEN u[UpperBest(u, x)] ELSE rectangle[1],
              IF Lowers(x) THEN lower[ns] ELSE rectangle[2],
              IF Raises(x) THEN Low(x) ELSE rectangle[3],
              IF Lowers(x) THEN High(x) ELSE rectangle[4] >>
  BY <1>1, Zenon DEF ExtendHull, u, ns
<1>4. Lows' = Lows \cup {Low(x)} /\ Highs' = Highs \cup {High(x)} BY <1>1, BandJoins
<1> DEFINE e1 == IF Raises(x) THEN u[UpperBest(u, x)] ELSE rectangle[1]
           e2 == IF Lowers(x) THEN lower[ns] ELSE rectangle[2]
           e3 == IF Raises(x) THEN Low(x) ELSE rectangle[3]
           e4 == IF Lowers(x) THEN High(x) ELSE rectangle[4]
<1>5. /\ rectangle' = <<e1, e2, e3, e4>>
      /\ Region(TRUE, Lows', Highs', lower', lowerStart', upper', upperStart', e1, e3, e2, e4)
  BY <1>2, <1>3, <1>4, Zenon
<1> HIDE DEF e1, e2, e3, e4
<1>6. rectangle'[1] = e1 /\ rectangle'[2] = e2 /\ rectangle'[3] = e3 /\ rectangle'[4] = e4
  BY <1>5
<1>7. Region(TRUE, Lows', Highs', lower', lowerStart', upper', upperStart',
             rectangle'[1], rectangle'[3], rectangle'[2], rectangle'[4])
  BY <1>5, <1>6
<1> QED BY <1>7 DEF ActiveRegion

\* The first point of a segment is its region.
LEMMA StartFits ==
  ASSUME PgmTypeOK, KeysSorted, NEW x \in KeyUniverse, Increasing(x), keys' = Append(keys, x),
         StartHull(x), epsilon' = epsilon, startRank' = Len(keys)
  PROVE  OnePoint'
<1> DEFINE n == Len(keys)
<1>1. keys'[n + 1] = x /\ n \in Nat BY KeysStaySorted, BandTypes
<1>2. rectangle \in [1..4 -> PointType] BY DEF PgmTypeOK
<1>3. /\ rectangle'[1] = High(x) /\ rectangle'[2] = Low(x)
      /\ upper' = <<High(x)>> /\ lower' = <<Low(x)>> /\ upperStart' = 1 /\ lowerStart' = 1
  BY <1>2 DEF StartHull
<1>4. HighAt(startRank)' = High(x) /\ LowAt(startRank)' = Low(x)
  BY <1>1 DEF HighAt, LowAt, High, Low, Rank, EpsSub
<1> QED BY <1>3, <1>4 DEF OnePoint

\* Every point keeps what the hulls and the corners say.
LEMMA FittedStep ==
  ASSUME Fitted, NEW x \in KeyUniverse, AddKey(x)
  PROVE  Fitted'
<1>1. Model /\ PgmTypeOK /\ KeysSorted BY DEF Fitted, Model
<1>2. Model' BY <1>1, AddKeeps
<1>3. Increasing(x) /\ keys' = Append(keys, x) /\ epsilon' = epsilon
  BY DEF AddKey, FirstPoint, SecondPoint, InsidePoint, OutsidePoint
<1>4. KeysSorted' BY <1>1, <1>3, KeysStaySorted
<1>5. pointsInHull \in Nat /\ startRank \in Nat /\ startRank + pointsInHull = Len(keys)
  BY <1>1 DEF PgmTypeOK
<1>6. CASE FirstPoint(x) \/ OutsidePoint(x)
  <2>1. StartHull(x) /\ startRank' = Len(keys) /\ pointsInHull' = 1
    BY <1>5, <1>6 DEF FirstPoint, OutsidePoint, StartHull, Rank
  <2>2. OnePoint' BY <1>1, <1>3, <2>1, StartFits
  <2> QED BY <1>2, <1>4, <2>1, <2>2 DEF Fitted
<1>7. CASE SecondPoint(x)
  <2>1. ActiveRegion' BY <1>7, SecondFits
  <2>2. pointsInHull' = 2 BY <1>7 DEF SecondPoint
  <2> QED BY <1>2, <1>4, <2>1, <2>2 DEF Fitted
<1>8. CASE InsidePoint(x)
  <2>1. ActiveRegion' BY <1>8, InsideFits
  <2>2. pointsInHull' # 1 BY <1>5, <1>8 DEF InsidePoint, ExtendHull
  <2> QED BY <1>2, <1>4, <2>1, <2>2 DEF Fitted
<1> QED BY <1>6, <1>7, <1>8 DEF AddKey

\* The model of no key is fitted.
LEMMA FittedInit ==
  ASSUME ResetModel, epsilon \in Epsilons
  PROVE  Fitted
<1>1. Model BY ResetGood
<1>2. pointsInHull = 0 /\ keys = <<>> BY DEF ResetModel
<1>3. KeysSorted BY <1>2 DEF KeysSorted
<1> QED BY <1>1, <1>2, <1>3 DEF Fitted

-----------------------------------------------------------------------------
(* The segment of a fitted model. *)

\* What a segment says of the keys run of its ranks: its line passes their
\* bands, and the search model is that line with a rounded intercept.
FitsRun(run, eps, s) ==
  /\ s.startRank \in Nat /\ s.endRank \in Nat /\ s.startRank <= s.endRank /\ s.endRank < Len(run)
  /\ s.startKey = run[s.startRank + 1] /\ s.endKey = run[s.endRank + 1]
  /\ s.line.den \in Int /\ s.line.den > 0 /\ s.line.slope \in Nat /\ s.line.origin \in Int
  /\ s.intercept \in Int
  /\ \A r \in s.startRank..s.endRank : InBand(s.line, run[r + 1] - s.startKey, r, eps)
  /\ 2 * s.line.origin - s.line.den <= 2 * (s.line.den * s.intercept)
  /\ 2 * (s.line.den * s.intercept) < 2 * s.line.origin + s.line.den
  /\ \/ s.slopeNum = s.line.slope /\ s.slopeDen = s.line.den
     \/ s.slopeNum = 0 /\ s.slopeDen = 1 /\ s.line.slope = 0

\* The nearest integer, of a quotient that is not positive.
LEMMA RoundNear ==
  ASSUME NEW num \in Int, NEW den \in Nat \ {0}, num <= 0
  PROVE  /\ RoundHalfToZero(num, den) \in Int
         /\ 2 * num - den <= 2 * (den * RoundHalfToZero(num, den))
         /\ 2 * (den * RoundHalfToZero(num, den)) < 2 * num + den
<1> DEFINE h == den \div 2
<1>1. h \in Nat /\ 2 * h <= den /\ den <= 2 * h + 1 OBVIOUS
<1>2. CASE num = 0
  <2>1. RoundHalfToZero(num, den) = h \div den
    BY <1>1, <1>2 DEF RoundHalfToZero, DivTrunc
  <2> HIDE DEF h
  <2>2. h \div den = 0 BY <1>1
  <2> QED BY <1>2, <2>1, <2>2
<1>3. CASE num < 0
  <2> DEFINE n == h - num
  <2>1. RoundHalfToZero(num, den) = -(n \div den)
    <3>1. num + (-1) * h < 0 /\ -(num + (-1) * h) = n BY <1>1, <1>3
    <3> QED BY <1>3, <3>1 DEF RoundHalfToZero, DivTrunc
  <2> HIDE DEF h
  <2>2. n \in Nat BY <1>1, <1>3
  <2> DEFINE q == n \div den
  <2>3. q \in Int /\ n \in Int BY <2>2
  <2>4. den * q <= n /\ n < den * q + den
    <3> HIDE DEF n
    <3> QED BY <2>2
  <2>5. RoundHalfToZero(num, den) = -q /\ n = h - num BY <2>1
  <2> HIDE DEF q, n
  <2>6. PICK m \in Int : m = den * q BY <2>3
  <2>7. den * (-q) = -m BY <2>3, <2>6
  <2>8. 2 * num - den <= 2 * (-m) /\ 2 * (-m) < 2 * num + den BY <1>1, <2>4, <2>5, <2>6
  <2> QED BY <2>3, <2>5, <2>7, <2>8
<1> QED BY <1>2, <1>3

\* The segment of one point is the middle of its band.
LEMMA OneGood ==
  ASSUME Fitted, pointsInHull = 1
  PROVE  FitsRun(keys, epsilon, ActiveSegment)
<1>1. PgmTypeOK /\ KeysSorted /\ OnePoint BY DEF Fitted, Model
<1> DEFINE n == startRank
           f == keys[n + 1]
           l == EpsSub(n)
           h == n + epsilon
           i == (h + l) \div 2
<1>2. /\ n \in Nat /\ Len(keys) = n + 1 /\ epsilon \in Nat /\ n \in 0..Len(keys) - 1
  BY <1>1, BandTypes
<1>3. f \in Int /\ l \in Nat /\ h \in Nat /\ l <= h /\ i \in Int
  BY <1>1, <1>2, BandTypes
<1>4. rectangle[1].y = h /\ rectangle[2].y = l
  BY <1>1 DEF OnePoint, HighAt, LowAt, Point
<1>5. ActiveSegment =
        [startKey |-> f, startRank |-> n, endRank |-> Len(keys) - 1, endKey |-> keys[Len(keys)],
         slopeNum |-> 0, slopeDen |-> 1, intercept |-> i,
         line |-> [slope |-> 0, origin |-> h + l, den |-> 2]]
  BY <1>4 DEF ActiveSegment, Certificate, Intercept, EndRank
<1> DEFINE s == ActiveSegment
<1>6. /\ s.startKey = f /\ s.startRank = n /\ s.endRank = n /\ s.endKey = f
      /\ s.slopeNum = 0 /\ s.slopeDen = 1 /\ s.intercept = i
      /\ s.line.slope = 0 /\ s.line.origin = h + l /\ s.line.den = 2 /\ s.line = [slope |-> 0, origin |-> h + l, den |-> 2]
  BY <1>2, <1>5
<1> HIDE DEF s
<1>7. InBand(s.line, f - s.startKey, n, epsilon)
  <2>1. 0 * (f - f) = 0 BY <1>3
  <2>2. l = IF n < epsilon THEN 0 ELSE n - epsilon BY <1>2 DEF EpsSub
  <2>3. l * 2 <= h + l /\ h + l <= h * 2 BY <1>3
  <2> DEFINE v == s.line.slope * (f - s.startKey) + s.line.origin
  <2>4. v = h + l BY <1>3, <1>6, <2>1
  <2>5. l * s.line.den <= v /\ v <= h * s.line.den BY <1>6, <2>3, <2>4
  <2> HIDE DEF v, f
  <2>6. InBand(s.line, f - s.startKey, n, epsilon) <=>
          /\ (IF n < epsilon THEN 0 ELSE n - epsilon) * s.line.den <= v
          /\ v <= h * s.line.den
    BY DEF InBand, v
  <2> QED BY <2>2, <2>5, <2>6
<1>8. \A r \in s.startRank..s.endRank : InBand(s.line, keys[r + 1] - s.startKey, r, epsilon)
  <2>1. \A r \in n..n : r = n BY <1>2
  <2> QED BY <1>6, <1>7, <2>1
<1>9. 2 * (h + l) - 2 <= 2 * (2 * i) /\ 2 * (2 * i) < 2 * (h + l) + 2
  <2> DEFINE t == h + l
  <2>1. t \in Nat BY <1>3
  <2> HIDE DEF t
  <2>2. 2 * t - 2 <= 2 * (2 * (t \div 2)) /\ 2 * (2 * (t \div 2)) < 2 * t + 2 BY <2>1
  <2> QED BY <2>2 DEF t
<1>10. h + l \in Int BY <1>3
<1> HIDE DEF f, l, h, i
<1> QED BY <1>2, <1>3, <1>6, <1>8, <1>9, <1>10 DEF FitsRun, s, f

\* The line of a region passes all bands.
LEMMA LinePasses ==
  ASSUME Fitted, pointsInHull >= 2, NEW f \in Int, NEW r \in ActiveRanks,
         NEW line, line = [slope  |-> Steepest.dy,
                           origin |-> Steepest.dy * (f - rectangle[2].x) + rectangle[2].y * Steepest.dx,
                           den    |-> Steepest.dx]
  PROVE  InBand(line, keys[r + 1] - f, r, epsilon)
<1>1. PgmTypeOK /\ KeysSorted /\ Corners(TRUE, Lows, Highs, rectangle[1], rectangle[3], rectangle[2], rectangle[4])
  BY DEF Fitted, Model, ActiveRegion, Region
<1> DEFINE c == rectangle[2]
           d == rectangle[4]
<1>2. c \in IntPoint /\ d \in IntPoint /\ c.x < d.x BY <1>1 DEF Corners
<1>3. c.x \in Int /\ c.y \in Int /\ d.x \in Int /\ d.y \in Int BY <1>2 DEF IntPoint
<1>4. r \in 0..Len(keys) - 1 BY <1>1, BandTypes DEF ActiveRanks
<1>5. /\ HighAt(r) \in IntPoint /\ HighAt(r).x = keys[r + 1] /\ HighAt(r).y = r + epsilon
      /\ LowAt(r) \in IntPoint /\ LowAt(r).x = keys[r + 1] /\ LowAt(r).y = EpsSub(r)
      /\ keys[r + 1] \in Int /\ EpsSub(r) \in Nat /\ r \in Nat /\ epsilon \in Nat
  BY <1>1, <1>4, BandTypes
<1>6. Under(TRUE, c, d, LowAt(r)) /\ Under(FALSE, c, d, HighAt(r))
  <2>1. LowAt(r) \in Lows /\ HighAt(r) \in Highs BY DEF Lows, Highs
  <2>2. Corners(TRUE, Lows, Highs, rectangle[1], rectangle[3], c, d) BY <1>1
  <2>3. (~TRUE) = FALSE /\ TRUE \in BOOLEAN OBVIOUS
  <2> HIDE DEF c, d
  <2> QED BY <2>1, <2>2, <2>3, SteepestPasses
<1> DEFINE m == Steepest.dy
           w == Steepest.dx
           k == keys[r + 1]
<1>7. m = d.y - c.y /\ w = d.x - c.x BY DEF Steepest, Slope
<1>8. m \in Int /\ w \in Int /\ w > 0 /\ k \in Int BY <1>2, <1>3, <1>5, <1>7
<1> DEFINE y == c.y
           x == c.x
           e == EpsSub(r)
           g == r + epsilon
<1>11. y \in Int /\ x \in Int /\ e \in Int /\ g \in Int BY <1>3, <1>5
<1>10. line.slope = m /\ line.den = w /\ line.origin = m * (f - x) + y * w
  OBVIOUS
<1>9. LowAt(r).y = e /\ LowAt(r).x = k /\ HighAt(r).y = g /\ HighAt(r).x = k BY <1>5
<1>12. (e - y) * w <= m * (k - x) /\ m * (k - x) <= (g - y) * w
  <2>1. FALSE \in BOOLEAN /\ TRUE \in BOOLEAN OBVIOUS
  <2>4. y = c.y /\ x = c.x OBVIOUS
  <2> HIDE DEF c, d, m, w, k, x, y, e, g
  <2>2. (LowAt(r).y - c.y) * (d.x - c.x) <= (d.y - c.y) * (LowAt(r).x - c.x)
    BY <1>2, <1>5, <1>6, <2>1, Coordinates
  <2>3. (d.y - c.y) * (HighAt(r).x - c.x) <= (HighAt(r).y - c.y) * (d.x - c.x)
    BY <1>2, <1>5, <1>6, <2>1, Coordinates
  <2> QED BY <1>7, <1>9, <2>2, <2>3, <2>4
<1>13. e = IF r < epsilon THEN 0 ELSE r - epsilon BY <1>5 DEF EpsSub
<1> HIDE DEF c, d, m, w, k, e, g, x, y
<1>14. m * (k - f) + (m * (f - x) + y * w) = m * (k - x) + y * w
  <2>1. m * (k - f) = m * k - m * f /\ m * (f - x) = m * f - m * x /\ m * (k - x) = m * k - m * x
    BY <1>8, <1>11
  <2>2. m * k \in Int /\ m * f \in Int /\ m * x \in Int /\ y * w \in Int BY <1>8, <1>11
  <2> QED BY <2>1, <2>2
<1>15. (e - y) * w = e * w - y * w /\ (g - y) * w = g * w - y * w BY <1>8, <1>11
<1>16. e * w \in Int /\ y * w \in Int /\ g * w \in Int /\ m * (k - x) \in Int BY <1>8, <1>11
<1>17. /\ e * w <= m * (k - f) + (m * (f - x) + y * w)
       /\ m * (k - f) + (m * (f - x) + y * w) <= g * w
  BY <1>12, <1>14, <1>15, <1>16
<1>18. line.slope * (k - f) + line.origin = m * (k - f) + (m * (f - x) + y * w)
  BY <1>10
<1> QED BY <1>10, <1>13, <1>17, <1>18 DEF InBand, k, g

\* The segment of two points or more is the steepest line of its region.
LEMMA ManyGood ==
  ASSUME Fitted, pointsInHull >= 2
  PROVE  FitsRun(keys, epsilon, ActiveSegment)
<1>1. PgmTypeOK /\ KeysSorted /\ Corners(TRUE, Lows, Highs, rectangle[1], rectangle[3], rectangle[2], rectangle[4])
  BY DEF Fitted, Model, ActiveRegion, Region
<1> DEFINE c == rectangle[2]
           d == rectangle[4]
           n == startRank
           f == keys[n + 1]
           m == Steepest.dy
           w == Steepest.dx
<1>2. c \in IntPoint /\ d \in IntPoint /\ c.x < d.x /\ c \in Lows /\ d \in Highs BY <1>1 DEF Corners
<1>3. c.x \in Int /\ c.y \in Int /\ d.x \in Int /\ d.y \in Int BY <1>2 DEF IntPoint
<1>4. /\ n \in Nat /\ Len(keys) \in Nat /\ epsilon \in Nat /\ n + 2 <= Len(keys)
  BY <1>1, BandTypes
<1>5. n \in 0..Len(keys) - 1 /\ ActiveRanks \subseteq 0..Len(keys) - 1 BY <1>4 DEF ActiveRanks
<1>6. PICK i \in ActiveRanks : c = LowAt(i) BY <1>2 DEF Lows
<1>7. PICK j \in ActiveRanks : d = HighAt(j) BY <1>2 DEF Highs
<1>8. f \in Int BY <1>1, <1>5, BandTypes
<1>9. f <= c.x
  <2>1. c.x = keys[i + 1] /\ keys[i + 1] \in Int /\ (keys[i + 1] < keys[n + 1] <=> i < n)
    BY <1>1, <1>5, <1>6, BandTypes
  <2>2. n <= i /\ i \in Int /\ n \in Int BY <1>4 DEF ActiveRanks
  <2>3. ~(i < n) BY <2>2
  <2> DEFINE z == c.x
  <2>4. z \in Int /\ ~(z < f) BY <2>1, <2>3
  <2> HIDE DEF f, z
  <2>5. f <= z BY <1>8, <2>4
  <2> QED BY <2>5 DEF z
<1>10. m > 0 /\ m \in Int
  <2>1. c.x = keys[i + 1] /\ d.x = keys[j + 1] /\ (keys[i + 1] < keys[j + 1] <=> i < j)
    BY <1>1, <1>5, <1>6, <1>7, BandTypes
  <2>2. i < j /\ i \in Nat /\ j \in Nat BY <1>2, <1>5, <2>1, <1>4
  <2>3. c.y = EpsSub(i) /\ d.y = j + epsilon /\ EpsSub(i) <= i + epsilon
    BY <1>1, <1>5, <1>6, <1>7, BandTypes
  <2>4. c.y < d.y BY <1>3, <1>4, <2>2, <2>3
  <2>5. m = d.y - c.y BY DEF Steepest, Slope
  <2> QED BY <1>3, <2>4, <2>5
<1>11. w > 0 /\ w \in Int
  <2>1. w = d.x - c.x BY DEF Steepest, Slope
  <2> QED BY <1>2, <1>3, <2>1
<1> DEFINE y == c.y
           x == c.x
           num == m * (f - x)
           round == RoundHalfToZero(num, w)
           line == [slope |-> m, origin |-> num + y * w, den |-> w]
<1>12. y \in Int /\ x \in Int /\ f <= x BY <1>3, <1>9
<1>13. ActiveSegment =
         [startKey |-> f, startRank |-> n, endRank |-> Len(keys) - 1, endKey |-> keys[Len(keys)],
          slopeNum |-> m, slopeDen |-> w, intercept |-> round + y, line |-> line]
  BY DEF ActiveSegment, Certificate, Intercept, EndRank
<1>14. \A r \in ActiveRanks : InBand(line, keys[r + 1] - f, r, epsilon)
  <2> SUFFICES ASSUME NEW r \in ActiveRanks PROVE InBand(line, keys[r + 1] - f, r, epsilon)
    OBVIOUS
  <2>1. line = [slope  |-> Steepest.dy,
                origin |-> Steepest.dy * (f - rectangle[2].x) + rectangle[2].y * Steepest.dx,
                den    |-> Steepest.dx]
    OBVIOUS
  <2> HIDE DEF f, line
  <2> QED BY <1>8, <2>1, LinePasses
<1> DEFINE s == ActiveSegment
<1>15. /\ s.startKey = f /\ s.startRank = n /\ s.endRank = Len(keys) - 1 /\ s.endKey = keys[Len(keys)]
       /\ s.slopeNum = m /\ s.slopeDen = w /\ s.intercept = round + y
       /\ s.line = line /\ s.line.slope = m /\ s.line.origin = num + y * w /\ s.line.den = w
  BY <1>13
<1> HIDE DEF s, c, d, m, w, x, y, line
<1>16. num \in Int /\ num <= 0
  <2> DEFINE g == f - x
  <2>1. g \in Int /\ g <= 0 BY <1>8, <1>12
  <2> HIDE DEF g
  <2>2. m * g \in Int /\ m * g <= 0 BY <1>10, <2>1
  <2> QED BY <2>2 DEF g
<1> HIDE DEF num
<1>17. round \in Int /\ 2 * num - w <= 2 * (w * round) /\ 2 * (w * round) < 2 * num + w
  BY <1>11, <1>16, RoundNear
<1> HIDE DEF round
<1>18. /\ 2 * (num + y * w) - w <= 2 * (w * (round + y))
       /\ 2 * (w * (round + y)) < 2 * (num + y * w) + w
  <2>1. w * (round + y) = w * round + y * w BY <1>11, <1>12, <1>17
  <2>2. w * round \in Int /\ y * w \in Int BY <1>11, <1>12, <1>17
  <2> QED BY <1>11, <1>16, <1>17, <2>1, <2>2
<1>19. num + y * w \in Int /\ round + y \in Int BY <1>11, <1>12, <1>16, <1>17
<1>20. \A r \in s.startRank..s.endRank : InBand(s.line, keys[r + 1] - s.startKey, r, epsilon)
  BY <1>14, <1>15 DEF ActiveRanks
<1>21. /\ s.startRank \in Nat /\ s.endRank \in Nat /\ s.startRank <= s.endRank /\ s.endRank < Len(keys)
       /\ s.endRank + 1 = Len(keys)
  BY <1>4, <1>15
<1>22. /\ s.startKey = keys[s.startRank + 1] /\ s.endKey = keys[s.endRank + 1]
       /\ s.line.den \in Int /\ s.line.den > 0 /\ s.line.slope \in Nat /\ s.line.origin \in Int
       /\ s.intercept \in Int
  BY <1>10, <1>11, <1>15, <1>19, <1>21
<1>23. /\ 2 * s.line.origin - s.line.den <= 2 * (s.line.den * s.intercept)
       /\ 2 * (s.line.den * s.intercept) < 2 * s.line.origin + s.line.den
  BY <1>15, <1>18
<1>24. s.slopeNum = s.line.slope /\ s.slopeDen = s.line.den BY <1>15
<1>25. FitsRun(keys, epsilon, s)
  <2> HIDE DEF f
  <2> QED BY <1>20, <1>21, <1>22, <1>23, <1>24 DEF FitsRun
<1> QED BY <1>25 DEF s

\* The active segment fits the keys added so far.
LEMMA ActiveGood ==
  ASSUME Fitted, keys # <<>>
  PROVE  /\ FitsRun(keys, epsilon, ActiveSegment)
         /\ ActiveSegment.startRank = startRank /\ ActiveSegment.endRank = Len(keys) - 1
<1>1. pointsInHull \in Nat /\ pointsInHull # 0 BY DEF Fitted, Model, PgmTypeOK
<1>2. pointsInHull = 1 \/ pointsInHull >= 2 BY <1>1
<1>3. FitsRun(keys, epsilon, ActiveSegment) BY <1>2, OneGood, ManyGood
<1>4. ActiveSegment.startRank = startRank /\ ActiveSegment.endRank = Len(keys) - 1
  BY DEF ActiveSegment, EndRank
<1> QED BY <1>3, <1>4

\* A key more at its end changes nothing for the segments of a run.
LEMMA FitsOn ==
  ASSUME NEW run \in Seq(Int), NEW x \in Int, NEW eps, NEW s, FitsRun(run, eps, s)
  PROVE  FitsRun(Append(run, x), eps, s)
<1> DEFINE more == Append(run, x)
<1>1. Len(run) \in Nat /\ Len(more) = Len(run) + 1 /\ \A m \in 1..Len(run) : more[m] = run[m]
  OBVIOUS
<1>2. /\ s.startRank \in Nat /\ s.endRank \in Nat /\ s.startRank <= s.endRank /\ s.endRank < Len(run)
  BY DEF FitsRun
<1>3. \A r \in s.startRank..s.endRank : r + 1 \in 1..Len(run) BY <1>1, <1>2
<1>4. s.startRank \in s.startRank..s.endRank /\ s.endRank \in s.startRank..s.endRank BY <1>2
<1> HIDE DEF more
<1>5. more[s.startRank + 1] = run[s.startRank + 1] /\ more[s.endRank + 1] = run[s.endRank + 1]
  BY <1>1, <1>3, <1>4
<1>6. ASSUME NEW r \in s.startRank..s.endRank
      PROVE  InBand(s.line, more[r + 1] - s.startKey, r, eps)
  <2>1. more[r + 1] = run[r + 1] BY <1>1, <1>3
  <2> QED BY <2>1 DEF FitsRun
<1>7. s.endRank < Len(more) BY <1>1, <1>2
<1>8. FitsRun(more, eps, s)
  BY <1>5, <1>6, <1>7 DEF FitsRun
<1> QED BY <1>8 DEF more

-----------------------------------------------------------------------------
(* The segments of a run. *)

\* Every segment fits the run, and each starts where the one before it ends.
Chained(run, eps, segs) ==
  /\ \A m \in 1..Len(segs) : FitsRun(run, eps, segs[m])
  /\ segs # <<>> => segs[1].startRank = 0
  /\ \A m \in 1..Len(segs) - 1 : segs[m + 1].startRank = segs[m].endRank + 1

NextStart(segs) == IF segs = <<>> THEN 0 ELSE segs[Len(segs)].endRank + 1

\* A segment that starts where the last one ends joins the chain.
LEMMA ChainJoins ==
  ASSUME NEW run, NEW eps, NEW segs \in Seq(SegmentType), Chained(run, eps, segs),
         NEW s \in SegmentType, FitsRun(run, eps, s), s.startRank = NextStart(segs)
  PROVE  Chained(run, eps, Append(segs, s))
<1> DEFINE more == Append(segs, s)
<1>1. /\ Len(segs) \in Nat /\ Len(more) = Len(segs) + 1 /\ more[Len(segs) + 1] = s
      /\ \A m \in 1..Len(segs) : more[m] = segs[m]
      /\ (segs = <<>> => Len(segs) = 0) /\ (segs # <<>> => Len(segs) >= 1)
  OBVIOUS
<1> HIDE DEF more
<1>2. ASSUME NEW m \in 1..Len(more) PROVE FitsRun(run, eps, more[m])
  <2>1. m \in 1..Len(segs) \/ m = Len(segs) + 1 BY <1>1
  <2> QED BY <1>1, <2>1 DEF Chained
<1>3. more[1].startRank = 0
  <2>1. CASE segs = <<>> BY <1>1, <2>1 DEF NextStart
  <2>2. CASE segs # <<>>
    <3>1. 1 \in 1..Len(segs) BY <1>1, <2>2
    <3> QED BY <1>1, <2>2, <3>1 DEF Chained
  <2> QED BY <2>1, <2>2
<1>4. ASSUME NEW m \in 1..Len(more) - 1 PROVE more[m + 1].startRank = more[m].endRank + 1
  <2>1. m \in 1..Len(segs) /\ more[m] = segs[m] /\ segs # <<>> BY <1>1
  <2>2. CASE m = Len(segs) BY <1>1, <2>1, <2>2 DEF NextStart
  <2>3. CASE m # Len(segs)
    <3>1. m \in 1..Len(segs) - 1 /\ m + 1 \in 1..Len(segs) BY <1>1, <2>1, <2>3
    <3> QED BY <1>1, <2>1, <3>1 DEF Chained
  <2> QED BY <2>2, <2>3
<1>5. Chained(run, eps, more) BY <1>2, <1>3, <1>4 DEF Chained
<1> QED BY <1>5 DEF more

\* A key more at the end of the run breaks no chain.
LEMMA ChainOn ==
  ASSUME NEW run \in Seq(Int), NEW x \in Int, NEW eps, NEW segs, Chained(run, eps, segs)
  PROVE  Chained(Append(run, x), eps, segs)
BY FitsOn DEF Chained

\* What the closed segments say of the run, and of the ranks they end before.
Closed ==
  /\ Chained(keys, epsilon, segments) /\ startRank = NextStart(segments)
  /\ \A m \in 1..Len(segments) : segments[m].endRank < startRank
  /\ SegmentsMaximal

\* With the active one, the segments make up the whole run.
LEMMA SegmentsChained ==
  ASSUME Fitted, Closed, keys # <<>>
  PROVE  /\ Segments \in Seq(SegmentType) /\ Chained(keys, epsilon, Segments)
         /\ Segments # <<>> /\ Segments[Len(Segments)].endRank = Len(keys) - 1
<1> DEFINE s == ActiveSegment
<1>1. segments \in Seq(SegmentType) BY DEF Fitted, Model, PgmTypeOK
<1>2. s \in SegmentType BY ActiveType DEF Fitted
<1>3. FitsRun(keys, epsilon, s) /\ s.startRank = startRank /\ s.endRank = Len(keys) - 1
  BY ActiveGood
<1> HIDE DEF s
<1>4. Chained(keys, epsilon, Append(segments, s)) BY <1>1, <1>2, <1>3, ChainJoins DEF Closed
<1>5. /\ Append(segments, s) \in Seq(SegmentType) /\ Append(segments, s) # <<>>
      /\ Append(segments, s)[Len(Append(segments, s))] = s
  BY <1>1, <1>2
<1>6. Segments = Append(segments, s) BY DEF Segments, s
<1> QED BY <1>3, <1>4, <1>5, <1>6

\* Feasible, of any run; two slopes in order.
FloorIn(eps, r) == IF r <= eps THEN 0 ELSE r - eps
Orders(y1, y2, y3, y4, x1, x2, x3, x4) == (y2 - y1) * (x4 - x3) <= (y4 - y3) * (x2 - x1)
FeasibleIn(run, eps, from, to) ==
  \A a, c \in from..to : \A b \in (a + 1)..to, d \in (c + 1)..to :
    Orders(a + eps, FloorIn(eps, b), FloorIn(eps, c), d + eps,
           run[a + 1], run[b + 1], run[c + 1], run[d + 1])

\* Feasible is FeasibleIn, of the keys added so far and after a step.
LEMMA FeasibleIsIn ==
  ASSUME NEW from \in Int, NEW to \in Int
  PROVE  PgmTypeOK => (Feasible(from, to) <=> FeasibleIn(keys, epsilon, from, to))
<1> SUFFICES ASSUME PgmTypeOK PROVE Feasible(from, to) <=> FeasibleIn(keys, epsilon, from, to) OBVIOUS
<1> DEFINE R(a, b, c, d) == (Floor(b) - (a + epsilon)) * (keys[d + 1] - keys[c + 1])
                              <= (d + epsilon - Floor(c)) * (keys[b + 1] - keys[a + 1])
           O(a, b, c, d) == Orders(a + epsilon, FloorIn(epsilon, b), FloorIn(epsilon, c), d + epsilon,
                                   keys[a + 1], keys[b + 1], keys[c + 1], keys[d + 1])
<1>1. epsilon \in Int BY EpsilonAssumption DEF PgmTypeOK
<1>2. \A a, b, c, d \in Int : O(a, b, c, d) <=> R(a, b, c, d)
  <2> SUFFICES ASSUME NEW a \in Int, NEW b \in Int, NEW c \in Int, NEW d \in Int
               PROVE  O(a, b, c, d) <=> R(a, b, c, d)
    OBVIOUS
  <2>1. /\ FloorIn(epsilon, b) = Floor(b) /\ FloorIn(epsilon, c) = Floor(c) /\ Floor(c) \in Int
    BY <1>1 DEF Floor, EpsSub, FloorIn
  <2>2. d + epsilon - Floor(c) = (d + epsilon) - Floor(c) BY <1>1, <2>1
  <2>3. Orders(a + epsilon, Floor(b), Floor(c), d + epsilon,
               keys[a + 1], keys[b + 1], keys[c + 1], keys[d + 1])
          <=> (Floor(b) - (a + epsilon)) * (keys[d + 1] - keys[c + 1])
                <= ((d + epsilon) - Floor(c)) * (keys[b + 1] - keys[a + 1])
    BY Zenon DEF Orders
  <2> QED BY <2>1, <2>2, <2>3
<1>3. Feasible(from, to)
        <=> \A a, c \in from..to : \A b \in (a + 1)..to, d \in (c + 1)..to : R(a, b, c, d)
  BY Zenon DEF Feasible
<1>4. FeasibleIn(keys, epsilon, from, to)
        <=> \A a, c \in from..to : \A b \in (a + 1)..to, d \in (c + 1)..to : O(a, b, c, d)
  BY Zenon DEF FeasibleIn
<1>5. \A a, c \in from..to : \A b \in (a + 1)..to, d \in (c + 1)..to :
        a \in Int /\ b \in Int /\ c \in Int /\ d \in Int
  OBVIOUS
<1> HIDE DEF R, O
<1> QED BY <1>2, <1>3, <1>4, <1>5, Zenon

\* The same after a step.
LEMMA FeasibleIsInNext ==
  ASSUME NEW from \in Int, NEW to \in Int
  PROVE  (PgmTypeOK => (Feasible(from, to) <=> FeasibleIn(keys, epsilon, from, to)))'
<1>1. PgmTypeOK => (Feasible(from, to) <=> FeasibleIn(keys, epsilon, from, to)) BY FeasibleIsIn
<1> QED BY <1>1, PTL

\* A feasible range of ranks orders the slopes that its bands force and allow.
LEMMA FeasibleSlopes ==
  ASSUME NEW run, NEW e, NEW from, NEW to, FeasibleIn(run, e, from, to),
         NEW a \in from..to, NEW b \in a + 1..to, NEW c \in from..to, NEW d \in c + 1..to,
         NEW p \in IntPoint, p.x = run[a + 1], p.y = a + e,
         NEW q \in IntPoint, q.x = run[b + 1], q.y = FloorIn(e, b),
         NEW u \in IntPoint, u.x = run[c + 1], u.y = FloorIn(e, c),
         NEW v \in IntPoint, v.x = run[d + 1], v.y = d + e
  PROVE  NotSteeper(TRUE, p, q, u, v)
<1>1. Orders(a + e, FloorIn(e, b), FloorIn(e, c), d + e, run[a + 1], run[b + 1], run[c + 1], run[d + 1])
  BY DEF FeasibleIn
<1>2. Orders(p.y, q.y, u.y, v.y, p.x, q.x, u.x, v.x) BY <1>1
<1>3. TRUE \in BOOLEAN OBVIOUS
<1> QED BY <1>2, <1>3, Coordinates DEF Orders

\* No line passes the bands of the closed segment and the one of the new point.
LEMMA OutsideEnds ==
  ASSUME Fitted, NEW x \in KeyUniverse, OutsidePoint(x), PgmTypeOK',
         NEW from, from = startRank, NEW to, to = Len(keys)
  PROVE  ~Feasible(from, to)'
<1>1. /\ PgmTypeOK /\ KeysSorted /\ Outside(x) /\ Increasing(x)
      /\ keys' = Append(keys, x) /\ epsilon' = epsilon
      /\ Corners(TRUE, Lows, Highs, rectangle[1], rectangle[3], rectangle[2], rectangle[4])
  BY DEF Fitted, Model, OutsidePoint, ActiveRegion, Region
<1> DEFINE p == rectangle[1]
           q == rectangle[3]
           u == rectangle[2]
           v == rectangle[4]
           h == High(x)
           l == Low(x)
<1>2. /\ p \in IntPoint /\ q \in IntPoint /\ u \in IntPoint /\ v \in IntPoint
      /\ p \in Highs /\ q \in Lows /\ u \in Lows /\ v \in Highs /\ p.x < q.x /\ u.x < v.x
  BY <1>1 DEF Corners
<1>3. PICK a \in ActiveRanks : p = HighAt(a) BY <1>2 DEF Highs
<1>4. PICK b \in ActiveRanks : q = LowAt(b) BY <1>2 DEF Lows
<1>5. PICK c \in ActiveRanks : u = LowAt(c) BY <1>2 DEF Lows
<1>6. PICK d \in ActiveRanks : v = HighAt(d) BY <1>2 DEF Highs
<1>7. to \in Nat /\ from \in Nat /\ ActiveRanks = from..to - 1 /\ ActiveRanks \subseteq 0..to - 1
  <2>1. to \in Nat /\ from \in Nat BY <1>1, BandTypes
  <2>2. ActiveRanks = from..to - 1 BY DEF ActiveRanks
  <2> QED BY <2>1, <2>2
<1>8. /\ p.x = keys[a + 1] /\ p.y = a + epsilon /\ q.x = keys[b + 1] /\ q.y = EpsSub(b)
      /\ u.x = keys[c + 1] /\ u.y = EpsSub(c) /\ v.x = keys[d + 1] /\ v.y = d + epsilon
      /\ (keys[a + 1] < keys[b + 1] <=> a < b) /\ (keys[c + 1] < keys[d + 1] <=> c < d)
  BY <1>1, <1>3, <1>4, <1>5, <1>6, <1>7, BandTypes
<1>9. a < b /\ c < d BY <1>2, <1>8
<1>10. /\ keys'[to + 1] = x /\ \A r \in 0..to - 1 : keys'[r + 1] = keys[r + 1]
  <2>1. \A r \in 0..to - 1 : r + 1 \in 1..Len(keys) BY <1>7
  <2> QED BY <1>1, <2>1, KeysStaySorted
<1>11. /\ h \in IntPoint /\ l \in IntPoint /\ h.x = x /\ l.x = x
       /\ h.y = to + epsilon /\ l.y = EpsSub(to)
  BY <1>1, NewBand
<1>12. \A r : EpsSub(r) = FloorIn(epsilon, r) BY DEF EpsSub, FloorIn
<1>13. SUFFICES ASSUME FeasibleIn(keys', epsilon, from, to) PROVE FALSE
  <2>1. from \in Int /\ to \in Int BY <1>7
  <2>2. Feasible(from, to)' <=> FeasibleIn(keys', epsilon', from, to) BY <2>1, FeasibleIsInNext
  <2> QED BY <1>1, <2>2
<1>14. CASE Flatter(Slope(rectangle[3], High(x)), Flattest)
  <2>1. ~NotSteeper(TRUE, p, q, q, h) BY <1>14 DEF NotSteeper, Flattest
  <2> HIDE DEF p, q, u, v, h, l
  <2>2. a \in from..to /\ b \in a + 1..to /\ b \in from..to /\ to \in b + 1..to
    BY <1>7, <1>9
  <2>3. /\ p.x = keys'[a + 1] /\ p.y = a + epsilon /\ q.x = keys'[b + 1]
        /\ h.x = keys'[to + 1] /\ h.y = to + epsilon
    BY <1>7, <1>8, <1>10, <1>11
  <2>5. NotSteeper(TRUE, p, q, q, h)
    BY <1>2, <1>8, <1>11, <1>12, <1>13, <2>2, <2>3, FeasibleSlopes
  <2> QED BY <2>1, <2>5
<1>15. CASE Flatter(Steepest, Slope(rectangle[4], Low(x)))
  <2>1. ~NotSteeper(TRUE, v, l, u, v) BY <1>15 DEF NotSteeper, Steepest
  <2> HIDE DEF p, q, u, v, h, l
  <2>2. d \in from..to /\ to \in d + 1..to /\ c \in from..to /\ d \in c + 1..to
    BY <1>7, <1>9
  <2>3. /\ v.x = keys'[d + 1] /\ v.y = d + epsilon /\ u.x = keys'[c + 1]
        /\ l.x = keys'[to + 1]
    BY <1>7, <1>8, <1>10, <1>11
  <2>5. NotSteeper(TRUE, v, l, u, v)
    BY <1>2, <1>8, <1>11, <1>12, <1>13, <2>2, <2>3, FeasibleSlopes
  <2> QED BY <2>1, <2>5
<1> QED BY <1>1, <1>14, <1>15 DEF Outside

\* Whether ranks are feasible does not change with the keys after them.
LEMMA FeasibleStays ==
  ASSUME PgmTypeOK, PgmTypeOK', NEW x, keys' = Append(keys, x), epsilon' = epsilon,
         NEW from \in Nat, NEW to \in Nat, to < Len(keys)
  PROVE  Feasible(from, to)' <=> Feasible(from, to)
<1>1. keys \in Seq(KeyUniverse) /\ Len(keys) \in Nat BY DEF PgmTypeOK
<1>2. \A m \in from..to : m + 1 \in 1..Len(keys) BY <1>1
<1>3. \A m \in from..to : keys'[m + 1] = keys[m + 1] BY <1>1, <1>2
<1>4. FeasibleIn(keys', epsilon', from, to) <=> FeasibleIn(keys, epsilon, from, to)
  <2>1. \A a, c \in from..to : \A b \in (a + 1)..to, d \in (c + 1)..to :
          b \in from..to /\ d \in from..to
    OBVIOUS
  <2> QED BY <1>3, <2>1 DEF FeasibleIn
<1>5. Feasible(from, to) <=> FeasibleIn(keys, epsilon, from, to)
  BY FeasibleIsIn
<1>6. Feasible(from, to)' <=> FeasibleIn(keys', epsilon', from, to)
  BY FeasibleIsInNext
<1> QED BY <1>4, <1>5, <1>6

\* The closed segments stay what they are, and a segment closes when it must.
LEMMA ClosedStep ==
  ASSUME Fitted, Closed, NEW x \in KeyUniverse, AddKey(x)
  PROVE  Closed'
<1>1. Increasing(x) /\ keys' = Append(keys, x) /\ epsilon' = epsilon
  BY DEF AddKey, FirstPoint, SecondPoint, InsidePoint, OutsidePoint
<1>2. PgmTypeOK /\ PgmTypeOK' /\ KeysSorted BY FittedStep DEF Fitted, Model
<1>3. /\ keys \in Seq(Int) /\ Len(keys) \in Nat /\ x \in Int /\ segments \in Seq(SegmentType)
      /\ startRank \in Nat /\ pointsInHull \in Nat /\ startRank + pointsInHull = Len(keys)
  BY <1>2, BandTypes, UniverseAssumption DEF PgmTypeOK
<1>4. Chained(keys', epsilon', segments) BY <1>1, <1>3, ChainOn DEF Closed
<1>5. ASSUME NEW m \in 1..Len(segments)
      PROVE  /\ segments[m].startRank \in Nat /\ segments[m].endRank \in Nat
             /\ segments[m].endRank < startRank /\ segments[m].endRank + 1 < Len(keys)
             /\ ~Feasible(segments[m].startRank, segments[m].endRank + 1)
  <2>1. /\ segments[m].startRank \in Nat /\ segments[m].endRank \in Nat
        /\ segments[m].endRank < startRank /\ segments[m].endRank < Len(keys)
        /\ ~Feasible(segments[m].startRank, segments[m].endRank + 1)
    BY DEF Closed, Chained, FitsRun, SegmentsMaximal
  <2>2. keys # <<>> BY <1>3, <2>1
  <2>3. pointsInHull # 0 BY <2>2 DEF Fitted, Model
  <2> QED BY <1>3, <2>1, <2>3
<1>6. ASSUME NEW m \in 1..Len(segments), NEW from, from = segments[m].startRank,
             NEW to, to = segments[m].endRank + 1
      PROVE  ~Feasible(from, to)'
  <2>1. from \in Nat /\ to \in Nat /\ to < Len(keys) /\ ~Feasible(from, to) BY <1>5, <1>6
  <2> QED BY <1>1, <1>2, <2>1, FeasibleStays
<1>7. CASE FirstPoint(x) \/ SecondPoint(x) \/ InsidePoint(x)
  <2>1. segments' = segments /\ startRank' = startRank
    BY <1>7 DEF FirstPoint, SecondPoint, InsidePoint
  <2>2. SegmentsMaximal'
    <3> SUFFICES ASSUME NEW m \in 1..Len(segments')
                 PROVE  ~Feasible(segments[m].startRank, segments[m].endRank + 1)'
      BY DEF SegmentsMaximal
    <3>1. PICK from : from = segments[m].startRank OBVIOUS
    <3>2. PICK to : to = segments[m].endRank + 1 OBVIOUS
    <3>3. ~Feasible(from, to)' BY <1>6, <2>1, <3>1, <3>2
    <3>4. segments'[m].startRank = from /\ segments'[m].endRank + 1 = to BY <2>1, <3>1, <3>2
    <3> QED BY <3>3, <3>4
  <2> QED BY <1>4, <2>1, <2>2 DEF Closed
<1>8. CASE OutsidePoint(x)
  <2> DEFINE s == ActiveSegment
             n == Len(segments)
  <2>1. segments' = Append(segments, s) /\ startRank' = Len(keys) /\ pointsInHull >= 2
    BY <1>8 DEF OutsidePoint, Rank
  <2>2. keys # <<>> BY <1>3, <2>1
  <2>3. s \in SegmentType BY <2>2, ActiveType DEF Fitted
  <2>4. FitsRun(keys, epsilon, s) /\ s.startRank = startRank /\ s.endRank = Len(keys) - 1
    BY <2>2, ActiveGood
  <2> HIDE DEF s
  <2>5. FitsRun(keys', epsilon', s) BY <1>1, <1>3, <2>4, FitsOn
  <2>6. Chained(keys', epsilon', segments') BY <1>3, <1>4, <2>1, <2>3, <2>4, <2>5, ChainJoins DEF Closed
  <2>7. /\ n \in Nat /\ Len(segments') = n + 1 /\ segments'[n + 1] = s
        /\ \A m \in 1..n : segments'[m] = segments[m]
        /\ segments' # <<>>
    <3> DEFINE more == Append(segments, s)
    <3>1. /\ n \in Nat /\ Len(more) = n + 1 /\ more[n + 1] = s
          /\ \A m \in 1..n : more[m] = segments[m]
          /\ more # <<>>
      <4> HIDE DEF n
      <4>1. segments \in Seq(SegmentType) /\ n = Len(segments) BY <1>3 DEF n
      <4> QED BY <2>3, <4>1
    <3> HIDE DEF more
    <3>2. segments' = more BY <2>1 DEF more
    <3> QED BY <3>1, <3>2
  <2>8. s.endRank + 1 = Len(keys) /\ s.endRank < Len(keys) BY <1>3, <2>4
  <2>9. startRank' = NextStart(segments') BY <2>1, <2>7, <2>8 DEF NextStart
  <2>10. \A m \in 1..Len(segments') : m \in 1..n \/ m = n + 1 BY <2>7
  <2>11. ASSUME NEW m \in 1..Len(segments') PROVE segments'[m].endRank < startRank'
    <3>1. CASE m \in 1..n
      <4>1. /\ segments[m].endRank \in Nat /\ segments[m].endRank + 1 < Len(keys) BY <1>5, <3>1
      <4>2. segments'[m].endRank < Len(keys) BY <1>3, <2>7, <3>1, <4>1
      <4> QED BY <2>1, <4>2
    <3>2. CASE m = n + 1 BY <2>1, <2>7, <2>8, <3>2
    <3> QED BY <2>10, <3>1, <3>2
  <2>12. SegmentsMaximal'
    <3> SUFFICES ASSUME NEW m \in 1..Len(segments')
                 PROVE  ~Feasible(segments[m].startRank, segments[m].endRank + 1)'
      BY DEF SegmentsMaximal
    <3>1. PICK from : from = segments'[m].startRank OBVIOUS
    <3>2. PICK to : to = segments'[m].endRank + 1 OBVIOUS
    <3>3. CASE m \in 1..n
      <4>1. from = segments[m].startRank /\ to = segments[m].endRank + 1 BY <2>7, <3>1, <3>2, <3>3
      <4>2. ~Feasible(from, to)' BY <1>6, <3>3, <4>1
      <4> QED BY <3>1, <3>2, <4>2
    <3>4. CASE m = n + 1
      <4>1. from = startRank /\ to = Len(keys) BY <2>4, <2>7, <2>8, <3>1, <3>2, <3>4
      <4>2. ~Feasible(from, to)' BY <1>2, <1>8, <4>1, OutsideEnds
      <4> QED BY <3>1, <3>2, <4>2
    <3> QED BY <2>10, <3>3, <3>4
  <2> QED BY <2>6, <2>9, <2>11, <2>12 DEF Closed
<1> QED BY <1>7, <1>8 DEF AddKey

\* The invariant of the construction.
Constructed == Fitted /\ Closed

\* The model of no key is constructed.
LEMMA ConstructedInit ==
  ASSUME ResetModel, epsilon \in Epsilons
  PROVE  Constructed
<1>1. segments = <<>> /\ startRank = 0 /\ Len(segments) = 0 BY DEF ResetModel
<1>2. Closed BY <1>1 DEF Closed, Chained, NextStart, SegmentsMaximal
<1> QED BY <1>2, FittedInit DEF Constructed

\* Every point keeps the invariant.
LEMMA ConstructedStep ==
  ASSUME Constructed, NEW x \in KeyUniverse, AddKey(x)
  PROVE  Constructed'
BY FittedStep, ClosedStep DEF Constructed

\* So does a step that leaves the model alone.
LEMMA ConstructedStays ==
  ASSUME Constructed, UNCHANGED pgmVars
  PROVE  Constructed'
<1>1. /\ epsilon' = epsilon /\ keys' = keys /\ upper' = upper /\ lower' = lower
      /\ upperStart' = upperStart /\ lowerStart' = lowerStart /\ rectangle' = rectangle
      /\ pointsInHull' = pointsInHull /\ startRank' = startRank /\ segments' = segments
  BY DEF pgmVars, hull
<1>2. Model' BY <1>1 DEF Constructed, Fitted, Model, PgmTypeOK, Older
<1>3. KeysSorted' BY <1>1 DEF Constructed, Fitted, KeysSorted
<1>4. \A r : EpsSub(r)' = EpsSub(r) BY <1>1 DEF EpsSub
<1>5. HighAt(startRank)' = HighAt(startRank) /\ LowAt(startRank)' = LowAt(startRank)
  BY <1>1 DEF HighAt, LowAt, EpsSub
<1>6. pointsInHull' = 1 => OnePoint' BY <1>1, <1>5 DEF Constructed, Fitted, OnePoint
<1>7. Highs' = Highs /\ Lows' = Lows
  BY <1>1 DEF Highs, Lows, ActiveRanks, HighAt, LowAt, EpsSub
<1>8. pointsInHull' >= 2 => ActiveRegion' BY <1>1, <1>7 DEF Constructed, Fitted, ActiveRegion
<1>9. SegmentsMaximal'
  <2> SUFFICES ASSUME NEW m \in 1..Len(segments')
               PROVE  ~Feasible(segments[m].startRank, segments[m].endRank + 1)'
    BY DEF SegmentsMaximal
  <2>1. PICK from : from = segments[m].startRank OBVIOUS
  <2>2. PICK to : to = segments[m].endRank + 1 OBVIOUS
  <2>3. segments'[m].startRank = from /\ segments'[m].endRank + 1 = to /\ m \in 1..Len(segments)
    BY <1>1, <2>1, <2>2
  <2>4. from \in Int /\ to \in Int /\ ~Feasible(from, to)
    <3>1. segments[m].startRank \in Nat /\ segments[m].endRank \in Nat
          /\ ~Feasible(segments[m].startRank, segments[m].endRank + 1)
      BY <2>3 DEF Constructed, Closed, Chained, FitsRun, SegmentsMaximal
    <3> QED BY <2>1, <2>2, <3>1
  <2>5. Feasible(from, to) <=> FeasibleIn(keys, epsilon, from, to)
    BY <2>4, FeasibleIsIn DEF Constructed, Fitted, Model
  <2>6. Feasible(from, to)' <=> FeasibleIn(keys', epsilon', from, to)
    BY <1>2, <2>4, FeasibleIsInNext DEF Model
  <2>7. ~Feasible(from, to)' BY <1>1, <2>4, <2>5, <2>6
  <2> QED BY <2>3, <2>7
<1>10. Closed' BY <1>1, <1>9 DEF Constructed, Closed
<1> QED BY <1>2, <1>3, <1>6, <1>8, <1>10 DEF Constructed, Fitted

\* The lines of a constructed model pass their bands.
LEMMA ConstructedInBand ==
  ASSUME Constructed
  PROVE  CertificateInBand
<1> SUFFICES ASSUME NEW m \in 1..Len(Segments)
             PROVE  /\ Segments[m].line.den > 0
                    /\ \A r \in Segments[m].startRank..Segments[m].endRank :
                         InBand(Segments[m].line, keys[r + 1] - Segments[m].startKey, r, epsilon)
  BY Zenon DEF CertificateInBand
<1>1. keys # <<>> BY DEF Segments
<1>2. Chained(keys, epsilon, Segments) BY <1>1, SegmentsChained DEF Constructed
<1>3. FitsRun(keys, epsilon, Segments[m]) BY <1>2 DEF Chained
<1> QED BY <1>3 DEF FitsRun

\* Its segments divide the run.
LEMMA ConstructedTile ==
  ASSUME Constructed
  PROVE  SegmentsTile
<1>1. CASE keys = <<>>
  <2>1. Segments = <<>> /\ Len(Segments) = 0 BY <1>1 DEF Segments
  <2> QED BY <1>1, <2>1 DEF SegmentsTile
<1>2. CASE keys # <<>>
  <2>1. /\ Segments \in Seq(SegmentType) /\ Chained(keys, epsilon, Segments)
        /\ Segments # <<>> /\ Segments[Len(Segments)].endRank = Len(keys) - 1
    BY <1>2, SegmentsChained DEF Constructed
  <2>2. Len(Segments) \in Nat BY <2>1
  <2>3. ASSUME NEW m \in 1..Len(Segments)
        PROVE  /\ Segments[m].startRank = (IF m = 1 THEN 0 ELSE Segments[m - 1].endRank + 1)
               /\ Segments[m].startRank <= Segments[m].endRank
               /\ Segments[m].startKey = keys[Segments[m].startRank + 1]
               /\ Segments[m].endKey = keys[Segments[m].endRank + 1]
    <3>1. FitsRun(keys, epsilon, Segments[m]) BY <2>1 DEF Chained
    <3>2. CASE m = 1 BY <2>1, <3>1, <3>2 DEF Chained, FitsRun
    <3>3. CASE m # 1
      <4>1. m - 1 \in 1..Len(Segments) - 1 /\ m - 1 + 1 = m BY <2>2, <3>3
      <4>2. Segments[m - 1 + 1].startRank = Segments[m - 1].endRank + 1 BY <2>1, <4>1 DEF Chained
      <4> QED BY <3>1, <3>3, <4>1, <4>2 DEF FitsRun
    <3> QED BY <3>2, <3>3
  <2> QED BY <1>2, <2>1, <2>3 DEF SegmentsTile
<1> QED BY <1>1, <1>2

-----------------------------------------------------------------------------
(* The search. *)

\* What the search model computes before it is cut off at 0.
Predicted(s, q) == DivTrunc(s.slopeNum * (q - s.startKey), s.slopeDen) + s.intercept

\* It is less than half a rank above the line and less than one and a half
\* below it: one for the quotient, which is rounded down, and half for the
\* intercept.
LEMMA PredictionNear ==
  ASSUME NEW run, NEW eps, NEW s, FitsRun(run, eps, s), NEW q \in Int, s.startKey \in Int,
         s.startKey <= q,
         NEW v, v = s.line.slope * (q - s.startKey) + s.line.origin
  PROVE  /\ Predicted(s, q) \in Int /\ v \in Int
         /\ 2 * (s.line.den * Predicted(s, q)) < 2 * v + s.line.den
         /\ 2 * v < 2 * (s.line.den * Predicted(s, q)) + 3 * s.line.den
<1> DEFINE S == s.line.slope
           O == s.line.origin
           E == s.line.den
           I == s.intercept
           d == q - s.startKey
<1>1. /\ S \in Nat /\ O \in Int /\ E \in Int /\ E > 0 /\ I \in Int /\ d \in Nat
      /\ 2 * O - E <= 2 * (E * I) /\ 2 * (E * I) < 2 * O + E
  <2>1. /\ S \in Nat /\ O \in Int /\ E \in Int /\ E > 0 /\ I \in Int
        /\ 2 * O - E <= 2 * (E * I) /\ 2 * (E * I) < 2 * O + E
    BY Zenon DEF FitsRun
  <2>2. d \in Nat OBVIOUS
  <2> QED BY <2>1, <2>2
<1>2. v = S * d + O OBVIOUS
<1>3. \/ s.slopeNum = S /\ s.slopeDen = E
      \/ s.slopeNum = 0 /\ s.slopeDen = 1 /\ S = 0
  BY DEF FitsRun
<1>4. PICK t : t = DivTrunc(s.slopeNum * d, s.slopeDen) OBVIOUS
<1>5. Predicted(s, q) = t + I BY <1>4 DEF Predicted
<1> HIDE DEF S, O, E, I, d
<1>6. t \in Int /\ S * d \in Int /\ E * t <= S * d /\ S * d < E * t + E
  <2>1. PICK w \in Int : w = S * d BY <1>1
  <2>2. w >= 0
    <3>1. \A m, n \in Nat : m * n >= 0 OBVIOUS
    <3> QED BY <1>1, <2>1, <3>1
  <2>3. CASE s.slopeNum = S /\ s.slopeDen = E
    <3>1. t = w \div E BY <1>4, <2>1, <2>2, <2>3 DEF DivTrunc
    <3>2. w \div E \in Int /\ E * (w \div E) <= w /\ w < E * (w \div E) + E BY <1>1, <2>2
    <3> QED BY <2>1, <3>1, <3>2
  <2>4. CASE s.slopeNum = 0 /\ s.slopeDen = 1 /\ S = 0
    <3>1. 0 * d = 0 /\ S * d = 0 BY <1>1, <2>4
    <3>2. t = 0 BY <1>4, <2>4, <3>1 DEF DivTrunc
    <3>3. E * t = 0 BY <1>1, <3>2
    <3> QED BY <1>1, <3>1, <3>2, <3>3
  <2> QED BY <1>3, <2>3, <2>4
<1>7. E * (t + I) = E * t + E * I /\ E * t \in Int /\ E * I \in Int BY <1>1, <1>6
<1>8. /\ t + I \in Int /\ v \in Int /\ 2 * (E * (t + I)) < 2 * v + E
      /\ 2 * v < 2 * (E * (t + I)) + 3 * E
  BY <1>1, <1>2, <1>6, <1>7
<1> QED BY <1>5, <1>8 DEF E

\* Points of a line with a positive denominator, ordered as their values.
LEMMA Descale ==
  ASSUME NEW E \in Int, E > 0, NEW a \in Int, NEW b \in Int, E * a < E * b
  PROVE  a < b
<1> SUFFICES ASSUME b <= a PROVE E * b <= E * a OBVIOUS
<1> QED OBVIOUS

\* The line rises.
LEMMA LineRises ==
  ASSUME NEW S \in Nat, NEW a \in Int, NEW b \in Int, a <= b
  PROVE  S * a \in Int /\ S * b \in Int /\ S * a <= S * b
OBVIOUS

\* Left of a point of the segment, no rank beyond its band is predicted.
LEMMA PredictedBelow ==
  ASSUME NEW run, NEW eps \in Nat, NEW s, FitsRun(run, eps, s), NEW q \in Int, s.startKey \in Int,
         s.startKey <= q, NEW r \in s.startRank..s.endRank, run[r + 1] \in Int, q <= run[r + 1]
  PROVE  Predicted(s, q) <= r + eps
<1> DEFINE S == s.line.slope
           O == s.line.origin
           E == s.line.den
           p == Predicted(s, q)
           d == q - s.startKey
           k == run[r + 1] - s.startKey
           v == S * d + O
           z == S * k + O
<1>1. S \in Nat /\ O \in Int /\ E \in Int /\ E > 0 /\ r \in Int /\ d \in Int /\ k \in Int /\ d <= k
  <2>1. /\ S \in Nat /\ O \in Int /\ E \in Int /\ E > 0
        /\ s.startRank \in Nat /\ s.endRank \in Nat
    BY Zenon DEF FitsRun
  <2>2. r \in Nat BY <2>1
  <2>3. d \in Int /\ k \in Int /\ d <= k OBVIOUS
  <2> HIDE DEF d, k
  <2> QED BY <2>1, <2>2, <2>3
<1>2. p \in Int /\ v \in Int /\ 2 * (E * p) < 2 * v + E
  <2>1. v = s.line.slope * (q - s.startKey) + s.line.origin OBVIOUS
  <2> HIDE DEF v
  <2> QED BY <2>1, PredictionNear
<1>3. z <= (r + eps) * E
  <2>1. InBand(s.line, run[r + 1] - s.startKey, r, eps) BY DEF FitsRun
  <2> QED BY <2>1 DEF InBand
<1> HIDE DEF S, O, E, p, d, k
<1>4. v <= z /\ z \in Int
  <2>1. S * d \in Int /\ S * k \in Int /\ S * d <= S * k BY <1>1, LineRises
  <2> QED BY <1>1, <2>1
<1> HIDE DEF v, z
<1> DEFINE b == r + eps
<1>5. b \in Int BY <1>1
<1>6. z <= E * b
  <2>1. b * E = E * b BY <1>1, <1>5
  <2> QED BY <1>3, <2>1
<1> HIDE DEF b
<1>7. E * p \in Int /\ E * b \in Int /\ E * (b + 1) = E * b + E BY <1>1, <1>2, <1>5
<1>8. E * p < E * (b + 1) BY <1>1, <1>2, <1>4, <1>6, <1>7
<1>9. p < b + 1 BY <1>1, <1>2, <1>5, <1>8, Descale
<1>10. p <= b BY <1>2, <1>5, <1>9
<1> QED BY <1>10 DEF p, b

\* Right of a point of the segment, at most one rank below its band is.
LEMMA PredictedAbove ==
  ASSUME NEW run, NEW eps \in Nat, NEW s, FitsRun(run, eps, s), NEW q \in Int, s.startKey \in Int,
         s.startKey <= q, NEW r \in s.startRank..s.endRank, run[r + 1] \in Int, run[r + 1] <= q
  PROVE  r - eps <= Predicted(s, q) + 1
<1> DEFINE S == s.line.slope
           O == s.line.origin
           E == s.line.den
           p == Predicted(s, q)
           d == q - s.startKey
           k == run[r + 1] - s.startKey
           v == S * d + O
           z == S * k + O
           b == r - eps
<1>1. /\ S \in Nat /\ O \in Int /\ E \in Int /\ E > 0 /\ r \in Nat /\ d \in Int /\ k \in Int /\ k <= d
      /\ b \in Int
  <2>1. /\ S \in Nat /\ O \in Int /\ E \in Int /\ E > 0
        /\ s.startRank \in Nat /\ s.endRank \in Nat
    BY Zenon DEF FitsRun
  <2>2. r \in Nat BY <2>1
  <2>3. d \in Int /\ k \in Int /\ k <= d OBVIOUS
  <2> HIDE DEF d, k
  <2> QED BY <2>1, <2>2, <2>3
<1>2. p \in Int /\ v \in Int /\ 2 * v < 2 * (E * p) + 3 * E
  <2>1. v = s.line.slope * (q - s.startKey) + s.line.origin OBVIOUS
  <2> HIDE DEF v
  <2> QED BY <2>1, PredictionNear
<1>3. (IF r < eps THEN 0 ELSE r - eps) * E <= z
  <2>1. InBand(s.line, run[r + 1] - s.startKey, r, eps) BY DEF FitsRun
  <2> QED BY <2>1 DEF InBand
<1> HIDE DEF S, O, E, p, d, k
<1>4. z <= v /\ z \in Int
  <2>1. S * d \in Int /\ S * k \in Int /\ S * k <= S * d BY <1>1, LineRises
  <2> QED BY <1>1, <2>1
<1> HIDE DEF v, z
<1>6. E * b <= z
  <2>1. PICK f \in Int : f = (IF r < eps THEN 0 ELSE r - eps) /\ b <= f BY <1>1
  <2>2. f * E <= z BY <1>3, <2>1
  <2> HIDE DEF b
  <2>3. E * b <= E * f BY <1>1, <2>1
  <2>4. E * f = f * E /\ E * f \in Int /\ E * b \in Int BY <1>1, <2>1
  <2> QED BY <1>4, <2>2, <2>3, <2>4
<1> HIDE DEF b
<1>7. E * p \in Int /\ E * b \in Int /\ E * (p + 2) = E * p + 2 * E BY <1>1, <1>2
<1>8. E * b < E * (p + 2) BY <1>1, <1>2, <1>4, <1>6, <1>7
<1>9. p + 2 \in Int /\ b < p + 2 BY <1>1, <1>2, <1>8, Descale
<1>10. b <= p + 1 BY <1>1, <1>2, <1>9
<1> QED BY <1>10 DEF p, b

\* The intercept is in the band of the first rank.
LEMMA InterceptNear ==
  ASSUME NEW run, NEW eps \in Nat, NEW s, FitsRun(run, eps, s), s.startKey \in Int
  PROVE  /\ s.intercept \in Int /\ s.startRank - eps <= s.intercept
         /\ 0 <= s.intercept /\ s.intercept <= s.startRank + eps
<1> DEFINE O == s.line.origin
           E == s.line.den
           I == s.intercept
           r == s.startRank
<1>1. /\ O \in Int /\ E \in Int /\ E > 0 /\ I \in Int /\ r \in Nat /\ s.line.slope \in Int
      /\ r \in r..s.endRank /\ s.startKey = run[r + 1]
      /\ 2 * O - E <= 2 * (E * I) /\ 2 * (E * I) < 2 * O + E
  BY DEF FitsRun
<1>2. InBand(s.line, run[r + 1] - s.startKey, r, eps) BY <1>1 DEF FitsRun
<1>3. s.line.slope * (run[r + 1] - s.startKey) + s.line.origin = O
  <2>1. run[r + 1] - s.startKey = 0 BY <1>1
  <2> QED BY <1>1, <2>1
<1>4. PICK f \in Int : f = (IF r < eps THEN 0 ELSE r - eps) BY <1>1
<1>5. f * E <= O /\ O <= (r + eps) * E BY <1>2, <1>3, <1>4 DEF InBand
<1>6. PICK b \in Int : b = r + eps BY <1>1
<1> HIDE DEF O, E, I, r
<1>7. /\ E * I \in Int /\ E * f \in Int /\ E * b \in Int
      /\ E * (I + 1) = E * I + E /\ E * (b + 1) = E * b + E /\ b * E = E * b /\ f * E = E * f
  BY <1>1, <1>4, <1>6
<1>8. E * f < E * (I + 1) /\ E * I < E * (b + 1) BY <1>1, <1>5, <1>6, <1>7
<1>9. f < I + 1 /\ I < b + 1
  <2>1. I + 1 \in Int /\ b + 1 \in Int BY <1>1
  <2> QED BY <1>1, <1>8, <2>1, Descale
<1>10. 0 <= f /\ r - eps <= f BY <1>1, <1>4
<1> QED BY <1>1, <1>6, <1>9, <1>10 DEF I, r

\* The keys of a run ascend.
Sorted(run) == \A m, n \in 1..Len(run) : m < n => run[m] < run[n]

\* A sorted run has a lower bound of any key.
LEMMA LowerBoundExists ==
  ASSUME NEW run \in Seq(Int), Sorted(run), NEW q \in Int
  PROVE  \E pos \in 0..Len(run) : IsLowerBound(run, q, pos)
<1> DEFINE n == Len(run)
           T == {r \in 0..n : r = n \/ run[r + 1] >= q}
<1>1. n \in Nat /\ \A m \in 1..n : run[m] \in Int OBVIOUS
<1> HIDE DEF n
<1>2. T \in SUBSET Int /\ T # {} /\ 0 \in Int /\ \A r \in T : 0 <= r
  <2>1. n \in T BY <1>1
  <2>2. \A r \in T : r \in 0..n BY <1>1
  <2> HIDE DEF T
  <2> QED BY <1>1, <2>1, <2>2
<1>3. Min(T) \in T /\ \A r \in T : Min(T) <= r
  <2> HIDE DEF T
  <2> QED BY <1>2, MinIsLeast
<1>4. PICK k : k = Min(T) OBVIOUS
<1>5. k \in 0..n /\ (k = n \/ run[k + 1] >= q) /\ \A r \in T : k <= r BY <1>3, <1>4
<1>6. ASSUME NEW m \in 1..k PROVE run[m] < q
  <2>1. m - 1 \in 0..n /\ m - 1 # n /\ m \in 1..n /\ ~(k <= m - 1) /\ (m - 1) + 1 = m BY <1>1, <1>5
  <2>2. ~(run[m] >= q) BY <1>5, <2>1
  <2> QED BY <1>1, <2>1, <2>2
<1>7. ASSUME NEW m \in (k + 1)..n PROVE run[m] >= q
  <2>1. k # n /\ k + 1 \in 1..n /\ m \in 1..n /\ (m = k + 1 \/ k + 1 < m) BY <1>1, <1>5
  <2>2. run[k + 1] >= q /\ run[k + 1] \in Int /\ run[m] \in Int BY <1>1, <1>5, <2>1
  <2>3. m # k + 1 => run[k + 1] < run[m] BY <2>1 DEF Sorted, n
  <2> QED BY <2>1, <2>2, <2>3
<1> QED BY <1>5, <1>6, <1>7 DEF IsLowerBound, n

\* A rank below the lower bound holds a smaller key, and only such a rank.
LEMMA BoundSplits ==
  ASSUME NEW run \in Seq(Int), NEW q \in Int, NEW pos, IsLowerBound(run, q, pos)
  PROVE  /\ pos \in Nat /\ pos <= Len(run)
         /\ \A r \in 0..Len(run) - 1 : run[r + 1] \in Int /\ (run[r + 1] < q <=> r < pos)
<1>1. pos \in Nat /\ pos <= Len(run) /\ Len(run) \in Nat BY DEF IsLowerBound
<1>2. ASSUME NEW r \in 0..Len(run) - 1 PROVE run[r + 1] \in Int /\ (run[r + 1] < q <=> r < pos)
  <2>1. r \in Nat /\ r + 1 \in 1..Len(run) BY <1>1
  <2>2. run[r + 1] \in Int BY <2>1
  <2>3. CASE r < pos
    <3>1. r + 1 \in 1..pos BY <1>1, <2>1, <2>3
    <3> QED BY <2>2, <2>3, <3>1 DEF IsLowerBound
  <2>4. CASE ~(r < pos)
    <3>1. r + 1 \in (pos + 1)..Len(run) BY <1>1, <2>1, <2>4
    <3>2. run[r + 1] >= q BY <3>1 DEF IsLowerBound
    <3> QED BY <2>2, <2>4, <3>2
  <2> QED BY <2>2, <2>3, <2>4
<1> QED BY <1>1, <1>2

\* A position that is near the lower bound has it in its window.
LEMMA NearInWindow ==
  ASSUME NEW count \in Nat, NEW eps \in Nat, NEW pos \in 0..count, NEW R \in 0..count,
         pos - eps <= R, R <= pos + eps + 2
  PROVE  /\ R \in Clamped(pos - eps, count)..Clamped(pos + eps + 2, count)
         /\ R < count /\ R < pos + eps + 2 => R < Clamped(pos + eps + 2, count)
BY DEF Clamped

\* The search model of a run, and what its parts say.
Indexed(pgm, run) ==
  /\ run \in Seq(Int) /\ Sorted(run)
  /\ pgm.epsilon \in Nat /\ pgm.count = Len(run)
  /\ pgm.segments \in Seq(SegmentType) /\ pgm.segments # <<>>
  /\ Chained(run, pgm.epsilon, pgm.segments)
  /\ pgm.segments[Len(pgm.segments)].endRank = Len(run) - 1

\* Types of an index's segments, and the keys at its ends.
LEMMA IndexedParts ==
  ASSUME NEW pgm, NEW run, Indexed(pgm, run)
  PROVE  /\ Len(pgm.segments) \in Nat /\ Len(pgm.segments) >= 1
         /\ Len(run) \in Nat /\ Len(run) >= 1
         /\ FirstKey(pgm) = run[1] /\ LastKey(pgm) = run[Len(run)]
         /\ run[1] \in Int /\ run[Len(run)] \in Int
         /\ \A m \in 1..Len(pgm.segments) :
              /\ FitsRun(run, pgm.epsilon, pgm.segments[m])
              /\ pgm.segments[m].startRank \in Nat /\ pgm.segments[m].endRank \in Nat
              /\ pgm.segments[m].startRank <= pgm.segments[m].endRank
              /\ pgm.segments[m].endRank < Len(run)
              /\ pgm.segments[m].startKey = run[pgm.segments[m].startRank + 1]
              /\ pgm.segments[m].startKey \in Int
<1> DEFINE segs == pgm.segments
           n == Len(segs)
<1>1. n \in Nat /\ n >= 1 /\ 1 \in 1..n /\ n \in 1..n
  <2>1. segs \in Seq(SegmentType) /\ segs # <<>> BY DEF Indexed
  <2> HIDE DEF segs
  <2> QED BY <2>1
<1>2. ASSUME NEW m \in 1..n
      PROVE  /\ FitsRun(run, pgm.epsilon, segs[m])
             /\ segs[m].startRank \in Nat /\ segs[m].endRank \in Nat
             /\ segs[m].startRank <= segs[m].endRank /\ segs[m].endRank < Len(run)
             /\ segs[m].startKey = run[segs[m].startRank + 1] /\ segs[m].startKey \in Int
             /\ segs[m].endKey = run[segs[m].endRank + 1]
  <2>1. FitsRun(run, pgm.epsilon, segs[m]) BY DEF Indexed, Chained
  <2>2. /\ segs[m].startRank \in Nat /\ segs[m].endRank \in Nat
        /\ segs[m].startRank <= segs[m].endRank /\ segs[m].endRank < Len(run)
        /\ segs[m].startKey = run[segs[m].startRank + 1]
        /\ segs[m].endKey = run[segs[m].endRank + 1]
    BY <2>1 DEF FitsRun
  <2>3. run \in Seq(Int) /\ Len(run) \in Nat BY DEF Indexed
  <2>4. segs[m].startRank + 1 \in 1..Len(run)
    <3>1. PICK a : a = segs[m].startRank OBVIOUS
    <3>2. PICK b : b = segs[m].endRank OBVIOUS
    <3>3. a \in Nat /\ b \in Nat /\ a <= b /\ b < Len(run) BY <2>2, <3>1, <3>2, Zenon
    <3>4. a + 1 \in 1..Len(run) BY <2>3, <3>3
    <3> QED BY <3>1, <3>4
  <2>5. run[segs[m].startRank + 1] \in Int BY <2>3, <2>4
  <2> QED BY <2>1, <2>2, <2>5
<1>3. run \in Seq(Int) /\ Len(run) \in Nat /\ segs[n].endRank = Len(run) - 1 /\ segs[1].startRank = 0
  BY DEF Indexed, Chained
<1>4. Len(run) >= 1 BY <1>1, <1>2, <1>3
<1>5. run[1] \in Int /\ run[Len(run)] \in Int
  <2>1. 1 \in 1..Len(run) /\ Len(run) \in 1..Len(run) BY <1>3, <1>4
  <2> QED BY <1>3, <2>1
<1>6. FirstKey(pgm) = run[1]
  <2>1. segs[1].startKey = run[0 + 1] BY <1>1, <1>2, <1>3
  <2> QED BY <2>1 DEF FirstKey
<1>7. LastKey(pgm) = run[Len(run)]
  <2> HIDE DEF segs, n
  <2>1. segs[n].endKey = run[segs[n].endRank + 1] BY <1>1, <1>2
  <2>2. segs[n].endRank + 1 = Len(run) BY <1>3
  <2>3. segs[n].endKey = run[Len(run)] BY <2>1, <2>2
  <2> QED BY <2>3 DEF LastKey, segs, n
<1> QED BY <1>1, <1>2, <1>3, <1>4, <1>5, <1>6, <1>7

\* The segment a key between the first and the last is searched in.
LEMMA SegmentFound ==
  ASSUME NEW pgm, NEW run, Indexed(pgm, run), NEW q \in Int, FirstKey(pgm) <= q,
         NEW m, m = SegmentIndex(pgm, q)
  PROVE  /\ m \in 1..Len(pgm.segments) /\ pgm.segments[m].startKey <= q
         /\ m < Len(pgm.segments) => q < pgm.segments[m + 1].startKey
<1> DEFINE segs == pgm.segments
           n == Len(segs)
           T == {j \in 1..n : segs[j].startKey <= q}
<1>1. n \in Nat /\ n >= 1 /\ \A j \in 1..n : segs[j].startKey \in Int BY IndexedParts
<1>2. 1 \in T BY <1>1 DEF FirstKey
<1>3. m = Max(T) BY DEF SegmentIndex
<1> HIDE DEF segs, n
<1>4. T \in SUBSET Int /\ T # {} /\ n \in Int /\ \A j \in T : j <= n BY <1>1, <1>2
<1>5. Max(T) \in T /\ \A j \in T : j <= Max(T)
  <2> HIDE DEF T
  <2> QED BY <1>4, MaxIsGreatest
<1>6. m \in 1..n /\ segs[m].startKey <= q /\ \A j \in T : j <= m BY <1>3, <1>5
<1>7. m < n => q < segs[m + 1].startKey
  <2> SUFFICES ASSUME m < n PROVE q < segs[m + 1].startKey OBVIOUS
  <2>1. m + 1 \in 1..n /\ ~(m + 1 <= m) BY <1>1, <1>6
  <2>2. m + 1 \notin T BY <1>6, <2>1
  <2> QED BY <1>1, <2>1, <2>2
<1> QED BY <1>6, <1>7 DEF segs, n

\* In the segment that is searched, the prediction is near the lower bound.
LEMMA SegmentNear ==
  ASSUME NEW pgm, NEW run, Indexed(pgm, run), NEW q \in Int, NEW R, IsLowerBound(run, q, R),
         FirstKey(pgm) <= q, q <= LastKey(pgm),
         NEW m, m = SegmentIndex(pgm, q), NEW s, s = pgm.segments[m]
  PROVE  /\ Predicted(s, q) \in Int /\ R <= Predicted(s, q) + pgm.epsilon + 2
         /\ s.startRank <= R /\ R <= s.endRank + 1 /\ R < Len(run)
         /\ R <= s.endRank => Predicted(s, q) <= R + pgm.epsilon
         /\ HeldAt(run, q, R) => R <= s.endRank /\ R <= Predicted(s, q) + pgm.epsilon + 1
<1> DEFINE eps == pgm.epsilon
           p == Predicted(s, q)
           a == s.startRank
           e == s.endRank
           n == Len(pgm.segments)
           c == Len(run)
<1>1. m \in 1..n /\ s.startKey <= q /\ (m < n => q < pgm.segments[m + 1].startKey)
  BY SegmentFound
<1>2. /\ FitsRun(run, eps, s) /\ a \in Nat /\ e \in Nat /\ a <= e /\ e < c
      /\ s.startKey = run[a + 1] /\ s.startKey \in Int
  BY <1>1, IndexedParts
<1>3. n \in Nat /\ c \in Nat /\ c >= 1 /\ run[c] \in Int /\ LastKey(pgm) = run[c]
  BY IndexedParts
<1>4. run \in Seq(Int) /\ eps \in Nat BY DEF Indexed
<1>5. /\ R \in Nat /\ R <= c
      /\ \A r \in 0..c - 1 : run[r + 1] \in Int /\ (run[r + 1] < q <=> r < R)
  BY <1>4, BoundSplits
<1>6. p \in Int
  <2>1. PICK v : v = s.line.slope * (q - s.startKey) + s.line.origin OBVIOUS
  <2> QED BY <1>1, <1>2, <2>1, PredictionNear
<1>7. m < n => /\ pgm.segments[m + 1].startRank = e + 1 /\ e + 1 <= c - 1
               /\ pgm.segments[m + 1].startKey = run[e + 1 + 1]
  <2> SUFFICES ASSUME m < n
               PROVE  /\ pgm.segments[m + 1].startRank = e + 1 /\ e + 1 <= c - 1
                      /\ pgm.segments[m + 1].startKey = run[e + 1 + 1]
    OBVIOUS
  <2>1. m \in 1..n - 1 /\ m + 1 \in 1..n BY <1>1, <1>3
  <2>2. pgm.segments[m + 1].startRank = e + 1 BY <2>1 DEF Indexed, Chained
  <2> DEFINE t == pgm.segments[m + 1]
  <2>3. /\ t.startRank \in Nat /\ t.endRank \in Nat /\ t.startRank <= t.endRank /\ t.endRank < c
        /\ t.startKey = run[t.startRank + 1]
    BY <2>1, IndexedParts
  <2> HIDE DEF t, e, c
  <2>4. t.startRank <= c - 1 BY <1>3, <2>3
  <2>5. t.startRank = e + 1 BY <2>2 DEF t
  <2> QED BY <2>3, <2>4, <2>5 DEF t
<1>8. m = n => e = c - 1 BY DEF Indexed
<1> HIDE DEF eps, p, a, e, n, c
<1>9. a <= R
  <2>1. a \in 0..c - 1 /\ a - 1 \in Int BY <1>2, <1>3
  <2>2. CASE a = 0 BY <1>5, <2>2
  <2>3. CASE a # 0
    <3> SUFFICES ASSUME R < a PROVE FALSE BY <1>2, <1>5
    <3>1. R \in 0..c - 1 /\ R + 1 \in 1..c /\ a + 1 \in 1..c /\ R + 1 < a + 1 BY <1>2, <1>3, <1>5
    <3>2. ~(run[R + 1] < q) /\ run[R + 1] \in Int /\ run[a + 1] \in Int BY <1>5, <2>1, <3>1
    <3>3. run[R + 1] < run[a + 1] BY <3>1 DEF Indexed, Sorted, c
    <3> QED BY <1>1, <1>2, <3>2, <3>3
  <2> QED BY <2>2, <2>3
<1>10. R < c
  <2>1. c - 1 \in 0..c - 1 /\ c - 1 + 1 = c BY <1>3
  <2>2. ~(run[c] < q) BY <1>3
  <2>3. ~(c - 1 < R) BY <1>5, <2>1, <2>2
  <2> QED BY <1>3, <1>5, <2>3
<1>11. R <= e + 1
  <2>1. CASE m < n
    <3>1. e + 1 \in 0..c - 1 BY <1>2, <1>3, <1>7, <2>1
    <3>2. ~(run[e + 1 + 1] < q) BY <1>1, <1>5, <1>7, <2>1, <3>1
    <3>3. ~(e + 1 < R) BY <1>5, <3>1, <3>2
    <3> QED BY <1>2, <1>5, <3>3
  <2>2. CASE m = n BY <1>2, <1>3, <1>8, <1>10, <2>2, <1>5
  <2>3. m < n \/ m = n BY <1>1, <1>3
  <2> QED BY <2>1, <2>2, <2>3
<1>12. R <= e => p <= R + eps
  <2> SUFFICES ASSUME R <= e PROVE p <= R + eps OBVIOUS
  <2>1. R \in 0..c - 1 /\ R \in a..e BY <1>2, <1>3, <1>5, <1>9, <1>10
  <2>2. run[R + 1] \in Int /\ q <= run[R + 1] BY <1>5, <2>1
  <2>3. R \in s.startRank..s.endRank BY <2>1 DEF a, e
  <2> QED BY <1>1, <1>2, <1>4, <2>2, <2>3, PredictedBelow DEF p
<1>13. R <= p + eps + 2
  <2>1. CASE R = a
    <3>1. a \in s.startRank..s.endRank BY <1>2 DEF a, e
    <3>2. run[a + 1] \in Int /\ run[a + 1] <= q BY <1>1, <1>2
    <3>3. a - eps <= p + 1 BY <1>1, <1>2, <1>4, <3>1, <3>2, PredictedAbove DEF p
    <3> QED BY <1>2, <1>4, <1>6, <2>1, <3>3
  <2>2. CASE R # a
    <3> DEFINE r == R - 1
    <3>1. r \in Int /\ r \in a..e /\ r \in 0..c - 1 /\ r < R BY <1>2, <1>3, <1>5, <1>9, <1>10, <1>11, <2>2
    <3> HIDE DEF r
    <3>2. run[r + 1] \in Int /\ run[r + 1] <= q BY <1>5, <3>1
    <3>3. r \in s.startRank..s.endRank BY <3>1 DEF a, e
    <3>4. r - eps <= p + 1 BY <1>1, <1>2, <1>4, <3>2, <3>3, PredictedAbove DEF p
    <3>5. r = R - 1 BY DEF r
    <3> QED BY <1>4, <1>5, <1>6, <3>1, <3>4, <3>5
  <2> QED BY <2>1, <2>2
<1>14. HeldAt(run, q, R) => R <= e /\ R <= p + eps + 1
  <2> SUFFICES ASSUME run[R + 1] = q PROVE R <= e /\ R <= p + eps + 1 BY DEF HeldAt
  <2>1. R <= e
    <3>1. CASE m < n
      <4>1. q < run[e + 1 + 1] BY <1>1, <1>7, <3>1
      <4>2. R # e + 1 BY <4>1
      <4> QED BY <1>2, <1>5, <1>11, <4>2
    <3>2. CASE m = n BY <1>2, <1>3, <1>5, <1>8, <1>10, <3>2
    <3> QED BY <1>1, <1>3, <3>1, <3>2
  <2>2. R \in Int /\ R \in s.startRank..s.endRank BY <1>2, <1>5, <1>9, <2>1 DEF a, e
  <2>3. run[R + 1] \in Int /\ run[R + 1] <= q OBVIOUS
  <2>4. R - eps <= p + 1 BY <1>1, <1>2, <1>4, <2>2, <2>3, PredictedAbove DEF p
  <2> QED BY <1>4, <1>5, <1>6, <2>1, <2>4
<1> QED BY <1>6, <1>9, <1>10, <1>11, <1>12, <1>13, <1>14 DEF p, eps, a, e, c

\* pgm.py, search: the window holds the lower bound, and ends behind a key that
\* is stored.
LEMMA WindowHolds ==
  ASSUME NEW pgm, NEW run, Indexed(pgm, run), NEW q \in Int, NEW R, IsLowerBound(run, q, R)
  PROVE  /\ R \in Window(pgm, q).lo..Window(pgm, q).hi
         /\ HeldAt(run, q, R) => R < Window(pgm, q).hi
<1> DEFINE eps == pgm.epsilon
           c == Len(run)
           pos == Position(pgm, q)
<1>1. /\ c \in Nat /\ c >= 1 /\ pgm.count = c /\ run[1] \in Int /\ run[c] \in Int
      /\ FirstKey(pgm) = run[1] /\ LastKey(pgm) = run[c] /\ eps \in Nat
      /\ Len(pgm.segments) \in Nat
  BY IndexedParts DEF Indexed
<1>2. run \in Seq(Int) BY DEF Indexed
<1>3. /\ R \in Nat /\ R <= c
      /\ \A r \in 0..c - 1 : run[r + 1] \in Int /\ (run[r + 1] < q <=> r < R)
  BY <1>2, BoundSplits
<1>4. Window(pgm, q) = [lo |-> Clamped(pos - eps, c), hi |-> Clamped(pos + eps + 2, c)]
  BY <1>1 DEF Window
<1>5. SUFFICES /\ pos \in 0..c /\ pos - eps <= R /\ R <= pos + eps + 2
               /\ HeldAt(run, q, R) => R < pos + eps + 2
  <2>0. HeldAt(run, q, R) => R < c BY DEF HeldAt
  <2> HIDE DEF eps, c, pos
  <2>1. R \in 0..c BY <1>1, <1>3
  <2>2. /\ R \in Clamped(pos - eps, c)..Clamped(pos + eps + 2, c)
        /\ R < c /\ R < pos + eps + 2 => R < Clamped(pos + eps + 2, c)
    BY <1>1, <1>5, <2>1, NearInWindow
  <2> QED BY <1>4, <1>5, <2>0, <2>2
<1>6. CASE q < FirstKey(pgm)
  <2>1. pos = 0 BY <1>6 DEF Position
  <2>2. 0 \in 0..c - 1 /\ 0 + 1 = 1 BY <1>1
  <2>3. ~(run[1] < q) BY <1>1, <1>6
  <2>4. ~(0 < R) BY <1>3, <2>2, <2>3
  <2> HIDE DEF eps, c, pos
  <2> QED BY <1>1, <1>3, <2>1, <2>4
<1>7. CASE ~(q < FirstKey(pgm)) /\ q > LastKey(pgm)
  <2>1. pos = c BY <1>1, <1>7 DEF Position
  <2>2. c - 1 \in 0..c - 1 /\ c - 1 + 1 = c BY <1>1
  <2>3. run[c] < q BY <1>1, <1>7
  <2>4. c - 1 < R BY <1>3, <2>2, <2>3
  <2> HIDE DEF eps, c, pos
  <2> QED BY <1>1, <1>3, <2>1, <2>4
<1>8. CASE ~(q < FirstKey(pgm)) /\ ~(q > LastKey(pgm))
  <2>1. FirstKey(pgm) <= q /\ q <= LastKey(pgm) BY <1>1, <1>8
  <2>2. PICK m : m = SegmentIndex(pgm, q) OBVIOUS
  <2>3. PICK s : s = pgm.segments[m] OBVIOUS
  <2>4. PICK p : p = Predicted(s, q) OBVIOUS
  <2>5. PICK next : next = NextIntercept(pgm, m) OBVIOUS
  <2>6. /\ p \in Int /\ R <= p + eps + 2 /\ s.startRank <= R /\ R <= s.endRank + 1
        /\ (R <= s.endRank => p <= R + eps)
        /\ (HeldAt(run, q, R) => R <= s.endRank /\ R <= p + eps + 1)
    BY <2>1, <2>2, <2>3, <2>4, SegmentNear
  <2>7. m \in 1..Len(pgm.segments) BY <2>1, <2>2, SegmentFound
  <2>8. /\ s.startRank \in Nat /\ s.endRank \in Nat /\ s.endRank < c
    BY <2>3, <2>7, IndexedParts
  <2>9. PICK e \in Nat : e = s.endRank BY <2>8
  <2>10. PICK k : k = IF p > 0 THEN p ELSE 0 OBVIOUS
  <2>11. Predict(s, q) = k BY <2>4, <2>10 DEF Predict, Predicted
  <2>12. pos = Clamped(IF k > next THEN next ELSE k, c)
    BY <1>1, <1>8, <2>2, <2>3, <2>5, <2>11 DEF Position
  <2>13. /\ next \in Int /\ 0 <= next /\ R - eps <= next /\ (R <= e => R < next + eps + 2)
         /\ (R = e + 1 /\ m < Len(pgm.segments) => next <= R + eps)
         /\ (m = Len(pgm.segments) => next = c /\ e = c - 1)
    <3>1. CASE m < Len(pgm.segments)
      <4>1. PICK t : t = pgm.segments[m + 1] OBVIOUS
      <4>2. m + 1 \in 1..Len(pgm.segments) /\ m \in 1..Len(pgm.segments) - 1 BY <1>1, <2>7, <3>1
      <4>3. FitsRun(run, eps, t) /\ t.startKey \in Int BY <4>1, <4>2, IndexedParts
      <4>4. t.startRank = e + 1 BY <2>3, <2>9, <4>1, <4>2 DEF Indexed, Chained
      <4>5. next = t.intercept BY <2>5, <3>1, <4>1 DEF NextIntercept
      <4>6. next \in Int /\ e + 1 - eps <= next /\ 0 <= next /\ next <= e + 1 + eps
        <5>1. /\ t.intercept \in Int /\ t.startRank - eps <= t.intercept
              /\ 0 <= t.intercept /\ t.intercept <= t.startRank + eps
          BY <1>1, <4>3, InterceptNear
        <5>2. e + 1 - eps = (e + 1) - eps BY <1>1
        <5> QED BY <4>4, <4>5, <5>1, <5>2
      <4> HIDE DEF eps, c, pos
      <4>7. R <= e + 1 BY <2>6, <2>9
      <4>8. R - eps <= next /\ (R <= e => R < next + eps + 2) BY <1>1, <1>3, <4>6, <4>7
      <4>9. R = e + 1 => next <= R + eps BY <4>6
      <4>10. m # Len(pgm.segments) BY <1>1, <3>1
      <4> QED BY <4>6, <4>8, <4>9, <4>10
    <3>2. CASE ~(m < Len(pgm.segments))
      <4>1. next = c BY <1>1, <2>5, <3>2 DEF NextIntercept
      <4>2. m = Len(pgm.segments) BY <1>1, <2>7, <3>2
      <4>3. e = c - 1 BY <2>3, <2>9, <4>2 DEF Indexed
      <4> HIDE DEF eps, c, pos
      <4>4. next \in Int /\ 0 <= next /\ R - eps <= next /\ (R <= e => R < next + eps + 2)
        BY <1>1, <1>3, <4>1
      <4> QED BY <3>2, <4>1, <4>3, <4>4
    <3> QED BY <3>1, <3>2
  <2>14. R <= e \/ (R = e + 1 /\ m < Len(pgm.segments)) \/ (R = e + 1 /\ m = Len(pgm.segments))
    <3> HIDE DEF eps, c, pos
    <3> QED BY <1>1, <1>3, <2>6, <2>7, <2>9
  <2>15. /\ k \in Nat /\ R <= k + eps + 2 /\ (R <= e => k <= R + eps)
         /\ (HeldAt(run, q, R) => R < k + eps + 2 /\ R <= e)
    <3> HIDE DEF eps, c, pos
    <3> QED BY <1>1, <1>3, <2>6, <2>9, <2>10
  <2>16. PICK w : w = IF k > next THEN next ELSE k OBVIOUS
  <2>17. w \in Nat /\ R <= w + eps + 2 /\ w - eps <= R /\ (HeldAt(run, q, R) => R < w + eps + 2)
    <3> HIDE DEF eps, c, pos
    <3>1. w \in Nat /\ w <= k /\ w <= next /\ (w = k \/ w = next) BY <2>13, <2>15, <2>16
    <3>2. R <= w + eps + 2 BY <1>1, <1>3, <2>13, <2>15, <3>1
    <3>3. R <= e => w - eps <= R BY <1>1, <1>3, <2>9, <2>15, <3>1
    <3>4. R = e + 1 /\ m < Len(pgm.segments) => w - eps <= R BY <1>1, <1>3, <2>13, <3>1
    <3>5. R = e + 1 /\ m = Len(pgm.segments) => w - eps <= R BY <1>1, <1>3, <2>13, <3>1
    <3>6. HeldAt(run, q, R) => R < w + eps + 2 BY <2>13, <2>15, <3>1
    <3> QED BY <2>14, <3>1, <3>2, <3>3, <3>4, <3>5, <3>6
  <2>18. pos = Clamped(w, c) BY <2>12, <2>16
  <2> HIDE DEF eps, c, pos
  <2>19. pos = IF w > c THEN c ELSE w BY <2>17, <2>18 DEF Clamped
  <2> QED BY <1>1, <1>3, <2>17, <2>19
<1> QED BY <1>6, <1>7, <1>8

-----------------------------------------------------------------------------
(* The construction. *)

\* BatchIndex is an index of the keys added.
LEMMA ConstructedIndexed ==
  ASSUME Constructed, keys # <<>>
  PROVE  Indexed(BatchIndex, keys)
<1>1. PgmTypeOK /\ KeysSorted BY DEF Constructed, Fitted, Model
<1>2. keys \in Seq(Int) /\ epsilon \in Nat BY <1>1, BandTypes
<1>3. /\ Segments \in Seq(SegmentType) /\ Chained(keys, epsilon, Segments)
      /\ Segments # <<>> /\ Segments[Len(Segments)].endRank = Len(keys) - 1
  BY SegmentsChained DEF Constructed
<1>4. /\ BatchIndex.epsilon = epsilon /\ BatchIndex.count = Len(keys)
      /\ BatchIndex.segments = Segments
  BY DEF BatchIndex
<1>5. Sorted(keys) BY <1>1 DEF Sorted, KeysSorted
<1> QED BY <1>2, <1>3, <1>4, <1>5 DEF Indexed

\* Its windows hold the lower bound of every key, and end behind its own keys.
LEMMA ConstructedWindows ==
  ASSUME Constructed
  PROVE  WindowHoldsLowerBound
<1> SUFFICES ASSUME NEW q \in KeyUniverse
             PROVE  \E pos \in Window(BatchIndex, q).lo..Window(BatchIndex, q).hi :
                      /\ IsLowerBound(keys, q, pos)
                      /\ HeldAt(keys, q, pos) => pos < Window(BatchIndex, q).hi
  BY DEF WindowHoldsLowerBound
<1>1. PgmTypeOK /\ KeysSorted /\ q \in Int BY UniverseAssumption DEF Constructed, Fitted, Model
<1>2. keys \in Seq(Int) BY <1>1, BandTypes
<1>3. CASE keys = <<>>
  <2>1. BatchIndex.count = 0 BY <1>3 DEF BatchIndex
  <2>2. Window(BatchIndex, q) = [lo |-> 0, hi |-> 0] BY <2>1 DEF Window
  <2>3. IsLowerBound(keys, q, 0) /\ ~HeldAt(keys, q, 0) BY <1>3 DEF IsLowerBound, HeldAt
  <2>4. 0 \in 0..0 OBVIOUS
  <2> QED BY <2>2, <2>3, <2>4
<1>4. CASE keys # <<>>
  <2>1. Indexed(BatchIndex, keys) BY <1>4, ConstructedIndexed
  <2>2. Sorted(keys) BY <1>1 DEF Sorted, KeysSorted
  <2>3. PICK pos \in 0..Len(keys) : IsLowerBound(keys, q, pos) BY <1>1, <1>2, <2>2, LowerBoundExists
  <2>4. /\ pos \in Window(BatchIndex, q).lo..Window(BatchIndex, q).hi
        /\ HeldAt(keys, q, pos) => pos < Window(BatchIndex, q).hi
    BY <1>1, <2>1, <2>3, WindowHolds
  <2> QED BY <2>3, <2>4
<1> QED BY <1>3, <1>4

\* Every state of the construction has the invariant.
LEMMA PgmConstructed == PgmSpec => []Constructed
<1>1. PgmInit => Constructed BY ConstructedInit DEF PgmInit
<1>2. Constructed /\ [PgmNext]_pgmVars => Constructed'
  BY ConstructedStep, ConstructedStays DEF PgmNext
<1> QED BY <1>1, <1>2, PTL DEF PgmSpec

\* pgm.py, _rank_line_certificate: the certified line of every segment passes the
\* clipped band of each of its points, also of those the hulls have dropped.
THEOREM CertificatesInBand == PgmSpec => []CertificateInBand
<1>1. Constructed => CertificateInBand BY ConstructedInBand
<1> QED BY <1>1, PgmConstructed, PTL

\* pgm.py, add_point: a point is rejected only if no line at all passes the bands
\* of the segment and its own; the greedy segments are as long as they can be.
THEOREM SegmentsAreMaximal == PgmSpec => []SegmentsMaximal
<1>1. Constructed => SegmentsMaximal BY DEF Constructed, Closed
<1> QED BY <1>1, PgmConstructed, PTL

\* pgm.py, make_segmentation and the incremental builder: the segments divide
\* the run without gap or overlap, with the keys at their first and last rank.
THEOREM SegmentsDivideTheRun == PgmSpec => []SegmentsTile
<1>1. Constructed => SegmentsTile BY ConstructedTile
<1> QED BY <1>1, PgmConstructed, PTL

\* pgm.py, search: the interval of any key, stored or not, holds its lower bound,
\* and that of a stored key ends behind it, though the intercept is rounded and
\* the prediction cut off and capped.
THEOREM WindowsHoldLowerBound == PgmSpec => []WindowHoldsLowerBound
<1>1. Constructed => WindowHoldsLowerBound BY ConstructedWindows
<1> QED BY <1>1, PgmConstructed, PTL
=============================================================================
