---------------------------- MODULE IntegerSets -----------------------------
(***************************************************************************)
(* Sets of integers: the least element that proofs by induction argue      *)
(* from, what the operators Min and Max of the community modules return    *)
(* for the sets the models ask about, the ranks of a finite set, which     *)
(* number its elements in order, and sums of integers over finite sets.    *)
(***************************************************************************)
EXTENDS Integers, FiniteSetsExt, FiniteSetTheorems, WellFoundedInduction, TLAPS

\* A set of natural numbers that is not empty has a least element.
LEMMA LeastNat ==
  ASSUME NEW T \in SUBSET Nat, T # {}
  PROVE  \E x \in T : \A y \in T : x <= y
<1> DEFINE R == OpToRel(<,Nat)
<1>1. IsWellFoundedOn(R, Nat)
  BY NatLessThanWellFounded
<1>2. \A x \in Nat, y \in Nat : x < y => <<x, y>> \in R
  BY DEF OpToRel
<1> HIDE DEF R
<1>3. PICK x \in T : \A y \in T : ~ (<<y, x>> \in R)
  BY <1>1, WFMin
<1>4. \A y \in T : ~(y < x)
  BY <1>2, <1>3
<1>5. \A y \in T : x <= y
  BY <1>4
<1> QED BY <1>5

\* Min of a set of integers with a lower bound is its least element.
LEMMA MinIsLeast ==
  ASSUME NEW T \in SUBSET Int, T # {}, NEW a \in Int, \A x \in T : a <= x
  PROVE  Min(T) \in T /\ \A x \in T : Min(T) <= x
<1> DEFINE U == {x - a : x \in T}
<1>1. U \in SUBSET Nat /\ U # {}
  <2>1. \A x \in T : x - a \in Nat
    OBVIOUS
  <2> QED BY <2>1
<1>2. PICK u \in U : \A y \in U : u <= y
  <2> HIDE DEF U
  <2> QED BY <1>1, LeastNat
<1>3. PICK t \in T : u = t - a
  BY <1>2
<1>4. \A x \in T : t <= x
  <2> SUFFICES ASSUME NEW x \in T PROVE t <= x OBVIOUS
  <2>1. u <= x - a BY <1>2
  <2> QED BY <2>1, <1>3
<1>5. \E y \in T : \A x \in T : y <= x
  BY <1>4
<1> QED BY <1>5 DEF Min

\* Max of a set of integers with an upper bound is its greatest element.
LEMMA MaxIsGreatest ==
  ASSUME NEW T \in SUBSET Int, T # {}, NEW b \in Int, \A x \in T : x <= b
  PROVE  Max(T) \in T /\ \A x \in T : x <= Max(T)
<1> DEFINE U == {b - x : x \in T}
<1>1. U \in SUBSET Nat /\ U # {}
  <2>1. \A x \in T : b - x \in Nat
    OBVIOUS
  <2> QED BY <2>1
<1>2. PICK u \in U : \A y \in U : u <= y
  <2> HIDE DEF U
  <2> QED BY <1>1, LeastNat
<1>3. PICK t \in T : u = b - t
  BY <1>2
<1>4. \A x \in T : x <= t
  <2> SUFFICES ASSUME NEW x \in T PROVE x <= t OBVIOUS
  <2>1. u <= b - x BY <1>2
  <2> QED BY <2>1, <1>3
<1>5. \E y \in T : \A x \in T : x <= y
  BY <1>4
<1> QED BY <1>5 DEF Max

-----------------------------------------------------------------------------
(* Ranks. *)

\* How many elements of S are smaller than k.
RankOf(S, k) == Cardinality({j \in S : j < k})

\* The elements of S whose ranks lie from a up to, not including, b.
Ranked(S, a, b) == {j \in S : a <= RankOf(S, j) /\ RankOf(S, j) < b}

LEMMA RankType ==
  ASSUME NEW S \in SUBSET Int, IsFiniteSet(S), NEW k \in Int
  PROVE  RankOf(S, k) \in 0..Cardinality(S)
<1>1. {j \in S : j < k} \in SUBSET S
  OBVIOUS
<1>2. Cardinality({j \in S : j < k}) <= Cardinality(S) /\ IsFiniteSet({j \in S : j < k})
  BY <1>1, FS_Subset
<1>3. Cardinality({j \in S : j < k}) \in Nat /\ Cardinality(S) \in Nat
  BY <1>2, FS_CardinalityType
<1> QED
  BY <1>2, <1>3 DEF RankOf

\* A larger number has at least the rank of a smaller one, and a larger rank
\* than an element of the set.
LEMMA RankMonotone ==
  ASSUME NEW S \in SUBSET Int, IsFiniteSet(S), NEW a \in Int, NEW b \in Int, a < b
  PROVE  RankOf(S, a) <= RankOf(S, b) /\ (a \in S => RankOf(S, a) < RankOf(S, b))
<1> DEFINE A == {j \in S : j < a}
           B == {j \in S : j < b}
<1>1. A \in SUBSET B /\ B \in SUBSET S
  <2>1. \A j \in S : j < a => j < b
    OBVIOUS
  <2> QED
    BY <2>1
<1>2. a \in S => a \in B /\ a \notin A
  OBVIOUS
<1> HIDE DEF A, B
<1>3. IsFiniteSet(B) /\ Cardinality(A) <= Cardinality(B)
  BY <1>1, FS_Subset
<1>4. IsFiniteSet(A) /\ (Cardinality(B) = Cardinality(A) => B = A)
  BY <1>1, <1>3, FS_Subset
<1>5. Cardinality(A) \in Nat /\ Cardinality(B) \in Nat
  BY <1>3, <1>4, FS_CardinalityType
<1>6. a \in S => Cardinality(A) < Cardinality(B)
  BY <1>2, <1>3, <1>4, <1>5
<1> QED
  BY <1>3, <1>6 DEF RankOf, A, B

\* So the order of the ranks is the order of the numbers.
LEMMA RankOrder ==
  ASSUME NEW S \in SUBSET Int, IsFiniteSet(S), NEW a \in S, NEW b \in Int
  PROVE  /\ RankOf(S, a) < RankOf(S, b) <=> a < b
         /\ b \in S /\ RankOf(S, a) = RankOf(S, b) => a = b
<1>1. RankOf(S, a) \in Int /\ RankOf(S, b) \in Int
  BY RankType
<1>2. a < b => RankOf(S, a) < RankOf(S, b)
  BY RankMonotone
<1>3. b < a => RankOf(S, b) <= RankOf(S, a) /\ (b \in S => RankOf(S, b) < RankOf(S, a))
  BY RankMonotone
<1> QED
  BY <1>1, <1>2, <1>3

LEMMA RankBelowSize ==
  ASSUME NEW S \in SUBSET Int, IsFiniteSet(S), NEW k \in S
  PROVE  RankOf(S, k) < Cardinality(S)
<1>1. {j \in S : j < k} \in SUBSET S /\ k \notin {j \in S : j < k}
  OBVIOUS
<1>2. Cardinality({j \in S : j < k}) <= Cardinality(S)
      /\ Cardinality({j \in S : j < k}) # Cardinality(S)
  BY <1>1, FS_Subset
<1>3. RankOf(S, k) \in Int /\ Cardinality(S) \in Int
  BY RankType, FS_CardinalityType
<1> QED
  BY <1>2, <1>3 DEF RankOf

\* The ranks of a finite set are all the numbers below its size.
LEMMA RankOnto ==
  ASSUME NEW S \in SUBSET Int, IsFiniteSet(S), NEW r \in 0..Cardinality(S) - 1
  PROVE  \E k \in S : RankOf(S, k) = r
<1> DEFINE n == Cardinality(S)
           f == [k \in S |-> RankOf(S, k)]
<1>1. n \in Nat
  BY FS_CardinalityType
<1>2. \A k \in S : RankOf(S, k) \in 0..n - 1
  BY <1>1, RankType, RankBelowSize
<1>3. \A a, b \in S : RankOf(S, a) = RankOf(S, b) => a = b
  BY RankOrder
<1>4. f \in Injection(S, 0..n - 1)
  BY <1>2, <1>3 DEF Injection, IsInjective
<1>5. IsFiniteSet(0..n - 1) /\ Cardinality(0..n - 1) = n
  BY <1>1, FS_Interval
<1>6. f \in Surjection(S, 0..n - 1)
  BY <1>4, <1>5, FS_Injection
<1> QED
  BY <1>6 DEF Surjection

\* A slice of the ranks holds as many elements as it is long.
LEMMA RankedSize ==
  ASSUME NEW S \in SUBSET Int, IsFiniteSet(S),
         NEW a \in Nat, NEW b \in Nat, a <= b, b <= Cardinality(S)
  PROVE  Ranked(S, a, b) \in SUBSET S /\ IsFiniteSet(Ranked(S, a, b)) /\ Cardinality(Ranked(S, a, b)) = b - a
<1> DEFINE T == Ranked(S, a, b)
           f == [k \in T |-> RankOf(S, k)]
<1>1. \A k \in S : RankOf(S, k) \in Int
  BY RankType
<1>2. T \in SUBSET S /\ \A k \in T : RankOf(S, k) \in a..b - 1
  BY <1>1 DEF Ranked
<1>3. \A x, y \in T : RankOf(S, x) = RankOf(S, y) => x = y
  BY <1>2, RankOrder
<1>4. \A r \in a..b - 1 : \E k \in T : RankOf(S, k) = r
  BY RankOnto, FS_CardinalityType DEF Ranked
<1>5. f \in Injection(T, a..b - 1) /\ f \in Surjection(T, a..b - 1)
  BY <1>2, <1>3, <1>4 DEF Injection, IsInjective, Surjection
<1>6. IsFiniteSet(a..b - 1) /\ Cardinality(a..b - 1) = b - a
  <2>1. a \in Int /\ b - 1 \in Int
    OBVIOUS
  <2>2. IsFiniteSet(a..b - 1) /\ Cardinality(a..b - 1) = IF a > b - 1 THEN 0 ELSE (b - 1) - a + 1
    BY <2>1, FS_Interval
  <2> QED
    BY <2>2
<1> QED
  BY <1>2, <1>5, <1>6, FS_Injection

\* In a slice the ranks are those of the whole, counted from its beginning: for
\* its elements and for every number whose rank lies in it.
LEMMA RankInRanked ==
  ASSUME NEW S \in SUBSET Int, IsFiniteSet(S), NEW a \in Nat, NEW b \in Nat, NEW k \in Int,
         a <= RankOf(S, k), RankOf(S, k) <= b
  PROVE  RankOf(Ranked(S, a, b), k) = RankOf(S, k) - a
<1>1. RankOf(S, k) \in Nat /\ RankOf(S, k) <= Cardinality(S)
  BY RankType, FS_CardinalityType
<1>2. \A j \in S : j < k <=> RankOf(S, j) < RankOf(S, k)
  BY RankOrder
<1>3. \A j \in S : RankOf(S, j) \in Int
  BY RankType
<1>4. {j \in Ranked(S, a, b) : j < k} = Ranked(S, a, RankOf(S, k))
  <2> DEFINE r == RankOf(S, k)
  <2>1. r \in Int /\ r <= b
    BY <1>1
  <2> HIDE DEF r
  <2>2. \A j \in S : RankOf(S, j) < b /\ j < k <=> RankOf(S, j) < r
    BY <1>2, <1>3, <2>1 DEF r
  <2> QED
    BY <2>2 DEF Ranked, r
<1>5. Cardinality(Ranked(S, a, RankOf(S, k))) = RankOf(S, k) - a
  BY <1>1, RankedSize
<1> QED
  BY <1>4, <1>5 DEF RankOf
-----------------------------------------------------------------------------
(* Sums over finite sets. *)

\* The sum of f[x] over the elements x of S.
SumOver(f, S) == MapThenSumSet(LAMBDA x : f[x], S)

\* A set of subsets of a finite set has an element none of whose elements can
\* be taken away without leaving it: what an induction on the size of a set
\* needs.
LEMMA SmallestSet ==
  ASSUME NEW S, IsFiniteSet(S), NEW B \in SUBSET (SUBSET S), B # {}
  PROVE  \E s \in B : \A x \in s : s \ {x} \notin B
<1> DEFINE T == {Cardinality(s) : s \in B}
<1>1. ASSUME NEW s \in B PROVE IsFiniteSet(s) /\ Cardinality(s) \in Nat
  <2>1. s \subseteq S OBVIOUS
  <2>2. IsFiniteSet(s) BY <2>1, FS_Subset
  <2> QED BY <2>2, FS_CardinalityType
<1>2. PICK n \in T : \A m \in T : n <= m
  <2>1. T \in SUBSET Nat /\ T # {} BY <1>1
  <2> HIDE DEF T
  <2> QED BY <2>1, LeastNat
<1>3. PICK s \in B : n = Cardinality(s) BY <1>2
<1>4. ASSUME NEW x \in s, s \ {x} \in B PROVE FALSE
  <2>1. Cardinality(s \ {x}) = Cardinality(s) - 1 BY <1>1, FS_RemoveElement
  <2>2. Cardinality(s) <= Cardinality(s \ {x}) BY <1>2, <1>3, <1>4
  <2>3. Cardinality(s) \in Nat BY <1>1
  <2> QED BY <2>1, <2>2, <2>3
<1> QED BY <1>4

\* The element of a set that a sum takes first.
Chosen(s) == CHOOSE x \in s : TRUE

\* The function the sum is read from: for the subsets of S, an element at a time.
SumRec(f, S, g) ==
  g = [s \in SUBSET S |->
         IF s = {} THEN 0
         ELSE f[Chosen(s)] + g[s \ {Chosen(s)}]]

\* There is such a function: for the subsets of at most n elements there is one
\* whatever n, as one for n gives one for n + 1.
LEMMA SumRecExists ==
  ASSUME NEW f, NEW S, IsFiniteSet(S)
  PROVE  \E g : SumRec(f, S, g)
<1> DEFINE c(s) == Chosen(s)
           Q == SUBSET S
           D(n) == {s \in Q : Cardinality(s) <= n}
           P(n) == \E g : g = [s \in D(n) |-> IF s = {} THEN 0 ELSE f[c(s)] + g[s \ {c(s)}]]
<1>1. ASSUME NEW s \in Q
      PROVE  IsFiniteSet(s) /\ Cardinality(s) \in Nat /\ Cardinality(s) <= Cardinality(S)
  <2>1. s \subseteq S OBVIOUS
  <2>2. IsFiniteSet(s) /\ Cardinality(s) <= Cardinality(S) BY <2>1, FS_Subset
  <2> QED BY <2>2, FS_CardinalityType
<1>2. \A s \in Q : Cardinality(s) \in Nat /\ Cardinality(s) <= Cardinality(S)
  BY <1>1
<1>3. \A s \in Q : Cardinality(s) = 0 => s = {}
  <2> SUFFICES ASSUME NEW s \in Q, Cardinality(s) = 0 PROVE s = {}
    OBVIOUS
  <2> QED BY <1>1, FS_EmptySet
<1>4. \A s \in Q : s # {} => c(s) \in S /\ s \ {c(s)} \in Q
  BY DEF Chosen
<1>5. \A s \in Q : s # {} => Cardinality(s \ {c(s)}) = Cardinality(s) - 1
  <2> SUFFICES ASSUME NEW s \in Q, s # {} PROVE Cardinality(s \ {c(s)}) = Cardinality(s) - 1
    OBVIOUS
  <2>1. c(s) \in s BY DEF Chosen
  <2> HIDE DEF c
  <2> QED BY <1>1, <2>1, FS_RemoveElement
<1>6. S \in Q OBVIOUS
<1>7. (\E g : g = [s \in Q |-> IF s = {} THEN 0 ELSE f[c(s)] + g[s \ {c(s)}]])
      => \E g : SumRec(f, S, g)
  BY DEF SumRec
<1> HIDE DEF c, Q
<1>8. P(0)
  <2> DEFINE g == [s \in D(0) |-> 0]
  <2>1. \A s \in D(0) : s = {} BY <1>2, <1>3
  <2>2. g = [s \in D(0) |-> IF s = {} THEN 0 ELSE f[c(s)] + g[s \ {c(s)}]]
    BY <2>1
  <2> QED BY <2>2
<1>9. ASSUME NEW n \in Nat, P(n) PROVE P(n+1)
  <2>1. PICK g : g = [s \in D(n) |-> IF s = {} THEN 0 ELSE f[c(s)] + g[s \ {c(s)}]]
    BY <1>9
  <2> DEFINE h == [s \in D(n+1) |-> IF s = {} THEN 0 ELSE f[c(s)] + g[s \ {c(s)}]]
  <2>2. \A s \in D(n) : s \in D(n+1) /\ h[s] = g[s]
    <3>1. \A s \in D(n) : s \in D(n+1) BY <1>2
    <3> QED BY <3>1, <2>1
  <2>3. \A s \in D(n+1) : s # {} => s \ {c(s)} \in D(n)
    BY <1>2, <1>4, <1>5
  <2>4. \A s \in D(n+1) : s # {} => h[s \ {c(s)}] = g[s \ {c(s)}]
    BY <2>2, <2>3
  <2>5. h = [s \in D(n+1) |-> IF s = {} THEN 0 ELSE f[c(s)] + h[s \ {c(s)}]]
    BY <2>4
  <2> QED BY <2>5
<1>10. \A n \in Nat : P(n)
  <2> SUFFICES ASSUME NEW m \in Nat, ~P(m) PROVE FALSE
    OBVIOUS
  <2> DEFINE T == {n \in Nat : ~P(n)}
  <2> HIDE DEF P
  <2>1. PICK x \in T : \A y \in T : x <= y
    <3>1. T \in SUBSET Nat /\ T # {} OBVIOUS
    <3> QED BY <3>1, LeastNat
  <2>2. x # 0 BY <1>8, <2>1
  <2>3. x - 1 \in Nat /\ P(x - 1) BY <2>1, <2>2
  <2>4. P((x - 1) + 1) BY <2>3, <1>9
  <2>5. (x - 1) + 1 = x OBVIOUS
  <2> QED BY <2>1, <2>4, <2>5
<1>11. \E g : g = [s \in Q |-> IF s = {} THEN 0 ELSE f[c(s)] + g[s \ {c(s)}]]
  <2>1. P(Cardinality(S)) BY <1>2, <1>6, <1>10
  <2>2. D(Cardinality(S)) = Q BY <1>2
  <2> QED BY <2>1, <2>2
<1> QED BY <1>7, <1>11

\* What it is at a set, unfolded once.
LEMMA SumRecAt ==
  ASSUME NEW f, NEW S, NEW g, SumRec(f, S, g), NEW s \in SUBSET S
  PROVE  g[s] = IF s = {} THEN 0
                ELSE f[Chosen(s)] + g[s \ {Chosen(s)}]
BY DEF SumRec

LEMMA SumRecUnique ==
  ASSUME NEW f, NEW S, IsFiniteSet(S), NEW g, SumRec(f, S, g), NEW h, SumRec(f, S, h)
  PROVE  \A s \in SUBSET S : g[s] = h[s]
<1> DEFINE B == {s \in SUBSET S : g[s] # h[s]}
<1> SUFFICES ASSUME B # {} PROVE FALSE OBVIOUS
<1>1. PICK s \in B : \A x \in s : s \ {x} \notin B
  <2>1. B \in SUBSET (SUBSET S) OBVIOUS
  <2> HIDE DEF B
  <2> QED BY <2>1, SmallestSet
<1>2. s \in SUBSET S /\ g[s] # h[s] BY <1>1
<1> DEFINE c == Chosen(s)
<1>3. /\ g[s] = IF s = {} THEN 0 ELSE f[c] + g[s \ {c}]
      /\ h[s] = IF s = {} THEN 0 ELSE f[c] + h[s \ {c}]
  BY <1>2, SumRecAt
<1>4. s # {} BY <1>2, <1>3
<1>5. c \in s BY <1>4 DEF Chosen
<1> HIDE DEF c
<1>6. g[s \ {c}] = h[s \ {c}] BY <1>1, <1>2, <1>5
<1> QED BY <1>2, <1>3, <1>4, <1>6

\* Hence the sum is its value, at S and at every part of S.
LEMMA SumRecIs ==
  ASSUME NEW f, NEW S, IsFiniteSet(S), NEW g, SumRec(f, S, g)
  PROVE  g[S] = SumOver(f, S)
<1> DEFINE I == CHOOSE h : SumRec(f, S, h)
<1>1. SumRec(f, S, I) BY SumRecExists
<1>2. SumOver(f, S) = I[S] BY DEF SumOver, MapThenSumSet, MapThenFoldSet, SumRec, Chosen
<1> HIDE DEF I
<1>3. S \in SUBSET S OBVIOUS
<1> QED BY <1>1, <1>2, <1>3, SumRecUnique

LEMMA SumRecPart ==
  ASSUME NEW f, NEW S, IsFiniteSet(S), NEW g, SumRec(f, S, g), NEW T \in SUBSET S
  PROVE  g[T] = SumOver(f, T)
<1> DEFINE h == [s \in SUBSET T |-> g[s]]
<1>1. IsFiniteSet(T) BY FS_Subset
<1>2. \A s \in SUBSET T : h[s] = IF s = {} THEN 0
                                 ELSE f[Chosen(s)] + h[s \ {Chosen(s)}]
  <2> SUFFICES ASSUME NEW s \in SUBSET T
               PROVE  h[s] = IF s = {} THEN 0
                             ELSE f[Chosen(s)] + h[s \ {Chosen(s)}]
    OBVIOUS
  <2> DEFINE c == Chosen(s)
  <2>1. s \in SUBSET S OBVIOUS
  <2>2. g[s] = IF s = {} THEN 0 ELSE f[c] + g[s \ {c}] BY <2>1, SumRecAt
  <2> HIDE DEF c
  <2>3. s \ {c} \in SUBSET T OBVIOUS
  <2>4. h[s] = IF s = {} THEN 0 ELSE f[c] + h[s \ {c}] BY <2>2, <2>3
  <2> QED BY <2>4 DEF c
<1>3. SumRec(f, T, h)
  <2>1. h = [s \in SUBSET T |-> h[s]] OBVIOUS
  <2> HIDE DEF h
  <2> QED BY <1>2, <2>1 DEF SumRec
<1>4. h[T] = g[T] OBVIOUS
<1> HIDE DEF h
<1> QED BY <1>1, <1>3, <1>4, SumRecIs

LEMMA SumEmpty ==
  ASSUME NEW f
  PROVE  SumOver(f, {}) = 0
<1>1. IsFiniteSet({}) BY FS_EmptySet
<1>2. PICK g : SumRec(f, {}, g) BY <1>1, SumRecExists
<1>3. {} \in SUBSET {} OBVIOUS
<1>4. g[{}] = 0 BY <1>2, <1>3, SumRecAt
<1> QED BY <1>1, <1>2, <1>4, SumRecIs

\* The element that is taken first.
LEMMA SumChosen ==
  ASSUME NEW f, NEW S, IsFiniteSet(S), S # {}
  PROVE  \E c \in S : SumOver(f, S) = f[c] + SumOver(f, S \ {c})
<1> DEFINE c == Chosen(S)
<1>1. PICK g : SumRec(f, S, g) BY SumRecExists
<1>2. S \in SUBSET S /\ c \in S /\ S \ {c} \in SUBSET S BY DEF Chosen
<1>3. g[S] = f[c] + g[S \ {c}] BY <1>1, <1>2, SumRecAt
<1> HIDE DEF c
<1>4. g[S] = SumOver(f, S) /\ g[S \ {c}] = SumOver(f, S \ {c}) BY <1>1, <1>2, SumRecPart, SMTT(30)
<1> QED BY <1>2, <1>3, <1>4

\* A sum of integers is one, and of natural numbers too.
LEMMA SumInt ==
  ASSUME NEW f, NEW S, IsFiniteSet(S), \A x \in S : f[x] \in Int
  PROVE  SumOver(f, S) \in Int
<1> DEFINE B == {s \in SUBSET S : SumOver(f, s) \notin Int}
<1> SUFFICES ASSUME B # {} PROVE FALSE OBVIOUS
<1>1. PICK s \in B : \A x \in s : s \ {x} \notin B
  <2>1. B \in SUBSET (SUBSET S) OBVIOUS
  <2> HIDE DEF B
  <2> QED BY <2>1, SmallestSet
<1>2. s \in SUBSET S /\ SumOver(f, s) \notin Int BY <1>1
<1>3. IsFiniteSet(s) BY <1>2, FS_Subset
<1>4. s # {} BY <1>2, SumEmpty
<1>5. PICK c \in s : SumOver(f, s) = f[c] + SumOver(f, s \ {c}) BY <1>3, <1>4, SumChosen
<1>6. SumOver(f, s \ {c}) \in Int BY <1>1, <1>2
<1>7. f[c] \in Int BY <1>2
<1> QED BY <1>2, <1>5, <1>6, <1>7

LEMMA SumNat ==
  ASSUME NEW f, NEW S, IsFiniteSet(S), \A x \in S : f[x] \in Nat
  PROVE  SumOver(f, S) \in Nat
<1> DEFINE B == {s \in SUBSET S : SumOver(f, s) \notin Nat}
<1> SUFFICES ASSUME B # {} PROVE FALSE OBVIOUS
<1>1. PICK s \in B : \A x \in s : s \ {x} \notin B
  <2>1. B \in SUBSET (SUBSET S) OBVIOUS
  <2> HIDE DEF B
  <2> QED BY <2>1, SmallestSet
<1>2. s \in SUBSET S /\ SumOver(f, s) \notin Nat BY <1>1
<1>3. IsFiniteSet(s) BY <1>2, FS_Subset
<1>4. s # {} BY <1>2, SumEmpty
<1>5. PICK c \in s : SumOver(f, s) = f[c] + SumOver(f, s \ {c}) BY <1>3, <1>4, SumChosen
<1>6. SumOver(f, s \ {c}) \in Nat BY <1>1, <1>2
<1>7. f[c] \in Nat BY <1>2
<1> QED BY <1>2, <1>5, <1>6, <1>7

\* Any element can be taken first.
LEMMA SumPick ==
  ASSUME NEW f, NEW S, IsFiniteSet(S), \A y \in S : f[y] \in Int, NEW x \in S
  PROVE  SumOver(f, S) = f[x] + SumOver(f, S \ {x})
<1> DEFINE B == {s \in SUBSET S : \E y \in s : SumOver(f, s) # f[y] + SumOver(f, s \ {y})}
<1> SUFFICES ASSUME B # {} PROVE FALSE OBVIOUS
<1>1. PICK s \in B : \A y \in s : s \ {y} \notin B
  <2>1. B \in SUBSET (SUBSET S) OBVIOUS
  <2> HIDE DEF B
  <2> QED BY <2>1, SmallestSet
<1>2. s \in SUBSET S BY <1>1
<1>3. PICK y \in s : SumOver(f, s) # f[y] + SumOver(f, s \ {y}) BY <1>1
<1>4. IsFiniteSet(s) BY <1>2, FS_Subset
<1>5. PICK c \in s : SumOver(f, s) = f[c] + SumOver(f, s \ {c}) BY <1>3, <1>4, SumChosen
<1>6. c # y BY <1>3, <1>5
<1>7. SumOver(f, s \ {c}) = f[y] + SumOver(f, (s \ {c}) \ {y})
  <2>1. s \ {c} \in SUBSET S /\ s \ {c} \notin B /\ y \in s \ {c} BY <1>1, <1>2, <1>6
  <2> QED BY <2>1
<1>8. SumOver(f, s \ {y}) = f[c] + SumOver(f, (s \ {y}) \ {c})
  <2>1. s \ {y} \in SUBSET S /\ s \ {y} \notin B /\ c \in s \ {y} BY <1>1, <1>2, <1>6
  <2> QED BY <2>1
<1> DEFINE rest == s \ {c, y}
<1>9. (s \ {c}) \ {y} = rest /\ (s \ {y}) \ {c} = rest OBVIOUS
<1>10. SumOver(f, rest) \in Int
  <2>1. IsFiniteSet(rest) BY <1>4, FS_Subset
  <2>2. \A z \in rest : f[z] \in Int BY <1>2
  <2> HIDE DEF rest
  <2> QED BY <2>1, <2>2, SumInt
<1>11. f[c] \in Int /\ f[y] \in Int BY <1>2
<1> HIDE DEF rest
<1>12. /\ SumOver(f, s) = f[c] + (f[y] + SumOver(f, rest))
       /\ SumOver(f, s \ {y}) = f[c] + SumOver(f, rest)
  BY <1>5, <1>7, <1>8, <1>9
<1>13. f[c] + (f[y] + SumOver(f, rest)) = f[y] + (f[c] + SumOver(f, rest))
  BY <1>10, <1>11
<1> QED BY <1>3, <1>12, <1>13

\* An element more adds its value.
LEMMA SumAdd ==
  ASSUME NEW f, NEW S, IsFiniteSet(S), NEW x, x \notin S, \A y \in S \cup {x} : f[y] \in Int
  PROVE  SumOver(f, S \cup {x}) = f[x] + SumOver(f, S)
<1>1. IsFiniteSet(S \cup {x}) BY FS_AddElement
<1>2. (S \cup {x}) \ {x} = S OBVIOUS
<1>3. x \in S \cup {x} OBVIOUS
<1> QED BY <1>1, <1>2, <1>3, SumPick

\* A sum depends on the values that are summed.
LEMMA SumSame ==
  ASSUME NEW f, NEW h, NEW S, IsFiniteSet(S), \A x \in S : f[x] = h[x]
  PROVE  SumOver(f, S) = SumOver(h, S)
<1>1. PICK g : SumRec(f, S, g) BY SumRecExists
<1>2. \A s \in SUBSET S : s # {} => f[Chosen(s)] = h[Chosen(s)]
  <2> SUFFICES ASSUME NEW s \in SUBSET S, s # {}
               PROVE  f[Chosen(s)] = h[Chosen(s)]
    OBVIOUS
  <2>1. Chosen(s) \in s BY DEF Chosen
  <2> QED BY <2>1
<1>3. SumRec(h, S, g)
  <2>1. \A s \in SUBSET S : g[s] = IF s = {} THEN 0
          ELSE h[Chosen(s)] + g[s \ {Chosen(s)}]
    BY <1>1, <1>2, SumRecAt
  <2>2. g = [s \in SUBSET S |-> g[s]] BY <1>1 DEF SumRec
  <2> QED BY <2>1, <2>2 DEF SumRec
<1> QED BY <1>1, <1>3, SumRecIs

\* Of two sets without a common element, the sums add.
LEMMA SumJoin ==
  ASSUME NEW f, NEW S, IsFiniteSet(S), NEW T, IsFiniteSet(T), S \cap T = {},
         \A x \in S \cup T : f[x] \in Int
  PROVE  SumOver(f, S \cup T) = SumOver(f, S) + SumOver(f, T)
<1> DEFINE B == {s \in SUBSET S : SumOver(f, s \cup T) # SumOver(f, s) + SumOver(f, T)}
<1> SUFFICES ASSUME B # {} PROVE FALSE OBVIOUS
<1>0. SumOver(f, T) \in Int BY SumInt
<1>1. PICK s \in B : \A x \in s : s \ {x} \notin B
  <2>1. B \in SUBSET (SUBSET S) OBVIOUS
  <2> HIDE DEF B
  <2> QED BY <2>1, SmallestSet
<1>2. s \in SUBSET S /\ SumOver(f, s \cup T) # SumOver(f, s) + SumOver(f, T) BY <1>1
<1>3. IsFiniteSet(s) BY <1>2, FS_Subset
<1>4. CASE s = {}
  <2>1. s \cup T = T BY <1>4
  <2> QED BY <1>0, <1>2, <1>4, <2>1, SumEmpty
<1>5. CASE s # {}
  <2>1. PICK x \in s : TRUE BY <1>5
  <2> DEFINE r == s \ {x}
  <2>2. SumOver(f, r \cup T) = SumOver(f, r) + SumOver(f, T) BY <1>1, <1>2
  <2>3. /\ IsFiniteSet(r) /\ x \notin r /\ s = r \cup {x} /\ x \notin r \cup T
        /\ s \cup T = (r \cup T) \cup {x}
        /\ \A y \in r \cup {x} : f[y] \in Int
        /\ \A y \in (r \cup T) \cup {x} : f[y] \in Int
    BY <1>2, <1>3, FS_Subset
  <2>4. IsFiniteSet(r \cup T) BY <2>3, FS_Union
  <2> HIDE DEF r
  <2>5. SumOver(f, s) = f[x] + SumOver(f, r) BY <2>3, SumAdd
  <2>6. SumOver(f, s \cup T) = f[x] + SumOver(f, r \cup T) BY <2>3, <2>4, SumAdd
  <2>7. SumOver(f, r) \in Int /\ f[x] \in Int BY <2>3, SumInt
  <2> QED BY <1>0, <1>2, <2>2, <2>5, <2>6, <2>7
<1> QED BY <1>4, <1>5
=============================================================================
