--------------------------- MODULE BinAllocation ---------------------------
(***************************************************************************)
(* The planner of padded block bins (bin_allocator.py, distribution.py):   *)
(* one call of allocate_block_bins sizes the bins by a binary search,      *)
(* samples one load per bin, sums the loads into a noisy prefix vector and *)
(* hands the run's block ranks out to the bins, left to right.             *)
(*                                                                         *)
(* The real-valued mathematics enters as choices: the verdict of the       *)
(* sizing search's tail test, the sampled loads and the Laplace noise are  *)
(* any value of their range.  Noise is counted in units of 1/Scale of a    *)
(* block.                                                                  *)
(*                                                                         *)
(* A definition marked "Variant" is no part of the specification: it is a  *)
(* plausible mistake in the definition below it, for which some property   *)
(* must fail.                                                              *)
(***************************************************************************)
EXTENDS Integers, Sequences, FiniteSetsExt

CONSTANTS
  BlockCounts,  \* the runs to plan for, in blocks
  Uppers,       \* to_even_up(floor(log(lambda)^5 / epsilon))
  DecayNum,     \* the decay 1 - log(lambda)^-2, as a fraction
  DecayDen,
  Noises,       \* the Laplace samples
  Scale,        \* units of noise in a block
  CastMax       \* _UINT32_MAX

ASSUME CountsAssumption == BlockCounts \subseteq Nat
ASSUME UppersAssumption == \A u \in Uppers : u \in Nat /\ u % 2 = 0
ASSUME DecayAssumption ==
  DecayNum \in Nat \ {0} /\ DecayDen \in Nat \ {0} /\ DecayNum < DecayDen
ASSUME NoiseAssumption == Noises \subseteq Int /\ Scale \in Nat \ {0} /\ CastMax \in Nat

VARIABLES
  phase,         \* where allocate_block_bins is
  blocks,        \* block_count
  lower, upper,  \* bounds of the sizing search
  capacity,      \* bin_capacity_blocks
  tails,         \* verdicts of the tail test, by capacity probed
  loads,         \* sampled_loads
  totals,        \* running values of sum(sampled_loads)
  blockSums,     \* block_sums, by dyadic level
  noisySums,     \* noisy_sums, in units
  prefix,        \* noisy_prefix_sums: prefix[t + 1] is the entry t
  addedError,    \* additive_error
  bins           \* the bins handed out: ranks [start, stop)

search == <<lower, upper, capacity, tails>>
sampling == <<loads, totals>>
prefixing == <<blockSums, noisySums, prefix, addedError>>
allocVars == <<phase, blocks, search, sampling, prefixing, bins>>

Idle ==
  /\ phase = "idle" /\ blocks = 0
  /\ lower = 0 /\ upper = 0 /\ capacity = 0 /\ tails = <<>>
  /\ loads = <<>> /\ totals = <<0>>
  /\ blockSums = <<>> /\ noisySums = <<>> /\ prefix = <<0>> /\ addedError = 0
  /\ bins = <<>>

-----------------------------------------------------------------------------
(* Sizing: compute_bin_capacity_blocks. *)

Larger(a, b) == IF a > b THEN a ELSE b
Smaller(a, b) == IF a < b THEN a ELSE b
Distance(a, b) == IF a > b THEN a - b ELSE b - a

ToEvenUp(n) == n + (n % 2)

\* Variant: the probe is not rounded up to an even capacity.
OddMiddle == (lower + upper) \div 2

Middle == ToEvenUp((lower + upper) \div 2)

\* A degenerate range is resolved as max(2, upper).
Begin(n, u) ==
  /\ phase = "idle"
  /\ phase' = "sizing" /\ blocks' = n
  /\ lower' = 2 /\ upper' = Larger(2, u) /\ capacity' = Larger(2, u)
  /\ UNCHANGED <<tails, sampling, prefixing, bins>>

Searching == phase = "sizing" /\ lower + 2 < upper

Narrow(fails) ==
  IF fails THEN lower' = capacity' + 2 /\ UNCHANGED upper
           ELSE upper' = capacity' /\ UNCHANGED lower

\* One turn of the search: too much weight in the tail asks for larger bins.
Probe(fails) ==
  /\ Searching
  /\ capacity' = Middle
  /\ tails' = [z \in DOMAIN tails \cup {Middle} |-> IF z = Middle THEN fails ELSE tails[z]]
  /\ Narrow(fails)
  /\ UNCHANGED <<phase, blocks, sampling, prefixing, bins>>

CeilDiv(a, b) == (a + b - 1) \div b

\* compute_factor and compute_bin_count: ceil(2 * blocks / (capacity * decay)).
BinCount == CeilDiv(2 * blocks * DecayDen, capacity * DecayNum)

\* The search ends; a run of no block has an empty plan.
Size ==
  /\ phase = "sizing" /\ ~Searching
  /\ phase' = IF blocks = 0 THEN "planned" ELSE "sampling"
  /\ UNCHANGED <<blocks, search, sampling, prefixing, bins>>

-----------------------------------------------------------------------------
(* Sampling. *)

Stray(load) == load > capacity

\* An injected sampler may return a load that no bin can hold.
Sample(load) ==
  /\ phase = "sampling" /\ Len(loads) < BinCount
  /\ IF Stray(load)
     THEN phase' = "strayLoad" /\ UNCHANGED sampling
     ELSE /\ loads' = Append(loads, load)
          /\ totals' = Append(totals, totals[Len(totals)] + load)
          /\ UNCHANGED phase
  /\ UNCHANGED <<blocks, search, prefixing, bins>>

\* Variant: the bins' slots count as capacity, whatever their loads.
SlotsSuffice == BinCount * capacity >= blocks

LoadsSuffice == totals[Len(totals)] >= blocks

\* The bit of each level: 1, doubled from level to level.
Pow2[n \in Nat] == IF n = 0 THEN 1 ELSE 2 * Pow2[n - 1]

\* ceil(log2(bin_count + 1)): the binary digits of the number of bins.
Levels == Cardinality({n \in 0..BinCount : Pow2[n] <= BinCount})

\* Loads that cannot cover the run end the allocation: none is resampled.
CheckLoads ==
  /\ phase = "sampling" /\ Len(loads) = BinCount
  /\ IF LoadsSuffice
     THEN /\ phase' = "prefix"
          /\ blockSums' = [level \in 0..(Levels - 1) |-> 0]
          /\ noisySums' = [level \in 0..(Levels - 1) |-> 0]
     ELSE phase' = "insufficient" /\ UNCHANGED <<blockSums, noisySums>>
  /\ UNCHANGED <<blocks, search, sampling, prefix, addedError, bins>>

-----------------------------------------------------------------------------
(* The noisy prefix sums: compute_noisy_prefix_sums. *)

Bit(t, level) == (t \div Pow2[level]) % 2 = 1
TrailingZeros(t) == CHOOSE n \in 0..t : Bit(t, n) /\ \A m \in 0..(n - 1) : ~Bit(t, m)

SumUpTo(sums, S) == MapThenSumSet(LAMBDA level : sums[level], S)

\* Variant: the highest of the levels below index is left out.
MergedBelow(t, index) ==
  loads[t] + SumUpTo(blockSums, {level \in DOMAIN blockSums : level < index - 1})

\* What the level index takes over: the load and the levels below it.
Merged(t, index) ==
  loads[t] + SumUpTo(blockSums, {level \in DOMAIN blockSums : level < index})

\* The levels below index are merged into it and zeroed.
MergeLevels(sums, index, value) ==
  [level \in DOMAIN sums |->
    IF level < index THEN 0 ELSE IF level = index THEN value ELSE sums[level]]

\* pinned_uint32_cast: clamped, and truncated inside the range.
PinnedCast(units) ==
  IF units <= 0 THEN 0
  ELSE IF units >= CastMax * Scale THEN CastMax
  ELSE units \div Scale

\* Variant: the window is not enforced from above.
ClipBelow(value, current) ==
  IF value + capacity < current THEN current - capacity ELSE value

\* Into [current - capacity, current + capacity].
Clip(value, current) ==
  LET high == IF value > current + capacity THEN current + capacity ELSE value
  IN  IF high + capacity < current THEN current - capacity ELSE high

\* Variant: the estimate is not kept above the previous entry.
FreshEstimate(estimate, previous) == estimate

Monotone(estimate, previous) == Larger(estimate, previous)

\* One turn of the loop, for the bin t.
AddPrefix(noise) ==
  /\ phase = "prefix" /\ Len(prefix) <= BinCount
  /\ LET t       == Len(prefix)
         index   == TrailingZeros(t)
         target  == Merged(t, index)
         current == totals[t + 1]
         value(estimate) == Clip(Monotone(estimate, prefix[t]), current)
     IN  /\ blockSums' = MergeLevels(blockSums, index, target)
         /\ noisySums' = MergeLevels(noisySums, index, target * Scale + noise)
         /\ prefix' = Append(prefix,
              value(PinnedCast(SumUpTo(noisySums', {l \in DOMAIN noisySums : Bit(t, l)}))))
         /\ addedError' = Larger(addedError, Distance(current, prefix'[t + 1]))
  /\ UNCHANGED <<phase, blocks, search, sampling, bins>>

EndPrefix ==
  /\ phase = "prefix" /\ Len(prefix) = BinCount + 1
  /\ phase' = "filling"
  /\ UNCHANGED <<blocks, search, sampling, prefixing, bins>>

-----------------------------------------------------------------------------
(* Filling. *)

Consumed == IF bins = <<>> THEN 0 ELSE bins[Len(bins)].stop

\* Variant: every load is taken for real blocks.
WholeLoad(load) == load

RealCount(load) == Smaller(load, blocks - Consumed)

FillBin ==
  /\ phase = "filling" /\ Len(bins) < BinCount
  /\ bins' = Append(bins, [start |-> Consumed,
                           stop  |-> Consumed + RealCount(loads[Len(bins) + 1])])
  /\ UNCHANGED <<phase, blocks, search, sampling, prefixing>>

\* The constructor of the plan refuses bins that do not cover the run.
Plan ==
  /\ phase = "filling" /\ Len(bins) = BinCount
  /\ phase' = IF Consumed = blocks THEN "planned" ELSE "refused"
  /\ UNCHANGED <<blocks, search, sampling, prefixing, bins>>

-----------------------------------------------------------------------------
Allocate ==
  \/ \E fails \in BOOLEAN : Probe(fails)
  \/ Size
  \/ \E load \in 0..(capacity + 1) : Sample(load)
  \/ CheckLoads
  \/ \E noise \in Noises : AddPrefix(noise)
  \/ EndPrefix \/ FillBin \/ Plan

Request == \E n \in BlockCounts, u \in Uppers : Begin(n, u)

Init == Idle
Next == Request \/ Allocate
Spec == Init /\ [][Next]_allocVars

-----------------------------------------------------------------------------
(* Properties. *)

Phases == {"idle", "sizing", "sampling", "strayLoad", "insufficient", "prefix",
           "filling", "planned", "refused"}

\* Every variable has its type and the vectors grow together.
TypeOK ==
  /\ phase \in Phases /\ blocks \in Nat
  /\ lower \in Nat /\ upper \in Nat /\ capacity \in Nat
  /\ loads \in Seq(Nat) /\ totals \in Seq(Nat) /\ Len(totals) = Len(loads) + 1
  /\ prefix \in Seq(Nat) /\ prefix # <<>> /\ addedError \in Nat
  /\ bins \in Seq([start : Nat, stop : Nat])

\* "The loop can also exit holding a probe that failed the tail test": then a
\* capacity at most two steps larger passes it or is the first candidate.  The
\* capacity is even, as the load sampler demands.
CapacityClose ==
  phase \notin {"idle", "sizing"} =>
    /\ capacity >= 2 /\ capacity % 2 = 0
    /\ capacity = upper \/ (tails[capacity] /\ upper - capacity \in {2, 4})
    /\ upper \in DOMAIN tails => ~tails[upper]

\* The plan has at least two slots for every block of the run, whatever the
\* capacity the search ends with and wherever the ceilings fall.
EnoughSlots ==
  phase \notin {"idle", "sizing"} => BinCount * capacity >= 2 * blocks

\* The dyadic levels of the entry t hold the loads up to t, each of them once.
DyadicSums ==
  phase = "prefix" =>
    LET t == Len(prefix) - 1
    IN  SumUpTo(blockSums, {level \in DOMAIN blockSums : Bit(t, level)}) = totals[t + 1]

\* The noisy prefix never decreases, although every entry is clipped after it
\* was made monotone.
PrefixMonotone == \A m, n \in 1..Len(prefix) : m <= n => prefix[m] <= prefix[n]

\* Whatever the noise, an entry is within one capacity of the true prefix, and
\* the additive error is a bound of every distance that holds the same limit.
PrefixInWindow ==
  /\ \A t \in 1..Len(prefix) : Distance(totals[t], prefix[t]) <= addedError
  /\ addedError <= capacity

\* The bins take the ranks of the run from left to right without a gap, no bin
\* takes more than its load or a rank beyond the run, and loads that were
\* accepted cover the run: the plan's own check never fails.
PlanCovers ==
  /\ \A k \in 1..Len(bins) :
       /\ bins[k].start = IF k = 1 THEN 0 ELSE bins[k - 1].stop
       /\ bins[k].start <= bins[k].stop /\ bins[k].stop <= blocks
       /\ bins[k].stop - bins[k].start <= loads[k]
  /\ phase # "refused"
  /\ phase = "planned" => Consumed = blocks
=============================================================================
