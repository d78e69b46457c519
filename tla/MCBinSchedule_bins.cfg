\* Two plans with loads that cover the run or not, whatever the noise, bound to
\* runs that interleave.
CONSTANTS
  BlockCounts = {0, 1, 2, 3}
  Uppers = {0, 8}
  DecayNum = 9
  DecayDen = 10
  Noises <- MCNoises
  Scale = 2
  CastMax = 6
  RunViews <- MCRunViews
  ItemsPerBlock = 2
  MaxTargetBlocks = 2
SPECIFICATION ScheduleFair
INVARIANTS CapacityClose DyadicSums PrefixMonotone PrefixInWindow PlanCovers MatchesPinnedLoop EveryBinOnce
PROPERTIES ReadBeforeArrival ScheduleEnds
CHECK_DEADLOCK FALSE
