\* Every set of up to eight of nine keys in one indexed level, and levels that
\* share keys, are empty, missing, permuted or refused, with any query.
CONSTANTS
  KeyUniverse <- MCKeys
  Epsilons = {0, 1}
  Experiments <- MCExperiments
  QueryKeys <- MCKeys
  Base = 2
  MinLevel = 1
  MinIndexLevel = 2
  ItemsPerBlock = 2
  MaxQueries = 1
SPECIFICATION RefSpec
INVARIANTS CertificateInBand SegmentsMaximal SegmentsTile WindowHoldsLowerBound LookupIsLowerBound ReadBeforeUse AnswerIsNewest SlotsDisjoint
PROPERTIES ReadsOwnRegion
CHECK_DEADLOCK FALSE
