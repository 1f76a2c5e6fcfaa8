CONSTANTS
  pool_size = 2
  MaxPairs = 3
  MaxChunks = 2
SPECIFICATION FairSpec
INVARIANTS TypeOK StreamOrder MapInStep BothDirectionsMove
PROPERTIES FailureCloses
CHECK_DEADLOCK FALSE
