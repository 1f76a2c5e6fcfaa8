CONSTANTS
  pool_size = 2
  MaxPairs = 2
  MaxChunks = 1
SPECIFICATION Spec
INVARIANTS PairIsFound
CHECK_DEADLOCK FALSE
