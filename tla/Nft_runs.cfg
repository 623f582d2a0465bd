SPECIFICATION FairSpec
CONSTANTS
  Run = {r1, r2}
  ChunkSize = 2
  PoolSize = 4
  Exclusive = TRUE
  MaxHead = 5
  MaxFaults = 3
INVARIANTS TypeOK StoredOnce LossIsBounded
PROPERTY CatchesUp
CHECK_DEADLOCK FALSE
