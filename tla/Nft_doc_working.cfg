SPECIFICATION FairSpec
CONSTANTS
  Run = {r1}
  ChunkSize = 2
  PoolSize = 2
  Exclusive = TRUE
  MaxHead = 6
  MaxFaults = 0
PROPERTY RunsReturn
CHECK_DEADLOCK FALSE
