SPECIFICATION FairSpec
CONSTANTS
  Run = {r1, r2}
  Start = 1
  ChunkSize = 2
  LeavesOut = TRUE
  ReadsInside = FALSE
  Exclusive = FALSE
  MaxHead = 5
  MaxFaults = 2
INVARIANTS TypeOK NoGap
PROPERTY CatchesUp
