SPECIFICATION FairScheduledSpec
CONSTANTS
  Job = {j1}
  Indexed = j1
  Orphan = {}
  Slot = {s1, s2}
  EverySecond = everySecond
  Cron = {everySecond, hourly}
  BadCron = badCron
  Exits = FALSE
  Prompt = TRUE
  DbFails = TRUE
  MaxEdits = 1
  MaxBoots = 2
  Start = 1
  ChunkSize = 2
  LeavesOut = TRUE
  ReadsInside = FALSE
  MaxHead = 4
  MaxFaults = 1
INVARIANTS CursorIsFresh
PROPERTIES RunsExclude Indexes CursorNeverBack IndexCatchesUp
CHECK_DEADLOCK FALSE
