SPECIFICATION FairSpec
CONSTANTS
  Job = {j1}
  Orphan = {o1}
  Slot = {s1, s2}
  EverySecond = everySecond
  Cron = {everySecond, hourly}
  BadCron = badCron
  Exits = FALSE
  Prompt = FALSE
  DbFails = FALSE
  MaxEdits = 1
  MaxBoots = 2
INVARIANTS ArmedMarkIsOwned FatalIsRecorded
PROPERTIES WorkRecurs CronIsFollowed OrphanIsDisabled
CHECK_DEADLOCK FALSE
