SPECIFICATION Spec
CONSTANTS
  Job = {j1}
  Orphan = {}
  Slot = {s1, s2}
  EverySecond = everySecond
  Cron = {everySecond, hourly}
  BadCron = badCron
  Exits = FALSE
  Prompt = FALSE
  DbFails = FALSE
  MaxEdits = 0
  MaxBoots = 1
INVARIANT WorkingIsMarked
CHECK_DEADLOCK FALSE
