SPECIFICATION Spec
CONSTANTS
  Job = {j1}
  Orphan = {o1}
  Slot = {s1, s2}
  EverySecond = everySecond
  Cron = {everySecond, hourly}
  BadCron = badCron
  Exits = TRUE
  Prompt = TRUE
  DbFails = TRUE
  MaxEdits = 2
  MaxBoots = 2
SYMMETRY Symmetry
INVARIANTS TypeOK WorkExcludesWork WorkingIsMarked UnregisteredIsStopped
PROPERTY DisabledStaysDisabled
CHECK_DEADLOCK FALSE
