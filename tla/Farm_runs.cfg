SPECIFICATION FairSpec
CONSTANTS
  Jobs = {"pancake", "apeBSC", "wault", "biswap", "mdexBSC", "mdexHECO", "bakery", "auto", "apeMATIC", "sushiMATIC"}
  Pools = 2
  PoolSize = 1
  MaxEdits = 1
  MaxFaults = 1
INVARIANTS TypeOK RowsAreFilled PoolIsWhole Accounted
PROPERTIES OnlyTornIsOdd OffStaysOff ActiveIsRegistered EndedIsDisabled
