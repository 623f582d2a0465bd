SPECIFICATION Spec
CONSTANTS
  ZeroAddress = "native"
  Conn = {"c1", "c2", "c3"}
  Key <- MCKey
  Order <- MCOrder
  Farm2Pools = 2
  Market <- MCMarket
  Underlying <- MCUnderlying
  Lost <- MCLost
  MaxRounds = 3
  MaxCopies = 2
  MaxFaults = 1
  MaxEdits = 1
INVARIANTS NoWriteIsLost RowsAreWhole
CHECK_DEADLOCK FALSE
