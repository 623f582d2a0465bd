CONSTANTS
  Token = {"w", "t"}
  Lp = {"p", "q", "r"}
  NoCode = {"eoa"}
  Weird = {"odd"}
  Feed = {"w"}
  Dex = {"a", "b"}
  Pairs <- MCPairs
  Compositions <- MCCompositions
  PairChunk = 2
  PriceChunk = 2
  MaxFlight = 2
  MaxFaults = 0
  MaxEdits = 0
SPECIFICATION Spec
INVARIANT WeirdIsSetAside
CHECK_DEADLOCK FALSE
