CONSTANTS
  Token = {"w", "t"}
  Lp = {"p", "q", "r"}
  NoCode = {"eoa"}
  Weird = {"odd"}
  Feed = {"w"}
  Dex = {"a", "b"}
  Pairs <- MCPairs
  Compositions <- MCCompositions
  PairChunk = 2
  PriceChunk = 2
  MaxFlight = 2
  MaxFaults = 1
  MaxEdits = 1
SPECIFICATION FairSpec
INVARIANTS TypeOK PlainPairsAreKept UndefinedIsNested
PROPERTIES FeedPriceStays PricesHeal
CHECK_DEADLOCK FALSE
