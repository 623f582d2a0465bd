SPECIFICATION Spec
CONSTANTS
  ZeroAddress = "native"
  UnknownString = "UNKNOWN"
  Farms <- MCFarms
  Tokens <- MCTokens
  NFTokens <- MCNFTokens
  Markets <- MCMarkets
  Protocols <- MCProtocols
  Names <- MCNames
  NFTContracts <- MCNFTContracts
  Scenes <- MCScenes
  Worth <- MCWorth
  SortsBefore <- MCSortsBefore
  SwapChain = "bsc"
  TokenIn = "A"
  TokenOut = "B"
  AmountIn = 1000
  BaseTokens <- MCBaseTokens
  MaxFaults = 1
  MaxEdits = 1
INVARIANTS AmountsAreOwn NothingOfWorthIsHidden NothingMuchBetterIsHidden
CHECK_DEADLOCK FALSE
