----------------------------- MODULE WalletClients ------------------------------
(***************************************************************************)
(* The clients of the protocols (src/defi), where they say what a wallet   *)
(* has.  Each asks a chain with one batch for all of its rows, cuts the    *)
(* replies into as many for a row as it has asked, and puts them beside    *)
(* the rows again.                                                         *)
(*                                                                         *)
(* A call is [at, view, of]: the contract, its function, and what it is    *)
(* asked about, beside the wallet.  An amount is <<raw, token>>: raw over  *)
(* 10 to the decimals of the token, a row of the database.                 *)
(***************************************************************************)
EXTENDS Searches, MultiCall

Zero == 0
ValidResult(reply) == reply.success /\ ~IsEmptyBytes(reply.data)
Amount(reply) == IF ValidResult(reply) THEN Decode(reply.data) ELSE Zero
DivideDecimals(raw, token) == <<raw, token>>

Call(at, view, of) == [at |-> at, view |-> view, of |-> of]

-----------------------------------------------------------------------------
(***************************************************************************)
(* Farms.  What a client asks for one farm.                                *)
(***************************************************************************)
PancakeSwapFarmCalls(farm) ==
  <<Call(farm.address, "userInfo", farm.pid), Call(farm.address, "pendingCake", farm.pid)>>
PancakeSwapFarm2Calls(farm) ==
  <<Call(farm.address, "userInfo", ""), Call(farm.address, "pendingReward", "")>>
ApeSwapBscFarmCalls(farm) ==
  <<Call(farm.address, "userInfo", farm.pid), Call(farm.address, "pendingCake", farm.pid)>>
ApeSwapMaticFarmCalls(farm) ==
  <<Call(farm.address, "userInfo", farm.pid), Call(farm.address, "pendingBanana", farm.pid),
    Call(farm.data, "pendingTokens", farm.pid)>>
SushiSwapMaticFarmCalls(farm) ==
  <<Call(farm.address, "userInfo", farm.pid), Call(farm.address, "pendingSushi", farm.pid),
    Call(farm.data, "pendingTokens", farm.pid)>>
MdexBscFarmCalls(farm) ==
  <<Call(farm.address, "userInfo", farm.pid), Call(farm.address, "pending", farm.pid)>>
MdexHecoFarmCalls(farm) ==
  <<Call(farm.address, "userInfo", farm.pid), Call(farm.address, "pending", farm.pid)>>
BakerySwapFarmCalls(farm) ==
  <<Call(farm.address, "poolUserInfoMap", farm.data), Call(farm.address, "pendingToken", farm.data)>>
WaultSwapFarmCalls(farm) ==
  <<Call(farm.address, "userInfo", farm.pid), Call(farm.address, "pendingWex", farm.pid)>>
BiSwapFarmCalls(farm) ==
  <<Call(farm.address, "userInfo", farm.pid), Call(farm.address, "pendingBSW", farm.pid)>>
AutoFarmFarmCalls(farm) ==
  <<Call(farm.address, "userInfo", farm.pid), Call(farm.address, "pendingAUTO", farm.pid)>>

\* By the protocol and the name of the farm.
FarmClient ==
  {"pancake.farm", "pancake.farm2", "ape.bsc", "ape.matic", "sushi.matic",
   "mdex.bsc", "mdex.heco", "bakery", "wault", "bi", "auto"}

FarmCalls(client, farm) ==
  CASE client = "pancake.farm" -> PancakeSwapFarmCalls(farm)
    [] client = "pancake.farm2"-> PancakeSwapFarm2Calls(farm)
    [] client = "ape.bsc"      -> ApeSwapBscFarmCalls(farm)
    [] client = "ape.matic"    -> ApeSwapMaticFarmCalls(farm)
    [] client = "sushi.matic"  -> SushiSwapMaticFarmCalls(farm)
    [] client = "mdex.bsc"     -> MdexBscFarmCalls(farm)
    [] client = "mdex.heco"    -> MdexHecoFarmCalls(farm)
    [] client = "bakery"       -> BakerySwapFarmCalls(farm)
    [] client = "wault"        -> WaultSwapFarmCalls(farm)
    [] client = "bi"           -> BiSwapFarmCalls(farm)
    [] client = "auto"         -> AutoFarmFarmCalls(farm)

\* flat(): the batch for all of its farms.
WalletInfoEncode(client, farms) == Flat([i \in DOMAIN farms |-> FarmCalls(client, farms[i])])

\* Variant of Staked: the pending rewards are not looked at.
StakedNow(result) == Amount(result[1]) # Zero

\* The replies about one farm: it is shown if one of them is an amount.
Staked(result) == \E n \in DOMAIN result : Amount(result[n]) # Zero

\* The tokens of the rewards are the ones of the row, as the search had them:
\* what sortByRewardTokens() gives is assigned to the farm, not to the list that
\* the amounts are taken with.
FarmItem(farm, result) ==
  [name |-> farm.name,
   stake |-> DivideDecimals(Amount(result[1]), farm.stake),
   rewards |-> [n \in 1 .. Len(result) - 1 |-> DivideDecimals(Amount(result[n + 1]), farm.rewards[n])]]

\* A reward token that is not there has no decimals: the request fails.
FarmItems(zipped) ==
  LET shown == Filter(zipped, {i \in DOMAIN zipped : Staked(zipped[i][2])})
  IN  IF \E i \in DOMAIN shown : Len(shown[i][1].rewards) < Len(shown[i][2]) - 1 THEN Reverted
      ELSE {[i \in DOMAIN shown |-> FarmItem(shown[i][1], shown[i][2])]}

\* What each client makes of its batch.
PancakeSwapFarmWalletInfo(farms, replies) == FarmItems(Zip(farms, ToSplitWithChunkSize(replies, 2)))
PancakeSwapFarm2WalletInfo(farms, replies) == FarmItems(Zip(farms, ToSplitWithChunkSize(replies, 2)))
ApeSwapBscFarmWalletInfo(farms, replies) == FarmItems(Zip(farms, ToSplitWithChunkSize(replies, 2)))

\* Variant of ApeSwapMaticFarmWalletInfo: cut as the clients without a rewarder do.
ApeSwapMaticFarmWalletInfoInTwos(farms, replies) == FarmItems(Zip(farms, ToSplitWithChunkSize(replies, 2)))
ApeSwapMaticFarmWalletInfo(farms, replies) == FarmItems(Zip(farms, ToSplitWithChunkSize(replies, 3)))
SushiSwapMaticFarmWalletInfo(farms, replies) == FarmItems(Zip(farms, ToSplitWithChunkSize(replies, 3)))
MdexBscFarmWalletInfo(farms, replies) == FarmItems(Zip(farms, ToSplitWithChunkSize(replies, 2)))
MdexHecoFarmWalletInfo(farms, replies) == FarmItems(Zip(farms, ToSplitWithChunkSize(replies, 2)))
BakerySwapFarmWalletInfo(farms, replies) == FarmItems(Zip(farms, ToSplitWithChunkSize(replies, 2)))
WaultSwapFarmWalletInfo(farms, replies) == FarmItems(Zip(farms, ToSplitWithChunkSize(replies, 2)))
BiSwapFarmWalletInfo(farms, replies) == FarmItems(Zip(farms, ToSplitWithChunkSize(replies, 2)))
AutoFarmFarmWalletInfo(farms, replies) == FarmItems(Zip(farms, ToSplitWithChunkSize(replies, 2)))

GetFarmWalletInfo(client, farms, replies) ==
  CASE client = "pancake.farm" -> PancakeSwapFarmWalletInfo(farms, replies)
    [] client = "pancake.farm2"-> PancakeSwapFarm2WalletInfo(farms, replies)
    [] client = "ape.bsc"      -> ApeSwapBscFarmWalletInfo(farms, replies)
    [] client = "ape.matic"    -> ApeSwapMaticFarmWalletInfo(farms, replies)
    [] client = "sushi.matic"  -> SushiSwapMaticFarmWalletInfo(farms, replies)
    [] client = "mdex.bsc"     -> MdexBscFarmWalletInfo(farms, replies)
    [] client = "mdex.heco"    -> MdexHecoFarmWalletInfo(farms, replies)
    [] client = "bakery"       -> BakerySwapFarmWalletInfo(farms, replies)
    [] client = "wault"        -> WaultSwapFarmWalletInfo(farms, replies)
    [] client = "bi"           -> BiSwapFarmWalletInfo(farms, replies)
    [] client = "auto"         -> AutoFarmFarmWalletInfo(farms, replies)

\* sushi.matic knows the reward token of its rewarders; ape.matic asks, for a
\* farm that is to be shown.
AsksRewarder(client, replies) ==
  LET results == ToSplitWithChunkSize(replies, 3)
  IN  client = "ape.matic" /\ \E i \in DOMAIN results : Staked(results[i])

-----------------------------------------------------------------------------
(***************************************************************************)
(* NFTs.                                                                   *)
(***************************************************************************)

\* `spelled` is how the interaction writes the address: "checksum", as the
\* constants do, or "lower".  Two of the three clients compare as it is.
NFTClient == {"pancake", "ape.bsc", "air"}
HasNFToken(client, spelled) == client = "pancake" \/ spelled = "checksum"

Null == -1 \* no index
TokenOfOwnerByIndex(replies) ==
  RemoveNull([i \in DOMAIN replies |-> IF ValidResult(replies[i]) THEN Decode(replies[i].data) ELSE Null], Null)

-----------------------------------------------------------------------------
(***************************************************************************)
(* Lending markets of Venus.                                               *)
(***************************************************************************)
LendingCalls(market) ==
  <<Call(market.address, "balanceOf", ""), Call(market.address, "exchangeRateStored", ""),
    Call(market.address, "borrowBalanceStored", "")>>

LendingInfoEncode(markets) == Flat([i \in DOMAIN markets |-> LendingCalls(markets[i])])

\* borrowBalance looks at the bytes of exchangeRate.
BorrowBalance(rate, borrow) == borrow.success /\ ~IsEmptyBytes(rate.data)

\* The amount supplied is balanceOf x exchangeRate, shown by its balance.
LendingItem(pair) ==
  [name |-> pair[1].name,
   supply |-> DivideDecimals(IF Amount(pair[2][2]) = Zero THEN Zero ELSE Amount(pair[2][1]), pair[1].token),
   borrow |-> DivideDecimals(IF BorrowBalance(pair[2][2], pair[2][3]) THEN Decode(pair[2][3].data) ELSE Zero,
                             pair[1].token)]

GetLendingWalletInfo(markets, replies) ==
  LET zipped == Zip(markets, ToSplitWithChunkSize(replies, 3))
  IN  IF \E i \in DOMAIN zipped : /\ BorrowBalance(zipped[i][2][2], zipped[i][2][3])
                                  /\ IsEmptyBytes(zipped[i][2][3].data)
      THEN Reverted
      ELSE LET items == [i \in DOMAIN zipped |-> LendingItem(zipped[i])]
           IN  {Filter(items, {i \in DOMAIN items : items[i].supply[1] # Zero \/ items[i].borrow[1] # Zero})}
=============================================================================
