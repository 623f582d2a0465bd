-------------------------------- MODULE MultiCall -------------------------------
(***************************************************************************)
(* The contract the program asks a chain through (multicalls), and the     *)
(* wrappers of libs/helper/src/batch-contract.ts around it.  One eth_call  *)
(* carries a whole batch.                                                  *)
(*                                                                         *)
(* Bytes are a set with at most one member, the value they decode to: {}   *)
(* are the empty bytes.  So is what a call comes to: {} if it reverts.     *)
(* A reply is what a staticcall inside of the batch has returned.          *)
(***************************************************************************)
EXTENDS Integers, Sequences

CONSTANTS
  ZeroAddress,  \* address(0), UNKNOWN_ADDRESS
  UnknownString \* "UNKNOWN"

IsEmptyBytes(bytes) == bytes = {}
Decode(bytes) == CHOOSE v \in bytes : TRUE
Reverted == {}

\* A batch reverts with any of its parts.
Batch(results) ==
  IF \E i \in DOMAIN results : results[i] = Reverted
  THEN Reverted ELSE {[i \in DOMAIN results |-> Decode(results[i])]}

\* What a part of a batch comes to when it does not revert.
Safe(reply, unknown) ==
  IF reply.success /\ ~IsEmptyBytes(reply.data) THEN Decode(reply.data) ELSE unknown

-----------------------------------------------------------------------------
(***************************************************************************)
(* ERC20 tokens.  `token` are the replies to name(), symbol(), decimals(). *)
(***************************************************************************)
GetERC20TokenInfos(token) ==
  [name |-> Safe(token.name, UnknownString),
   symbol |-> Safe(token.symbol, UnknownString),
   decimals |-> Safe(token.decimals, 0)]

GetBatchERC20Infos(tokens) == [i \in DOMAIN tokens |-> GetERC20TokenInfos(tokens[i])]

\* Row by row, a row for each user; the zero address stands for the native coin.
GetBatchERC20Balances(users, tokens, balanceOf, coins) ==
  [k \in 1 .. Len(users) * Len(tokens) |->
     LET i == ((k - 1) \div Len(tokens)) + 1
         j == ((k - 1) % Len(tokens)) + 1
     IN  IF tokens[j] # ZeroAddress THEN Safe(balanceOf[users[i]][tokens[j]], 0)
         ELSE coins[users[i]]]

-----------------------------------------------------------------------------
(***************************************************************************)
(* Pairs: `r0` and `r1` are the replies to token0() and token1().          *)
(***************************************************************************)

\* token1 looks at the bytes of token0: with bytes there, empty ones are decoded.
SafePairInfo(pair, r0, r1) ==
  IF r1.success /\ ~IsEmptyBytes(r0.data) /\ IsEmptyBytes(r1.data) THEN Reverted
  ELSE {[pair |-> pair,
         token0 |-> Safe(r0, ZeroAddress),
         token1 |-> IF r1.success /\ ~IsEmptyBytes(r0.data) THEN Decode(r1.data)
                    ELSE ZeroAddress]}

-----------------------------------------------------------------------------
(***************************************************************************)
(* ChainLink feeds; other contracts' views.                                *)
(***************************************************************************)
\* `round` and `places` are the replies to latestRoundData() and decimals().
SafeChainLinkData(round, places) == [answer |-> Safe(round, 0), decimals |-> Safe(places, 0)]

StaticAggregate(requireSuccess, replies) ==
  IF requireSuccess /\ \E i \in DOMAIN replies : ~replies[i].success
  THEN Reverted ELSE {replies}

-----------------------------------------------------------------------------
(***************************************************************************)
(* libs/helper/src/batch-contract.ts: each is one eth_call.                *)
(***************************************************************************)
GetBatchPairInfos(infos) == Batch(infos)
GetBatchStaticAggregator(replies) == StaticAggregate(FALSE, replies)
=============================================================================
