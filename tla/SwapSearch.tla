------------------------------- MODULE SwapSearch -------------------------------
(***************************************************************************)
(* src/swap/swap.service.ts: what each exchange of a chain gives for some  *)
(* of a token, over up to three of its pairs.                              *)
(*                                                                         *)
(* A pair that the exchange has not is one without code: its call succeeds *)
(* with empty bytes.  Prices are fractions of the same input, so they are  *)
(* compared by their outputs.                                              *)
(***************************************************************************)
EXTENDS Searches, MultiCall

CONSTANT SortsBefore(_, _)  \* of two tokens: by address

Sorted(a, b) == IF SortsBefore(a, b) THEN <<a, b>> ELSE <<b, a>>

\* The direct pair, each of the two against the bases, the bases against each other.
GetAllCurrencyCombinations(tokenA, tokenB, commonPath) ==
  LET Against(token) == [i \in DOMAIN commonPath |-> <<token, commonPath[i]>>]
      all == <<<<tokenA, tokenB>>>> \o Against(tokenA) \o Against(tokenB)
             \o Flat([i \in DOMAIN commonPath |-> Against(commonPath[i])])
      two == Filter(all, {i \in DOMAIN all : all[i][1] # all[i][2]})
      sorted == [i \in DOMAIN two |-> Sorted(two[i][1], two[i][2])]
  IN  Filter(sorted, {i \in DOMAIN sorted : \A j \in 1 .. i - 1 : sorted[j] # sorted[i]})

\* protocolWithService: the exchanges of the chain whose client has a factory.
OnApplicationBootstrap(protocols, on, chain) ==
  LET exchanges == ProtocolSearch(protocols, on, "useAMM")
  IN  Filter(exchanges, {i \in DOMAIN exchanges : exchanges[i].network = chain /\ exchanges[i].factory})

\* computePairAddress() for each exchange and pair, in one list.
ReserveInfoEncode(protocols, tokens) ==
  Flat([i \in DOMAIN protocols |-> [j \in DOMAIN tokens |-> <<protocols[i].name, tokens[j]>>]])

HasReserves(reply) == reply.success /\ ~IsEmptyBytes(reply.data)

\* Variant of GetProtocolPairs: the reserves that came, pair by pair.
GetProtocolPairsByPlace(protocols, tokens, replies) ==
  LET zipped == Zip(protocols, ToSplitWithChunkSize(replies, Len(tokens)))
  IN  [i \in DOMAIN zipped |->
        LET came == Filter(zipped[i][2], {j \in DOMAIN zipped[i][2] : HasReserves(zipped[i][2][j])})
        IN  [protocol |-> zipped[i][1].name,
             pairList |-> [k \in DOMAIN came |-> [tokens |-> tokens[k], reserves |-> Decode(came[k].data)]]]]

\* The pairs of each exchange: `index` is where the pair is among all of them.
GetProtocolPairs(protocols, tokens, replies) ==
  LET zipped == Zip(protocols, ToSplitWithChunkSize(replies, Len(tokens)))
  IN  [i \in DOMAIN zipped |->
        LET index == Filter([j \in DOMAIN tokens |-> j], {j \in DOMAIN tokens : HasReserves(zipped[i][2][j])})
        IN  [protocol |-> zipped[i][1].name,
             pairList |-> [k \in DOMAIN index |->
                             [tokens |-> tokens[index[k]], reserves |-> Decode(zipped[i][2][index[k]].data)]]]]

-----------------------------------------------------------------------------
(***************************************************************************)
(* @uniswap/v2-sdk: the best output over up to maxHops pairs, each of them *)
(* used once.  A fee of 3 in 1000 is taken from what goes in.              *)
(***************************************************************************)
GetOutputAmount(reserveIn, reserveOut, amount) ==
  (amount * 997 * reserveOut) \div (reserveIn * 1000 + amount * 997)

\* A way: the pairs it uses, and what of which token is had at its end.
Start(tokenIn, amount) == [used |-> {}, token |-> tokenIn, amount |-> amount]

After(way, pair) ==
  LET in == IF pair.tokens[1] = way.token THEN 1 ELSE 2
  IN  [used |-> way.used \cup {pair}, token |-> pair.tokens[3 - in],
       amount |-> GetOutputAmount(pair.reserves[in], pair.reserves[3 - in], way.amount)]

\* One more pair, that has the token and gives some of the other; at the token
\* asked for a way ends.
Longer(ways, pairs, tokenOut) ==
  LET next == {step \in ways \X pairs :
                 /\ step[1].token \in {step[2].tokens[1], step[2].tokens[2]} \ {tokenOut}
                 /\ step[2] \notin step[1].used
                 /\ step[2].reserves[1] # 0 /\ step[2].reserves[2] # 0}
  IN  {way \in {After(step[1], step[2]) : step \in next} : way.amount > 0}

\* Over up to maxHops pairs, of at most three.
Outputs(pairs, tokenIn, tokenOut, amount, maxHops) ==
  LET one == Longer({Start(tokenIn, amount)}, pairs, tokenOut)
      two == Longer(one, pairs, tokenOut)
      three == Longer(two, pairs, tokenOut)
      ways == UNION {<<one, two, three>>[n] : n \in 1 .. maxHops}
  IN  {way.amount : way \in {w \in ways : w.token = tokenOut}}

BestTradeExactIn(pairs, tokenIn, tokenOut, amount, maxHops) ==
  LET outputs == Outputs({pairs[i] : i \in DOMAIN pairs}, tokenIn, tokenOut, amount, maxHops)
  IN  {output \in outputs : \A other \in outputs : other <= output}

-----------------------------------------------------------------------------

\* Percent('50', '10000') more than the trade that is best yet.
IsTradeBetter(best, current) ==
  IF best = {} \/ current = {} THEN best = {} /\ current # {}
  ELSE Decode(best) * 10050 < Decode(current) * 10000

GetBestTrade(pairs, tokenIn, tokenOut, amount) ==
  LET Trade(maxHops) == BestTradeExactIn(pairs, tokenIn, tokenOut, amount, maxHops)
      Better(best, current) == IF IsTradeBetter(best, current) THEN current ELSE best
  IN  Better(Better(Better({}, Trade(1)), Trade(2)), Trade(3))

\* The SDK refuses an exchange without a pair; then there is no answer of the others either.
Search(protocolPairs, tokenIn, tokenOut, amount) ==
  IF \E i \in DOMAIN protocolPairs : protocolPairs[i].pairList = <<>> THEN Reverted
  ELSE LET offers == [i \in DOMAIN protocolPairs |->
                        [name |-> protocolPairs[i].protocol,
                         output |-> GetBestTrade(protocolPairs[i].pairList, tokenIn, tokenOut, amount)]]
       IN  {Filter(offers, {i \in DOMAIN offers : offers[i].output # {}})}
=============================================================================
