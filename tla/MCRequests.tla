------------------------------- MODULE MCRequests -------------------------------
(***************************************************************************)
(* Requests for TLC: two farms of each client, tokens on two chains (one   *)
(* of them native, two with the same address), NFT contracts of three      *)
(* clients, two lending markets, two exchanges with six pairs.  What       *)
(* others write is, for each kind of request, what makes a difference.     *)
(***************************************************************************)
EXTENDS Requests

Empty == [x \in {} |-> {}]

-----------------------------------------------------------------------------
No(n) == <<"1", "2">>[n]
FarmRow(client, n) ==
  [name |-> client \o No(n), client |-> client, pid |-> No(n), stake |-> "lp" \o No(n),
   network |-> CASE client \in {"ape.matic", "sushi.matic"} -> "matic" [] client = "mdex.heco" -> "heco" [] OTHER -> "bsc",
   protocol |-> IF client \in {"pancake.farm", "pancake.farm2"} THEN "pancake" ELSE client,
   address |-> IF client = "pancake.farm2" THEN client \o No(n) ELSE client,
   data |-> (IF client = "bakery" THEN "lp" ELSE "rewarder") \o No(n),
   rewards |-> IF client \notin {"ape.matic", "sushi.matic"} THEN <<"token">>
               ELSE IF n = 1 THEN <<"token", "extra">> ELSE <<"extra", "token">>]

Clients == <<"pancake.farm", "pancake.farm2", "ape.bsc", "ape.matic", "sushi.matic",
             "mdex.bsc", "mdex.heco", "bakery", "wault", "bi", "auto">>
MCFarms == Flat([i \in DOMAIN Clients |-> <<FarmRow(Clients[i], 1), FarmRow(Clients[i], 2)>>])
MCTokens == <<[name |-> "coin", network |-> "bsc", address |-> ZeroAddress],
              [name |-> "token", network |-> "bsc", address |-> "0xa"],
              [name |-> "extra", network |-> "bsc", address |-> "0xb"],
              [name |-> "other", network |-> "heco", address |-> "0xa"]>>
MCNFTokens == <<[name |-> "bunny1", protocol |-> "pancake", network |-> "bsc", address |-> "bunnies", index |-> 1],
                [name |-> "bunny2", protocol |-> "pancake", network |-> "bsc", address |-> "bunnies", index |-> 2],
                [name |-> "squad1", protocol |-> "pancake", network |-> "bsc", address |-> "squad", index |-> 1],
                [name |-> "air1", protocol |-> "air", network |-> "bsc", address |-> "air", index |-> 1]>>
MCMarkets == <<[name |-> "vToken", protocol |-> "venus", address |-> "vToken", token |-> "token"],
               [name |-> "vExtra", protocol |-> "venus", address |-> "vExtra", token |-> "extra"]>>
MCProtocols ==
  <<[name |-> "pancake", network |-> "bsc", uses |-> {"useNFT", "useAMM"}, factory |-> TRUE],
    [name |-> "air", network |-> "bsc", uses |-> {"useNFT"}, factory |-> FALSE],
    [name |-> "ape.bsc", network |-> "bsc", uses |-> {"useNFT", "useAMM"}, factory |-> TRUE],
    [name |-> "mdex.heco", network |-> "heco", uses |-> {"useAMM"}, factory |-> TRUE],
    [name |-> "venus", network |-> "bsc", uses |-> {"useLending"}, factory |-> FALSE]>>
MCNFTContracts(client) ==
  CASE client = "pancake" -> {"bunnies", "squad"}
    [] client = "air" -> {"air"}
    [] client = "ape.bsc" -> {"nfa"}

NamesOf(rows) == {rows[i].name : i \in DOMAIN rows}
MCNames ==
  NamesOf(MCFarms) \cup NamesOf(MCTokens) \cup NamesOf(MCNFTokens) \cup NamesOf(MCMarkets)
  \cup NamesOf(MCProtocols) \cup {MCFarms[i].protocol : i \in DOMAIN MCFarms}
  \cup {"bsc", "heco", "matic", "lp1", "lp2", "A", "B", "C", "D"}

\* Apart from each other within a batch.
MCWorth(call) ==
  LET Nth(list, x) == CHOOSE i \in DOMAIN list : list[i] = x
      what == <<"", "1", "2", "lp1", "lp2", ZeroAddress, "0xa", "0xb">>
  IN  10 * Nth(what, call.of)
      + (IF call.view \in {"userInfo", "poolUserInfoMap", "balanceOf"} THEN 1
         ELSE IF call.view \in {"pendingTokens", "exchangeRateStored"} THEN 2 ELSE 3)
      + (IF call.at \in {"pancake.farm22", "vExtra"} THEN 5 ELSE 0)

-----------------------------------------------------------------------------
Scene(kind, query, interacted0, held0, owned0, reserves0, may0) ==
  [kind |-> kind, query |-> query, interacted |-> interacted0, held |-> held0,
   owned |-> owned0, reserves |-> reserves0, may |-> may0]
May(names, interactions, calls, contracts) ==
  [names |-> names, interactions |-> interactions, calls |-> calls, contracts |-> contracts]
As(address, spelled) == [address |-> address, spelled |-> spelled]
\* No page; the first, a limit of 0 being one of 1; the second.
MCQueries == {PaginationPipe({}, {}), PaginationPipe({1}, {0}), PaginationPipe({2}, {1})}
NoNFTs == [c \in {} |-> <<>>]

\* The farms of a protocol, or of two.
FarmGroups == {{p} : p \in (FarmClient \ {"pancake.farm", "pancake.farm2"}) \cup {"pancake"}} \cup {{"ape.matic", "auto"}}
FarmScenes ==
  UNION {LET farms == SelectSeq(MCFarms, LAMBDA farm : farm.protocol \in group /\ (farm.client # "pancake.farm" \/ farm.pid = "1"))
             calls == UNION {{FarmCalls(farms[i].client, farms[i])[n] : n \in DOMAIN FarmCalls(farms[i].client, farms[i])}
                             : i \in DOMAIN farms}
             first == FarmCalls(farms[1].client, farms[1])[1]
             addresses == {As(farms[i].address, "lower") : i \in DOMAIN farms}
         IN  {Scene("farm", query, addresses, held0, NoNFTs, Empty,
                    May({farms[1].name, "extra", farms[1].protocol}, addresses, {first}, {}))
              : query \in MCQueries, held0 \in {h \in SUBSET calls : Cardinality(h) \in {0, 1, 2, Cardinality(calls)}}}
         : group \in FarmGroups}

TokenScenes ==
  LET calls == {BalanceCall(MCTokens[i]) : i \in DOMAIN MCTokens}
      all == {As(ZeroAddress, "checksum"), As("0xa", "lower"), As("0xb", "lower")}
  IN  {Scene("token", query, some, held0, NoNFTs, Empty,
             May({"token", "heco"}, all, {BalanceCall(MCTokens[1]), BalanceCall(MCTokens[2])}, {}))
       : query \in MCQueries, some \in {all, {As("0xa", "lower")}, {}}, held0 \in SUBSET calls}

NFTScenes ==
  {Scene("nft", query, some, {},
         [c \in {"bunnies", "squad", "air", "nfa"} |-> IF c = "bunnies" THEN bunnies ELSE <<1>>], Empty,
         May({"bunny1", "air"}, {As("squad", "lower"), As("air", "checksum")}, {}, {"bunnies", "squad"}))
   : query \in MCQueries, bunnies \in {<<>>, <<1>>, <<1, 2>>, <<3, 2, 1>>},
     some \in {{As("bunnies", "lower")}, {As("bunnies", "checksum"), As("squad", "lower"), As("air", "lower")},
               {As("air", "checksum"), As("nfa", "lower")}}}

LendingScenes ==
  LET calls == UNION {{LendingCalls(MCMarkets[i])[n] : n \in 1 .. 3} : i \in DOMAIN MCMarkets}
  IN  {Scene("lending", query, {}, held0, NoNFTs, Empty,
             May({"vToken", "venus"}, {}, {LendingCalls(MCMarkets[1])[1], LendingCalls(MCMarkets[2])[3]}, {}))
       : query \in MCQueries, held0 \in SUBSET calls}

MCSortsBefore(a, b) ==
  LET order == <<"A", "B", "C", "D">>
  IN  (CHOOSE i \in DOMAIN order : order[i] = a) < (CHOOSE i \in DOMAIN order : order[i] = b)

\* With an input of 1000, A to C to B gives 640 of B at best, the pair itself 499
\* or 639: less than half a percent below.
Offers ==
  [pair \in {<<"A", "B">>, <<"A", "C">>, <<"A", "D">>, <<"B", "C">>, <<"B", "D">>, <<"C", "D">>} |->
     CASE pair = <<"A", "B">> -> {{}, {<<1000, 1000>>}, {<<1000, 1280>>}}
       [] pair = <<"A", "C">> -> {{}, {<<1000, 1000>>}, {<<1000, 1500>>}}
       [] pair = <<"B", "C">> -> {{}, {<<1000, 1000>>}, {<<1500, 1000>>}}
       [] pair = <<"C", "D">> -> {{<<1000, 1000>>}}
       [] OTHER               -> {{}, {<<1000, 1000>>}}]
SwapScenes ==
  {Scene("swap", PaginationPipe({}, {}), {}, {}, NoNFTs,
         [call \in {"pancake", "ape.bsc"} \X DOMAIN Offers |->
            IF call[1] = "pancake" THEN first[call[2]]
            ELSE IF call[2] = <<"A", "C">> \/ call[2] = <<"B", "C">> THEN {<<1200, 1000>>} ELSE {}],
         May({"A", "C"}, {}, {}, {}))
   : first \in {f \in [DOMAIN Offers -> UNION {Offers[pair] : pair \in DOMAIN Offers}] :
                  \A pair \in DOMAIN Offers : f[pair] \in Offers[pair]}}

MCScenes == FarmScenes \cup TokenScenes \cup NFTScenes \cup LendingScenes \cup SwapScenes
MCBaseTokens == <<"C", "D">>
=============================================================================
