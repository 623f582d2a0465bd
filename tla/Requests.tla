-------------------------------- MODULE Requests --------------------------------
(***************************************************************************)
(* One request to the API (src/wallet, src/swap), from await to await,     *)
(* while jobs, operators and other requests write to the database and the  *)
(* wallet moves on the chains.  Requests share nothing but those, so one   *)
(* is enough.                                                              *)
(*                                                                         *)
(* What a request does for several chains, protocols or contracts at once  *)
(* (Promise.all) are its tasks; if one fails, so does the request.         *)
(***************************************************************************)
EXTENDS WalletClients, SwapSearch, TLC

CONSTANTS
  Farms, Tokens, NFTokens, Markets, Protocols, \* the rows of the tables, by id
  Names,            \* all that has a status
  NFTContracts(_),  \* the contracts of a client
  Scenes,           \* what may be asked for, and found: see Init
  Worth(_),         \* what a call answers if the wallet has something there
  SwapChain, TokenIn, TokenOut, AmountIn, BaseTokens, \* a swap; swap_base
  MaxFaults, MaxEdits \* bounds: calls and statements that fail; writes of others

VARIABLES
  on,         \* database: the names with status = true
  interacted, \* database: the contracts the wallet has interacted with
  held,       \* chain: the calls that answer something
  owned,      \* chain: for each NFT contract, what the wallet owns of it, in order
  reserves,   \* chain: for each exchange and pair, {} where there is none
  may,        \* bound: what others write
  request,
  removing,   \* the interaction that a DELETE has found
  replied,    \* history: what calls of the request were answered
  lost,       \* history: the calls that were not
  kept,       \* history: what has been there since the request began
  faults,     \* bound: counts the faults
  edits       \* bound: counts the writes

chain == <<held, owned, reserves>>
database == <<on, interacted, removing>>
history == <<may, replied, lost, kept>>
vars == <<chain, database, history, request, faults, edits>>

Task(id, pc, rows) == [id |-> id, pc |-> pc, rows |-> rows, replies |-> <<>>]

There == [names |-> on, interacted |-> interacted, held |-> held,
          owned |-> UNION {{<<a, owned[a][i]>> : i \in DOMAIN owned[a]} : a \in DOMAIN owned}]

Init ==
  \E scene \in Scenes :
    /\ on = Names
    /\ interacted = scene.interacted /\ held = scene.held
    /\ owned = scene.owned /\ reserves = scene.reserves
    /\ may = scene.may
    /\ request = [kind |-> scene.kind, query |-> scene.query, pc |-> "new",
                  addresses |-> {}, tasks |-> {}, items |-> {}]
    /\ removing = {} /\ replied = {} /\ lost = {} /\ kept = There
    /\ faults = 0 /\ edits = 0

-----------------------------------------------------------------------------
(***************************************************************************)
(* Steps of a request.                                                     *)
(***************************************************************************)
At(kind, pc) == request.kind = kind /\ request.pc = pc
Tasks(kind, pc) == {task \in request.tasks : request.kind = kind /\ task.pc = pc}

Goto(pc, addresses) == request' = [request EXCEPT !.pc = pc, !.addresses = addresses]

\* Promise.all(): the request is answered with the last of its tasks.
Await(tasks, items) ==
  request' = [request EXCEPT !.tasks = tasks, !.items = @ \cup items,
                             !.pc = IF tasks = {} THEN "answered" ELSE "tasks"]
Done(task, items) == Await(request.tasks \ {task}, items)
Then(task, next) == Await((request.tasks \ {task}) \cup {next}, {})

Fails == request' = [request EXCEPT !.pc = "failed", !.tasks = {}, !.items = {}]

\* The items of the answer that `result` comes to.
DoneOr(task, result) ==
  IF result = Reverted THEN Fails
  ELSE Done(task, {Decode(result)[i] : i \in DOMAIN Decode(result)})

Unwritten == UNCHANGED <<chain, database, may, kept, edits>>
Unasked == UNCHANGED <<replied, lost, faults>>

Fault ==
  /\ faults < MaxFaults
  /\ faults' = faults + 1

\* Any await rejects: the exception filter answers.
RequestFails ==
  /\ request.pc \notin {"answered", "failed"}
  /\ Fault /\ Fails
  /\ Unwritten /\ UNCHANGED <<replied, lost>>

AmountOf(call) == IF call \in held THEN Worth(call) ELSE Zero

\* A batch, of which a call may get no answer.
Ask(calls, missed) ==
  /\ missed \subseteq DOMAIN calls
  /\ IF missed = {} THEN UNCHANGED faults ELSE Fault
  /\ replied' = replied \cup {[call |-> calls[i], amount |-> AmountOf(calls[i])] : i \in DOMAIN calls \ missed}
  /\ lost' = lost \cup {calls[i] : i \in missed}

Replies(calls, missed) ==
  Decode(GetBatchStaticAggregator(
    [i \in DOMAIN calls |-> IF i \in missed THEN [success |-> FALSE, data |-> {}]
                            ELSE [success |-> TRUE, data |-> {AmountOf(calls[i])}]]))

Losses(calls) == {{}} \cup {{i} : i \in DOMAIN calls}

-----------------------------------------------------------------------------
(***************************************************************************)
(* Balances of tokens.                                                     *)
(***************************************************************************)
TokenFindInteractions ==
  /\ At("token", "new")
  /\ LET addresses == {i.address : i \in interacted}
     IN  IF addresses = {} THEN Await({}, {}) ELSE Goto("search", addresses)
  /\ Unwritten /\ Unasked

SearchTokens ==
  /\ At("token", "search")
  /\ LET tokens == TokenSearch(Tokens, on, request.addresses, request.query)
         networks == {tokens[i].network : i \in DOMAIN tokens}
     IN  Await({Task(n, "balances", Filter(tokens, {i \in DOMAIN tokens : tokens[i].network = n})) : n \in networks}, {})
  /\ Unwritten /\ Unasked

BalanceCall(token) == Call(token.network, "balanceOf", token.address)

\* The contract gives 0 for a token that does not answer.
GetWalletTokenBalances ==
  \E task \in Tasks("token", "balances") :
    LET tokens == task.rows
        calls == [i \in DOMAIN tokens |-> BalanceCall(tokens[i])]
        addresses == [i \in DOMAIN tokens |-> tokens[i].address]
    IN  \E missed \in Losses(calls) :
          LET replies == Replies(calls, missed)
              Balance(address) == replies[CHOOSE i \in DOMAIN addresses : addresses[i] = address]
              balances == GetBatchERC20Balances(<<"wallet">>, addresses,
                            [user \in {"wallet"} |-> [a \in {addresses[i] : i \in DOMAIN addresses} |-> Balance(a)]],
                            [user \in {"wallet"} |-> AmountOf(Call(task.id, "balanceOf", ZeroAddress))])
              zipped == Zip(tokens, balances)
          IN  /\ \A i \in missed : addresses[i] # ZeroAddress
              /\ Ask(calls, missed)
              /\ Done(task, {[name |-> zipped[i][1].name,
                              balance |-> DivideDecimals(zipped[i][2], zipped[i][1].name)]
                             : i \in {j \in DOMAIN zipped : zipped[j][2] # Zero}})
    /\ Unwritten

-----------------------------------------------------------------------------
(***************************************************************************)
(* Farms.                                                                  *)
(***************************************************************************)
SearchFarmAddresses ==
  /\ At("farm", "new")
  /\ Goto("interactions", FarmSearchDistinctAddress(Farms, on))
  /\ Unwritten /\ Unasked

FarmFindInteractions ==
  /\ At("farm", "interactions")
  /\ LET addresses == {i.address : i \in {j \in interacted : j.address \in request.addresses}}
     IN  IF addresses = {} THEN Await({}, {}) ELSE Goto("search", addresses)
  /\ Unwritten /\ Unasked

\* getWalletFarms(): PancakeSwap has two kinds, and asks for both in any case.
GetWalletFarms(protocol) ==
  IF protocol = "pancake" THEN {"pancake.farm", "pancake.farm2"} ELSE {protocol}

SearchFarms ==
  /\ At("farm", "search")
  /\ LET farms == FarmSearch(Farms, on, request.addresses, request.query)
         clients == UNION {GetWalletFarms(farms[i].protocol) : i \in DOMAIN farms}
     IN  Await({Task(c, "info", Filter(farms, {i \in DOMAIN farms : farms[i].client = c})) : c \in clients}, {})
  /\ Unwritten /\ Unasked

GetWalletFarmInfos ==
  \E task \in Tasks("farm", "info") :
    LET calls == WalletInfoEncode(task.id, task.rows)
    IN  \E missed \in Losses(calls) :
          LET replies == Replies(calls, missed)
          IN  /\ Ask(calls, missed)
              /\ IF AsksRewarder(task.id, replies)
                 THEN Then(task, [task EXCEPT !.pc = "rewarder", !.replies = replies])
                 ELSE DoneOr(task, GetFarmWalletInfo(task.id, task.rows, replies))
    /\ Unwritten

\* getFarmRewarderRewardToken(), whose answer is not used any more.
GetFarmRewarderRewardToken ==
  \E task \in Tasks("farm", "rewarder") :
    /\ DoneOr(task, GetFarmWalletInfo(task.id, task.rows, task.replies))
    /\ Unwritten /\ Unasked

-----------------------------------------------------------------------------
(***************************************************************************)
(* NFTs.  A query that says nothing goes to every protocol with NFTs, any  *)
(* other to the ones of the items it finds.                                *)
(***************************************************************************)
IsEmptyQuery(query) == query = PaginationPipe({}, {})
ServicesOf(use, found) ==
  IF ~IsEmptyQuery(request.query) THEN found
  ELSE LET protocols == ProtocolSearch(Protocols, on, use)
       IN  {protocols[i].name : i \in DOMAIN protocols}

SearchNFTProtocols ==
  /\ At("nft", "new")
  /\ Await({Task(p, "interactions", <<>>) : p \in ServicesOf("useNFT", NFTokenSearchDistinctProtocol(NFTokens, on))}, {})
  /\ Unwritten /\ Unasked

\* getWalletNFTokens(): an address that the client does not know as it is
\* spelled is shown, as undefined.
GetWalletNFTokens ==
  \E task \in Tasks("nft", "interactions") :
    /\ LET with == {i \in interacted : i.address \in NFTContracts(task.id)}
           known == {i \in with : HasNFToken(task.id, i.spelled)}
       IN  Await((request.tasks \ {task}) \cup {Task(i.address, "balance", <<>>) : i \in known},
                 {[name |-> "undefined"] : i \in with \ known})
    /\ Unwritten /\ Unasked

IndexCall(contract, index) == Call(contract, "tokenOfOwnerByIndex", ToString(index))

\* safeERC721BalanceOf(): 0 if there is no answer.
GetNFTokenBalance ==
  \E task \in Tasks("nft", "balance") :
    LET balance == Call(task.id, "balanceOf", "")
    IN  \E success \in BOOLEAN :
          LET reply == [success |-> success, data |-> IF success THEN {Len(owned[task.id])} ELSE {}]
              sequence == FillSequenceNumber(Safe(reply, Zero))
          IN  /\ IF success
                 THEN /\ replied' = replied \cup {[call |-> balance, amount |-> Len(owned[task.id])]}
                      /\ UNCHANGED <<lost, faults>>
                 ELSE Fault /\ lost' = lost \cup {balance} /\ UNCHANGED replied
              /\ IF sequence = <<>> THEN Done(task, {})
                 ELSE Then(task, Task(task.id, "index", sequence))
    /\ Unwritten

\* The items may have become fewer: what is past the last of them reverts.
GetNFTokensOfOwner ==
  \E task \in Tasks("nft", "index") :
    LET Owns(i) == task.rows[i] < Len(owned[task.id])
        Index(i) == owned[task.id][task.rows[i] + 1]
    IN  \E missed \in Losses(task.rows) :
          /\ \A i \in missed : Owns(i)
          /\ IF missed = {} THEN UNCHANGED faults ELSE Fault
          /\ LET replies == [i \in DOMAIN task.rows |->
                              IF i \in missed \/ ~Owns(i) THEN [success |-> FALSE, data |-> {}]
                              ELSE [success |-> TRUE, data |-> {Index(i)}]]
             IN  Then(task, Task(task.id, "search", TokenOfOwnerByIndex(replies)))
          /\ replied' = replied \cup {[call |-> IndexCall(task.id, task.rows[i]), amount |-> Index(i)]
                                      : i \in {j \in DOMAIN task.rows \ missed : Owns(j)}}
          /\ lost' = lost \cup {IndexCall(task.id, task.rows[i]) : i \in missed}
    /\ Unwritten

SearchNFTokens ==
  \E task \in Tasks("nft", "search") :
    /\ LET found == NFTokenSearch(NFTokens, on, task.id, task.rows, request.query)
       IN  IF found = {} THEN Fails
           ELSE Done(task, {[name |-> Decode(found)[i].name] : i \in DOMAIN Decode(found)})
    /\ Unwritten /\ Unasked

-----------------------------------------------------------------------------
(***************************************************************************)
(* Lending markets, of Venus alone.                                        *)
(***************************************************************************)
SearchLendingProtocols ==
  /\ At("lending", "new")
  /\ Await({Task(p, "assets", <<>>) : p \in ServicesOf("useLending", LendingSearchDistinctProtocol(Markets, on))}, {})
  /\ Unwritten /\ Unasked

\* getAssetsIn(): the search does not heed its answer.
GetWalletLendingMarket ==
  \E task \in Tasks("lending", "assets") :
    /\ Then(task, [task EXCEPT !.pc = "search"])
    /\ Unwritten /\ Unasked

SearchLendings ==
  \E task \in Tasks("lending", "search") :
    /\ Then(task, Task(task.id, "info", LendingSearch(Markets, on, task.id, request.query)))
    /\ Unwritten /\ Unasked

GetLendingWalletInfos ==
  \E task \in Tasks("lending", "info") :
    LET calls == LendingInfoEncode(task.rows)
    IN  \E missed \in Losses(calls) :
          /\ Ask(calls, missed)
          /\ DoneOr(task, GetLendingWalletInfo(task.rows, Replies(calls, missed)))
    /\ Unwritten

-----------------------------------------------------------------------------
(***************************************************************************)
(* A swap.  The exchanges are the ones there were when the server started. *)
(***************************************************************************)
Exchanges == OnApplicationBootstrap(Protocols, Names, SwapChain)

\* ERR900, ERR901: a token that is not there, or not on.
GetTokenSwapList ==
  /\ At("swap", "new")
  /\ IF {TokenIn, TokenOut} \subseteq on THEN Goto("common", {}) ELSE Fails
  /\ Unwritten /\ Unasked

\* The bases of every chain.
GetCommonPathTokenInstances ==
  /\ At("swap", "common")
  /\ LET bases == Filter(BaseTokens, {i \in DOMAIN BaseTokens : BaseTokens[i] \in on})
     IN  request' = [request EXCEPT !.tasks =
                       {Task(SwapChain, "reserves", GetAllCurrencyCombinations(TokenIn, TokenOut, bases))},
                     !.pc = "tasks"]
  /\ Unwritten /\ Unasked

SearchSwaps ==
  \E task \in Tasks("swap", "reserves") :
    LET calls == ReserveInfoEncode(Exchanges, task.rows)
        Offer(i) == IF calls[i] \in DOMAIN reserves THEN reserves[calls[i]] ELSE {}
    IN  \E missed \in Losses(calls) :
          /\ \A i \in missed : Offer(i) # {}
          /\ IF missed = {} THEN UNCHANGED faults ELSE Fault
          /\ replied' = {[call |-> calls[i], amount |-> Decode(Offer(i))]
                         : i \in {j \in DOMAIN calls \ missed : Offer(j) # {}}}
          /\ lost' = {calls[i] : i \in missed}
          /\ LET replies == [i \in DOMAIN calls |-> [success |-> i \notin missed,
                                                   data |-> IF i \in missed THEN {} ELSE Offer(i)]]
             IN  DoneOr(task, Search(GetProtocolPairs(Exchanges, task.rows, replies), TokenIn, TokenOut, AmountIn))
    /\ Unwritten

-----------------------------------------------------------------------------
(***************************************************************************)
(* Others.                                                                 *)
(***************************************************************************)
Write ==
  /\ edits < MaxEdits /\ request.pc \notin {"answered", "failed"}
  /\ edits' = edits + 1
  /\ kept' = [f \in DOMAIN kept |-> kept[f] \cap There'[f]]
  /\ UNCHANGED <<may, request, replied, lost, faults>>

Switch(name) ==
  /\ on' = IF name \in on THEN on \ {name} ELSE on \cup {name}
  /\ UNCHANGED <<chain, interacted, removing>> /\ Write

\* addInteraction() and the interaction jobs: INSERT IGNORE.  Addresses are stored
\* as they come, and are equal however they are spelled.
AddInteraction(interaction) ==
  /\ interaction.address \notin {i.address : i \in interacted}
  /\ interacted' = interacted \cup {interaction}
  /\ UNCHANGED <<chain, on, removing>> /\ Write

\* delInteraction(): ERR701 if it is not found.
FindInteraction(address) ==
  /\ removing = {} /\ edits < MaxEdits
  /\ removing' = {i \in interacted : i.address = address}
  /\ removing' # {}
  /\ UNCHANGED <<chain, on, interacted, history, request, faults, edits>>

DeleteInteraction ==
  /\ removing # {}
  /\ interacted' = {i \in interacted : \A r \in removing : i.address # r.address}
  /\ removing' = {}
  /\ UNCHANGED <<chain, on>> /\ Write

Move(call) ==
  /\ held' = IF call \in held THEN held \ {call} ELSE held \cup {call}
  /\ UNCHANGED <<database, owned, reserves>> /\ Write

Receive(contract, index) ==
  /\ \A i \in DOMAIN owned[contract] : owned[contract][i] # index
  /\ owned' = [owned EXCEPT ![contract] = Append(@, index)]
  /\ UNCHANGED <<database, held, reserves>> /\ Write

\* ERC721Enumerable: the last of the items takes the place of the one that goes.
Send(contract, i) ==
  /\ owned' = [owned EXCEPT ![contract] = [j \in 1 .. Len(@) - 1 |-> IF j = i THEN @[Len(@)] ELSE @[j]]]
  /\ UNCHANGED <<database, held, reserves>> /\ Write

Next ==
  \/ RequestFails
  \/ TokenFindInteractions \/ SearchTokens \/ GetWalletTokenBalances
  \/ SearchFarmAddresses \/ FarmFindInteractions \/ SearchFarms
  \/ GetWalletFarmInfos \/ GetFarmRewarderRewardToken
  \/ SearchNFTProtocols \/ GetWalletNFTokens \/ GetNFTokenBalance
  \/ GetNFTokensOfOwner \/ SearchNFTokens
  \/ SearchLendingProtocols \/ GetWalletLendingMarket \/ SearchLendings \/ GetLendingWalletInfos
  \/ GetTokenSwapList \/ GetCommonPathTokenInstances \/ SearchSwaps
  \/ \E name \in may.names : Switch(name)
  \/ \E interaction \in may.interactions : AddInteraction(interaction)
  \/ \E interaction \in may.interactions : FindInteraction(interaction.address)
  \/ DeleteInteraction
  \/ \E call \in may.calls : Move(call)
  \/ \E contract \in may.contracts, index \in 1 .. 3 : Receive(contract, index)
  \/ \E contract \in may.contracts : \E i \in DOMAIN owned[contract] : Send(contract, i)

Spec == Init /\ [][Next]_vars

-----------------------------------------------------------------------------
(***************************************************************************)
(* What the tables are, and what a request may find.  A row is known by    *)
(* its name; a farm is of a client of its protocol, what else has a        *)
(* protocol is of one that serves it.  A wallet has no NFT twice.          *)
(***************************************************************************)
IsList(list) == list \in Seq({list[i] : i \in DOMAIN list})

IsTable(rows) ==
  /\ IsList(rows)
  /\ \A i, j \in DOMAIN rows : rows[i].name = rows[j].name => i = j

Serves(name, network, use) ==
  \E i \in DOMAIN Protocols :
    Protocols[i].name = name /\ Protocols[i].network = network /\ use \in Protocols[i].uses

NetworkOf(name) == Protocols[CHOOSE i \in DOMAIN Protocols : Protocols[i].name = name].network

FarmColumn == {"name", "client", "pid", "stake", "network", "protocol", "address", "data", "rewards"}

ASSUME TablesAssumption ==
  /\ IsTable(Farms) /\ IsTable(Tokens) /\ IsTable(NFTokens) /\ IsTable(Markets) /\ IsTable(Protocols)
  /\ IsList(BaseTokens)
  /\ \A i \in DOMAIN Farms :
       /\ DOMAIN Farms[i] = FarmColumn /\ IsList(Farms[i].rewards)
       /\ Farms[i].client \in GetWalletFarms(Farms[i].protocol)
       /\ GetWalletFarms(Farms[i].protocol) \subseteq FarmClient
  /\ \A i \in DOMAIN NFTokens :
       /\ Serves(NFTokens[i].protocol, NFTokens[i].network, "useNFT")
       /\ NFTokens[i].address \in NFTContracts(NFTokens[i].protocol)
  /\ \A i \in DOMAIN Markets :
       Serves(Markets[i].protocol, NetworkOf(Markets[i].protocol), "useLending")

NFTAddresses ==
  UNION {NFTContracts(Protocols[i].name) : i \in {j \in DOMAIN Protocols : "useNFT" \in Protocols[j].uses}}

IsWallet(items) == items \in Seq(Nat) /\ \A i, j \in DOMAIN items : items[i] = items[j] => i = j

ASSUME ScenesAssumption ==
  /\ AmountIn \in Nat
  /\ \A scene \in Scenes :
       /\ scene.kind \in {"token", "farm", "nft", "lending", "swap"}
       /\ scene.query \in [page : Nat, limit : Nat, skipItems : Nat]
       /\ \A call \in scene.held \cup scene.may.calls : Worth(call) # Zero
       /\ \A contract \in DOMAIN scene.owned : IsWallet(scene.owned[contract])
       /\ scene.may.contracts \subseteq DOMAIN scene.owned
       /\ scene.kind = "nft" => NFTAddresses \subseteq DOMAIN scene.owned
       /\ \A call \in DOMAIN scene.reserves :
            \A offer \in scene.reserves[call] :
              offer \in Nat \X Nat /\ scene.reserves[call] = {offer}

-----------------------------------------------------------------------------
(***************************************************************************)
(* Properties.                                                             *)
(***************************************************************************)
Answered(kind) == request.kind = kind /\ request.pc = "answered"

\* What a call of the request was answered; 0 if it was not.
Told(call, amount) ==
  \/ [call |-> call, amount |-> amount] \in replied
  \/ call \in lost /\ amount = Zero

FarmOf(item) == Farms[CHOOSE i \in DOMAIN Farms : Farms[i].name = item.name]
TokenOf(item) == Tokens[CHOOSE i \in DOMAIN Tokens : Tokens[i].name = item.name]
NFTokenOf(item) == NFTokens[CHOOSE i \in DOMAIN NFTokens : NFTokens[i].name = item.name]
MarketOf(item) == Markets[CHOOSE i \in DOMAIN Markets : Markets[i].name = item.name]

FarmItemIsOwn(item) ==
  LET farm == FarmOf(item)
      calls == FarmCalls(farm.client, farm)
  IN  /\ Told(calls[1], item.stake[1]) /\ item.stake[2] = farm.stake
      /\ Len(item.rewards) = Len(calls) - 1
      /\ \A n \in DOMAIN item.rewards : Told(calls[n + 1], item.rewards[n][1])

LendingItemIsOwn(item) ==
  LET market == MarketOf(item)
      calls == LendingCalls(market)
  IN  /\ Told(calls[3], item.borrow[1]) /\ item.borrow[2] = market.token
      /\ item.supply[1] = Zero \/ Told(calls[1], item.supply[1])
      /\ item.supply[2] = market.token

TokenItemIsOwn(item) ==
  Told(BalanceCall(TokenOf(item)), item.balance[1]) /\ item.balance[2] = item.name

NFTokenItemIsOwn(item) ==
  item.name # "undefined" =>
    \E r \in replied : r.call.view = "tokenOfOwnerByIndex" /\ r.call.at = NFTokenOf(item).address
                      /\ r.amount = NFTokenOf(item).index

(***************************************************************************)
(* An item of an answer carries what the chain has said of that very item, *)
(* however many others were asked about in the same batch and whichever of *)
(* the calls were lost: what was not answered counts as nothing.  A stake  *)
(* is divided by the decimals of the token that is staked.  (Of rewards    *)
(* only the numbers: with two of them, the tokens may be swapped.)         *)
(***************************************************************************)
AmountsAreOwn ==
  /\ Answered("farm") => \A item \in request.items : FarmItemIsOwn(item)
  /\ Answered("lending") => \A item \in request.items : LendingItemIsOwn(item)
  /\ Answered("nft") => \A item \in request.items : NFTokenItemIsOwn(item)
  /\ Answered("token") => \A item \in request.items : TokenItemIsOwn(item)

Shown(name) == \E item \in request.items : item.name = name
Interacted(address) == \E i \in kept.interacted : i.address = address
Lost(call) == call \in lost

FarmIsWorth(farm) ==
  /\ {farm.name, farm.protocol, farm.network, farm.stake} \subseteq kept.names
  /\ \E n \in DOMAIN farm.rewards : farm.rewards[n] \in kept.names
  /\ Interacted(farm.address)
  /\ \E n \in DOMAIN FarmCalls(farm.client, farm) :
       LET call == FarmCalls(farm.client, farm)[n] IN call \in kept.held /\ ~Lost(call)

TokenIsWorth(token) ==
  /\ {token.name, token.network} \subseteq kept.names /\ Interacted(token.address)
  /\ BalanceCall(token) \in kept.held /\ ~Lost(BalanceCall(token))

NFTokenIsWorth(item) ==
  /\ {item.name, item.protocol, item.network} \subseteq kept.names
  /\ \E i \in kept.interacted : i.address = item.address /\ HasNFToken(item.protocol, i.spelled)
  /\ <<item.address, item.index>> \in kept.owned
  /\ \A call \in lost : call.at # item.address

MarketIsWorth(market) ==
  LET calls == LendingCalls(market)
  IN  /\ {market.name, market.protocol, NetworkOf(market.protocol)} \subseteq kept.names
      /\ ~Lost(calls[2]) /\ calls[2] \in kept.held
      /\ \E n \in {1, 3} : calls[n] \in kept.held /\ ~Lost(calls[n])

(***************************************************************************)
(* A request that asks for no page and is answered hides nothing: what was *)
(* on, interacted with and worth something all the time since it began,    *)
(* and was asked about without a loss, is in the answer, whatever else was *)
(* written to the database or moved on the chain between two of its steps, *)
(* or lost beside it.                                                      *)
(***************************************************************************)
NothingOfWorthIsHidden ==
  IsEmptyQuery(request.query) =>
    /\ Answered("farm") => \A i \in DOMAIN Farms : FarmIsWorth(Farms[i]) => Shown(Farms[i].name)
    /\ Answered("token") => \A i \in DOMAIN Tokens : TokenIsWorth(Tokens[i]) => Shown(Tokens[i].name)
    /\ Answered("nft") =>
         \A i \in DOMAIN NFTokens : NFTokenIsWorth(NFTokens[i]) => Shown(NFTokens[i].name)
    /\ Answered("lending") => \A i \in DOMAIN Markets : MarketIsWorth(Markets[i]) => Shown(Markets[i].name)

\* The pairs of an exchange, with the reserves they were answered to have.
PairsOf(exchange) ==
  {[tokens |-> r.call[2], reserves |-> r.amount] : r \in {q \in replied : q.call[1] = exchange}}

(***************************************************************************)
(* Of the ways an exchange has from the one token to the other, over up to *)
(* three of its own pairs with the reserves they were answered to have,    *)
(* none gives over half a percent more than the offer shown; and an        *)
(* exchange that has a way is shown.                                       *)
(***************************************************************************)
NothingMuchBetterIsHidden ==
  Answered("swap") =>
    \A i \in DOMAIN Exchanges :
      \A output \in Outputs(PairsOf(Exchanges[i].name), TokenIn, TokenOut, AmountIn, 3) :
        \E item \in request.items : /\ item.name = Exchanges[i].name
                                    /\ output * 10000 <= Decode(item.output) * 10050

(***************************************************************************)
(* The inductive invariant behind the three.                               *)
(***************************************************************************)

\* The environment stays what it was, and what is kept is there.
WorldInv ==
  /\ \A call \in held \cup may.calls : Worth(call) # Zero
  /\ \A contract \in DOMAIN owned : IsWallet(owned[contract])
  /\ may.contracts \subseteq DOMAIN owned
  /\ request.kind = "nft" => NFTAddresses \subseteq DOMAIN owned
  /\ \A call \in DOMAIN reserves :
       \A offer \in reserves[call] : offer \in Nat \X Nat /\ reserves[call] = {offer}
  /\ DOMAIN kept = {"names", "interacted", "held", "owned"}
  /\ \A f \in DOMAIN kept : kept[f] \subseteq There[f]

RequestShape ==
  /\ DOMAIN request = {"kind", "query", "pc", "addresses", "tasks", "items"}
  /\ request.kind \in {"token", "farm", "nft", "lending", "swap"}
  /\ request.query \in [page : Nat, limit : Nat, skipItems : Nat]
  /\ request.pc # "tasks" => request.tasks = {}
  /\ request.pc \notin {"tasks", "answered"} => request.items = {}
  /\ \A task \in request.tasks : DOMAIN task = {"id", "pc", "rows", "replies"} /\ IsList(task.rows)

\* A row of the search is the farm's, but for the reward tokens that are off.
IsRowOf(row, farm) ==
  \A f \in FarmColumn \ {"rewards"} : row[f] = farm[f]

\* Beside each row are the answers to its own calls; what is kept and was answered is something.
ResultsAreOwn(client, rows, results) ==
  /\ DOMAIN results = DOMAIN rows
  /\ \A i \in DOMAIN rows :
       LET calls == FarmCalls(client, rows[i])
       IN  /\ Len(results[i]) = Len(calls) /\ DOMAIN results[i] = DOMAIN calls
           /\ \A n \in DOMAIN calls :
                /\ Told(calls[n], Amount(results[i][n]))
                /\ calls[n] \in kept.held /\ ~Lost(calls[n]) => Amount(results[i][n]) # Zero

FarmTask(task) ==
  /\ task.id \in FarmClient
  /\ \A i \in DOMAIN task.rows :
       \E n \in DOMAIN Farms : Farms[n].client = task.id /\ IsRowOf(task.rows[i], Farms[n])
  /\ task.pc = "rewarder" =>
       task.id = "ape.matic" /\ ResultsAreOwn(task.id, task.rows, ToSplitWithChunkSize(task.replies, 3))

TokenTask(task) ==
  \A i \in DOMAIN task.rows :
    task.rows[i].network = task.id /\ \E n \in DOMAIN Tokens : task.rows[i] = Tokens[n]

NFTTask(task) ==
  /\ task.pc = "interactions" => NFTContracts(task.id) \subseteq NFTAddresses
  /\ task.pc \in {"balance", "index"} => task.id \in DOMAIN owned
  /\ task.pc = "index" => task.rows = FillSequenceNumber(Len(task.rows))
  /\ task.pc = "search" =>
       \A i \in DOMAIN task.rows :
         \E r \in replied : /\ r.call.view = "tokenOfOwnerByIndex" /\ r.call.at = task.id
                            /\ r.amount = task.rows[i]

LendingTask(task) ==
  task.pc = "info" => \A i \in DOMAIN task.rows : \E n \in DOMAIN Markets : task.rows[i] = Markets[n]

\* A swap has no other task beside, and asks for no pair twice.
SwapTask(task) ==
  /\ request.tasks = {task}
  /\ TokenIn # TokenOut => task.rows # <<>>
  /\ \A i, j \in DOMAIN task.rows : task.rows[i] = task.rows[j] => i = j

TasksInv ==
  \A task \in request.tasks :
    /\ request.kind = "token" => TokenTask(task)
    /\ request.kind = "farm" => FarmTask(task)
    /\ request.kind = "nft" => NFTTask(task)
    /\ request.kind = "lending" => LendingTask(task)
    /\ request.kind = "swap" => SwapTask(task)

ItemsInv ==
  \A item \in request.items :
    /\ request.kind = "token" => TokenItemIsOwn(item)
    /\ request.kind = "farm" => FarmItemIsOwn(item)
    /\ request.kind = "nft" => NFTokenItemIsOwn(item)
    /\ request.kind = "lending" => LendingItemIsOwn(item)

\* What is worth something is shown, or on its way.
FarmOnItsWay(farm) ==
  /\ request.pc \in {"interactions", "search"} => farm.address \in request.addresses
  /\ request.pc \in {"tasks", "answered"} =>
       \/ Shown(farm.name)
       \/ \E task \in request.tasks :
            task.id = farm.client /\ \E i \in DOMAIN task.rows : IsRowOf(task.rows[i], farm)

TokenOnItsWay(token) ==
  /\ request.pc = "search" => token.address \in request.addresses
  /\ request.pc \in {"tasks", "answered"} =>
       \/ Shown(token.name)
       \/ \E task \in request.tasks : \E i \in DOMAIN task.rows : task.rows[i] = token

\* Between balanceOf and tokenOfOwnerByIndex an item that stays may move, but to the front only.
NFTokenOnItsWay(item) ==
  request.pc \in {"tasks", "answered"} =>
    \/ Shown(item.name)
    \/ \E task \in request.tasks :
         \/ task.pc = "interactions" /\ task.id = item.protocol
         \/ task.pc = "balance" /\ task.id = item.address
         \/ /\ task.pc = "index" /\ task.id = item.address
            /\ \E i \in DOMAIN task.rows \cap DOMAIN owned[task.id] : owned[task.id][i] = item.index
         \/ /\ task.pc = "search" /\ task.id = item.address
            /\ \E i \in DOMAIN task.rows : task.rows[i] = item.index

MarketOnItsWay(market) ==
  request.pc \in {"tasks", "answered"} =>
    \/ Shown(market.name)
    \/ \E task \in request.tasks :
         \/ task.pc \in {"assets", "search"} /\ task.id = market.protocol
         \/ task.pc = "info" /\ \E i \in DOMAIN task.rows : task.rows[i] = market

WayInv ==
  IsEmptyQuery(request.query) =>
    /\ request.kind = "farm" => \A i \in DOMAIN Farms : FarmIsWorth(Farms[i]) => FarmOnItsWay(Farms[i])
    /\ request.kind = "token" => \A i \in DOMAIN Tokens : TokenIsWorth(Tokens[i]) => TokenOnItsWay(Tokens[i])
    /\ request.kind = "nft" =>
         \A i \in DOMAIN NFTokens : NFTokenIsWorth(NFTokens[i]) => NFTokenOnItsWay(NFTokens[i])
    /\ request.kind = "lending" =>
         \A i \in DOMAIN Markets : MarketIsWorth(Markets[i]) => MarketOnItsWay(Markets[i])

RequestsInv ==
  /\ WorldInv /\ RequestShape /\ TasksInv /\ ItemsInv /\ WayInv
  /\ NothingMuchBetterIsHidden
=============================================================================
