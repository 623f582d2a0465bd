-------------------------------- MODULE Searches --------------------------------
(***************************************************************************)
(* What the API asks the database (_search() of libs/repository), and the  *)
(* helpers that put batches of calls together (libs/helper/src/array.ts).  *)
(*                                                                         *)
(* `on` are the names of the rows with status = true; the rows of a table  *)
(* are a sequence in the order of their ids.                               *)
(***************************************************************************)
EXTENDS Naturals, FiniteSets, Sequences

SE == INSTANCE SequencesExt

-----------------------------------------------------------------------------
(***************************************************************************)
(* array.ts                                                                *)
(***************************************************************************)
Flat(lists) == SE!FlattenSeq(lists)

\* filter(): what a list has at some places.
Filter(list, places) == Flat([i \in DOMAIN list |-> IF i \in places THEN <<list[i]>> ELSE <<>>])

ToSplitWithChunkSize(list, chunkSize) ==
  [n \in 1 .. (Len(list) + chunkSize - 1) \div chunkSize |->
     SubSeq(list, (n - 1) * chunkSize + 1, IF n * chunkSize < Len(list) THEN n * chunkSize ELSE Len(list))]

\* As long as the first list: what its callers rely on.
Zip(list, other) == [i \in DOMAIN list |-> <<list[i], other[i]>>]

RemoveNull(list, null) == Filter(list, {i \in DOMAIN list : list[i] # null})
FillSequenceNumber(number) == [i \in 1 .. number |-> i - 1]

-----------------------------------------------------------------------------
(***************************************************************************)
(* Paging: a query has a page, counted from 1, and a limit; what the       *)
(* client says of one is a set of at most one number.  In the query, 0     *)
(* stands for what it does not say.                                        *)
(***************************************************************************)

\* A number below 1 counts as 1.
AtLeastOne(said) ==
  IF said = {} THEN 0 ELSE LET n == CHOOSE k \in said : TRUE IN IF n < 1 THEN 1 ELSE n

\* The limit is cut before the items to skip are counted with it.
PaginationPipe(saidPage, saidLimit) ==
  LET page == AtLeastOne(saidPage)
      limit == IF AtLeastOne(saidLimit) > 1000 THEN 1000 ELSE AtLeastOne(saidLimit)
  IN  [page |-> page, limit |-> limit,
       skipItems |-> IF page > 0 /\ limit > 0 THEN (page - 1) * limit ELSE 0]

Page(rows, query) ==
  IF query.limit = 0 THEN SubSeq(rows, query.skipItems + 1, Len(rows))
  ELSE LET last == query.skipItems + query.limit
       IN  SubSeq(rows, query.skipItems + 1, IF last < Len(rows) THEN last ELSE Len(rows))

-----------------------------------------------------------------------------
(***************************************************************************)
(* Farms, joined with their reward tokens: a row for each.  Where and      *)
(* limit are about those rows, so they can cut off a reward token.         *)
(***************************************************************************)
FarmSearchQueryBuilder(farms, on) ==
  Flat([i \in DOMAIN farms |->
    LET farm == farms[i]
        rewards == Filter(farm.rewards, {n \in DOMAIN farm.rewards : farm.rewards[n] \in on})
    IN  IF {farm.name, farm.protocol, farm.network, farm.stake} \subseteq on
        THEN [j \in DOMAIN rewards |-> [farm EXCEPT !.rewards = <<rewards[j]>>]]
        ELSE <<>>])

\* getMany(): the rows of one farm are one entity.
GetMany(rows) ==
  LET names == [i \in DOMAIN rows |-> rows[i].name]
      firsts == Filter([i \in DOMAIN rows |-> i], {i \in DOMAIN rows : \A j \in 1 .. i - 1 : names[j] # names[i]})
      Rewards(name) == Flat([i \in DOMAIN rows |-> IF names[i] = name THEN rows[i].rewards ELSE <<>>])
  IN  [k \in DOMAIN firsts |-> [rows[firsts[k]] EXCEPT !.rewards = Rewards(names[firsts[k]])]]

FarmSearch(farms, on, addresses, query) ==
  LET rows == FarmSearchQueryBuilder(farms, on)
  IN  GetMany(Page(Filter(rows, {i \in DOMAIN rows : rows[i].address \in addresses}), query))

FarmSearchDistinctAddress(farms, on) ==
  LET rows == FarmSearchQueryBuilder(farms, on)
  IN  {rows[i].address : i \in DOMAIN rows}

TokenSearch(tokens, on, addresses, query) ==
  Page(Filter(tokens, {i \in DOMAIN tokens : /\ {tokens[i].name, tokens[i].network} \subseteq on
                                             /\ tokens[i].address \in addresses}), query)

NFTokenSearchQueryBuilder(items, on) ==
  Filter(items, {i \in DOMAIN items : {items[i].name, items[i].protocol, items[i].network} \subseteq on})

\* `in ()` is no SQL: the statement fails.
NFTokenSearch(items, on, address, indexes, query) ==
  IF indexes = <<>> THEN {}
  ELSE LET rows == NFTokenSearchQueryBuilder(items, on)
       IN  {Page(Filter(rows, {i \in DOMAIN rows : /\ rows[i].address = address
                                                   /\ \E n \in DOMAIN indexes : indexes[n] = rows[i].index}),
                 query)}

ProtocolsOf(rows) == {rows[i].protocol : i \in DOMAIN rows}
NFTokenSearchDistinctProtocol(items, on) == ProtocolsOf(NFTokenSearchQueryBuilder(items, on))

LendingSearchQueryBuilder(markets, on) ==
  Filter(markets, {i \in DOMAIN markets : {markets[i].name, markets[i].protocol} \subseteq on})

\* There is no filter by addresses.
LendingSearch(markets, on, protocol, query) ==
  LET rows == LendingSearchQueryBuilder(markets, on)
  IN  Page(Filter(rows, {i \in DOMAIN rows : rows[i].protocol = protocol}), query)

LendingSearchDistinctProtocol(markets, on) == ProtocolsOf(LendingSearchQueryBuilder(markets, on))

\* use: useNFT, useLending or useAMM.
ProtocolSearch(protocols, on, use) ==
  Filter(protocols, {i \in DOMAIN protocols : /\ {protocols[i].name, protocols[i].network} \subseteq on
                                              /\ use \in protocols[i].uses})
=============================================================================
