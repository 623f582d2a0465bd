----------------------------- MODULE TokenRunProofs -----------------------------
(***************************************************************************)
(* Proofs about TokenRun, for any exchanges, pairs, contracts and chunks,  *)
(* and any number of jobs in flight, of faults and of edits.               *)
(***************************************************************************)
EXTENDS TokenRun, SequenceTheorems, TLAPS

-----------------------------------------------------------------------------
(***************************************************************************)
(* What the operators of PairTask and PriceJobs return.                    *)
(***************************************************************************)

\* A pair is composed of two addresses.
LEMMA ComponentsAreAddresses ==
  ASSUME NEW c \in [Lp -> Address \X Address], NEW x \in Lp
  PROVE  c[x][1] \in Address /\ c[x][2] \in Address /\ Components(c, x) \subseteq Address
BY DEF Components

\* What a single address says of its components: a token is asked in vain, a pair
\* names one that is not the zero address.
LEMMA WhatSinglesSay ==
  ASSUME NEW c \in [Lp -> Address \X Address], NEW a \in Address
  PROVE  /\ a \in Token => \A info \in SafePairInfos(c, a) : info.token0 = "zero" /\ info.token1 = "zero"
         /\ a \in Lp => ~ \A info \in SafePairInfos(c, a) : info.token0 = "zero" /\ info.token1 = "zero"
<1>1. CASE a \in Token
  <2>1. View(c, a, 1) = [success |-> FALSE, data |-> {}] /\ View(c, a, 2) = [success |-> FALSE, data |-> {}]
    BY <1>1, AddressAssumption DEF View
  <2>2. SafePairInfos(c, a) = {[pair |-> a, token0 |-> "zero", token1 |-> "zero"]}
    BY <2>1 DEF SafePairInfos, Contract!SafePairInfo, Contract!Safe
  <2> QED
    BY <1>1, <2>2, AddressAssumption
<1>2. CASE a \in Lp
  <2>1. View(c, a, 1) = [success |-> TRUE, data |-> {c[a][1]}] /\ View(c, a, 2) = [success |-> TRUE, data |-> {c[a][2]}]
    BY <1>2, AddressAssumption DEF View
  <2>2. Contract!Safe(View(c, a, 1), "zero") = c[a][1]
    BY <2>1 DEF Contract!Safe, Contract!IsEmptyBytes, Contract!Decode
  <2>3. ~Contract!IsEmptyBytes(View(c, a, 2).data)
    <3>1. c[a][2] \in View(c, a, 2).data
      BY <2>1
    <3> QED
      BY <3>1 DEF Contract!IsEmptyBytes
  <2>4. SafePairInfos(c, a) =
          {[pair |-> a, token0 |-> Contract!Safe(View(c, a, 1), "zero"),
            token1 |-> IF View(c, a, 2).success /\ ~Contract!IsEmptyBytes(View(c, a, 1).data)
                       THEN Contract!Decode(View(c, a, 2).data) ELSE "zero"]}
    BY <2>3 DEF SafePairInfos, Contract!SafePairInfo
  <2>5. c[a][1] # "zero"
    BY <1>2, ComponentsAreAddresses, AddressAssumption
  <2> QED
    BY <1>2, <2>2, <2>4, <2>5, AddressAssumption
<1> QED
  BY <1>1, <1>2

\* Every new address is a pair of the chunk, a single token or invalid; no pair is
\* a single token, and no token invalid.
LEMMA Classified ==
  ASSUME NEW c \in [Lp -> Address \X Address],
         NEW group \in [multi : SUBSET Address, single : SUBSET Address]
  PROVE  LET pure == CheckMulti(c, RemoveInvalid(group))
         IN  /\ pure.multi = group.multi
             /\ pure.single \subseteq Address /\ pure.invalid \subseteq Address
             /\ group.single \subseteq group.multi \cup pure.single \cup pure.invalid
             /\ pure.single \cap Lp = {} /\ pure.invalid \cap Token = {}
<1> DEFINE valid == RemoveInvalid(group)
           Silent(a) == \A info \in SafePairInfos(c, a) : info.token0 = "zero" /\ info.token1 = "zero"
           pure == CheckMulti(c, valid)
<1>1. /\ valid.multi = group.multi
      /\ valid.single = {a \in group.single \ group.multi : a \notin NoCode}
      /\ valid.invalid = {a \in group.single \ group.multi : a \in NoCode}
  BY DEF RemoveInvalid, CheckCA
<1>2. /\ pure.multi = valid.multi
      /\ pure.single = {a \in valid.single : Silent(a)}
      /\ pure.invalid = valid.invalid \cup {a \in valid.single : ~Silent(a)}
  BY DEF CheckMulti
<1>3. \A a \in Address : (a \in Token => Silent(a)) /\ (a \in Lp => ~Silent(a))
  BY WhatSinglesSay
<1>4. group.single \subseteq Address
  OBVIOUS
<1> HIDE DEF valid, pure, Silent
<1>5. /\ pure.single \subseteq Address /\ pure.invalid \subseteq Address
      /\ group.single \subseteq group.multi \cup pure.single \cup pure.invalid
  BY <1>1, <1>2, <1>4
<1>6. pure.single \cap Lp = {}
  BY <1>2, <1>3, <1>5
<1>7. pure.invalid \cap Token = {}
  <2>1. \A a \in valid.single : a \in Address
    BY <1>1, <1>4
  <2>2. valid.invalid \cap Token = {}
    BY <1>1, AddressAssumption
  <2> QED
    BY <1>2, <1>3, <2>1, <2>2
<1> QED
  BY <1>1, <1>2, <1>5, <1>6, <1>7 DEF pure, valid

\* The rows that get status true are among those asked for.
LEMMA StatusOnOf == ASSUME NEW S, NEW dumb PROVE StatusOn(GetTokenInfos(S, dumb)) \subseteq S
BY DEF StatusOn, GetTokenInfos, Contract!GetBatchERC20Infos

\* The figures of a division and of a product.
LEMMA FiguresOfPrices ==
  ASSUME NEW a \in Price, NEW b \in Price
  PROVE  Mul(a, b) \in Price /\ Div(a, b) \in Figure
BY DEF Mul, Div, Price, Figure

\* Whatever a division leaves, what is written is a price.
LEMMA BoundedIsPrice == ASSUME NEW f \in Figure PROVE Bounded(f) \in Price /\ (f = "pos" => Bounded(f) = "pos")
BY DEF Bounded, Figure, Price

\* The figures of each job are of tokens it has asked for; of a feed that answers
\* they are positive.
LEMMA ChainLinkFigures ==
  ASSUME NEW chunk, NEW lost
  PROVE  /\ DOMAIN CrawlChainLink(chunk, lost) \subseteq chunk
         /\ \A t \in DOMAIN CrawlChainLink(chunk, lost) : CrawlChainLink(chunk, lost)[t] = "pos"
BY DEF CrawlChainLink

LEMMA MultiFigures ==
  ASSUME NEW c, NEW chunk, NEW lost, NEW p \in [Address -> Price]
  PROVE  /\ DOMAIN CrawlMulti(c, chunk, lost, p) \subseteq chunk
         /\ \A x \in DOMAIN CrawlMulti(c, chunk, lost, p) : CrawlMulti(c, chunk, lost, p)[x] \in Figure
<1>1. ASSUME NEW x \in DOMAIN CrawlMulti(c, chunk, lost, p)
      PROVE  CrawlMulti(c, chunk, lost, p)[x] \in Figure
  <2> DEFINE key == CHOOSE k \in KeyPairs(c, x) : TRUE
             supply == Answer(<<x, "supply">> \in lost)
             value == Mul(Answer(<<x, "balance">> \in lost), p[key])
  <2>1. KeyPairs(c, x) # {} /\ KeyPairs(c, x) \subseteq Feed
    BY <1>1 DEF CrawlMulti, KeyPairs
  <2>2. key \in Feed
    BY <2>1
  <2>3. p[key] \in Price
    BY <2>2, FeedAssumption DEF Address
  <2>4. supply \in Price /\ Answer(<<x, "balance">> \in lost) \in Price
    BY DEF Answer, Price
  <2>5. value \in Price
    BY <2>3, <2>4, FiguresOfPrices
  <2>6. CrawlMulti(c, chunk, lost, p)[x] = IF supply = "zero" THEN "zero" ELSE Div(value, supply)
    BY <1>1 DEF CrawlMulti
  <2>7. "zero" \in Figure
    BY DEF Figure
  <2> QED
    BY <2>4, <2>5, <2>6, <2>7, FiguresOfPrices
<1>2. DOMAIN CrawlMulti(c, chunk, lost, p) \subseteq chunk
  BY DEF CrawlMulti
<1> QED
  BY <1>1, <1>2

LEMMA SingleFigures ==
  ASSUME NEW c \in [Lp -> Address \X Address], NEW chunk, NEW lost, NEW best,
         \A t \in DOMAIN best : best[t] \in Lp, NEW p \in [Address -> Price]
  PROVE  /\ DOMAIN CrawlSingle(c, chunk, lost, best, p) \subseteq chunk
         /\ \A t \in DOMAIN CrawlSingle(c, chunk, lost, best, p) :
              CrawlSingle(c, chunk, lost, best, p)[t] \in Figure
<1>1. ASSUME NEW t \in chunk \cap DOMAIN best
      PROVE  Div(Mul(Answer(<<t, "other">> \in lost), p[Other(c, t, best[t])]),
                 Answer(<<t, "target">> \in lost)) \in Figure
  <2>1. Other(c, t, best[t]) \in Address
    BY <1>1, ComponentsAreAddresses DEF Other
  <2>2. Answer(<<t, "other">> \in lost) \in Price /\ Answer(<<t, "target">> \in lost) \in Price
    BY DEF Answer, Price
  <2> QED
    BY <2>1, <2>2, FiguresOfPrices
<1> QED
  BY <1>1 DEF CrawlSingle

\* The chunk of a run is of pairs, and what they are composed of of addresses.
LEMMA ChunkIsPairs ==
  ASSUME TypeOK, NEW d \in Dex
  PROVE  /\ Chunk(d) \subseteq Lp
         /\ \A x \in Chunk(d) : \E i \in DOMAIN Pairs[d] : Pairs[d][i] = x
         /\ Grouped(d) = [multi |-> Chunk(d), single |-> UNION {Components(composed, x) : x \in Chunk(d)}]
         /\ Grouped(d).multi \subseteq Address /\ Grouped(d).single \subseteq Address
<1>1. /\ Pairs[d] \in Seq(Lp) /\ cursor[d] \in Nat /\ to[d] \in Nat /\ to[d] <= Len(Pairs[d])
      /\ composed \in [Lp -> Address \X Address]
  BY TokenRunAssumption DEF TypeOK
<1>2. Len(Pairs[d]) \in Nat /\ DOMAIN Pairs[d] = 1 .. Len(Pairs[d])
  BY <1>1, LenProperties
<1>3. \A i \in cursor[d] + 1 .. to[d] : i \in 1 .. Len(Pairs[d])
  BY <1>1, <1>2
<1>4. \A i \in cursor[d] + 1 .. to[d] : Pairs[d][i] \in Lp
  BY <1>1, <1>3, ElementOfSeq
<1>5. Chunk(d) \subseteq Lp /\ \A x \in Chunk(d) : \E i \in DOMAIN Pairs[d] : Pairs[d][i] = x
  BY <1>2, <1>3, <1>4 DEF Chunk
<1>6. \A x \in Chunk(d) : Components(composed, x) \subseteq Address
  BY <1>1, <1>5, ComponentsAreAddresses
<1>7. Grouped(d) = [multi |-> Chunk(d), single |-> UNION {Components(composed, x) : x \in Chunk(d)}]
  BY DEF Grouped, Grouping
<1>8. Grouped(d).multi \subseteq Address
  BY <1>5, <1>7 DEF Address
<1>9. Grouped(d).single \subseteq Address
  BY <1>6, <1>7
<1> QED
  BY <1>5, <1>7, <1>8, <1>9

\* The rows of pairs are made of the pairs that are new.
LEMMA NewMultisAreNew == ASSUME NEW d \in Dex PROVE NewMultis(d) \subseteq task[d].multi
BY DEF NewMultis, FirstRows, SecondRows, SameChunk, Unspoilt

\* What a step of one run's pc leaves of the others'.
LEMMA GotoMoves ==
  ASSUME TypeOK, NEW d \in Dex, NEW l, NEW m, Goto(d, l, m)
  PROVE  /\ pc[d] = l
         /\ pc'[d] = m
         /\ \A e \in Dex \ {d} : pc'[e] = pc[e]
BY DEF Goto, TypeOK

-----------------------------------------------------------------------------
(***************************************************************************)
(* Type correctness.                                                       *)
(***************************************************************************)

\* The part of TypeOK that speaks of the pair jobs, and that of the price jobs.
PairTypes ==
  /\ cursor \in [Dex -> Nat] /\ to \in [Dex -> Nat]
  /\ \A d \in Dex : cursor[d] <= Len(Pairs[d]) /\ to[d] <= Len(Pairs[d])
  /\ pc \in [Dex -> {"idle"} \cup InTask \cup Ended]
  /\ fresh \in [Dex -> [multi : SUBSET Address, single : SUBSET Address]]
  /\ task \in [Dex -> [multi : SUBSET Address, single : SUBSET Address,
                       invalid : SUBSET Address, ok : SUBSET Address]]
  /\ mine \in [Dex -> [rows : SUBSET Address, on : SUBSET Address, off : SUBSET Lp]]
  /\ \A d \in Dex : mine[d].on \subseteq mine[d].rows

PriceTypes ==
  /\ step \in [PriceJob -> {"idle", "crawl", "update"}]
  /\ todo \in [PriceJob -> SUBSET Address] /\ seen \in [PriceJob -> SUBSET Address]
  /\ DOMAIN figures = PriceJob
  /\ \A j \in PriceJob : \A a \in DOMAIN figures[j] : a \in Address /\ figures[j][a] \in Figure

TableTypes ==
  /\ composed \in [Lp -> Address \X Address]
  /\ known \subseteq Address /\ on \subseteq known
  /\ price \in [Address -> Price]
  /\ passed \subseteq Lp

\* A run that ends forgets what it knows.
LEMMA ForgetTypes ==
  ASSUME PairTypes, NEW d \in Dex, Forget(d)
  PROVE  /\ to' \in [Dex -> Nat] /\ \A e \in Dex : to'[e] <= Len(Pairs[e])
         /\ fresh' \in [Dex -> [multi : SUBSET Address, single : SUBSET Address]]
         /\ task' \in [Dex -> [multi : SUBSET Address, single : SUBSET Address,
                              invalid : SUBSET Address, ok : SUBSET Address]]
         /\ mine' \in [Dex -> [rows : SUBSET Address, on : SUBSET Address, off : SUBSET Lp]]
         /\ \A e \in Dex : mine'[e].on \subseteq mine'[e].rows
<1>1. \A e \in Dex : Len(Pairs[e]) \in Nat
  BY TokenRunAssumption, LenProperties
<1>2. to' \in [Dex -> Nat] /\ \A e \in Dex : to'[e] <= Len(Pairs[e])
  BY <1>1 DEF PairTypes, Forget
<1>3. fresh' \in [Dex -> [multi : SUBSET Address, single : SUBSET Address]]
  BY DEF PairTypes, Forget
<1>4. task' \in [Dex -> [multi : SUBSET Address, single : SUBSET Address,
                        invalid : SUBSET Address, ok : SUBSET Address]]
  BY DEF PairTypes, Forget, NoTask
<1>5. mine' \in [Dex -> [rows : SUBSET Address, on : SUBSET Address, off : SUBSET Lp]]
      /\ \A e \in Dex : mine'[e].on \subseteq mine'[e].rows
  BY DEF PairTypes, Forget, NoRows
<1> QED
  BY <1>2, <1>3, <1>4, <1>5

\* So does inserting rows.
LEMMA InsertTypes ==
  ASSUME PairTypes, NEW d \in Dex, NEW rows \in SUBSET Address, NEW away \in SUBSET Lp, Insert(d, rows, away)
  PROVE  /\ mine' \in [Dex -> [rows : SUBSET Address, on : SUBSET Address, off : SUBSET Lp]]
         /\ \A e \in Dex : mine'[e].on \subseteq mine'[e].rows
         /\ \A e \in Dex \ {d} : mine'[e] = mine[e]
         /\ mine'[d].rows = mine[d].rows \cup (rows \ known)
         /\ mine'[d].on = mine[d].on \cup ((rows \ known) \cap task[d].ok)
         /\ mine'[d].off = away
<1> DEFINE new == [rows |-> mine[d].rows \cup (rows \ known),
                   on |-> mine[d].on \cup ((rows \ known) \cap task[d].ok),
                   off |-> away]
<1>1. mine' = [mine EXCEPT ![d] = new]
  BY DEF Insert
<1>2. new \in [rows : SUBSET Address, on : SUBSET Address, off : SUBSET Lp] /\ new.on \subseteq new.rows
  BY DEF PairTypes
<1>3. mine'[d] = new /\ \A e \in Dex \ {d} : mine'[e] = mine[e]
  BY <1>1 DEF PairTypes
<1>4. mine' \in [Dex -> [rows : SUBSET Address, on : SUBSET Address, off : SUBSET Lp]]
  BY <1>1, <1>2 DEF PairTypes
<1>5. /\ new.rows = mine[d].rows \cup (rows \ known)
      /\ new.on = mine[d].on \cup ((rows \ known) \cap task[d].ok)
      /\ new.off = away
  OBVIOUS
<1> HIDE DEF new
<1>6. \A e \in Dex : mine'[e].on \subseteq mine'[e].rows
  BY <1>2, <1>3 DEF PairTypes
<1> QED
  BY <1>3, <1>4, <1>5, <1>6

\* A step of a price job: its figures are prices, or what a division leaves.
LEMMA PriceStepTypes ==
  ASSUME TypeOK, NEW j \in PriceJob, StartPrice(j) \/ PriceStep(j)
  PROVE  PriceTypes' /\ TableTypes'
<1> USE DEF table, pairRun, bounds
<1>0. PriceTypes /\ TableTypes
  BY DEF TypeOK, PriceTypes, TableTypes
<1>1. CASE StartPrice(j)
  <2>1. UNCHANGED <<composed, known, on, passed, price, figures>> /\ step' = [step EXCEPT ![j] = "crawl"]
    BY <1>1 DEF StartPrice
  <2>2. GetTokens(j, on, price) \in SUBSET Address
    BY <1>0 DEF GetTokens, ChainLinkTokens, MultiTokens, SingleTokens, TableTypes, PriceJob
  <2>3. todo' \in [PriceJob -> SUBSET Address]
    BY <1>0, <1>1, <2>2 DEF StartPrice, PriceTypes
  <2>4. Feed \subseteq Address
    BY FeedAssumption DEF Address
  <2>5. seen' \in [PriceJob -> SUBSET Address]
    <3> DEFINE new == IF j = "multi" THEN {a \in Feed : price[a] # "zero"} ELSE {}
    <3>1. new \in SUBSET Address
      BY <2>4
    <3>2. seen' = [seen EXCEPT ![j] = new]
      BY <1>1 DEF StartPrice
    <3> HIDE DEF new
    <3> QED
      BY <1>0, <3>1, <3>2 DEF PriceTypes
  <2>6. TableTypes'
    BY <1>0, <2>1 DEF TableTypes
  <2>7. step' \in [PriceJob -> {"idle", "crawl", "update"}]
    BY <1>0, <2>1 DEF PriceTypes
  <2> QED
    BY <1>0, <2>1, <2>3, <2>5, <2>6, <2>7 DEF PriceTypes
<1>2. ASSUME NEW chunk \in SUBSET todo[j], NEW lost,
             NEW best \in (IF j = "single" THEN BestPairs(chunk) ELSE {NoFigures}), Crawl(j, chunk, lost, best)
      PROVE  PriceTypes' /\ TableTypes'
  <2>1. UNCHANGED <<composed, known, on, passed, price, seen>> /\ step' = [step EXCEPT ![j] = "update"]
    BY <1>2 DEF Crawl
  <2>2. todo' = [todo EXCEPT ![j] = todo[j] \ chunk] /\ figures' = [figures EXCEPT ![j] = Crawled(j, chunk, lost, best)]
    BY <1>2 DEF Crawl
  <2>3. todo' \in [PriceJob -> SUBSET Address]
    <3>1. todo[j] \ chunk \in SUBSET Address
      BY <1>0 DEF PriceTypes
    <3> QED
      BY <1>0, <2>2, <3>1 DEF PriceTypes
  <2>4. chunk \subseteq Address
    BY <1>0 DEF PriceTypes
  <2>5. \A a \in DOMAIN Crawled(j, chunk, lost, best) : a \in Address /\ Crawled(j, chunk, lost, best)[a] \in Figure
    <3>1. CASE j = "chainlink"
      <4>1. Crawled(j, chunk, lost, best) = CrawlChainLink(chunk, lost)
        BY <3>1 DEF Crawled
      <4>2. "pos" \in Figure
        BY DEF Figure
      <4> QED
        BY <2>4, <4>1, <4>2, ChainLinkFigures
    <3>2. CASE j = "multi"
      <4>1. Crawled(j, chunk, lost, best) = CrawlMulti(composed, chunk, lost, SeenPrice(j))
        BY <3>2 DEF Crawled
      <4>2. SeenPrice(j) \in [Address -> Price]
        BY DEF SeenPrice, Price
      <4> QED
        BY <2>4, <4>1, <4>2, MultiFigures
    <3>3. CASE j = "single"
      <4>1. Crawled(j, chunk, lost, best) = CrawlSingle(composed, chunk, lost, best, price)
        BY <3>3 DEF Crawled
      <4>2. best \in BestPairs(chunk)
        BY <1>2, <3>3
      <4>3. \A t \in DOMAIN best : best[t] \in Lp
        BY <4>2 DEF BestPairs
      <4> QED
        BY <1>0, <2>4, <4>1, <4>3, SingleFigures DEF TableTypes
    <3> QED
      BY <3>1, <3>2, <3>3 DEF PriceJob
  <2>6. DOMAIN figures' = PriceJob
    BY <1>0, <2>2 DEF PriceTypes
  <2>7. \A k \in PriceJob : \A a \in DOMAIN figures'[k] : a \in Address /\ figures'[k][a] \in Figure
    <3>1. figures'[j] = Crawled(j, chunk, lost, best) /\ \A k \in PriceJob \ {j} : figures'[k] = figures[k]
      BY <1>0, <2>2 DEF PriceTypes
    <3> QED
      BY <1>0, <2>5, <3>1 DEF PriceTypes
  <2> QED
    BY <1>0, <2>1, <2>3, <2>6, <2>7 DEF PriceTypes, TableTypes
\* Nothing is left of a run that ends.
<1>3. ASSUME NEW l \in {"idle", "crawl"}, step' = [step EXCEPT ![j] = l],
             todo' \in {todo, [todo EXCEPT ![j] = {}]}, seen' \in {seen, [seen EXCEPT ![j] = {}]},
             figures' = [figures EXCEPT ![j] = NoFigures]
      PROVE  PriceTypes'
  <2>1. DOMAIN NoFigures = {}
    BY DEF NoFigures
  <2>2. DOMAIN figures' = PriceJob /\ figures'[j] = NoFigures /\ \A k \in PriceJob \ {j} : figures'[k] = figures[k]
    BY <1>0, <1>3 DEF PriceTypes
  <2>3. \A k \in PriceJob : \A a \in DOMAIN figures'[k] : a \in Address /\ figures'[k][a] \in Figure
    BY <1>0, <2>1, <2>2 DEF PriceTypes
  <2>4. todo' \in [PriceJob -> SUBSET Address] /\ seen' \in [PriceJob -> SUBSET Address]
    BY <1>0, <1>3 DEF PriceTypes
  <2>5. step' \in [PriceJob -> {"idle", "crawl", "update"}]
    BY <1>0, <1>3 DEF PriceTypes
  <2> QED
    BY <2>2, <2>3, <2>4, <2>5 DEF PriceTypes
<1>4. CASE BulkUpdate(j)
  <2>1. UNCHANGED <<composed, known, on, passed>>
    BY <1>4 DEF BulkUpdate
  <2>2. price' \in [Address -> Price]
    <3>1. \A a \in DOMAIN figures[j] : Bounded(figures[j][a]) \in Price
      BY <1>0, BoundedIsPrice DEF PriceTypes
    <3> QED
      BY <1>0, <1>4, <3>1 DEF BulkUpdate, TableTypes
  <2>3. PriceTypes'
    <3>1. CASE todo[j] = {}
      <4>1. PriceRunEnds(j)
        BY <1>4, <3>1 DEF BulkUpdate
      <4> QED
        BY <1>3, <4>1 DEF PriceRunEnds
    <3>2. CASE todo[j] # {}
      <4>1. /\ step' = [step EXCEPT ![j] = "crawl"]
            /\ figures' = [figures EXCEPT ![j] = NoFigures]
            /\ UNCHANGED <<todo, seen>>
        BY <1>4, <3>2 DEF BulkUpdate
      <4> QED
        BY <1>3, <4>1
    <3> QED
      BY <3>1, <3>2
  <2> QED
    BY <1>0, <2>1, <2>2, <2>3 DEF TableTypes
<1>5. CASE PriceFails(j)
  <2>1. UNCHANGED <<composed, known, on, passed, price>> /\ PriceRunEnds(j)
    BY <1>5 DEF PriceFails
  <2> QED
    BY <1>0, <1>3, <2>1 DEF PriceRunEnds, TableTypes
<1> QED
  BY <1>1, <1>2, <1>4, <1>5 DEF PriceStep

\* A step of a pair job.
LEMMA PairStepTypes ==
  ASSUME TypeOK, NEW d \in Dex, Begin(d) \/ PairStep(d)
  PROVE  PairTypes' /\ TableTypes'
<1> USE DEF table, priceRun, bounds
<1>0. PairTypes /\ TableTypes
  BY DEF TypeOK, PairTypes, TableTypes
<1> DEFINE Pcs == {"idle"} \cup InTask \cup Ended
<1>1. ASSUME NEW l, NEW m \in Pcs, Goto(d, l, m) PROVE pc' \in [Dex -> Pcs]
  BY <1>0, <1>1 DEF Goto, PairTypes
<1>2. \A e \in Dex : Len(Pairs[e]) \in Nat
  BY TokenRunAssumption, LenProperties
<1>3. CASE Begin(d)
  <2>1. UNCHANGED <<composed, known, on, passed, price, cursor, fresh, task, mine>>
    BY <1>3 DEF Begin
  <2> DEFINE end == IF Len(Pairs[d]) - cursor[d] > PairChunk THEN cursor[d] + PairChunk ELSE Len(Pairs[d])
  <2>2. to' = [to EXCEPT ![d] = end] /\ cursor[d] < Len(Pairs[d]) /\ cursor[d] \in Nat
    BY <1>0, <1>3 DEF Begin, PairTypes
  <2>3. end \in Nat /\ end <= Len(Pairs[d])
    BY <1>2, <2>2, TokenRunAssumption
  <2> HIDE DEF end
  <2>4. to' \in [Dex -> Nat] /\ \A e \in Dex : to'[e] <= Len(Pairs[e])
    BY <1>0, <2>2, <2>3 DEF PairTypes
  <2>5. pc' \in [Dex -> Pcs]
    BY <1>0, <1>3 DEF Begin, PairTypes, InTask
  <2> QED
    BY <1>0, <2>1, <2>4, <2>5 DEF PairTypes, TableTypes
\* The transaction is rolled back.
<1>4. ASSUME NEW l, NEW how \in Ended, Ends(d, l, how) PROVE PairTypes' /\ TableTypes'
  <2>1. UNCHANGED <<composed, known, on, passed, price, cursor>> /\ Goto(d, l, how) /\ Forget(d)
    BY <1>4 DEF Ends
  <2>2. pc' \in [Dex -> Pcs]
    BY <1>1, <1>4, <2>1
  <2> QED
    BY <1>0, <2>1, <2>2, ForgetTypes DEF PairTypes, TableTypes
<1>5. CASE LosesAddress(d) \/ ClassifyThrows(d) \/ CreateMultiTokensThrows(d) \/ Fails(d)
  BY <1>4, <1>5 DEF LosesAddress, ClassifyThrows, CreateMultiTokensThrows, Fails, Ended
<1>6. CASE RemoveRegisteredTokens(d)
  <2>1. UNCHANGED <<composed, known, on, passed, price, cursor, to, task, mine>> /\ Goto(d, "lookUp", "classify")
    BY <1>6 DEF RemoveRegisteredTokens
  <2>2. pc' \in [Dex -> Pcs]
    BY <1>1, <2>1 DEF InTask
  <2> DEFINE new == RemoveRegistered(Grouped(d), known)
  <2>3. new \in [multi : SUBSET Address, single : SUBSET Address]
    BY ChunkIsPairs DEF RemoveRegistered
  <2>4. fresh' = [fresh EXCEPT ![d] = new]
    BY <1>6 DEF RemoveRegisteredTokens
  <2> HIDE DEF new
  <2>5. fresh' \in [Dex -> [multi : SUBSET Address, single : SUBSET Address]]
    BY <1>0, <2>3, <2>4 DEF PairTypes
  <2> QED
    BY <1>0, <2>1, <2>2, <2>5 DEF PairTypes, TableTypes
<1>7. ASSUME NEW dumb, Classify(d, dumb) PROVE PairTypes' /\ TableTypes'
  <2> DEFINE pure == CheckMulti(composed, RemoveInvalid(fresh[d]))
             ok == StatusOn(GetTokenInfos(pure.multi \cup pure.single, dumb))
             new == [multi |-> pure.multi, single |-> pure.single, invalid |-> pure.invalid, ok |-> ok]
  <2>1. UNCHANGED <<composed, known, on, passed, price, cursor, to, fresh, mine>> /\ Goto(d, "classify", "singles")
    BY <1>7 DEF Classify
  <2>2. pc' \in [Dex -> Pcs]
    BY <1>1, <2>1 DEF InTask
  <2>3. fresh[d] \in [multi : SUBSET Address, single : SUBSET Address] /\ composed \in [Lp -> Address \X Address]
    BY <1>0 DEF PairTypes, TableTypes
  <2>4. pure.multi \subseteq Address /\ pure.single \subseteq Address /\ pure.invalid \subseteq Address
    BY <2>3, Classified
  <2>5. ok \subseteq pure.multi \cup pure.single
    BY StatusOnOf
  <2>6. task' = [task EXCEPT ![d] = new]
    BY <1>7 DEF Classify
  <2> HIDE DEF pure, ok
  <2>7. new \in [multi : SUBSET Address, single : SUBSET Address, invalid : SUBSET Address, ok : SUBSET Address]
    BY <2>4, <2>5
  <2> HIDE DEF new
  <2>8. task' \in [Dex -> [multi : SUBSET Address, single : SUBSET Address,
                          invalid : SUBSET Address, ok : SUBSET Address]]
    BY <1>0, <2>6, <2>7 DEF PairTypes
  <2> QED
    BY <1>0, <2>1, <2>2, <2>8 DEF PairTypes, TableTypes
<1>8. ASSUME NEW l, NEW m \in InTask, NEW rows \in SUBSET Address, NEW away \in SUBSET Lp,
             Goto(d, l, m), Insert(d, rows, away),
             UNCHANGED <<composed, known, on, passed, price, cursor, to, fresh, task>>
      PROVE  PairTypes' /\ TableTypes'
  <2>1. pc' \in [Dex -> Pcs]
    BY <1>1, <1>8
  <2>2. mine' \in [Dex -> [rows : SUBSET Address, on : SUBSET Address, off : SUBSET Lp]] /\ \A e \in Dex : mine'[e].on \subseteq mine'[e].rows
    BY <1>0, <1>8, InsertTypes
  <2> QED
    BY <1>0, <1>8, <2>1, <2>2 DEF PairTypes, TableTypes
<1>9. task[d].single \in SUBSET Address /\ NewMultis(d) \in SUBSET Address /\ TurnedAway(d) \in SUBSET Lp
  <2>1. task[d].single \in SUBSET Address /\ task[d].multi \in SUBSET Address
    BY <1>0 DEF PairTypes
  <2>2. TurnedAway(d) \in SUBSET Lp
    BY ChunkIsPairs DEF TurnedAway
  <2> QED
    BY <2>1, <2>2, NewMultisAreNew
<1>10. CASE CreateSingleTokens(d)
  BY <1>8, <1>9, <1>10 DEF CreateSingleTokens, InTask
<1>11. CASE CreateMultiTokens(d)
  BY <1>8, <1>9, <1>11 DEF CreateMultiTokens, InTask
<1>12. CASE Commit(d)
  <2>1. /\ UNCHANGED <<composed, price>> /\ Goto(d, "commit", "idle") /\ Forget(d)
        /\ known' = known \cup mine[d].rows /\ on' = on \cup mine[d].on /\ passed' = passed \cup mine[d].off
        /\ cursor' = [cursor EXCEPT ![d] = to[d]]
    BY <1>12 DEF Commit
  <2>2. pc' \in [Dex -> Pcs]
    BY <1>1, <2>1
  <2>3. mine[d].rows \subseteq Address /\ mine[d].on \subseteq mine[d].rows /\ mine[d].off \subseteq Lp
    BY <1>0 DEF PairTypes
  <2>4. TableTypes'
    BY <1>0, <2>1, <2>3 DEF TableTypes
  <2>5. cursor' \in [Dex -> Nat] /\ \A e \in Dex : cursor'[e] <= Len(Pairs[e])
    BY <1>0, <2>1 DEF PairTypes
  <2> QED
    BY <1>0, <2>1, <2>2, <2>4, <2>5, ForgetTypes DEF PairTypes
<1> QED
  BY <1>3, <1>5, <1>6, <1>7, <1>10, <1>11, <1>12 DEF PairStep

\* The tables and the jobs keep their types; above all, the table never holds what
\* a division by zero leaves.
THEOREM TypeCorrect == Spec => []TypeOK
<1>1. Init => TypeOK
  <2> SUFFICES ASSUME Init PROVE TypeOK
    OBVIOUS
  <2>1. \A d \in Dex : Len(Pairs[d]) \in Nat
    BY TokenRunAssumption, LenProperties
  <2>2. TableTypes
    BY TokenRunAssumption, FeedAssumption DEF Init, TableTypes, Price, Address
  <2>3. PairTypes
    <3>1. cursor \in [Dex -> Nat] /\ to \in [Dex -> Nat] /\ \A d \in Dex : cursor[d] <= Len(Pairs[d]) /\ to[d] <= Len(Pairs[d])
      BY <2>1 DEF Init
    <3>2. task \in [Dex -> [multi : SUBSET Address, single : SUBSET Address,
                           invalid : SUBSET Address, ok : SUBSET Address]]
      BY DEF Init, NoTask
    <3>3. /\ fresh \in [Dex -> [multi : SUBSET Address, single : SUBSET Address]]
          /\ pc \in [Dex -> {"idle"} \cup InTask \cup Ended]
      BY DEF Init
    <3>4. mine \in [Dex -> [rows : SUBSET Address, on : SUBSET Address, off : SUBSET Lp]] /\ \A d \in Dex : mine[d].on \subseteq mine[d].rows
      BY DEF Init, NoRows
    <3> QED
      BY <3>1, <3>2, <3>3, <3>4 DEF PairTypes
  <2>4. PriceTypes
    <3>1. DOMAIN NoFigures = {}
      BY DEF NoFigures
    <3> QED
      BY <3>1 DEF Init, PriceTypes
  <2> QED
    BY <2>2, <2>3, <2>4 DEF TypeOK, PairTypes, PriceTypes, TableTypes
<1>2. TypeOK /\ [Next]_vars => TypeOK'
  <2> SUFFICES ASSUME TypeOK, [Next]_vars PROVE TypeOK'
    OBVIOUS
  <2> USE DEF table, pairRun, priceRun, bounds
  <2>0. /\ TypeOK <=> TableTypes /\ PairTypes /\ PriceTypes
        /\ TypeOK' <=> TableTypes' /\ PairTypes' /\ PriceTypes'
    BY DEF TypeOK, PairTypes, PriceTypes, TableTypes
  <2>1. CASE UNCHANGED vars
    BY <2>0, <2>1 DEF vars, TableTypes, PairTypes, PriceTypes
  <2>2. ASSUME NEW d \in Dex, Begin(d) \/ PairStep(d) PROVE TypeOK'
    <3>1. UNCHANGED priceRun
      BY <2>2 DEF Begin, PairStep, LosesAddress, RemoveRegisteredTokens, Classify, ClassifyThrows,
                  CreateSingleTokens, CreateMultiTokens, CreateMultiTokensThrows, Commit, Fails, Ends
    <3>2. PriceTypes'
      BY <2>0, <3>1 DEF PriceTypes
    <3> QED
      BY <2>0, <2>2, <3>2, PairStepTypes
  <2>3. ASSUME NEW j \in PriceJob, StartPrice(j) \/ PriceStep(j) PROVE TypeOK'
    <3>1. UNCHANGED pairRun
      BY <2>3 DEF StartPrice, PriceStep, Crawl, BulkUpdate, PriceFails
    <3>2. PairTypes'
      BY <2>0, <3>1 DEF PairTypes
    <3> QED
      BY <2>0, <2>3, <3>2, PriceStepTypes
  <2>4. ASSUME NEW a \in Address, SetStatus(a) PROVE TypeOK'
    <3>1. UNCHANGED <<composed, known, price, passed, pairRun, priceRun>> /\ on' \subseteq on \cup {a} /\ a \in known
      BY <2>4 DEF SetStatus
    <3>2. PairTypes' /\ PriceTypes'
      BY <2>0, <3>1 DEF PairTypes, PriceTypes
    <3>3. TableTypes'
      BY <2>0, <3>1 DEF TableTypes
    <3> QED
      BY <2>0, <3>2, <3>3
  <2> QED
    BY <2>1, <2>2, <2>3, <2>4 DEF Next
<1> QED
  BY <1>1, <1>2, PTL DEF Spec

-----------------------------------------------------------------------------
(***************************************************************************)
(* The price of a token with a feed.                                       *)
(***************************************************************************)

\* Only the job of the feeds has figures of tokens with a feed, and those are
\* positive.
LEMMA FeedStep == TypeOK /\ FeedInv /\ [Next]_vars => FeedInv'
<1> SUFFICES ASSUME TypeOK, FeedInv, [Next]_vars PROVE FeedInv'
  OBVIOUS
<1>0. /\ DOMAIN figures = PriceJob /\ todo \in [PriceJob -> SUBSET Address]
      /\ PriceJob = {"chainlink", "multi", "single"}
  BY DEF TypeOK, PriceJob
\* What a step leaves of the two variables.
<1>1. ASSUME UNCHANGED <<todo, figures>> PROVE FeedInv'
  BY <1>1 DEF FeedInv
<1>2. CASE UNCHANGED vars
  BY <1>1, <1>2 DEF vars, priceRun
<1>3. ASSUME NEW d \in Dex, Begin(d) \/ PairStep(d) PROVE FeedInv'
  <2>1. UNCHANGED priceRun
    BY <1>3 DEF Begin, PairStep, LosesAddress, RemoveRegisteredTokens, Classify, ClassifyThrows,
                CreateSingleTokens, CreateMultiTokens, CreateMultiTokensThrows, Commit, Fails, Ends
  <2> QED
    BY <1>1, <2>1 DEF priceRun
<1>4. ASSUME NEW a \in Address, SetStatus(a) PROVE FeedInv'
  BY <1>1, <1>4 DEF SetStatus, priceRun
<1>5. ASSUME NEW j \in PriceJob, StartPrice(j) PROVE FeedInv'
  <2>1. UNCHANGED figures /\ todo' = [todo EXCEPT ![j] = GetTokens(j, on, price)]
    BY <1>5 DEF StartPrice
  <2>2. j \in {"multi", "single"} => GetTokens(j, on, price) \cap Feed = {}
    BY FeedAssumption, AddressAssumption DEF GetTokens, MultiTokens, SingleTokens
  <2>3. \A k \in {"multi", "single"} : todo'[k] \cap Feed = {}
    BY <1>0, <2>1, <2>2 DEF FeedInv
  <2> QED
    BY <2>1, <2>3 DEF FeedInv
\* A step that makes figures of some of the tokens the job has read, or drops them.
<1>6. ASSUME NEW j \in PriceJob, NEW new, figures' = [figures EXCEPT ![j] = new],
             \A k \in PriceJob : todo'[k] \subseteq todo[k],
             \A t \in Feed \cap DOMAIN new : new[t] = "pos"
      PROVE  FeedInv'
  <2>1. figures'[j] = new /\ \A k \in PriceJob \ {j} : figures'[k] = figures[k]
    BY <1>0, <1>6
  <2>2. \A k \in PriceJob : \A t \in Feed \cap DOMAIN figures'[k] : figures'[k][t] = "pos"
    BY <1>6, <2>1 DEF FeedInv
  <2>3. \A k \in {"multi", "single"} : todo'[k] \cap Feed = {}
    BY <1>0, <1>6 DEF FeedInv
  <2> QED
    BY <2>2, <2>3 DEF FeedInv
<1>7. ASSUME NEW j \in PriceJob, PriceRunEnds(j) PROVE FeedInv'
  <2>1. DOMAIN NoFigures = {}
    BY DEF NoFigures
  <2>2. figures' = [figures EXCEPT ![j] = NoFigures] /\ \A k \in PriceJob : todo'[k] \subseteq todo[k]
    BY <1>0, <1>7 DEF PriceRunEnds
  <2> QED
    BY <1>6, <2>1, <2>2
<1>8. ASSUME NEW j \in PriceJob, NEW chunk \in SUBSET todo[j], NEW lost,
             NEW best \in (IF j = "single" THEN BestPairs(chunk) ELSE {NoFigures}), Crawl(j, chunk, lost, best)
      PROVE  FeedInv'
  <2>1. /\ figures' = [figures EXCEPT ![j] = Crawled(j, chunk, lost, best)]
        /\ todo' = [todo EXCEPT ![j] = todo[j] \ chunk]
    BY <1>8 DEF Crawl
  <2>2. \A k \in PriceJob : todo'[k] \subseteq todo[k]
    BY <1>0, <2>1
  <2>3. \A t \in Feed \cap DOMAIN Crawled(j, chunk, lost, best) : Crawled(j, chunk, lost, best)[t] = "pos"
    <3>1. CASE j = "chainlink"
      <4>1. Crawled(j, chunk, lost, best) = CrawlChainLink(chunk, lost)
        BY <3>1 DEF Crawled
      <4> QED
        BY <4>1, ChainLinkFigures
    <3>2. CASE j = "multi"
      <4>1. DOMAIN Crawled(j, chunk, lost, best) \subseteq chunk
        BY <3>2 DEF Crawled, CrawlMulti
      <4> QED
        BY <1>8, <3>2, <4>1 DEF FeedInv
    <3>3. CASE j = "single"
      <4>1. DOMAIN Crawled(j, chunk, lost, best) \subseteq chunk
        BY <3>3 DEF Crawled, CrawlSingle
      <4> QED
        BY <1>8, <3>3, <4>1 DEF FeedInv
    <3> QED
      BY <1>0, <3>1, <3>2, <3>3
  <2> HIDE DEF Crawl
  <2> QED
    BY <1>6, <2>1, <2>2, <2>3
<1>9. ASSUME NEW j \in PriceJob, BulkUpdate(j) PROVE FeedInv'
  <2>1. CASE todo[j] = {}
    BY <1>7, <1>9, <2>1 DEF BulkUpdate
  <2>2. CASE todo[j] # {}
    <3>1. figures' = [figures EXCEPT ![j] = NoFigures] /\ UNCHANGED todo
      BY <1>9, <2>2 DEF BulkUpdate
    <3>2. DOMAIN NoFigures = {}
      BY DEF NoFigures
    <3> QED
      BY <1>6, <3>1, <3>2
  <2> QED
    BY <2>1, <2>2
<1>10. ASSUME NEW j \in PriceJob, PriceFails(j) PROVE FeedInv'
  BY <1>7, <1>10 DEF PriceFails
<1> QED
  BY <1>2, <1>3, <1>4, <1>5, <1>8, <1>9, <1>10 DEF Next, PriceStep

\* No job, and no call without an answer, makes zero of a price that has come
\* from a feed.
THEOREM FeedPricesStay == Spec => FeedPriceStays
<1>1. Init => FeedInv
  BY DEF Init, FeedInv, PriceJob, NoFigures
<1>2. TypeOK /\ FeedInv /\ [Next]_vars =>
        [\A t \in Feed : price[t] = "pos" => price'[t] = "pos"]_vars
  <2> SUFFICES ASSUME TypeOK, FeedInv, Next
               PROVE  \A t \in Feed : price[t] = "pos" => price'[t] = "pos"
    OBVIOUS
  <2> USE DEF table
  <2>1. ASSUME NEW d \in Dex, Begin(d) \/ PairStep(d) PROVE UNCHANGED price
    BY <2>1 DEF Begin, PairStep, LosesAddress, RemoveRegisteredTokens, Classify, ClassifyThrows,
                CreateSingleTokens, CreateMultiTokens, CreateMultiTokensThrows, Commit, Fails, Ends
  <2>2. ASSUME NEW a \in Address, SetStatus(a) PROVE UNCHANGED price
    BY <2>2 DEF SetStatus
  <2>3. ASSUME NEW j \in PriceJob, StartPrice(j) \/ PriceFails(j) PROVE UNCHANGED price
    BY <2>3 DEF StartPrice, PriceFails
  <2>4. ASSUME NEW j \in PriceJob, NEW chunk, NEW lost, NEW best, Crawl(j, chunk, lost, best) PROVE UNCHANGED price
    BY <2>4 DEF Crawl
  <2>5. ASSUME NEW j \in PriceJob, BulkUpdate(j)
        PROVE  \A t \in Feed : price[t] = "pos" => price'[t] = "pos"
    <3> SUFFICES ASSUME NEW t \in Feed, price[t] = "pos" PROVE price'[t] = "pos"
      OBVIOUS
    <3>1. t \in Address
      BY FeedAssumption DEF Address
    <3>2. price'[t] = IF t \in DOMAIN figures[j] THEN Bounded(figures[j][t]) ELSE price[t]
      BY <2>5, <3>1 DEF BulkUpdate
    <3>3. t \in DOMAIN figures[j] => figures[j][t] = "pos"
      BY DEF FeedInv
    <3>4. Bounded("pos") = "pos"
      BY DEF Bounded
    <3> QED
      BY <3>2, <3>3, <3>4
  <2> QED
    BY <2>1, <2>2, <2>3, <2>4, <2>5 DEF Next, PriceStep
<1> QED
  BY <1>1, <1>2, FeedStep, TypeCorrect, PTL DEF Spec, FeedPriceStays

-----------------------------------------------------------------------------
(***************************************************************************)
(* The pairs the pair jobs keep.                                           *)
(***************************************************************************)

\* The parts of TokenInv that speak of one exchange.
KeptAt(d) ==
  \A i \in 1 .. cursor[d] :
    Components(composed, Pairs[d][i]) \subseteq Token =>
      Pairs[d][i] \in known \cup passed

NestedAt(d) ==
  pc[d] = "undefined" =>
    \E x, y \in {Pairs[d][i] : i \in cursor[d] + 1 .. Len(Pairs[d])} :
      y \in Components(composed, x) /\ y \notin known

RowsAt(d) ==
  /\ pc[d] \notin {"multis", "commit"} => mine[d] = NoRows
  /\ mine[d].rows \cap known = {}
  /\ mine[d].rows \cap Lp \subseteq Chunk(d)

Apart == \A d \in Dex : \A e \in Dex \ {d} : mine[d].rows \cap mine[e].rows = {}

Local(d) ==
  /\ FreshInv(d) /\ TaskInv(d) /\ SinglesInv(d) /\ MultisInv(d)
  /\ KeptAt(d) /\ NestedAt(d) /\ RowsAt(d)

LEMMA TokenInvParts ==
  /\ TokenInv <=> Apart /\ \A d \in Dex : Local(d)
  /\ TokenInv' <=> Apart' /\ \A d \in Dex : Local(d)'
BY DEF TokenInv, RowsInv, PlainPairsAreKept, UndefinedIsNested, Apart, Local, KeptAt, NestedAt, RowsAt

\* The pairs of an exchange are pairs, and no other exchange's.
LEMMA PairsOf ==
  ASSUME NEW d \in Dex
  PROVE  /\ Len(Pairs[d]) \in Nat /\ DOMAIN Pairs[d] = 1 .. Len(Pairs[d])
         /\ \A i \in 1 .. Len(Pairs[d]) : Pairs[d][i] \in Lp
         /\ \A e \in Dex \ {d} : \A i \in DOMAIN Pairs[d], k \in DOMAIN Pairs[e] : Pairs[d][i] # Pairs[e][k]
<1>1. Pairs[d] \in Seq(Lp)
  BY TokenRunAssumption
<1>2. Len(Pairs[d]) \in Nat /\ DOMAIN Pairs[d] = 1 .. Len(Pairs[d])
  BY <1>1, LenProperties
<1>3. \A i \in 1 .. Len(Pairs[d]) : Pairs[d][i] \in Lp
  BY <1>1, ElementOfSeq
<1> QED
  BY <1>2, <1>3, TokenRunAssumption

\* What a run has found and made stays true while others add rows that are not its
\* own, and while operators turn rows off and on.
LEMMA OthersStay ==
  ASSUME TypeOK, NEW e \in Dex, Local(e), NEW gain,
         composed' = composed, cursor'[e] = cursor[e], to'[e] = to[e], pc'[e] = pc[e],
         fresh'[e] = fresh[e], task'[e] = task[e], mine'[e] = mine[e],
         known' = known \cup gain, passed \subseteq passed',
         gain \cap known = {}, gain \cap mine[e].rows = {},
         \A i \in DOMAIN Pairs[e] : Pairs[e][i] \notin gain
  PROVE  Local(e)'
<1>1. Chunk(e)' = Chunk(e)
  BY DEF Chunk
<1>2. Grouped(e)' = Grouped(e)
  BY <1>1 DEF Grouped
<1>3. FreshInv(e)' /\ TaskInv(e)'
  BY <1>1, <1>2 DEF Local, FreshInv, TaskInv
<1>4. SeenBy(e)' = SeenBy(e) \cup gain
  BY DEF SeenBy
<1>5. SinglesInv(e)'
  BY <1>4 DEF Local, SinglesInv
<1>7. MultisInv(e)'
  BY <1>1, <1>4 DEF Local, MultisInv
<1>9. KeptAt(e)'
  BY DEF Local, KeptAt
<1>10. NestedAt(e)'
  <2> SUFFICES ASSUME pc[e] = "undefined"
               PROVE  \E x, y \in {Pairs[e][i] : i \in cursor[e] + 1 .. Len(Pairs[e])} :
                        y \in Components(composed, x) /\ y \notin known'
    BY DEF NestedAt
  <2>1. PICK x, y \in {Pairs[e][i] : i \in cursor[e] + 1 .. Len(Pairs[e])} :
          y \in Components(composed, x) /\ y \notin known
    BY DEF Local, NestedAt
  <2>2. cursor[e] \in Nat
    BY DEF TypeOK
  <2>3. PICK i \in cursor[e] + 1 .. Len(Pairs[e]) : y = Pairs[e][i]
    OBVIOUS
  <2>4. i \in DOMAIN Pairs[e]
    BY <2>2, PairsOf
  <2>5. y \notin gain
    BY <2>3, <2>4
  <2> QED
    BY <2>1, <2>5
<1>11. RowsAt(e)'
  BY <1>1 DEF Local, RowsAt
<1> QED
  BY <1>3, <1>5, <1>7, <1>9, <1>10, <1>11 DEF Local

\* A step of one exchange that leaves the table alone.
LEMMA OneMoves ==
  ASSUME TypeOK, TokenInv, NEW d \in Dex, NEW l, NEW m, Goto(d, l, m), UNCHANGED <<composed, known, passed>>,
         \A e \in Dex \ {d} :
           /\ cursor'[e] = cursor[e] /\ to'[e] = to[e] /\ fresh'[e] = fresh[e]
           /\ task'[e] = task[e] /\ mine'[e] = mine[e],
         Local(d)', \A e \in Dex \ {d} : mine'[d].rows \cap mine[e].rows = {}
  PROVE  TokenInv'
<1>1. Apart'
  BY TokenInvParts DEF Apart
<1>2. ASSUME NEW e \in Dex \ {d} PROVE Local(e)'
  <2>1. Local(e)
    BY TokenInvParts
  <2>2. pc'[e] = pc[e]
    BY GotoMoves
  <2>3. known' = known \cup {} /\ passed \subseteq passed'
    OBVIOUS
  <2> QED
    BY <2>1, <2>2, <2>3, OthersStay
<1> QED
  BY <1>1, <1>2, TokenInvParts

\* A run that ends without a commit.
LEMMA EndKeeps ==
  ASSUME TypeOK, TokenInv, NEW d \in Dex, NEW l, NEW how \in Ended, Ends(d, l, how),
         how = "undefined" => \E x, y \in Chunk(d) : y \in Components(composed, x) /\ y \notin known
  PROVE  TokenInv'
<1>1. /\ UNCHANGED <<composed, known, on, passed, cursor>> /\ Goto(d, l, how) /\ Forget(d)
      /\ pc'[d] = how
  BY GotoMoves DEF Ends, table
<1>2. \A e \in Dex \ {d} : /\ cursor'[e] = cursor[e] /\ to'[e] = to[e] /\ fresh'[e] = fresh[e]
                           /\ task'[e] = task[e] /\ mine'[e] = mine[e]
  BY <1>1 DEF Forget, TypeOK
<1>3. mine'[d] = NoRows
  BY <1>1 DEF Forget, TypeOK
<1>4. how \notin InTask
  BY DEF Ended, InTask
<1>5. FreshInv(d)' /\ TaskInv(d)' /\ SinglesInv(d)' /\ MultisInv(d)'
  BY <1>1, <1>4 DEF FreshInv, TaskInv, SinglesInv, MultisInv, InTask
<1>6. KeptAt(d)'
  BY <1>1, TokenInvParts DEF Local, KeptAt
<1>7. NestedAt(d)'
  <2> SUFFICES ASSUME how = "undefined"
               PROVE  \E x, y \in {Pairs[d][i] : i \in cursor[d] + 1 .. Len(Pairs[d])} :
                        y \in Components(composed, x) /\ y \notin known
    BY <1>1 DEF NestedAt
  <2>1. cursor[d] \in Nat /\ to[d] \in Nat /\ to[d] <= Len(Pairs[d]) /\ Len(Pairs[d]) \in Nat
    BY PairsOf DEF TypeOK
  <2>2. cursor[d] + 1 .. to[d] \subseteq cursor[d] + 1 .. Len(Pairs[d])
    BY <2>1
  <2>3. Chunk(d) \subseteq {Pairs[d][i] : i \in cursor[d] + 1 .. Len(Pairs[d])}
    BY <2>2 DEF Chunk
  <2> QED
    BY <2>3
<1>8. RowsAt(d)'
  BY <1>3 DEF RowsAt, NoRows
<1>9. Local(d)'
  BY <1>5, <1>6, <1>7, <1>8 DEF Local
<1>10. mine'[d].rows = {}
  BY <1>3 DEF NoRows
<1> QED
  BY <1>1, <1>2, <1>9, <1>10, OneMoves

\* The TypeError: the token without a row was found without one, is no single
\* token, since those are there, and not invalid, since a pair with one is passed
\* over.  So it is a pair of the chunk.
LEMMA UndefinedIsOfChunk ==
  ASSUME TypeOK, TokenInv, NEW d \in Dex, pc[d] = "multis", Undefined(d)
  PROVE  \E x, y \in Chunk(d) : y \in Components(composed, x) /\ y \notin known
<1>1. FreshInv(d) /\ TaskInv(d) /\ SinglesInv(d)
  BY TokenInvParts DEF Local
<1>2. PICK x \in SameChunk(composed, task[d].multi, task[d].invalid, SeenBy(d)) :
        ~Components(composed, x)
           \subseteq SeenBy(d) \cup FirstRows(composed, task[d].multi, task[d].invalid, SeenBy(d), OnBy(d))
  BY DEF Undefined, IsUndefined
<1>3. PICK y \in Components(composed, x) : y \notin SeenBy(d)
  BY <1>2
<1>4. x \in task[d].multi /\ Components(composed, x) \cap task[d].invalid = {}
  BY DEF SameChunk, Unspoilt
<1>5. /\ task[d].multi = fresh[d].multi /\ fresh[d].multi \subseteq Chunk(d)
      /\ Grouped(d).single \subseteq known \cup fresh[d].single
      /\ fresh[d].single \subseteq fresh[d].multi \cup task[d].single \cup task[d].invalid
      /\ task[d].single \subseteq SeenBy(d)
  BY <1>1 DEF FreshInv, TaskInv, SinglesInv, InTask
<1>6. x \in Chunk(d)
  BY <1>4, <1>5
<1>7. y \in Grouped(d).single
  BY <1>6, ChunkIsPairs
<1>8. y \notin known
  BY <1>3 DEF SeenBy
<1>9. y \in fresh[d].multi
  BY <1>3, <1>4, <1>5, <1>7, <1>8
<1> QED
  BY <1>5, <1>6, <1>8, <1>9

\* The start of a run, its look at the table and its look at the chain.
LEMMA LooksKeep ==
  ASSUME TypeOK, TokenInv, NEW d \in Dex,
         Begin(d) \/ RemoveRegisteredTokens(d) \/ \E dumb \in Dumb(d) : Classify(d, dumb)
  PROVE  TokenInv'
<1> USE DEF table
<1>0. Local(d) /\ Apart
  BY TokenInvParts
<1>1. ASSUME UNCHANGED <<composed, known, on, passed, cursor, mine>>, pc'[d] \notin {"multis", "commit", "undefined"},
             pc[d] \notin {"multis", "commit"}, FreshInv(d)', TaskInv(d)'
      PROVE  Local(d)' /\ \A e \in Dex \ {d} : mine'[d].rows \cap mine[e].rows = {}
  <2>1. SinglesInv(d)' /\ MultisInv(d)' /\ NestedAt(d)'
    BY <1>1 DEF SinglesInv, MultisInv, NestedAt
  <2>2. KeptAt(d)'
    BY <1>0, <1>1 DEF Local, KeptAt
  <2>3. mine[d] = NoRows
    BY <1>0, <1>1 DEF Local, RowsAt
  <2>4. mine'[d] = NoRows /\ mine'[d].rows = {}
    BY <1>1, <2>3 DEF NoRows
  <2>5. RowsAt(d)'
    BY <2>4 DEF RowsAt
  <2> QED
    BY <1>1, <2>1, <2>2, <2>4, <2>5 DEF Local
<1>2. CASE Begin(d)
  <2>1. /\ UNCHANGED <<composed, known, on, passed, cursor, fresh, task, mine>>
        /\ pc[d] \in {"idle"} \cup Ended /\ Goto(d, pc[d], "lookUp")
        /\ \A e \in Dex \ {d} : to'[e] = to[e]
    BY <1>2 DEF Begin, Goto, TypeOK
  <2>2. pc'[d] = "lookUp"
    BY <2>1, GotoMoves
  <2>3. FreshInv(d)' /\ TaskInv(d)'
    BY <2>2 DEF FreshInv, TaskInv
  <2>4. pc[d] \notin {"multis", "commit"}
    BY <2>1 DEF Ended
  <2>5. Local(d)' /\ \A e \in Dex \ {d} : mine'[d].rows \cap mine[e].rows = {}
    BY <1>1, <2>1, <2>2, <2>3, <2>4
  <2> QED
    BY <2>1, <2>5, OneMoves
<1>3. CASE RemoveRegisteredTokens(d)
  <2>1. /\ UNCHANGED <<composed, known, on, passed, cursor, to, task, mine>> /\ Goto(d, "lookUp", "classify")
        /\ fresh' = [fresh EXCEPT ![d] = RemoveRegistered(Grouped(d), known)]
    BY <1>3 DEF RemoveRegisteredTokens
  <2>2. pc[d] = "lookUp" /\ pc'[d] = "classify"
    BY <2>1, GotoMoves
  <2>3. /\ fresh'[d] = RemoveRegistered(Grouped(d), known)
        /\ \A e \in Dex \ {d} : fresh'[e] = fresh[e]
    BY <2>1 DEF TypeOK
  <2>4. fresh'[d].multi = Chunk(d) \ known /\ fresh'[d].single = Grouped(d).single \ known
    BY <2>3, ChunkIsPairs DEF RemoveRegistered
  <2>5. Chunk(d)' = Chunk(d) /\ Grouped(d)' = Grouped(d)
    BY <2>1 DEF Chunk, Grouped
  <2>6. FreshInv(d)' /\ TaskInv(d)'
    BY <2>1, <2>2, <2>4, <2>5 DEF FreshInv, TaskInv
  <2>7. Local(d)' /\ \A e \in Dex \ {d} : mine'[d].rows \cap mine[e].rows = {}
    BY <1>1, <2>1, <2>2, <2>6
  <2> QED
    BY <2>1, <2>3, <2>7, OneMoves
<1>4. ASSUME NEW dumb \in Dumb(d), Classify(d, dumb) PROVE TokenInv'
  <2> DEFINE pure == CheckMulti(composed, RemoveInvalid(fresh[d]))
             ok == StatusOn(GetTokenInfos(pure.multi \cup pure.single, dumb))
             new == [multi |-> pure.multi, single |-> pure.single, invalid |-> pure.invalid, ok |-> ok]
  <2>1. /\ UNCHANGED <<composed, known, on, passed, cursor, to, fresh, mine>> /\ Goto(d, "classify", "singles")
        /\ task' = [task EXCEPT ![d] = new]
    BY <1>4 DEF Classify
  <2>2. pc[d] = "classify" /\ pc'[d] = "singles"
    BY <2>1, GotoMoves
  <2>3. fresh[d] \in [multi : SUBSET Address, single : SUBSET Address] /\ composed \in [Lp -> Address \X Address]
    BY DEF TypeOK
  <2>4. /\ pure.multi = fresh[d].multi
        /\ fresh[d].single \subseteq fresh[d].multi \cup pure.single \cup pure.invalid
        /\ pure.single \cap Lp = {} /\ pure.invalid \cap Token = {}
    BY <2>3, Classified
  <2> HIDE DEF pure, ok
  <2>5. new.multi = pure.multi /\ new.single = pure.single /\ new.invalid = pure.invalid
    OBVIOUS
  <2> HIDE DEF new
  <2>6. task'[d] = new /\ \A e \in Dex \ {d} : task'[e] = task[e]
    BY <2>1 DEF TypeOK
  <2>7. TaskInv(d)'
    BY <2>1, <2>4, <2>5, <2>6 DEF TaskInv
  <2>8. Chunk(d)' = Chunk(d) /\ Grouped(d)' = Grouped(d)
    BY <2>1 DEF Chunk, Grouped
  <2>9. FreshInv(d)'
    BY <1>0, <2>1, <2>2, <2>8 DEF Local, FreshInv, InTask
  <2>10. Local(d)' /\ \A e \in Dex \ {d} : mine'[d].rows \cap mine[e].rows = {}
    BY <1>1, <2>1, <2>2, <2>7, <2>9
  <2> QED
    BY <2>1, <2>6, <2>10, OneMoves
<1> QED
  BY <1>2, <1>3, <1>4

\* The rows a run inserts are locked by nobody else, and new.
LEMMA InsertsKeep ==
  ASSUME TypeOK, TokenInv, NEW d \in Dex, CreateSingleTokens(d) \/ CreateMultiTokens(d)
  PROVE  TokenInv'
<1> USE DEF table
<1>0. Local(d) /\ Apart
  BY TokenInvParts
<1>00. PairTypes /\ task[d].single \subseteq Address /\ task[d].multi \subseteq Address
  BY DEF TypeOK, PairTypes
<1>1. ASSUME NEW l \in {"singles", "multis"}, NEW m \in {"multis", "commit"}, NEW rows \in SUBSET Address,
             NEW away \in SUBSET Lp, Goto(d, l, m), Unlocked(d, rows), Insert(d, rows, away),
             UNCHANGED <<composed, known, on, passed, cursor, to, fresh, task>>,
             rows \cap Lp \subseteq Chunk(d), SinglesInv(d)', MultisInv(d)'
      PROVE  TokenInv'
  <2>1. /\ \A e \in Dex \ {d} : mine'[e] = mine[e]
        /\ mine'[d].rows = mine[d].rows \cup (rows \ known)
    BY <1>00, <1>1, InsertTypes
  <2>2. pc[d] = l /\ pc'[d] = m
    BY <1>1, GotoMoves
  <2>3. Chunk(d)' = Chunk(d) /\ Grouped(d)' = Grouped(d)
    BY <1>1 DEF Chunk, Grouped
  <2>4. FreshInv(d)' /\ TaskInv(d)'
    BY <1>0, <1>1, <2>2, <2>3 DEF Local, FreshInv, TaskInv, InTask
  <2>5. KeptAt(d)' /\ NestedAt(d)'
    BY <1>0, <1>1, <2>2 DEF Local, KeptAt, NestedAt
  <2>6. RowsAt(d)'
    BY <1>0, <1>1, <2>1, <2>2, <2>3 DEF Local, RowsAt
  <2>7. \A e \in Dex \ {d} : mine'[d].rows \cap mine[e].rows = {}
    BY <1>0, <1>1, <2>1 DEF Apart, Unlocked
  <2>8. Local(d)'
    BY <1>1, <2>4, <2>5, <2>6 DEF Local
  <2> QED
    BY <1>1, <2>1, <2>7, <2>8, OneMoves
<1>2. CASE CreateSingleTokens(d)
  <2>1. /\ UNCHANGED <<composed, known, on, passed, cursor, to, fresh, task>> /\ Goto(d, "singles", "multis")
        /\ Unlocked(d, task[d].single) /\ Insert(d, task[d].single, {})
    BY <1>2 DEF CreateSingleTokens
  <2>2. pc[d] = "singles" /\ pc'[d] = "multis"
    BY <2>1, GotoMoves
  <2>30. {} \in SUBSET Lp /\ task[d].single \in SUBSET Address
    BY <1>00
  <2>3. mine'[d].rows = mine[d].rows \cup (task[d].single \ known)
    BY <1>00, <2>1, <2>30, InsertTypes
  <2>4. SinglesInv(d)'
    BY <2>1, <2>3 DEF SinglesInv, SeenBy
  <2>5. MultisInv(d)'
    BY <2>2 DEF MultisInv
  <2>6. task[d].single \cap Lp = {}
    BY <1>0, <2>2 DEF Local, TaskInv
  <2> QED
    BY <1>1, <2>1, <2>30, <2>4, <2>5, <2>6
<1>3. CASE CreateMultiTokens(d)
  <2> DEFINE rows == NewMultis(d)
  <2>1. /\ UNCHANGED <<composed, known, on, passed, cursor, to, fresh, task>> /\ Goto(d, "multis", "commit")
        /\ Unlocked(d, rows) /\ Insert(d, rows, TurnedAway(d))
    BY <1>3 DEF CreateMultiTokens
  <2>2. pc[d] = "multis" /\ pc'[d] = "commit"
    BY <2>1, GotoMoves
  <2>3. rows \subseteq task[d].multi /\ task[d].multi = fresh[d].multi /\ fresh[d].multi \subseteq Chunk(d)
    BY <1>0, <2>2, NewMultisAreNew DEF Local, FreshInv, TaskInv, InTask
  <2>4. rows \in SUBSET Address /\ rows \cap Lp \subseteq Chunk(d) /\ rows \subseteq Lp
    BY <1>00, <2>3, ChunkIsPairs
  <2>50. TurnedAway(d) \in SUBSET Lp
    BY ChunkIsPairs DEF TurnedAway
  <2>5. mine'[d].rows = mine[d].rows \cup (rows \ known) /\ mine'[d].off = TurnedAway(d)
    BY <1>00, <2>1, <2>4, <2>50, InsertTypes
  <2>6. SeenBy(d)' = SeenBy(d) \cup rows
    BY <2>1, <2>5 DEF SeenBy
  <2>7. SinglesInv(d)'
    BY <1>0, <2>1, <2>2, <2>6 DEF Local, SinglesInv
  <2>8. Chunk(d)' = Chunk(d)
    BY <2>1 DEF Chunk
  <2>9. MultisInv(d)'
    <3> SUFFICES ASSUME NEW x \in Chunk(d), Components(composed, x) \subseteq Token
                 PROVE  x \in SeenBy(d)' \cup TurnedAway(d)
      BY <2>1, <2>5, <2>8 DEF MultisInv
    <3>1. /\ Chunk(d) \subseteq known \cup fresh[d].multi
          /\ Grouped(d).single \subseteq known \cup fresh[d].single
          /\ fresh[d].single \subseteq fresh[d].multi \cup task[d].single \cup task[d].invalid
          /\ task[d].invalid \cap Token = {}
          /\ task[d].single \subseteq SeenBy(d)
      BY <1>0, <2>2 DEF Local, FreshInv, TaskInv, SinglesInv, InTask
    <3>2. Components(composed, x) \subseteq Grouped(d).single
      BY ChunkIsPairs
    <3>3. Components(composed, x) \cap Lp = {}
      BY AddressAssumption
    <3>4. Components(composed, x) \cap fresh[d].multi = {}
      BY <2>3, <3>3, ChunkIsPairs
    <3>5. known \subseteq SeenBy(d)
      BY DEF SeenBy
    <3>6. Components(composed, x) \subseteq SeenBy(d)
      BY <3>1, <3>2, <3>4, <3>5
    <3>7. CASE x \in known
      BY <2>6, <3>5, <3>7
    <3>8. CASE x \notin known
      <4>1. x \in task[d].multi /\ Components(composed, x) \cap task[d].invalid = {}
        BY <2>3, <3>1, <3>8
      <4>2. x \in Unspoilt(composed, task[d].multi, task[d].invalid)
        BY <4>1 DEF Unspoilt
      <4>3. x \notin SameChunk(composed, task[d].multi, task[d].invalid, SeenBy(d))
        BY <3>6 DEF SameChunk
      <4>4. CASE Components(composed, x) \subseteq OnBy(d)
        <5>1. x \in rows
          BY <4>2, <4>3, <4>4 DEF NewMultis, FirstRows
        <5> QED
          BY <2>6, <5>1
      <4>5. CASE ~Components(composed, x) \subseteq OnBy(d)
        <5>1. Components(composed, x) \cap (SeenBy(d) \ OnBy(d)) # {}
          BY <3>6, <4>5
        <5> QED
          BY <5>1 DEF TurnedAway
      <4> QED
        BY <4>4, <4>5
    <3> QED
      BY <3>7, <3>8
  <2> QED
    BY <1>1, <2>1, <2>4, <2>50, <2>7, <2>9
<1> QED
  BY <1>2, <1>3

\* The rows and the cursor are committed together.
LEMMA CommitKeeps == ASSUME TypeOK, TokenInv, NEW d \in Dex, Commit(d) PROVE TokenInv'
<1>0. Local(d) /\ Apart /\ \A e \in Dex : Local(e)
  BY TokenInvParts
<1>1. /\ UNCHANGED composed /\ Goto(d, "commit", "idle") /\ Forget(d)
      /\ known' = known \cup mine[d].rows /\ on' = on \cup mine[d].on /\ passed' = passed \cup mine[d].off
      /\ cursor' = [cursor EXCEPT ![d] = to[d]]
  BY DEF Commit
<1>2. pc[d] = "commit" /\ pc'[d] = "idle" /\ \A e \in Dex \ {d} : pc'[e] = pc[e]
  BY <1>1, GotoMoves
<1>3. /\ mine'[d] = NoRows /\ cursor'[d] = to[d]
      /\ \A e \in Dex \ {d} : /\ cursor'[e] = cursor[e] /\ to'[e] = to[e] /\ fresh'[e] = fresh[e]
                             /\ task'[e] = task[e] /\ mine'[e] = mine[e]
  BY <1>1 DEF Forget, TypeOK
<1>4. mine[d].on \subseteq mine[d].rows /\ mine[d].rows \cap known = {} /\ mine[d].rows \cap Lp \subseteq Chunk(d)
  BY <1>0 DEF Local, RowsAt, TypeOK
<1>5. ASSUME NEW e \in Dex \ {d} PROVE Local(e)'
  <2>1. \A i \in DOMAIN Pairs[e] : Pairs[e][i] \notin mine[d].rows
    <3> SUFFICES ASSUME NEW i \in DOMAIN Pairs[e], Pairs[e][i] \in mine[d].rows PROVE FALSE
      OBVIOUS
    <3>1. Pairs[e][i] \in Lp
      BY PairsOf
    <3>2. Pairs[e][i] \in Chunk(d)
      BY <1>4, <3>1
    <3>3. PICK k \in DOMAIN Pairs[d] : Pairs[d][k] = Pairs[e][i]
      BY <3>2, ChunkIsPairs
    <3> QED
      BY <3>3, PairsOf
  <2>2. mine[d].rows \cap mine[e].rows = {}
    BY <1>0 DEF Apart
  <2>3. passed \subseteq passed'
    BY <1>1
  <2> QED
    BY <1>0, <1>1, <1>2, <1>3, <1>4, <2>1, <2>2, <2>3, OthersStay
<1>6. KeptAt(d)'
  <2> SUFFICES ASSUME NEW i \in 1 .. to[d], Components(composed, Pairs[d][i]) \subseteq Token
               PROVE  Pairs[d][i] \in known' \cup passed'
    BY <1>1, <1>3 DEF KeptAt
  <2>1. cursor[d] \in Nat /\ to[d] \in Nat
    BY DEF TypeOK
  <2>2. CASE i <= cursor[d]
    <3>1. i \in 1 .. cursor[d]
      BY <2>1, <2>2
    <3> QED
      BY <1>0, <1>1, <3>1 DEF Local, KeptAt
  <2>3. CASE i > cursor[d]
    <3>1. i \in cursor[d] + 1 .. to[d]
      BY <2>1, <2>3
    <3>2. Pairs[d][i] \in Chunk(d)
      BY <3>1 DEF Chunk
    <3>3. SeenBy(d) = known'
      BY <1>1 DEF SeenBy
    <3> QED
      BY <1>0, <1>1, <1>2, <3>2, <3>3 DEF Local, MultisInv
  <2> QED
    BY <2>1, <2>2, <2>3
<1>7. Local(d)'
  <2>1. FreshInv(d)' /\ TaskInv(d)' /\ SinglesInv(d)' /\ MultisInv(d)' /\ NestedAt(d)'
    BY <1>2 DEF FreshInv, TaskInv, SinglesInv, MultisInv, NestedAt, InTask
  <2>2. RowsAt(d)'
    BY <1>3 DEF RowsAt, NoRows
  <2> QED
    BY <1>6, <2>1, <2>2 DEF Local
<1>8. Apart'
  <2>1. mine'[d].rows = {}
    BY <1>3 DEF NoRows
  <2> QED
    BY <1>0, <1>3, <2>1 DEF Apart
<1> QED
  BY <1>5, <1>7, <1>8, TokenInvParts

\* No row is left behind, and a TypeError is a pair of a pair: at every await of
\* any number of pair jobs and price jobs.
THEOREM TokenSafety == Spec => []TokenInv
<1>1. Init => TokenInv
  <2> SUFFICES ASSUME Init PROVE TokenInv
    OBVIOUS
  <2>1. \A d \in Dex : pc[d] = "idle" /\ mine[d] = NoRows /\ cursor[d] = 0
    BY DEF Init
  <2>2. \A d \in Dex : mine[d].rows = {}
    BY <2>1 DEF NoRows
  <2>3. Apart
    BY <2>2 DEF Apart
  <2>4. \A d \in Dex : Local(d)
    BY <2>1, <2>2 DEF Local, FreshInv, TaskInv, SinglesInv, MultisInv, KeptAt, NestedAt, RowsAt, InTask
  <2> QED
    BY <2>3, <2>4, TokenInvParts
<1>2. TypeOK /\ TokenInv /\ [Next]_vars => TokenInv'
  <2> SUFFICES ASSUME TypeOK, TokenInv, [Next]_vars PROVE TokenInv'
    OBVIOUS
  \* A step of no pair job adds no row.
  <2>1. ASSUME UNCHANGED <<composed, known, passed, pairRun>> PROVE TokenInv'
    <3>1. UNCHANGED <<cursor, pc, to, fresh, task, mine>>
      BY <2>1 DEF pairRun
    <3>2. ASSUME NEW e \in Dex PROVE Local(e)'
      <4>1. /\ known' = known \cup {} /\ passed \subseteq passed'
            /\ {} \cap known = {} /\ {} \cap mine[e].rows = {}
            /\ composed' = composed /\ cursor'[e] = cursor[e] /\ to'[e] = to[e] /\ pc'[e] = pc[e]
            /\ fresh'[e] = fresh[e] /\ task'[e] = task[e] /\ mine'[e] = mine[e]
        BY <2>1, <3>1
      <4>2. Local(e)
        BY TokenInvParts
      <4> QED
        BY <4>1, <4>2, OthersStay
    <3>3. Apart'
      BY <3>1, TokenInvParts DEF Apart
    <3> QED
      BY <3>2, <3>3, TokenInvParts
  <2>2. CASE UNCHANGED vars
    BY <2>1, <2>2 DEF vars, table
  <2>3. ASSUME NEW a \in Address, SetStatus(a) PROVE TokenInv'
    BY <2>1, <2>3 DEF SetStatus
  <2>4. ASSUME NEW j \in PriceJob, StartPrice(j) \/ PriceStep(j) PROVE TokenInv'
    <3>1. UNCHANGED <<composed, known, on, passed, pairRun>>
      BY <2>4 DEF StartPrice, PriceStep, Crawl, BulkUpdate, PriceFails, table
    <3> QED
      BY <2>1, <3>1
  <2>5. ASSUME NEW d \in Dex, Begin(d) \/ PairStep(d) PROVE TokenInv'
    <3>1. CASE LosesAddress(d) \/ ClassifyThrows(d) \/ Fails(d)
      BY <3>1, EndKeeps DEF LosesAddress, ClassifyThrows, Fails, Ended
    <3>2. CASE CreateMultiTokensThrows(d)
      BY <3>2, EndKeeps, UndefinedIsOfChunk DEF CreateMultiTokensThrows, Ended
    <3> QED
      BY <2>5, <3>1, <3>2, LooksKeep, InsertsKeep, CommitKeeps DEF PairStep
  <2> QED
    BY <2>2, <2>3, <2>4, <2>5 DEF Next
<1> QED
  BY <1>1, <1>2, TypeCorrect, PTL DEF Spec

\* Neither a run that fails, nor an exchange that adds the same tokens at the same
\* time, nor an operator between the awaits makes a pair job pass over a pair of two
\* tokens that were on when it looked.
THEOREM PairsAreKept == Spec => []PlainPairsAreKept
<1>1. TokenInv => PlainPairsAreKept
  BY DEF TokenInv
<1> QED
  BY <1>1, TokenSafety, PTL

\* No order in which the jobs add single tokens leads to the TypeError: it takes a
\* pair of a pair in one chunk.
THEOREM UndefinedOnlyNested == Spec => []UndefinedIsNested
<1>1. TokenInv => UndefinedIsNested
  BY DEF TokenInv
<1> QED
  BY <1>1, TokenSafety, PTL
=============================================================================
