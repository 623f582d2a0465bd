-------------------------------- MODULE PriceJobs -------------------------------
(***************************************************************************)
(* The figures of the three token price jobs: which tokens each of them    *)
(* prices, from which other contracts, and what a call without an answer   *)
(* makes of the price.  A figure is zero, positive, or what a division by  *)
(* zero leaves.                                                            *)
(***************************************************************************)
EXTENDS PairTask

CONSTANT Feed  \* tokens with a price_address

ASSUME FeedAssumption == Feed \subseteq Token

PriceJob == {"chainlink", "multi", "single"}

Figure == {"zero", "pos", "inf", "nan"}
Price == {"zero", "pos"}

Mul(a, b) == IF "zero" \in {a, b} THEN "zero" ELSE "pos"
Div(a, b) ==
  IF b # "zero" THEN a ELSE IF a = "zero" THEN "nan" ELSE "inf"

\* The figure of a call, zero without an answer.
Answer(lost) == IF lost THEN "zero" ELSE "pos"

-----------------------------------------------------------------------------
\* getTokens(), of the rows `on`.
ChainLinkTokens(on) == on \cap Feed
MultiTokens(on) == on \cap Lp
SingleTokens(on) == (on \cap Token) \ Feed

\* Variant of GetTokens: as the single job, the multi job asks for a price.
GetTokensPriced(j, on, price) ==
  CASE j = "chainlink" -> ChainLinkTokens(on)
    [] j = "multi" -> {x \in MultiTokens(on) : price[x] # "zero"}
    [] j = "single" -> SingleTokens(on)

GetTokens(j, on, price) ==
  CASE j = "chainlink" -> ChainLinkTokens(on)
    [] j = "multi" -> MultiTokens(on)
    [] j = "single" -> SingleTokens(on)

-----------------------------------------------------------------------------
(***************************************************************************)
(* crawlTokenSupplyAndPrice(): the figures of the tokens it makes an       *)
(* update for; `lost` are the calls without an answer.                     *)
(***************************************************************************)

\* The contract's view of the feed of token t.
FeedData(t, lost) ==
  Contract!SafeChainLinkData([success |-> <<t, "round">> \notin lost, data |-> {1}],
                             [success |-> <<t, "places">> \notin lost, data |-> {8}])

\* Variant of CrawlChainLink: without `if (isZero(answer) || ...) return`.
CrawlChainLinkAll(chunk, lost) ==
  [t \in chunk |-> IF FeedData(t, lost).answer = 0 THEN "zero" ELSE "pos"]

\* Of a feed that does not answer the contract says zero: no update.
CrawlChainLink(chunk, lost) ==
  [t \in {t \in chunk : FeedData(t, lost).answer # 0 /\ FeedData(t, lost).decimals # 0} |->
     "pos"]

\* findKeyPair(): the component with a feed, the first of two.
KeyPairs(composed, x) ==
  IF composed[x][1] \in Feed THEN {composed[x][1]} ELSE {composed[x][2]} \cap Feed

\* `price` is what the rows said when the run began.
CrawlMulti(composed, chunk, lost, price) ==
  [x \in {x \in chunk : KeyPairs(composed, x) # {}} |->
     LET key == CHOOSE k \in KeyPairs(composed, x) : TRUE
         supply == Answer(<<x, "supply">> \in lost)
         value == Mul(Answer(<<x, "balance">> \in lost), price[key])
     IN  IF supply = "zero" THEN "zero" ELSE Div(value, supply)]

\* findConfiguredPairs(): the pairs of token t that are on and have a price.
ConfiguredPairs(composed, t, on, price) ==
  {x \in on \cap Lp : t \in Components(composed, x) /\ price[x] # "zero"}

Other(composed, t, x) == IF composed[x][1] = t THEN composed[x][2] ELSE composed[x][1]

\* `best` is the pair findHighestLiquidityPair() has chosen for each token that
\* has one; the others get no update.
CrawlSingle(composed, chunk, lost, best, price) ==
  [t \in chunk \cap DOMAIN best |->
     Div(Mul(Answer(<<t, "other">> \in lost), price[Other(composed, t, best[t])]),
         Answer(<<t, "target">> \in lost))]

\* Variant of Bounded: only what is greater than the bound is replaced.
BoundedAbove(figure) == IF figure = "inf" THEN "zero" ELSE figure

\* bulkUpdate() writes zero for what is not finite.
Bounded(figure) == IF figure \in {"inf", "nan"} THEN "zero" ELSE figure
=============================================================================
