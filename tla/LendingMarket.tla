------------------------------ MODULE LendingMarket -----------------------------
(***************************************************************************)
(* What the client of Venus makes of a market (eight calls in one batch),  *)
(* and the figures refreshLendingMarket() computes of it.  Amounts are in  *)
(* whole tokens: all of them are divided by 10^decimals, which is left out.*)
(***************************************************************************)
EXTENDS Integers

CONSTANT ZeroAddress  \* the native coin

\* The views of the batch.
MarketView ==
  {"underlying", "supplyRatePerBlock", "borrowRatePerBlock", "decimals", "totalBorrows",
   "totalReserves", "reserveFactorMantissa", "markets"}

\* getLendingMarketInfos(): `chain` is what each view says, `lost` the views that
\* were not answered; {} is the null no field can be read of.
GetLendingMarketInfos(chain, lost) ==
  [view \in MarketView |->
     IF view \notin lost THEN IF view = "markets" THEN {chain[view]} ELSE chain[view]
     ELSE CASE view = "underlying" -> ZeroAddress
            [] view = "markets" -> {}
            [] OTHER -> 0]

\* `liquidity` is the balance of the market, `price` that of its token, `blocks`
\* those of a year.
MarketFigures(info, liquidity, price, blocks) ==
  LET borrow == info["totalBorrows"]
      reserve == info["totalReserves"]
      supply == liquidity + borrow - reserve
      isMarket == CHOOSE m \in info["markets"] : TRUE
  IN  [liquidity_amount |-> liquidity, liquidity_value |-> liquidity * price,
       borrow_amount |-> borrow, borrow_value |-> borrow * price,
       reserve_amount |-> reserve, reserve_value |-> reserve * price,
       supply_amount |-> supply, supply_value |-> supply * price,
       supply_apr |-> 100 * blocks * info["supplyRatePerBlock"],
       borrow_apr |-> 100 * blocks * info["borrowRatePerBlock"],
       collateral_factor |-> 100 * isMarket.collateralFactorMantissa,
       reserve_factor |-> 100 * info["reserveFactorMantissa"]]
=============================================================================
