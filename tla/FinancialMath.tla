--------------------------- MODULE FinancialMath ---------------------------
(***************************************************************************)
(* The financial formulas of utils/financial-math.ts, as pure operators on  *)
(* integers.  Shares, prices and tokens are integers (money in a unit small *)
(* enough for the averages to be exact); "q" is always a                    *)
(* TradePriceMinusMinPrice, "p" a TradePrice.  The dimension checks of      *)
(* dimension-quantity.ts are static here: they never fail in these calls.   *)
(***************************************************************************)
EXTENDS Integers

CONSTANTS MinPrice, MaxPrice   \* markets.minPrice and markets.maxPrice

ASSUME PriceAssumption ==
  MinPrice \in Int /\ MaxPrice \in Int /\ 0 =< MinPrice /\ MinPrice < MaxPrice

Abs(n) == IF n < 0 THEN -n ELSE n
Smaller(a, b) == IF a < b THEN a ELSE b
Sign(n) == IF n < 0 THEN -1 ELSE 1          \* BigNumber.s: zero counts as positive

DisplayRange == MaxPrice - MinPrice
TradePrice(q) == MinPrice + q
MinusMinPrice(p) == p - MinPrice

PositionType(net) ==
  CASE net = 0 -> "closed" [] net < 0 -> "short" [] OTHER -> "long"

\* What a share costs or yields: the buyer of an outcome pays the price above
\* the minimum, the seller what is left up to the maximum.
SharePrice(type, q) ==
  CASE type = "closed" -> 0
    [] type = "short"  -> MaxPrice - TradePrice(q)
    [] type = "long"   -> q
SharePriceForPosition(net, q) == SharePrice(PositionType(net), q)

NextNetPosition(net, delta) == net + delta

TradeQuantityClosed(net, delta) ==
  IF delta = 0 \/ Sign(delta) = Sign(net) THEN 0 ELSE Smaller(Abs(net), Abs(delta))

TradeQuantityOpened(net, delta) ==
  CASE delta = 0                -> 0
    [] Sign(delta) = Sign(net)  -> Abs(delta)
    [] Abs(delta) > Abs(net)    -> Abs(delta + net)
    [] OTHER                    -> 0

\* Mutant: a position that changes sides keeps averaging.
NextAverageNotReversed(net, avg, delta, q) ==
  LET next == NextNetPosition(net, delta)
  IN  CASE next = 0                             -> 0
        [] TradeQuantityOpened(net, delta) = 0  -> avg
        [] OTHER -> (Abs(net) * avg + Abs(delta) * q) \div Abs(next)

\* The average price of the open position after a trade at q.
NextAveragePrice(net, avg, delta, q) ==
  LET next == NextNetPosition(net, delta)
  IN  CASE next = 0                             -> 0
        [] Sign(next) # Sign(net)               -> q
        [] TradeQuantityOpened(net, delta) = 0  -> avg
        [] OTHER -> (Abs(net) * avg + Abs(delta) * q) \div Abs(next)

RealizedCostDelta(net, avg, delta) ==
  SharePriceForPosition(net, avg) * TradeQuantityClosed(net, delta)
RealizedRevenueDelta(net, delta, q) ==
  SharePriceForPosition(net, q) * TradeQuantityClosed(net, delta)
RealizedProfitDelta(net, avg, delta, q) ==
  RealizedRevenueDelta(net, delta, q) - RealizedCostDelta(net, avg, delta)
NextRealizedCost(cost, net, avg, delta) == cost + RealizedCostDelta(net, avg, delta)
NextRealizedProfit(profit, net, avg, delta, q) ==
  profit + RealizedProfitDelta(net, avg, delta, q)

UnrealizedCost(net, avg) == SharePriceForPosition(net, avg) * Abs(net)
UnrealizedRevenue(net, last) == SharePriceForPosition(net, last) * Abs(net)
UnrealizedProfit(net, avg, last) == UnrealizedRevenue(net, last) - UnrealizedCost(net, avg)

TotalCost(net, avg, cost) == UnrealizedCost(net, avg) + cost
TotalProfit(net, avg, last, profit) == UnrealizedProfit(net, avg, last) + profit

\* A ratio is the pair <<numerator, denominator>>; nothing spent counts as zero.
Percent(num, den) == IF den = 0 THEN <<0, 1>> ELSE <<num, den>>
RealizedProfitPercent(cost, profit) == Percent(profit, cost)
UnrealizedProfitPercent(cost, profit) == Percent(profit, cost)
TotalProfitPercent(cost, profit) == Percent(profit, cost)
\* safePercent with subtractOne: the relative change of num against den.
ChangePercent(num, den) == IF den = 0 THEN <<0, 1>> ELSE <<num - den, den>>
=============================================================================
