----------------------------- MODULE Portfolio -----------------------------
(***************************************************************************)
(* What the server answers about profit and loss: get-profit-loss.ts and    *)
(* get-user-trading-positions.ts, as operators on the tables of Positions.  *)
(* A request names an account and a window; a NULL or absent bound is None. *)
(* An answer is a record; where the code throws it is Thrown.               *)
(***************************************************************************)
EXTENDS Positions

CONSTANTS
  Day,                 \* 86400 seconds, in the model's time
  DefaultBuckets       \* DEFAULT_NUMBER_OF_BUCKETS

None == -1
Thrown == [threw |-> TRUE]

-----------------------------------------------------------------------------
(* The rows of a window.  Rows enter in the order of their blocks, so the   *)
(* order by timestamp is the rowid order.                                   *)

\* A JavaScript "x || y": zero and null both give way.
Or(x, y) == IF x \in {None, 0} THEN y ELSE x

\* Mutant: the window's first moment is left out.
InOpenWindow(rows, start, end) ==
  SelectSeq(rows, LAMBDA r : (start \in {None, 0} \/ r.timestamp > start)
                               /\ r.timestamp =< Or(end, CurrentTime))

InWindow(rows, start, end) ==
  SelectSeq(rows, LAMBDA r : (start \in {None, 0} \/ r.timestamp >= start)
                               /\ r.timestamp =< Or(end, CurrentTime))
QueryProfitLossTimeseries(account, start, end) ==
  LET mine == SelectSeq(InWindow(plRows, start, end), LAMBDA r : r.account = account)
  IN  [i \in DOMAIN mine |-> mine[i] @@ [minPrice |-> MinPrice]]
QueryOutcomeValueTimeseries(start, end) == InWindow(ovRows, start, end)

OfOutcome(rows, o) == SelectSeq(rows, LAMBDA r : r.outcome = o)
OutcomesOf(rows) == {rows[i].outcome : i \in DOMAIN rows}

Ceiling(n, d) == (n + d - 1) \div d

\* The moments reported: from start, every interval, and end.
BucketRangeByInterval(start, end, interval) ==
  LET step == IF interval = None THEN Ceiling(end - start, DefaultBuckets) ELSE interval
      n    == IF start = end THEN 0 ELSE Ceiling(end - start, step)
  IN  [k \in 1..(n + 1) |-> IF k =< n THEN start + (k - 1) * step ELSE end]
BucketsValid(start, end, interval) ==
  0 =< start /\ start =< end /\ (interval = None \/ interval > 0)

\* Mutant: a row at the bucket's own time is left to the next one.
BucketBefore(rows, t, default) ==
  LET before == SelectSeq(rows, LAMBDA r : r.timestamp < t)
  IN  IF before = <<>> THEN default ELSE Last(before)

\* The last row not after the bucket; before the first one, the default row, which
\* says outcome 0 and minimum price 0 whatever the outcome and its market.
DefaultPL == NoRow @@ [outcome |-> 0, minPrice |-> 0]
DefaultOV == [outcome |-> 0, value |-> 0]
BucketAtTimestamp(rows, t, default) ==
  LET before == SelectSeq(rows, LAMBDA r : r.timestamp =< t)
  IN  IF before = <<>> THEN default ELSE Last(before)

-----------------------------------------------------------------------------
(* Twenty-four hours ago.                                                   *)

\* Of the values a day old, the first one of the latest block with a value.
LastPrice24hAgo(o, end) ==
  LET old == OfOutcome(QueryOutcomeValueTimeseries(None, Or(end, CurrentTime) - Day), o)
  IN  IF old = <<>> THEN 0
      ELSE Head(SelectSeq(old, LAMBDA r : r.timestamp = Last(old).timestamp)).value

\* The price of the oldest trade of the last day that opened shares, None if there is
\* none.  Rows and trades are joined by transaction and log index.
OldestPricePaidIn24h(account, o, end) ==
  LET opened == SelectSeq(plRows, LAMBDA r :
                  /\ r.account = account /\ r.outcome = o
                  /\ r.quantityOpened > 0 /\ r.timestamp >= Or(end, CurrentTime) - Day)
      trade == SelectSeq(Logs, LAMBDA g :
                  /\ g.event = "fill" /\ g.outcome = o
                  /\ g.transactionHash = Head(opened).transactionHash
                  /\ g.logIndex = Head(opened).logIndex)
  IN  IF opened = <<>> \/ trade = <<>> THEN None ELSE Head(trade).price - MinPrice

-----------------------------------------------------------------------------
(* The result of one outcome at one moment.                                 *)

ProfitLossResult(pl, last, ago, oldest) ==
  LET net == pl.position
      avg == pl.price
      reference == IF oldest = None THEN ago ELSE oldest
      uCost == UnrealizedCost(net, avg)
      uProfit == UnrealizedProfit(net, avg, last)
      tCost == TotalCost(net, avg, pl.realizedCost)
      tProfit == TotalProfit(net, avg, last, pl.profit)
  IN  [outcome |-> pl.outcome, netPosition |-> net, averagePrice |-> pl.minPrice + avg,
       frozenFunds |-> pl.frozenFunds,
       realized |-> pl.profit, realizedCost |-> pl.realizedCost,
       unrealized |-> uProfit, unrealizedCost |-> uCost,
       total |-> tProfit, totalCost |-> tCost,
       realizedPercent |-> RealizedProfitPercent(pl.realizedCost, pl.profit),
       unrealizedPercent |-> UnrealizedProfitPercent(uCost, uProfit),
       totalPercent |-> TotalProfitPercent(tCost, tProfit),
       lastTradePrice |-> pl.minPrice + last, lastTradePrice24hAgo |-> pl.minPrice + ago,
       lastTradePrice24hChangePercent |-> ChangePercent(last, ago),
       unrealizedRevenue |-> UnrealizedRevenue(net, last),
       unrealizedRevenue24hAgo |-> UnrealizedRevenue(net, reference)]

\* The results of the outcomes traded in the window, at one bucket: their last
\* prices count only while some position is open.
ProfitResultsAt(account, pls, ovs, t, end) ==
  LET rowOf(o) == BucketAtTimestamp(OfOutcome(pls, o), t, DefaultPL)
      open == \E o \in OutcomesOf(pls) : rowOf(o).position # 0
      valueOf(o) == BucketAtTimestamp(OfOutcome(ovs, o), t, DefaultOV).value
      last(row) == IF open THEN valueOf(row.outcome) - row.minPrice ELSE 0
  IN  [o \in OutcomesOf(pls) |->
         LET row == rowOf(o)
             x   == row.outcome
         IN  ProfitLossResult(row, last(row), LastPrice24hAgo(x, end),
                              OldestPricePaidIn24h(account, x, end))]

\* getAllOutcomesProfitLoss: the moments and, for each of them, the results of the
\* outcomes.  It throws if the account has rows in the window and no outcome a value.
AllOutcomesProfitLoss(account, start, end, interval) ==
  LET pls == QueryProfitLossTimeseries(account, start, end)
      ovs == QueryOutcomeValueTimeseries(start, end)
      from == IF pls = <<>> THEN Or(start, 0) ELSE Or(start, Head(pls).timestamp)
      newest == IF Last(pls).timestamp > Last(ovs).timestamp
                THEN Last(pls).timestamp ELSE Last(ovs).timestamp
      to == IF pls = <<>> THEN Or(end, CurrentTime) ELSE Smaller(newest, CurrentTime)
      buckets == BucketRangeByInterval(from, to, interval)
  IN  CASE pls # <<>> /\ ovs = <<>>           -> Thrown
        [] ~BucketsValid(from, to, interval)  -> Thrown
        [] OTHER -> [threw |-> FALSE, buckets |-> buckets,
                     profit |-> [k \in DOMAIN buckets |->
                                   ProfitResultsAt(account, pls, ovs, buckets[k], end)]]

-----------------------------------------------------------------------------
(* Sums over outcomes.                                                      *)

Summed == {"netPosition", "realized", "unrealized", "unrealizedCost", "realizedCost",
           "totalCost", "unrealizedRevenue"}
Zero == [f \in Summed \cup {"total"} |-> 0]

SumProfitLossResults(left, right) ==
  LET sum == [f \in Summed |-> left[f] + right[f]]
      total == sum.realized + sum.unrealized
  IN  sum @@ [total |-> total,
              realizedPercent |-> RealizedProfitPercent(sum.realizedCost, sum.realized),
              unrealizedPercent |-> UnrealizedProfitPercent(sum.unrealizedCost, sum.unrealized),
              totalPercent |-> TotalProfitPercent(sum.totalCost, total)]

\* getProfitLoss: for each moment, the sum of the outcomes; zeros if none was traded.
ProfitLoss(account, start, end, interval) ==
  LET all == AllOutcomesProfitLoss(account, start, end, interval)
      SumOf(results) == FoldSet(LAMBDA o, sum : SumProfitLossResults(sum, results[o]),
                                Zero, DOMAIN results)
  IN  IF all.threw THEN Thrown
      ELSE [threw |-> FALSE, sums |-> [k \in DOMAIN all.profit |-> SumOf(all.profit[k])]]

\* getProfitLossSummary, for one of its periods: the end of the period less its start.
\* Moments other than these two make it throw.
ProfitLossSummary(account, end, period) ==
  LET till == Or(end, CurrentTime)
      answer == ProfitLoss(account, till - period, till, period)
      Negated(r) == [f \in DOMAIN r |-> IF f \in Summed \cup {"total"} THEN -r[f] ELSE r[f]]
  IN  IF answer.threw \/ Len(answer.sums) # 2 THEN Thrown
      ELSE [threw |-> FALSE] @@ SumProfitLossResults(answer.sums[2], Negated(answer.sums[1]))

\* getAggregatedTradingPosition
Aggregated == (Summed \cup {"total", "frozenFunds", "unrealizedRevenue24hAgo"}) \ {"netPosition"}
AggregatedTradingPosition(positions) ==
  LET sum == [f \in Aggregated |-> SumOver(DOMAIN positions, LAMBDA o : positions[o][f])]
  IN  sum @@
      [realizedPercent |-> RealizedProfitPercent(sum.realizedCost, sum.realized),
       unrealizedPercent |-> UnrealizedProfitPercent(sum.unrealizedCost, sum.unrealized),
       totalPercent |-> TotalProfitPercent(sum.totalCost, sum.total),
       unrealizedRevenue24hChangePercent |->
         ChangePercent(sum.unrealizedRevenue, sum.unrealizedRevenue24hAgo)]

\* getUserTradingPositions: the last bucket of the whole history, the outcomes that
\* were never traded but are held beyond the largest short, and the aggregate.
NoPLPosition == [f \in Aggregated \cup {"netPosition"} |-> 0]
UserTradingPositions(account, end) ==
  LET till == Or(end, CurrentTime)
      all == AllOutcomesProfitLoss(account, 0, till, till)
      last == Last(all.profit)
      nets == {0} \cup {last[o].netPosition : o \in DOMAIN last}
      largestShort == CHOOSE n \in nets : \A m \in nets : n =< m
      rawOnly == {o \in Outcome \ DOMAIN last : Held[account][o] > Abs(largestShort)}
      positions == [o \in DOMAIN last \cup rawOnly |->
                      [position |-> Held[account][o]] @@
                      (IF o \in DOMAIN last THEN last[o] ELSE NoPLPosition)]
  IN  CASE all.threw -> Thrown
        [] DOMAIN last = {} -> [threw |-> FALSE, tradingPositions |-> <<>>,
                                tradingPositionsTotal |-> AggregatedTradingPosition(<<>>)]
        [] OTHER -> [threw |-> FALSE, tradingPositions |-> positions,
                     tradingPositionsTotal |-> AggregatedTradingPosition(positions)]

-----------------------------------------------------------------------------
(* The chain at a past moment.                                              *)

LogsAt(t) == SelectSeq(Logs, LAMBDA g : TimeOf(g.blockNumber) =< t)

\* The price of an outcome by the logs: its last trade before the finalization, or
\* what the finalization makes it worth; None before both.
PriceBy(logs, o) ==
  LET Quote(acc, g) ==
        CASE g.event = "finalize" ->
               [price |-> PayoutValue(Head(Payouts), o), closed |-> TRUE]
          [] g.event = "fill" /\ g.outcome = o /\ ~acc.closed -> [acc EXCEPT !.price = g.price]
          [] OTHER -> acc
  IN  FoldLeft(Quote, [price |-> None, closed |-> FALSE], logs).price

Accountable(a) ==
  ~ClaimBehindTrade(a) /\ \A o \in Outcome : ~Cashflow(a, o).claimedShort

\* The total profit both portfolio answers give an account, outcome by outcome and
\* summed, is the cash its trades brought plus what its shares are worth at the last
\* price of the chain (getUserTradingPositions, getProfitLossSummary over a period
\* that starts before the account's first trade).
PortfolioIsCashflow ==
  \A a \in Account :
    LET answer == UserTradingPositions(a, None)
        summary == ProfitLossSummary(a, None, MaxBlocks + 1)
        worth(o) == LET flow == Cashflow(a, o)
                        price == PriceBy(Logs, o)
                    IN  flow.cash + flow.shares * (IF price = None THEN 0 ELSE price - MinPrice)
    IN  Accountable(a) =>
          /\ ~answer.threw /\ ~summary.threw
          /\ \A o \in DOMAIN answer.tradingPositions :
               answer.tradingPositions[o].total = worth(o)
          /\ answer.tradingPositionsTotal.total = SumOver(Outcome, worth)
          /\ summary.total = answer.tradingPositionsTotal.total

\* Over any window, every bucket reports each outcome as it stood at that moment: the
\* cash and the shares of the chain up to it, valued at the price the bucket shows,
\* which is the chain's price of that moment if the window knows one.  The answer
\* fails only for an account with rows but no outcome value in the window
\* (getAllOutcomesProfitLoss, bucketAtTimestamps).
BucketsAreThePast ==
  \A a \in {x \in Account : Accountable(x)}, start \in TimeOf(0)..CurrentTime :
    \A end \in start..CurrentTime :
      LET answer == AllOutcomesProfitLoss(a, start, end, 2)
          In(log) == TimeOf(log.blockNumber) \in start..end
          moved == \E i \in DOMAIN plRows :
                     plRows[i].account = a /\ plRows[i].timestamp \in start..end
          priced == \E i \in DOMAIN Logs :
                      /\ In(Logs[i]) /\ Logs[i].event # "claim"
                      /\ ~\E j \in 1..(i - 1) : Logs[j].event = "finalize"
      IN  /\ answer.threw = (moved /\ ~priced)
          /\ ~answer.threw => \A k \in DOMAIN answer.profit : \A o \in DOMAIN answer.profit[k] :
               LET result == answer.profit[k][o]
                   logs == LogsAt(answer.buckets[k])
                   flow == CashflowUpTo(logs, a, o)
                   price == result.lastTradePrice - MinPrice
               IN  (\E i \in DOMAIN logs :
                      In(logs[i]) /\ (FillOf(logs[i], a, o) \/ ClaimOf(logs[i], a))) =>
                     /\ result.total = flow.cash + flow.shares * price
                     /\ (flow.shares # 0 /\ result.lastTradePrice # 0) =>
                          result.lastTradePrice = PriceBy(logs, o)
=============================================================================
