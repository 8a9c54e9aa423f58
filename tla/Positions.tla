----------------------------- MODULE Positions -----------------------------
(***************************************************************************)
(* Profit and loss of the accounts trading in one market: the tables        *)
(* wcl_profit_loss_timeseries (plRows) and outcome_value_timeseries         *)
(* (ovRows), written by the processors of OrderFilled, MarketFinalized and  *)
(* TradingProceedsClaimed and by their removals.                            *)
(*                                                                         *)
(* The chain is a stack of blocks, each a sequence of logs, one transaction *)
(* per log, and blocks are one unit of time apart.  What the contract lets a   *)
(* log say (who pays with shares, who may claim) is external.               *)
(***************************************************************************)
EXTENDS FinancialMath, SequencesExt, FiniteSets

CONSTANTS
  Account,        \* traders
  NumOutcomes,    \* markets.numOutcomes
  Quotes,         \* what is traded: an outcome, its full-precision price and the shares
  NumTicks,       \* markets.numTicks
  Payouts,        \* the market's rows in payouts, in rowid order
  GenesisTime,    \* the time before the first block
  MaxBlocks, MaxLogs, MaxFills   \* bounds

Outcome == 0..(NumOutcomes - 1)

ASSUME PayoutAssumption ==
  /\ {NumOutcomes, NumTicks, GenesisTime} \subseteq Nat \ {0}
  /\ Payouts \in Seq([Outcome -> Nat]) /\ Payouts # <<>>
  /\ Quotes \subseteq [outcome : Outcome, price : MinPrice..MaxPrice, amount : Nat \ {0}]

VARIABLES
  chain,       \* the blocks followed, each a sequence of logs
  plRows,      \* wcl_profit_loss_timeseries, in rowid order
  ovRows,      \* outcome_value_timeseries, in rowid order
  finalized    \* markets.finalizationBlockNumber is set

vars == <<chain, plRows, ovRows, finalized>>

Logs == FlattenSeq(chain)
TimeOf(number) == GenesisTime + number
CurrentTime == TimeOf(Len(chain))

-----------------------------------------------------------------------------
(* The contract: shares held after the logs.  A buyer pays with a share of  *)
(* every other outcome and a seller with a share of the outcome, as far as  *)
(* each hands shares in; the rest is paid in tokens and minted.             *)

Side(log, a) == IF (log.orderType = "buy") = (a = log.creator) THEN "long" ELSE "short"
SharesSent(log, a) == IF a = log.creator THEN log.numCreatorShares ELSE log.numFillerShares

HeldAfter(held, log) ==
  CASE log.event = "fill" ->
         [a \in Account |-> [o \in Outcome |->
            IF a \notin {log.creator, log.filler} THEN held[a][o]
            ELSE IF (Side(log, a) = "long") = (o = log.outcome)
                 THEN held[a][o] + log.amount - SharesSent(log, a)
                 ELSE held[a][o] - SharesSent(log, a)]]
    [] log.event = "claim" -> [held EXCEPT ![log.account] = [o \in Outcome |-> 0]]
    [] OTHER -> held
Held == FoldLeft(HeldAfter, [a \in Account |-> [o \in Outcome |-> 0]], Logs)

\* The most shares the account can hand in for its side of a fill.
Payable(a, side, o, amount) ==
  LET given == IF side = "short" THEN {o} ELSE Outcome \ {o}
      least == CHOOSE n \in {Held[a][x] : x \in given} : \A x \in given : n =< Held[a][x]
  IN  Smaller(amount, least)

TokensFor(side, p, n) == n * SharePrice(side, MinusMinPrice(p))

-----------------------------------------------------------------------------
(* profit-loss/frozen-funds.ts and update-profit-loss.ts                    *)

\* Mutant: the profit of the trade is left out.
FrozenWithoutProfit(before, event) ==
  IF event.type = "ClaimProceeds" THEN 0
  ELSE LET priceReceived == IF event.longOrShort = "short"
                            THEN event.price - MinPrice ELSE MaxPrice - event.price
       IN  before - event.sharesSent * priceReceived + event.tokensSent

FrozenFundsAfterEvent(before, event) ==
  IF event.type = "ClaimProceeds" THEN 0
  ELSE LET priceReceived == IF event.longOrShort = "short"
                            THEN event.price - MinPrice ELSE MaxPrice - event.price
       IN  before - event.sharesSent * priceReceived + event.tokensSent
             + event.realizedProfitDelta

\* The trade as its creator or its filler sees it.
NoTrade == [event |-> "none"]
MakeFrozenFundsEvent(account, profitDelta, trade) ==
  IF trade = NoTrade THEN [type |-> "ClaimProceeds"]
  ELSE [type |-> "Trade", longOrShort |-> Side(trade, account), price |-> trade.price,
        sharesSent |-> SharesSent(trade, account),
        tokensSent |-> IF account = trade.creator THEN trade.numCreatorTokens
                                                  ELSE trade.numFillerTokens,
        realizedProfitDelta |-> profitDelta]

\* The row of greatest (blockNumber, logIndex).  The query leaves open which of
\* several: pick says whether the oldest or the newest of them is returned.
After(r, s) ==
  r.blockNumber > s.blockNumber
    \/ (r.blockNumber = s.blockNumber /\ r.logIndex > s.logIndex)
NoRow == [position |-> 0, price |-> 0, profit |-> 0, realizedCost |-> 0, frozenFunds |-> 0]
LastRow(rows, account, outcome, pick) ==
  LET mine == SelectSeq(rows, LAMBDA r : r.account = account /\ r.outcome = outcome)
      last == SelectSeq(mine, LAMBDA r : \A i \in DOMAIN mine : ~After(mine[i], r))
  IN  CASE mine = <<>>      -> NoRow
        [] pick = "oldest"  -> Head(last)
        [] OTHER            -> Last(last)

UpdateProfitLoss(rows, delta, account, outcome, p, at, trade, pick) ==
  LET prev == LastRow(rows, account, outcome, pick)
      net  == prev.position
      avg  == prev.price
      q    == MinusMinPrice(p)
      gain == RealizedProfitDelta(net, avg, delta, q)
      row  == [account |-> account, outcome |-> outcome,
               price |-> NextAveragePrice(net, avg, delta, q),
               position |-> NextNetPosition(net, delta),
               quantityOpened |-> TradeQuantityOpened(net, delta),
               profit |-> NextRealizedProfit(prev.profit, net, avg, delta, q),
               realizedCost |-> NextRealizedCost(prev.realizedCost, net, avg, delta),
               frozenFunds |-> FrozenFundsAfterEvent(prev.frozenFunds,
                                 MakeFrozenFundsEvent(account, gain, trade)),
               transactionHash |-> at.transactionHash, timestamp |-> TimeOf(at.blockNumber),
               blockNumber |-> at.blockNumber, logIndex |-> at.logIndex]
  IN  IF delta = 0 THEN rows ELSE Append(rows, row)

\* The value of an outcome under the first row of payouts the query returns.
TickSize == DisplayRange \div NumTicks
PayoutValue(payout, o) == payout[o] * TickSize + MinPrice
TotalPayout(payout) == FoldLeft(LAMBDA sum, i : sum + PayoutValue(payout, i - 1), 0,
                                [i \in 1..NumOutcomes |-> i])
ClaimPrice(position, o) ==
  LET payout == Head(Payouts)
  IN  IF position < 0 THEN TotalPayout(payout) - PayoutValue(payout, o)
                      ELSE PayoutValue(payout, o)

\* Every open position of the account is closed, outcome after outcome.
UpdateProfitLossClaimProceeds(rows, account, at, pick) ==
  LET Close(acc, i) ==
        LET o == i - 1
            position == LastRow(acc, account, o, pick).position
        IN  IF position = 0 THEN acc
            ELSE UpdateProfitLoss(acc, -position, account, o, ClaimPrice(position, o),
                                  at, NoTrade, pick)
  IN  FoldLeft(Close, rows, [i \in 1..NumOutcomes |-> i])

WithoutTransaction(rows, hash) == SelectSeq(rows, LAMBDA r : r.transactionHash # hash)

OutcomeValueRow(o, value, at) ==
  [outcome |-> o, value |-> value, transactionHash |-> at.transactionHash,
   timestamp |-> TimeOf(at.blockNumber), blockNumber |-> at.blockNumber, logIndex |-> at.logIndex]

ValuesFromFinalization(at) ==
  [i \in 1..NumOutcomes |-> OutcomeValueRow(i - 1, PayoutValue(Head(Payouts), i - 1), at)]

-----------------------------------------------------------------------------
Init == chain = <<>> /\ plRows = <<>> /\ ovRows = <<>> /\ finalized = FALSE

\* Where the next log stands: in a new block, or after those of the last one.
NextPlace(newBlock) ==
  LET number == IF newBlock THEN Len(chain) + 1 ELSE Len(chain)
      index  == IF newBlock THEN 0 ELSE Len(Last(chain))
  IN  [blockNumber |-> number, transactionIndex |-> index, logIndex |-> 2 * index + 1,
       transactionHash |-> <<number, index>>]

Extend(newBlock, log) ==
  chain' = IF newBlock THEN Append(chain, <<log>>)
           ELSE [chain EXCEPT ![Len(chain)] = Append(@, log)]

RoomFor(newBlock) ==
  /\ Len(Logs) < MaxLogs
  /\ IF newBlock THEN Len(chain) < MaxBlocks ELSE chain # <<>>

\* processOrderFilledLog: the trade becomes the outcome's last price while the
\* market is open, then the position of the creator and of the filler move.
OrderFilled(newBlock, creator, filler, orderType, quote, creatorShares, pick) ==
  LET at    == NextPlace(newBlock)
      o == quote.outcome
      p == quote.price
      amount == quote.amount
      side  == IF orderType = "buy" THEN "long" ELSE "short"
      other == IF orderType = "buy" THEN "short" ELSE "long"
      fillerShares == Payable(filler, other, o, amount)
      log == [event |-> "fill", creator |-> creator, filler |-> filler,
              orderType |-> orderType, outcome |-> o, price |-> p, amount |-> amount,
              numCreatorShares |-> creatorShares,
              numCreatorTokens |-> TokensFor(side, p, amount - creatorShares),
              numFillerShares |-> fillerShares,
              numFillerTokens |-> TokensFor(other, p, amount - fillerShares)] @@ at
      delta == IF orderType = "buy" THEN amount ELSE -amount
      ofCreator == UpdateProfitLoss(plRows, delta, creator, o, p, at, log, pick)
  IN  /\ RoomFor(newBlock)
      /\ Cardinality({i \in DOMAIN Logs : Logs[i].event = "fill"}) < MaxFills
      /\ creator # filler
      /\ Extend(newBlock, log)
      /\ ovRows' = IF finalized THEN ovRows ELSE Append(ovRows, OutcomeValueRow(o, p, at))
      /\ plRows' = UpdateProfitLoss(ofCreator, -delta, filler, o, p, at, log, pick)
      /\ UNCHANGED finalized

\* processMarketFinalizedLog: the outcomes take the values of the payout.
MarketFinalized(newBlock) ==
  LET at == NextPlace(newBlock)
  IN  /\ RoomFor(newBlock) /\ ~finalized
      /\ Extend(newBlock, [event |-> "finalize"] @@ at)
      /\ finalized' = TRUE
      /\ ovRows' = ovRows \o ValuesFromFinalization(at)
      /\ UNCHANGED plRows

\* processTradingProceedsClaimedLog: its rows take the transaction's index in the
\* block for a log index.
TradingProceedsClaimed(newBlock, account, pick) ==
  LET at == NextPlace(newBlock)
      rowAt == [at EXCEPT !.logIndex = at.transactionIndex]
  IN  /\ RoomFor(newBlock) /\ finalized
      /\ \E o \in Outcome : Held[account][o] > 0
      /\ Extend(newBlock, [event |-> "claim", account |-> account] @@ at)
      /\ plRows' = UpdateProfitLossClaimProceeds(plRows, account, rowAt, pick)
      /\ UNCHANGED <<ovRows, finalized>>

\* The removal of each kind of log, by its transaction.
RemoveLog(tables, log) ==
  CASE log.event = "fill" ->
         [tables EXCEPT !.pl = WithoutTransaction(@, log.transactionHash),
                        !.ov = WithoutTransaction(@, log.transactionHash)]
    [] log.event = "finalize" ->
         [tables EXCEPT !.ov = WithoutTransaction(@, log.transactionHash),
                        !.finalized = FALSE]
    [] log.event = "claim" ->
         [tables EXCEPT !.pl = WithoutTransaction(@, log.transactionHash)]

\* A reorganisation takes the last block back, its logs from the last to the first.
BlockRemoved ==
  /\ chain # <<>>
  /\ LET undone == FoldLeft(RemoveLog, [pl |-> plRows, ov |-> ovRows, finalized |-> finalized],
                            Reverse(Last(chain)))
     IN  plRows' = undone.pl /\ ovRows' = undone.ov /\ finalized' = undone.finalized
  /\ chain' = Front(chain)

Next ==
  \/ \E new \in {b \in BOOLEAN : RoomFor(b)}, pick \in {"oldest", "newest"} :
       \/ \E c, f \in Account, type \in {"buy", "sell"}, quote \in Quotes :
            LET side == IF type = "buy" THEN "long" ELSE "short"
            IN  \E escrowed \in {0, Payable(c, side, quote.outcome, quote.amount)} :
                  OrderFilled(new, c, f, type, quote, escrowed, pick)
       \/ \E a \in Account : TradingProceedsClaimed(new, a, pick)
  \/ \E new \in BOOLEAN : MarketFinalized(new)
  \/ BlockRemoved

Spec == Init /\ [][Next]_vars

-----------------------------------------------------------------------------
(* What the trades of the chain say, without the averages the code keeps:   *)
(* shares bought and sold, and the money they cost and brought.             *)

FillOf(log, a, o) ==
  log.event = "fill" /\ log.outcome = o /\ a \in {log.creator, log.filler}
ClaimOf(log, a) == log.event = "claim" /\ log.account = a

Account0 == [shares |-> 0, cash |-> 0, claimedShort |-> FALSE]
CashflowUpTo(logs, a, o) ==
  LET Book(acc, log) ==
        LET d == IF Side(log, a) = "long" THEN log.amount ELSE -log.amount
        IN  CASE FillOf(log, a, o) ->
                   [acc EXCEPT !.shares = @ + d, !.cash = @ - d * MinusMinPrice(log.price)]
              [] ClaimOf(log, a) ->
                   [shares |-> 0,
                    cash |-> acc.cash + acc.shares * Head(Payouts)[o] * TickSize,
                    claimedShort |-> acc.claimedShort \/ acc.shares < 0]
              [] OTHER -> acc
  IN  FoldLeft(Book, Account0, logs)
Cashflow(a, o) == CashflowUpTo(Logs, a, o)

\* A claim whose row does not come after that of an earlier trade of its block.
ClaimBehindTrade(a) ==
  \E i, j \in DOMAIN Logs :
    /\ i < j /\ Logs[i].blockNumber = Logs[j].blockNumber
    /\ ClaimOf(Logs[j], a) /\ \E o \in Outcome : FillOf(Logs[i], a, o)
    /\ Logs[i].logIndex >= Logs[j].transactionIndex

SumOver(S, f(_)) == FoldSet(LAMBDA x, sum : sum + f(x), 0, S)

\* The tables hold what they are declared to hold.
RowKind ==
  [account : Account, outcome : Outcome, price : 0..DisplayRange,
   position : Int, quantityOpened : Nat, profit : Int, realizedCost : Nat,
   frozenFunds : Int, transactionHash : (1..MaxBlocks) \X (0..MaxLogs),
   timestamp : {TimeOf(n) : n \in 1..MaxBlocks}, blockNumber : 1..MaxBlocks, logIndex : Nat]
ValueKind ==
  [outcome : Outcome, value : Int, transactionHash : (1..MaxBlocks) \X (0..MaxLogs),
   timestamp : {TimeOf(n) : n \in 1..MaxBlocks}, blockNumber : 1..MaxBlocks, logIndex : Nat]
TypeOK ==
  /\ Range(plRows) \subseteq RowKind
  /\ Range(ovRows) \subseteq ValueKind
  /\ finalized = \E i \in DOMAIN Logs : Logs[i].event = "finalize"

\* The position is what the account bought less what it sold, and the realized and
\* unrealized profit together are the money its trades brought, at whatever price
\* the position is valued: through averages, partial closes, reversals, claims of
\* long positions and removed blocks (updateProfitLoss, financial-math.ts).
ProfitIsCashflow ==
  \A a \in Account, o \in Outcome, q \in {0, DisplayRange} :
    LET row == LastRow(plRows, a, o, "newest")
        flow == Cashflow(a, o)
    IN  ~flow.claimedShort /\ ~ClaimBehindTrade(a) =>
          TotalProfit(row.position, row.price, q, row.profit) = flow.cash + flow.shares * q

\* The same for every claim, those of short positions included.
ClaimPaysShorts ==
  \A a \in Account, o \in Outcome, q \in {0, DisplayRange} :
    LET row == LastRow(plRows, a, o, "newest")
        flow == Cashflow(a, o)
    IN  ~ClaimBehindTrade(a) =>
          TotalProfit(row.position, row.price, q, row.profit) = flow.cash + flow.shares * q

\* Until it claims, the funds an account has frozen in the market are what its open
\* positions cost, plus one display range for each complete set its trades left it
\* with (getFrozenFundsAfterEventForOneOutcome against the shares it holds).  The tables
\* keep their types throughout.
FrozenIsEscrow ==
  /\ TypeOK
  /\ \A a \in Account :
       LET row(o) == LastRow(plRows, a, o, "newest")
           sets == Held[a][0] - row(0).position
                     - SumOver(Outcome, LAMBDA o : IF row(o).position < 0
                                                   THEN Abs(row(o).position) ELSE 0)
       IN  (\A i \in DOMAIN Logs : ~ClaimOf(Logs[i], a)) =>
             SumOver(Outcome, LAMBDA o : row(o).frozenFunds)
               = SumOver(Outcome, LAMBDA o : UnrealizedCost(row(o).position, row(o).price))
                   + sets * DisplayRange
=============================================================================
