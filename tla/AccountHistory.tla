--------------------------- MODULE AccountHistory ---------------------------
(***************************************************************************)
(* What the getters answer about an account's past from the ledger tables:  *)
(* transfer and transaction history, share balances, the universes around   *)
(* one, and the statistics of an account and of the platform.  d stands for *)
(* the tables, a for the account and u for the universe of the question.    *)
(*                                                                         *)
(* The time range is that of all blocks, action and coin are "all".  Orders, *)
(* crowdsourcers and creator fees are not in these tables, so cancelled     *)
(* orders, disputes, claims of crowdsourcers and of fees are left out.      *)
(***************************************************************************)
EXTENDS TokenLedger

Rows(d, table) == {row[2] : row \in {r \in d.rows : r[1] = table}}
InUniverse(d, u, S) ==
  {log \in S : log.market \in DOMAIN d.markets /\ UniverseOf[log.market] = u}

-----------------------------------------------------------------------------
(* get-account-transfer-history.ts: the join drops tokens without a row.    *)

TransferHistory(d, a) ==
  {log \in Rows(d, "transfers") : a \in {log.from, log.to} /\ log.token \in d.tokens}
IsInternalTransfer(d, log) == \E trade \in Rows(d, "trades") : trade.at[1] = log.at[1]

-----------------------------------------------------------------------------
(* get-account-transaction-history.ts.  An answer is a UNION without the    *)
(* index of the log: like entries of a transaction are one.                 *)

Entry(action, market, detail, at) ==
  [action |-> action, market |-> market, detail |-> detail, block |-> at[1]]
TradeEntries(action, S) ==
  {Entry(action, log.market, <<log.outcome>>, log.at) : log \in S}
Trades(d, u) == InUniverse(d, u, Rows(d, "trades"))

\* Mutant: a fill is the creator's whatever the type of the order.
QueryBuyOfCreator(d, a, u) == TradeEntries("BUY", {t \in Trades(d, u) : t.creator = a})
QueryBuy(d, a, u) ==
  TradeEntries("BUY", {t \in Trades(d, u) : \/ t.orderType = "buy"  /\ t.creator = a
                                            \/ t.orderType = "sell" /\ t.filler = a})
QuerySell(d, a, u) ==
  TradeEntries("SELL", {t \in Trades(d, u) : \/ t.orderType = "sell" /\ t.creator = a
                                             \/ t.orderType = "buy"  /\ t.filler = a})

QueryClaimParticipationTokens(d, a, u) ==     \* the fee window of the model is genesis'
  {Entry("CLAIM_PARTICIPATION_TOKENS", NoOne, <<>>, log.at) :
     log \in {r \in Rows(d, "participation_token_redeemed") : r.reporter = a /\ u = "genesis"}}

\* The join is with every payout of the market, not only the winning one.
QueryClaimTradingProceeds(d, a, u) ==
  UNION {{Entry("CLAIM_TRADING_PROCEEDS", log.market, <<log.outcome, p[2]>>, log.at) :
            p \in {q \in d.payouts : q[1] = log.market}} :
         log \in InUniverse(d, u, {r \in Rows(d, "trading_proceeds") : r.account = a})}

QueryInitialReport(d, a, u) ==
  {Entry("INITIAL_REPORT", m, <<d.reports[m].payout>>, d.reports[m].at) :
     m \in {x \in DOMAIN d.reports \cap DOMAIN d.markets :
              d.reports[x].reporter = a /\ UniverseOf[x] = u}}

\* Mutant: the condition on the universe is missing.
QueryMarketCreationOfAll(d, a, u) ==
  {Entry("MARKET_CREATION", m, <<>>, d.markets[m].at) :
     m \in {x \in DOMAIN d.markets : d.markets[x].creator = a}}
QueryMarketCreation(d, a, u) ==
  {Entry("MARKET_CREATION", m, <<>>, d.markets[m].at) :
     m \in {x \in DOMAIN d.markets : d.markets[x].creator = a /\ UniverseOf[x] = u}}

\* The join with the fee windows of the time of the block, all of whose fees are 0: a sale is
\* listed once, if there is one.
QueryCompleteSets(d, a, u) ==
  {Entry("COMPLETE_SETS", log.market, <<log.kind>>, log.at) :
     log \in InUniverse(d, u, {r \in Rows(d, "completeSets") :
                                 r.account = a /\ (r.kind = "Sold" => r.inWindow)})}

TransactionHistory(d, a, u) ==
  UNION {QueryBuy(d, a, u), QuerySell(d, a, u), QueryClaimParticipationTokens(d, a, u),
         QueryClaimTradingProceeds(d, a, u), QueryMarketCreation(d, a, u),
         QueryInitialReport(d, a, u), QueryCompleteSets(d, a, u)}

-----------------------------------------------------------------------------
(* get-user-share-balances.ts, get-universes-info.ts,                       *)
(* get-platform-activity-stats.ts and get-account-time-ranged-stats.ts.     *)

UserShareBalances(d, a, markets) ==
  [m \in markets \cap DOMAIN d.markets |-> [o \in Outcome |-> BalanceOf(d, Share(m, o), a)]]

Parent(u) == IF u = "genesis" THEN NoOne ELSE "genesis"
UniversesInfo(d, u, a) ==
  IF u \notin d.universes THEN {}
  ELSE {[universe |-> v, balance |-> BalanceOf(d, Rep(v), a), supply |-> SupplyOf(d, Rep(v)),
         numMarkets |-> Cardinality(MarketsTagRows(d, v))] :
          v \in {x \in d.universes : \/ Parent(x) \in {u, Parent(u)}    \* children, siblings
                                     \/ x \in {u, Parent(u)}}}

Blocks(S) == {log.at[1] : log \in S}
\* The fillers are queried twice, the creators of the orders never.
ActiveUsers(d, u) == {t.filler : t \in Trades(d, u)}
NumberOfTrades(d, u) == Cardinality(Blocks(Trades(d, u)))
Volume(d, u) == Cardinality(Trades(d, u))           \* every fill is of 1
ActivityStats(d, u) ==
  [activeUsers |-> ActiveUsers(d, u), numberOfTrades |-> NumberOfTrades(d, u),
   volume |-> Volume(d, u), marketsCreated |-> Cardinality(MarketsTagRows(d, u))]

\* Positions are rows of balances, those of zero too.
Positions(d, a, u) ==
  {p \in DOMAIN d.balances : p[2] = a /\ \E m \in MarketsTagRows(d, u), o \in Outcome :
                                            p[1] = Share(m, o)}
AccountStats(d, a, u) ==
  LET traded   == {t \in Trades(d, u) : a \in {t.creator, t.filler}}
      redeemed == InUniverse(d, u, {r \in Rows(d, "trading_proceeds") : r.account = a})
  IN  [marketsCreated |-> Cardinality({m \in MarketsTagRows(d, u) : d.markets[m].creator = a}),
       numberOfTrades |-> Cardinality(Blocks(traded)),
       marketsTraded |-> Cardinality({t.market : t \in traded}),
       redeemedPositions |-> Cardinality({r.market : r \in redeemed}),
       positions |-> Cardinality(Positions(d, a, u))]

-----------------------------------------------------------------------------
(* Properties.                                                              *)

\* A sale or purchase of outcome 0 and the opposite one of outcome 1 move a position alike.
Toward(action, outcome) == IF (action = "BUY") = (outcome = 0) THEN 1 ELSE -1
TradedPosition(a, m) ==
  SumOver({e \in QueryBuy(db, a, UniverseOf[m]) \cup QuerySell(db, a, UniverseOf[m]) :
             e.market = m},
          LAMBDA e : Toward(e.action, e.detail[1]))
Received(a, S, token) ==
  SumOver({log \in S : log.token = token}, LAMBDA log : Flow(log, a))
HasTwin(log, S) ==
  \E twin \in S : twin # log /\ [twin EXCEPT !.at[2] = 0] = [log EXCEPT !.at[2] = 0]

\* The transfer history of an account explains its balance of every token, and its trades the
\* position it holds in a market: purchases less sales in the transaction history, with the
\* transfers that are no part of a trade, make up its shares of outcome 0 less those of 1.
\* Only like fills of one transaction, listed as one, leave a gap.
HistoryExplainsHoldings ==
  \A a \in Account :
    LET transfers == TransferHistory(db, a)
        others == {log \in transfers : ~IsInternalTransfer(db, log)}
        fills  == {log \in LogSet("OrderFilled") : a \in {log.creator, log.filler}}
    IN  /\ \A token \in Tokens :
             HeldAtStart(token, a) + Received(a, transfers, token) = Held(token, a)
        /\ \A m \in Markets :
             (\A log \in fills : log.market = m => ~HasTwin(log, fills)) =>
               LET shares == UserShareBalances(db, a, {m})[m]
               IN  TradedPosition(a, m) + Received(a, others, Share(m, 0))
                     - Received(a, others, Share(m, 1)) = shares[0] - shares[1]

\* Entries of the chain, by action: a purchase of sets, a sale in a fee window, a claim once for
\* each payout ever reported or disputed for, the report where its ownership went.
Of(a, u, event, field) ==
  {log \in LogSet(event) : log[field] = a /\ UniverseOf[log.market] = u}
ListedByChain(a, u) ==
  {<<"COMPLETE_SETS", log.market, log.at[1]>> :
     log \in {l \in Of(a, u, "CompleteSets", "account") : l.kind = "Sold" => l.inWindow}}
  \cup {<<"CLAIM_TRADING_PROCEEDS", log.market, log.at[1]>> :
     log \in Of(a, u, "TradingProceedsClaimed", "account")}
  \cup {<<"MARKET_CREATION", log.market, log.at[1]>> : log \in Of(a, u, "MarketCreated", "creator")}
  \cup {<<"CLAIM_PARTICIPATION_TOKENS", NoOne, log.at[1]>> :
     log \in {l \in LogSet("FeeWindowRedeemed") : l.reporter = a /\ u = "genesis"}}

\* The answers agree with the chain and with each other, through removals of blocks: the
\* transaction history lists what the account did in the universe and no more, the statistics
\* count its entries, and the universes listed around one hold what the ledger holds.
HistoryListsTheChain ==
  LET rep == [p \in Universes \X Owner |-> Held(Rep(p[1]), p[2])]
      universes(a) ==
        {[universe |-> v, balance |-> rep[v, a], numMarkets |-> Cardinality(MarketsTagRows(db, v)),
          supply |-> SumOver(Owner, LAMBDA owner : rep[v, owner])] : v \in Universes}
  IN
  \A u \in Universes, a \in Account :
    LET history == TransactionHistory(db, a, u)
        By(actions) == {e \in history : e.action \in actions}
        trades  == By({"BUY", "SELL"})
        reports == By({"INITIAL_REPORT"})
        stats   == AccountStats(db, a, u)
        all     == ActivityStats(db, u)
        fillers == {log.filler : log \in {l \in LogSet("OrderFilled") : UniverseOf[l.market] = u}}
    IN  /\ {<<e.action, e.market, e.block>> : e \in history \ (trades \cup reports)}
             = ListedByChain(a, u)
        /\ {e.market : e \in reports}
             = {m \in Markets : Reported(m) /\ Reporter(m) = a /\ UniverseOf[m] = u}
        /\ stats.numberOfTrades = Cardinality({e.block : e \in trades})
        /\ stats.marketsTraded = Cardinality({e.market : e \in trades})
        /\ stats.marketsCreated = Cardinality(By({"MARKET_CREATION"}))
        /\ stats.redeemedPositions
             = Cardinality({e.market : e \in By({"CLAIM_TRADING_PROCEEDS"})})
        /\ stats.positions >=
             Cardinality({mo \in MarketsTagRows(db, u) \X Outcome :
                            BalanceOf(db, Share(mo[1], mo[2]), a) > 0})
        /\ stats.numberOfTrades <= all.numberOfTrades /\ all.numberOfTrades <= all.volume
        /\ all.activeUsers = fillers
        /\ stats.marketsCreated <= all.marketsCreated
        /\ UniversesInfo(db, u, a) = universes(a)

=============================================================================
