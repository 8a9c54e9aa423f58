---------------------------- MODULE TokenLedger ----------------------------
(***************************************************************************)
(* The ledger tables: balances, token_supply, tokens, transfers, approvals, *)
(* completeSets, trading_proceeds, participation_token_redeemed, the owners *)
(* of initial reports and mailboxes, markets.openInterest and categories.   *)
(* One handler per log and one per removal, each an operator from the       *)
(* tables to the tables.  "threw" says that a handler threw.                *)
(*                                                                         *)
(* The chain is a stack of blocks of one transaction each; the logs of a    *)
(* transaction and who may send it are the contracts', hence external.      *)
(***************************************************************************)
EXTENDS Integers, SequencesExt, FiniteSetsExt, TLC

CONSTANTS
  Account,
  Market,            \* strings, as are the two universes
  FirstMarkets,      \* markets created before the first block of the model
  CategoryOf, UniverseOf, NumTicks,       \* by market
  Moves,             \* tokens and amounts that are transferred
  StartRep, Bond,    \* REP of every account at the start, and of a new market
  MaxBlocks, MaxRemovals                  \* bounds: one reorganisation of MaxRemovals blocks

Outcome == {0, 1}
Universe == {"genesis", "child"}
Owner == Account \cup Market
Rep(u) == <<u, 0>>
Share(m, o) == <<m, o>>
Legacy == <<"legacy", 0>>        \* the REP of Augur v0: no balances are kept of it
Ether == <<"ether", 0>>          \* in the table of transfers, not in that of tokens
NoOne == "null"

ASSUME LedgerAssumption ==
  /\ FirstMarkets \subseteq Market
  /\ Market \cap Universe = {}
  /\ UniverseOf \in [Market -> Universe] /\ NumTicks \in [Market -> Nat \ {0}]
  /\ {StartRep, Bond, MaxBlocks, MaxRemovals} \subseteq Nat

VARIABLES
  chain,      \* the blocks followed, each the logs of a transaction
  db,         \* the tables
  halted,     \* a handler threw: the process ends
  removals,   \* blocks removed by the reorganisation, MaxRemovals once it is over
  undone      \* history: markets whose open interest was last written by a removal

vars == <<chain, db, halted, removals, undone>>

Put(f, x, v) == (x :> v) @@ f
Without(f, S) == [x \in DOMAIN f \ S |-> f[x]]
SumOver(S, f(_)) == FoldSet(LAMBDA x, sum : sum + f(x), 0, S)

-----------------------------------------------------------------------------
(* token/*.ts                                                               *)

BalanceOf(d, token, owner) ==
  IF <<token, owner>> \in DOMAIN d.balances THEN d.balances[<<token, owner>>] ELSE 0
SupplyOf(d, token) == IF token \in DOMAIN d.supply THEN d.supply[token] ELSE 0
Threw(d) == [d EXCEPT !.threw = TRUE]

IncreaseTokenBalance(d, token, owner, n) ==
  IF token = Legacy THEN d
  ELSE [d EXCEPT !.balances = Put(@, <<token, owner>>, BalanceOf(d, token, owner) + n)]
DecreaseTokenBalance(d, token, owner, n) ==
  CASE token = Legacy \/ n = 0                   -> d
    [] n > BalanceOf(d, token, owner)            -> Threw(d)  \* no row, or nonnegativeBalance
    [] OTHER -> [d EXCEPT !.balances[<<token, owner>>] = @ - n]

IncreaseTokenSupply(d, token, n) ==
  [d EXCEPT !.supply = Put(@, token, SupplyOf(d, token) + n)]
DecreaseTokenSupply(d, token, n) ==
  CASE n = 0                      -> d
    [] token \notin DOMAIN d.supply -> Threw(d)
    [] OTHER -> [d EXCEPT !.supply[token] = @ - n]

\* The tables that hold a row for each log of a kind.
TableOf == [TokensTransferred |-> "transfers", TokensMinted |-> "transfers",
            TokensBurned |-> "transfers", MarketCreated |-> "transfers",
            CompleteSets |-> "completeSets", OrderFilled |-> "trades", Approval |-> "approvals",
            FeeWindowRedeemed |-> "participation_token_redeemed",
            TradingProceedsClaimed |-> "trading_proceeds"]
\* The row of a new market is the transfer of its validity bond.
RowOf(log) ==
  <<TableOf[log.event],
    IF log.event # "MarketCreated" THEN log
    ELSE [event |-> "ValidityBond", token |-> Ether, from |-> log.creator, to |-> log.market,
          value |-> 1, at |-> log.at]>>
InsertRow(d, log) == [d EXCEPT !.rows = @ \cup {RowOf(log)}]
DeleteRow(d, log) == [d EXCEPT !.rows = @ \ {RowOf(log)}]

TokensTransferred(d, log) ==
  LET up == IncreaseTokenBalance(InsertRow(d, log), log.token, log.to, log.value)
  IN  DecreaseTokenBalance(up, log.token, log.from, log.value)
TokensTransferredRemoval(d, log) ==
  LET up == IncreaseTokenBalance(DeleteRow(d, log), log.token, log.from, log.value)
  IN  DecreaseTokenBalance(up, log.token, log.to, log.value)

Mint(d, log) ==
  LET up == IncreaseTokenSupply(InsertRow(d, log), log.token, log.value)
  IN  IncreaseTokenBalance(up, log.token, log.to, log.value)
MintRemoval(d, log) ==
  LET down == DecreaseTokenSupply(DeleteRow(d, log), log.token, log.value)
  IN  DecreaseTokenBalance(down, log.token, log.to, log.value)

Burn(d, log) ==
  LET down == DecreaseTokenSupply(InsertRow(d, log), log.token, log.value)
  IN  DecreaseTokenBalance(down, log.token, log.from, log.value)
\* Mutant: only the balance is restored.
BurnRemovalKeepsSupply(d, log) ==
  IncreaseTokenBalance(DeleteRow(d, log), log.token, log.from, log.value)
BurnRemoval(d, log) ==
  LET up == IncreaseTokenSupply(DeleteRow(d, log), log.token, log.value)
  IN  IncreaseTokenBalance(up, log.token, log.from, log.value)

-----------------------------------------------------------------------------
(* category-aggregations.ts and updateMarketOpenInterest.  The rows of      *)
(* categories are keyed by universe and name, but read and written by name: *)
(* the first row is read, every row is written.                             *)

RowsOf(d, category) == {i \in DOMAIN d.categories : d.categories[i].category = category}
FirstRowOf(d, category) == d.categories[Min(RowsOf(d, category))]
SetRows(d, category, open, nonFinalized) ==
  [d EXCEPT !.categories = [i \in DOMAIN @ |->
     IF i \in RowsOf(d, category)
     THEN [@[i] EXCEPT !.openInterest = open, !.nonFinalizedOpenInterest = nonFinalized]
     ELSE @[i]]]

CreateCategoryIfNotExists(d, universe, category) ==
  IF \E i \in RowsOf(d, category) : d.categories[i].universe = universe THEN d
  ELSE [d EXCEPT !.categories = Append(@, [category |-> category, universe |-> universe,
                                           openInterest |-> 0, nonFinalizedOpenInterest |-> 0])]

UpdateCategoryOnOpenInterestChanged(d, m, delta) ==
  LET row == FirstRowOf(d, CategoryOf[m])
  IN  IF RowsOf(d, CategoryOf[m]) = {} THEN Threw(d)
      ELSE SetRows(d, CategoryOf[m], row.openInterest + delta,
                   row.nonFinalizedOpenInterest + (IF d.markets[m].finalized THEN 0 ELSE delta))

\* Of the outcomes' supplies the query takes that of any outcome.
UpdateMarketOpenInterest(d, m, outcome) ==
  LET interest == d.supply[Share(m, outcome)] * NumTicks[m]
      updated  == [d EXCEPT !.markets[m].openInterest = interest]
  IN  IF m \notin DOMAIN d.markets \/ Share(m, outcome) \notin DOMAIN d.supply THEN Threw(d)
      ELSE UpdateCategoryOnOpenInterestChanged(updated, m, interest - d.markets[m].openInterest)

\* Mutant: the market enters the sum of open markets when it leaves it.
FinalizedAdded(d, m) ==
  LET row == FirstRowOf(d, CategoryOf[m])
  IN  SetRows(d, CategoryOf[m], row.openInterest,
              row.nonFinalizedOpenInterest + d.markets[m].openInterest)

UpdateCategoryOnMarketFinalized(d, m) ==
  LET row == FirstRowOf(d, CategoryOf[m])
  IN  SetRows(d, CategoryOf[m], row.openInterest,
              row.nonFinalizedOpenInterest - d.markets[m].openInterest)
UpdateCategoryOnMarketFinalizedRollback(d, m) ==
  LET row == FirstRowOf(d, CategoryOf[m])
  IN  SetRows(d, CategoryOf[m], row.openInterest,
              row.nonFinalizedOpenInterest + d.markets[m].openInterest)

-----------------------------------------------------------------------------
(* The other processors.                                                    *)

MarketCreated(d, log) ==
  LET m == log.market
      created ==
        [d EXCEPT
           !.markets = Put(@, m, [openInterest |-> 0, finalized |-> FALSE,
                                  mailbox |-> log.creator, creator |-> log.creator,
                                  at |-> log.at]),
           !.tokens = @ \cup {Share(m, o) : o \in Outcome},
           !.supply = [t \in {Share(m, o) : o \in Outcome} |-> 0] @@ @]
  IN  IF <<Rep(UniverseOf[m]), m>> \notin DOMAIN d.balances THEN Threw(d)
      ELSE CreateCategoryIfNotExists(InsertRow(created, log),
                                     UniverseOf[m], CategoryOf[m])
MarketCreatedRemoval(d, log) ==
  LET shares == {t \in d.tokens : \E o \in Outcome : t = Share(log.market, o)}
  IN  DeleteRow([d EXCEPT !.markets = Without(@, {log.market}),
                          !.supply = Without(@, shares), !.tokens = @ \ shares],
                log)

\* Mutant: the market's open interest is left to the next fill.
CompleteSetsOnlyRecorded(d, log, outcome) == InsertRow(d, log)
CompleteSetsPurchasedOrSold(d, log, outcome) ==
  UpdateMarketOpenInterest(InsertRow(d, log), log.market, outcome)
CompleteSetsPurchasedOrSoldRemoval(d, log, outcome) ==
  UpdateMarketOpenInterest(DeleteRow(d, log), log.market, outcome)

\* Of a fill, what updateVolumetrics does to the open interest, last of all.
OrderFilled(d, log, outcome) ==
  UpdateMarketOpenInterest(InsertRow(d, log), log.market, outcome)
OrderFilledRemoval(d, log, outcome) ==
  DeleteRow(UpdateMarketOpenInterest(d, log.market, outcome), log)

MarketFinalized(d, log) ==
  UpdateCategoryOnMarketFinalized([d EXCEPT !.markets[log.market].finalized = TRUE], log.market)
MarketFinalizedRemoval(d, log) ==
  UpdateCategoryOnMarketFinalizedRollback(
    [d EXCEPT !.markets[log.market].finalized = FALSE], log.market)

\* The token's address is the primary key of tokens; only the universe is taken back.
UniverseCreated(d, log) ==
  IF log.universe \in d.universes \/ Rep(log.universe) \in d.tokens THEN Threw(d)
  ELSE [d EXCEPT !.universes = @ \cup {log.universe}, !.tokens = @ \cup {Rep(log.universe)}]
UniverseCreatedRemoval(d, log) == [d EXCEPT !.universes = @ \ {log.universe}]

\* The row of payouts is found or inserted; the removal of the report leaves it.
InitialReportSubmitted(d, log) ==
  [d EXCEPT !.payouts = @ \cup {<<log.market, log.payout>>},
            !.reports = Put(@, log.market, [reporter |-> log.reporter, redeemed |-> FALSE,
                                            payout |-> log.payout, at |-> log.at])]
InitialReportSubmittedRemoval(d, log) == [d EXCEPT !.reports = Without(@, {log.market})]

SetReport(d, m, field, value) ==
  IF m \notin DOMAIN d.reports THEN d
  ELSE [d EXCEPT !.reports[m] = [@ EXCEPT ![field] = value]]
InitialReporterRedeemed(d, log) == SetReport(d, log.market, "redeemed", TRUE)
InitialReporterRedeemedRemoval(d, log) == SetReport(d, log.market, "redeemed", FALSE)
InitialReporterTransferred(d, log) == SetReport(d, log.market, "reporter", log.to)
InitialReporterTransferredRemoval(d, log) == SetReport(d, log.market, "reporter", log.from)

MarketMailboxTransferred(d, log) == [d EXCEPT !.markets[log.market].mailbox = log.to]
MarketMailboxTransferredRemoval(d, log) == [d EXCEPT !.markets[log.market].mailbox = log.from]

\* Logs whose processor only inserts a row, and whose removal deletes it.
OnlyRecorded == {"Approval", "FeeWindowRedeemed", "TradingProceedsClaimed"}

Process(d, log, outcome) ==
  CASE log.event \in OnlyRecorded                -> InsertRow(d, log)
    [] log.event = "TokensTransferred"          -> TokensTransferred(d, log)
    [] log.event = "TokensMinted"               -> Mint(d, log)
    [] log.event = "TokensBurned"               -> Burn(d, log)
    [] log.event = "MarketCreated"              -> MarketCreated(d, log)
    [] log.event = "CompleteSets"               -> CompleteSetsPurchasedOrSold(d, log, outcome)
    [] log.event = "OrderFilled"                -> OrderFilled(d, log, outcome)
    [] log.event = "MarketFinalized"            -> MarketFinalized(d, log)
    [] log.event = "UniverseCreated"            -> UniverseCreated(d, log)
    [] log.event = "InitialReportSubmitted"     -> InitialReportSubmitted(d, log)
    [] log.event = "InitialReporterRedeemed"    -> InitialReporterRedeemed(d, log)
    [] log.event = "InitialReporterTransferred" -> InitialReporterTransferred(d, log)
    [] log.event = "MarketMailboxTransferred"   -> MarketMailboxTransferred(d, log)

ProcessRemoval(d, log, outcome) ==
  CASE log.event \in OnlyRecorded                -> DeleteRow(d, log)
    [] log.event = "TokensTransferred"          -> TokensTransferredRemoval(d, log)
    [] log.event = "TokensMinted"               -> MintRemoval(d, log)
    [] log.event = "TokensBurned"               -> BurnRemoval(d, log)
    [] log.event = "MarketCreated"              -> MarketCreatedRemoval(d, log)
    [] log.event = "CompleteSets"               -> CompleteSetsPurchasedOrSoldRemoval(d, log, outcome)
    [] log.event = "OrderFilled"                -> OrderFilledRemoval(d, log, outcome)
    [] log.event = "MarketFinalized"            -> MarketFinalizedRemoval(d, log)
    [] log.event = "UniverseCreated"            -> UniverseCreatedRemoval(d, log)
    [] log.event = "InitialReportSubmitted"     -> InitialReportSubmittedRemoval(d, log)
    [] log.event = "InitialReporterRedeemed"    -> InitialReporterRedeemedRemoval(d, log)
    [] log.event = "InitialReporterTransferred" -> InitialReporterTransferredRemoval(d, log)
    [] log.event = "MarketMailboxTransferred"   -> MarketMailboxTransferredRemoval(d, log)

-----------------------------------------------------------------------------
(* What the contracts hold and log.  Held is what the logs of the chain add  *)
(* up to; a transaction is a sequence of logs its sender can cause.          *)

Logs == FlattenSeq(chain)
LogSet(event) == {log \in Range(Logs) : log.event = event}
Happened(event, m) == \E log \in LogSet(event) : log.market = m

TransferEvents == {"TokensTransferred", "TokensMinted", "TokensBurned"}
Flow(log, owner) ==
  (IF log.to = owner THEN log.value ELSE 0) - (IF log.from = owner THEN log.value ELSE 0)
HeldAtStart(token, owner) ==
  CASE token = Rep("genesis") /\ owner \in Account -> StartRep
    [] \E m \in FirstMarkets : token = Rep(UniverseOf[m]) /\ owner = m -> Bond
    [] OTHER -> 0
Transfers(token, owner) ==
  {log \in Range(Logs) : log.event \in TransferEvents /\ log.token = token
                                                     /\ owner \in {log.from, log.to}}
Held(token, owner) ==
  HeldAtStart(token, owner)
    + SumOver(Transfers(token, owner), LAMBDA log : Flow(log, owner))

Markets == FirstMarkets \cup {log.market : log \in LogSet("MarketCreated")}
Universes == {"genesis"} \cup {log.universe : log \in LogSet("UniverseCreated")}
Tokens == {Share(m, o) : m \in Markets, o \in Outcome} \cup {Rep(u) : u \in Universes}

Transferred(t, a, b, n) ==
  [event |-> "TokensTransferred", token |-> t, from |-> a, to |-> b, value |-> n]
Minted(t, a, n) ==
  [event |-> "TokensMinted", token |-> t, from |-> NoOne, to |-> a, value |-> n]
Burned(t, a, n) ==
  [event |-> "TokensBurned", token |-> t, from |-> a, to |-> NoOne, value |-> n]
OfMarket(event, m) == [event |-> event, market |-> m]
Sets(a, m, kind, window) ==   \* window: a fee window covers the time of the block
  OfMarket("CompleteSets", m) @@ [account |-> a, kind |-> kind, inWindow |-> window]
Fill(creator, filler, m, type, o) ==
  OfMarket("OrderFilled", m)
    @@ [creator |-> creator, filler |-> filler, orderType |-> type, outcome |-> o]

\* The last log of a kind of a market, or what was before it.
Latest(event, m, field, before) ==
  LET all == {log \in LogSet(event) : log.market = m}
  IN  IF all = {} THEN before
      ELSE (CHOOSE log \in all : \A other \in all : other.at[1] <= log.at[1])[field]
FirstCreator == "deployer"
Creator(m) == Latest("MarketCreated", m, "creator", FirstCreator)
Mailbox(m) == Latest("MarketMailboxTransferred", m, "to", Creator(m))
\* The first markets were reported, and disputed, before the first block.
Reported(m) == m \in FirstMarkets \/ Happened("InitialReportSubmitted", m)
Reporter(m) == Latest("InitialReporterTransferred", m, "to",
                      Latest("InitialReportSubmitted", m, "reporter", Creator(m)))

Applied(d, logs, outcome) ==
  FoldLeft(LAMBDA e, log : IF e.threw THEN e ELSE Process(e, log, outcome), d, logs)
TakenBack(d, logs, outcome) ==
  FoldRight(LAMBDA log, e : IF e.threw THEN e ELSE ProcessRemoval(e, log, outcome), logs, d)

Interest(logs) ==
  {log.market : log \in {l \in Range(logs) : l.event \in {"CompleteSets", "OrderFilled"}}}
Created(logs) == {log.market : log \in {l \in Range(logs) : l.event = "MarketCreated"}}

\* The outcome whose supply is read, where one is.
AnyOutcome(logs) == IF Interest(logs) = {} THEN {0} ELSE Outcome

Room == ~halted /\ Len(chain) < MaxBlocks

\* A block arrives and its transaction commits, or a handler throws and it is rolled back.
Mine(tx) ==
  /\ \E outcome \in AnyOutcome(tx) :
       LET logs  == [i \in DOMAIN tx |-> [at |-> <<Len(chain) + 1, i>>] @@ tx[i]]
           after == Applied(db, logs, outcome)
       IN  IF after.threw
           THEN halted' = TRUE /\ UNCHANGED <<chain, db, undone>>
           ELSE /\ chain' = Append(chain, logs) /\ db' = after /\ halted' = FALSE
                /\ undone' = undone \ (Interest(logs) \cup Created(logs))
  /\ removals' = IF removals = 0 THEN 0 ELSE MaxRemovals

RemoveBlock ==
  /\ ~halted /\ chain # <<>> /\ removals < MaxRemovals
  /\ \E outcome \in AnyOutcome(Last(chain)) :
       LET after == TakenBack(db, Last(chain), outcome)
       IN  IF after.threw
           THEN halted' = TRUE /\ UNCHANGED <<chain, db, undone>>
           ELSE /\ chain' = Front(chain) /\ db' = after /\ halted' = FALSE
                /\ undone' = undone \cup Interest(Last(chain))
  /\ removals' = removals + 1

CreateMarket(a, m) ==
  /\ Room /\ m \in Market \ Markets /\ UniverseOf[m] \in Universes
  /\ Held(Rep(UniverseOf[m]), a) >= Bond
  /\ Mine(<<Transferred(Rep(UniverseOf[m]), a, m, Bond),
            OfMarket("MarketCreated", m) @@ [creator |-> a]>>)

BuyCompleteSets(a, m) ==
  /\ Room /\ m \in Markets
  /\ Mine(<<Minted(Share(m, 0), a, 1), Minted(Share(m, 1), a, 1), Sets(a, m, "Purchased", TRUE)>>)
SellCompleteSets(a, m) ==
  /\ Room /\ m \in Markets /\ \A o \in Outcome : Held(Share(m, o), a) >= 1
  /\ \E window \in BOOLEAN :
       Mine(<<Burned(Share(m, 0), a, 1), Burned(Share(m, 1), a, 1), Sets(a, m, "Sold", window)>>)

\* Shares are made, once or in two like fills of one transaction, handed over, or undone.
FillOrder(creator, filler, m) ==
  LET make == <<Minted(Share(m, 0), creator, 1), Minted(Share(m, 1), filler, 1),
                Fill(creator, filler, m, "buy", 0)>>
  IN  /\ Room /\ m \in Markets
      /\ \/ Mine(make)
         \/ Mine(make \o make)
         \/ \E o \in Outcome :
              /\ Held(Share(m, o), creator) >= 1
              /\ Mine(<<Transferred(Share(m, o), creator, filler, 1),
                        Fill(creator, filler, m, "sell", o)>>)
         \/ /\ Held(Share(m, 0), creator) >= 1 /\ Held(Share(m, 1), filler) >= 1
            /\ Mine(<<Burned(Share(m, 0), creator, 1), Burned(Share(m, 1), filler, 1),
                      Fill(creator, filler, m, "sell", 0)>>)

Transfer(token, a, b, n) ==
  /\ Room /\ token \in Tokens /\ n <= Held(token, a)
  /\ Mine(<<Transferred(token, a, b, n)>>)

Finalize(m) ==
  /\ Room /\ m \in Markets /\ Reported(m) /\ ~Happened("MarketFinalized", m)
  /\ Mine(<<OfMarket("MarketFinalized", m)>>)
ClaimTradingProceeds(a, m) ==
  /\ Room /\ Happened("MarketFinalized", m)
  /\ \E o \in Outcome :
       LET shares == Held(Share(m, o), a)
       IN  /\ shares > 0
           /\ Mine(<<Burned(Share(m, o), a, shares),
                     OfMarket("TradingProceedsClaimed", m) @@ [account |-> a, outcome |-> o]>>)

Report(a, m) ==
  /\ Room /\ m \in Markets /\ ~Reported(m)
  /\ Mine(<<OfMarket("InitialReportSubmitted", m) @@ [reporter |-> a, payout |-> 0]>>)
TransferReporter(a, m) ==
  /\ Room /\ m \in Markets /\ Reported(m)
  /\ Mine(<<OfMarket("InitialReporterTransferred", m) @@ [from |-> Reporter(m), to |-> a]>>)
RedeemReporter(m) ==     \* the contract logs each call
  /\ Room /\ Happened("MarketFinalized", m)
  /\ Mine(<<OfMarket("InitialReporterRedeemed", m)>>)
TransferMailbox(a, m) ==
  /\ Room /\ m \in Markets
  /\ Mine(<<OfMarket("MarketMailboxTransferred", m) @@ [from |-> Mailbox(m), to |-> a]>>)

\* The first to migrate also creates the universe.
MigrateRep(a) ==
  LET moved == <<Burned(Rep("genesis"), a, 1), Minted(Rep("child"), a, 1)>>
  IN  /\ Room /\ Held(Rep("genesis"), a) >= 1
      /\ Mine(IF "child" \in Universes THEN moved
              ELSE <<[event |-> "UniverseCreated", universe |-> "child"]>> \o moved)
Unrelated(a) ==     \* logs that are only recorded
  /\ Room
  /\ Mine(<<[event |-> "Approval"], Transferred(Legacy, a, a, 1),
            [event |-> "FeeWindowRedeemed", reporter |-> a]>>)

Init ==
  LET FirstRep(u) == IF u = "genesis" THEN StartRep * Cardinality(Account) ELSE 0
      Bonds(u) == Bond * Cardinality({m \in FirstMarkets : UniverseOf[m] = u})
      Kinds == {[category |-> CategoryOf[m], universe |-> UniverseOf[m], openInterest |-> 0,
                 nonFinalizedOpenInterest |-> 0] : m \in FirstMarkets}
  IN  /\ chain = <<>> /\ halted = FALSE /\ removals = 0 /\ undone = {}
      /\ db = [balances |-> [p \in {<<Rep("genesis"), a>> : a \in Account}
                                 \cup {<<Rep(UniverseOf[m]), m>> : m \in FirstMarkets}
                              |-> HeldAtStart(p[1], p[2])],
               supply |-> [t \in Tokens |-> IF t[1] \in Universe
                                            THEN FirstRep(t[1]) + Bonds(t[1]) ELSE 0],
               rows |-> {}, tokens |-> Tokens, universes |-> {"genesis"},
               markets |-> [m \in FirstMarkets |->
                              [openInterest |-> 0, finalized |-> FALSE, mailbox |-> FirstCreator,
                               creator |-> FirstCreator, at |-> <<0, 0>>]],
               categories |-> SetToSeq(Kinds),
               payouts |-> FirstMarkets \X {0, 1},
               reports |-> [m \in FirstMarkets |->
                              [reporter |-> FirstCreator, redeemed |-> FALSE, payout |-> 0,
                               at |-> <<0, 0>>]],
               threw |-> FALSE]

Next ==
  \/ RemoveBlock
  \/ \E m \in Market : Finalize(m) \/ RedeemReporter(m)
  \/ \E a \in Account : MigrateRep(a) \/ Unrelated(a)
  \/ \E a \in Account, m \in Market :
       \/ CreateMarket(a, m) \/ BuyCompleteSets(a, m) \/ SellCompleteSets(a, m)
       \/ ClaimTradingProceeds(a, m) \/ Report(a, m) \/ TransferReporter(a, m)
       \/ TransferMailbox(a, m)
  \/ \E a, b \in Account, m \in Market : FillOrder(a, b, m)
  \/ \E a, b \in Account, move \in Moves : Transfer(move[1], a, b, move[2])

Spec == Init /\ [][Next]_vars

-----------------------------------------------------------------------------
(* Properties.                                                              *)

\* Through any removals of blocks the ledger is that of the chain: every balance is what the
\* logs add up to (and one that was never touched is zero), every supply is the sum of the
\* balances, tables hold the rows of the logs still there, the markets, universes, owners of
\* reports and mailboxes are the chain's, and no report is redeemed that the chain does not
\* redeem.  The handlers throw only on a universe that is created again after a reorganisation,
\* whose REP token is still in the table of tokens.
LedgerFollowsChain ==
  /\ \A token \in Tokens, owner \in Owner : BalanceOf(db, token, owner) = Held(token, owner)
  /\ \A p \in DOMAIN db.balances : p[1] \in Tokens \/ db.balances[p] = 0
  /\ \A token \in Tokens :
       SupplyOf(db, token) = SumOver(Owner, LAMBDA owner : BalanceOf(db, token, owner))
  /\ db.rows = {RowOf(log) : log \in {l \in Range(Logs) : l.event \in DOMAIN TableOf}}
  /\ db.universes = Universes /\ Tokens \subseteq db.tokens
  /\ DOMAIN db.markets = Markets
  /\ \A m \in Markets : db.markets[m].mailbox = Mailbox(m)
  /\ DOMAIN db.reports = {m \in Markets : Reported(m)}
  /\ \A m \in DOMAIN db.reports :
       /\ db.reports[m].reporter = Reporter(m)
       /\ db.reports[m].redeemed => Happened("InitialReporterRedeemed", m)
  /\ halted => \E u \in Universe \ db.universes : Rep(u) \in db.tokens

\* The open interest of a market is the price of the complete sets that exist, unless it was
\* last written while a block was taken back (then the supplies it read were those of before),
\* or shares were burned for the proceeds of a finalized market.
OpenInterestIsSupply ==
  \A m \in Markets \ undone : \A o \in Outcome :
    ~Happened("TradingProceedsClaimed", m) =>
      db.markets[m].openInterest = NumTicks[m] * SupplyOf(db, Share(m, o))

\* getCategories: the sums of a category over the markets of a universe (tags are left out).
MarketsTagRows(d, universe) == {m \in DOMAIN d.markets : UniverseOf[m] = universe}
OpenInterestOf(d, S) == SumOver(S, LAMBDA m : d.markets[m].openInterest)
NonFinalized(d, S) == {m \in S : ~d.markets[m].finalized}
GetCategories(d, universe) ==
  LET listed == MarketsTagRows(d, universe)
  IN  [category \in {CategoryOf[m] : m \in listed} |->
         LET S == {m \in listed : CategoryOf[m] = category}
         IN  <<OpenInterestOf(d, S), OpenInterestOf(d, NonFinalized(d, S))>>]

\* How far a category's row is from what getCategories answers in all universes together.
Drift(d, category, i) ==
  LET answers == {u \in d.universes : category \in DOMAIN GetCategories(d, u)}
      row == FirstRowOf(d, category)
  IN  (IF i = 1 THEN row.openInterest ELSE row.nonFinalizedOpenInterest)
        - SumOver(answers, LAMBDA u : GetCategories(d, u)[category][i])

\* The sums of a category, kept step by step, stay those of its markets: a step lets them drift
\* apart only by the open interest of a market whose creation it takes back.
CategoriesFollowMarkets ==
  [][\A m \in FirstMarkets :
       LET category == CategoryOf[m]
           gone == {x \in DOMAIN db.markets \ DOMAIN db'.markets : CategoryOf[x] = category}
           lost == <<OpenInterestOf(db, gone), OpenInterestOf(db, NonFinalized(db, gone))>>
       IN  \A i \in 1..2 : Drift(db', category, i) = Drift(db, category, i) + lost[i]]_db

=============================================================================
