# A TLA+ specification of augur-node

augur-node (`src/src`) follows the logs of the Augur contracts on an Ethereum
chain into a SQL database and answers queries and subscriptions from it. This
directory holds TLA+ modules of its core, the TLC configurations that check
them on small instances, and proofs for TLAPS. `PROJECT.json` maps every
definition to the lines it models and lists the runs, hazards and theorems.

## Inventory

| Component | State | Operations | What is hard | What makes it correct |
|---|---|---|---|---|
| Block synchronisation: `bulk-sync-augur-node-with-blockchain.ts`, `download-augur-logs.ts`, `start-augur-listeners.ts`, `block-and-logs-queue.ts`, `process-block.ts` | `blocks` table, two maps and a serial queue, position of the bulk sync | bulk download by chunks, hand-off to the block stream, accept/remove block and logs, the transaction of a block, crash, restart | reorganisations while tasks wait, two calls per block, a crash anywhere, the hand-off | each log counted once with its block's row; no block skipped; the database is an earlier state of the stream; it catches up |
| Reporting and disputes: `log-processors/{market-created, fee-window-created, initial-report-submitted, crowdsourcer, market-finalized, universe-forked, market-migrated, market-participants-disavowed, reporting-participant-disavowed, database}.ts` | `markets`, `market_state`, `fee_windows`, `initial_reports`, `crowdsourcers`, `payouts`, `universes` | one handler per log and one per removed log | time moves rows too; removals find rows that other logs or time changed; a fork touches every market | the state, window, leader, round and debts of a market are the contracts' |
| Time: `advanceTime` in `process-block.ts` | `blockHeadTimestamp`, reporting states, window states | per added block | boundaries skipped by one block, time never taken back | windows follow the clock |
| Override timestamps: `process-block.ts`, `timestamp-set.ts` | in-memory stack, `network_id` row, timestamps of `blocks` | set, remove, restore | memory against rows over restarts and aborted transactions; the stack is shared by the sessions of a process | stack, row and blocks hold the newest override of the chain |
| Orders and trades: `order-created.ts`, `order-canceled.ts`, `order-filled/*` | `orders`, `trades`, volumes, pending rows | create, cancel, fill and removals | several fills of one order in one block; removals as inverses | remaining amount and volumes are the chain's |
| Orphan and liquidity checks: `check-orphaned-orders.ts`, `check-market-liquidity-updates.ts` | `pending_orphan_checks`, `pending_liquidity_updates`, `orders.orphaned` | one pass between bulk sync and listening | the chain moves on while rows are checked; a failed query deletes its row | only orphans are flagged |
| Token ledger: `tokens-transferred.ts`, `token/*`, `completesets.ts`, `market-created.ts`, `universe-created.ts`, `initial-report-*.ts` | `balances`, `token_supply`, `tokens`, `transfers`, `completeSets`, owners of reports and mailboxes | transfer, mint, burn, create, hand over, and removals | a decrease without funds throws; removal order; rows a removal forgets | balances are the chain's and add up to the supply |
| Categories: `category-aggregations.ts`, `updateMarketOpenInterest` | open interest per market and category | per fill, complete set and finalization | increments of sums; rows shared by universes; supplies of another moment | the sum of the markets |
| Profit and loss: `profit-loss/*`, `financial-math.ts`, `get-profit-loss.ts`, `get-user-trading-positions.ts` | time series per account and outcome, time series of outcome values | per trade, finalization and claim, and removals; answers over windows and buckets | averages through reversals; the order of rows in one block; bucket boundaries | profit and position are the cash of the trades, now and at every past moment |
| Lifecycle: `controller.ts`, `runServer.ts`, `check-and-initialize-augur-db.ts`, `monitor-ethereum-node-health.ts` | running flag, database handle, servers, queue | start, shutdown, retry, reset, warp sync | shutdown during each await of start; several retries | one writer of the database, nothing left open |
| Subscriptions: `subscriptions.ts`, `run-websocket-server.ts`, `events.ts` | handlers and listeners per client and event | subscribe, unsubscribe, publish, close | listeners registered twice; events of aborted blocks | every subscription is told of every event of a block that commits |
| Account history and statistics: `get-account-transaction-history.ts`, `get-account-transfer-history.ts`, `get-account-time-ranged-stats.ts`, `get-platform-activity-stats.ts`, `get-universes-info.ts`, `get-user-share-balances.ts`, `get-categories.ts` | none of their own | unions and joins over the ledger | joins that multiply or drop rows, unions that merge them | the history explains what the account holds |
| Liquidity: `simulated-order-book.ts`, `liquidity.ts` | `outcomes_liquidity`, spread and validity columns of `outcomes` and `markets` | update after a change of the book | the update after every change | modelled with the order book; the simulation is pure and not modelled |
| Other getters, warp sync files, migrations, seeds, configuration | none of their own | queries, file copies, schema | - | not modelled: read-only, input/output, or data |

The components meet in the database and in one place in memory: `processLogs`
hands each log of a block to its log processor, inside the transaction
`processBlockAndLogs` opens; the queue makes these transactions serial. The
controller strings bulk sync, the checks and the listeners together, and a
failure of any of them goes to its error callback. Log processors emit events
that the subscriptions pass on to clients.

## Modules

| Module | Models |
|---|---|
| `ChainIndex` | abstract: what the database promises. The logs of one block at a time are added on top or removed |
| `BlockSync` | the chain, the block stream, bulk sync, the queue, the block transaction, crash and restart |
| `BlockSyncProofs` | inductive invariants and theorems about `BlockSync`, among them that no restart skips a block |
| `ReportingTables` | the reporting tables as one record and every handler, removal and time advance as an operator on it |
| `MarketReporting` | the chain of timed blocks with logs, the node applying and taking back blocks, the properties |
| `TablesProofs` | lemmas: what every handler does to the tables and leaves alone |
| `ReportingProofs` | inductive invariant and theorems about the rows, windows and flags of `MarketReporting` |
| `RoundsProofs` | inductive invariant and theorems about its dispute rounds and crowdsourcers |
| `StatesProofs` | inductive invariant and theorem about the stack of its markets' reporting states |
| `OrderBook` | the orders and trades of one market, block by block and back, and the orphan and liquidity checks after each block, against a chain that moves on |
| `OrderBookProofs` | inductive invariant and theorems about `OrderBook` |
| `NodeLifecycle` | the controllers of a process, runServer or an application driving them, the database files, kills and launches |
| `LifecycleProofs` | inductive invariant and theorems about `NodeLifecycle` |
| `FinancialMath` | the formulas of `financial-math.ts` on integers |
| `Positions` | the two time series of a market, the logs that write them and their removals |
| `Portfolio` | what the profit and position getters answer from them |
| `TokenLedger` | the ledger and category tables, every handler and removal, a chain of transactions |
| `AccountHistory` | what the getters answer about an account's past from the ledger |
| `BlockEffects` | what the transaction of a block does outside the database: override timestamps and published events, sessions, clients |
| `EffectsProofs` | inductive invariants and theorems about the publications and the override timestamps of `BlockEffects` |
| `MCBlockSync`, `MCMarketReporting`, `MCMarketFork`, `MCOrderBook`, `MCPositions`, `MCTokenLedger`, `MCBlockEffects` | instances for TLC |

### BlockSync

A log is abstracted to its block: the logs of block *b* are *b*, and writing
them adds one to `applied[b]`. That is all the synchronisation can get wrong:
logs written twice, not at all, out of order or for the wrong block. `rows` is
the `blocks` table, `addBlocks` and `removeLogs` the two maps of
`block-and-logs-queue.ts`, `queue` and `stage` the async queue with one worker
and where its worker is between its awaits; a `Task` remembers, for the
properties only, what the stream had announced before and after it. A crash
(`Stop`) may happen in any state and loses everything but the two tables. The
block stream of augur.js is external: it announces a block and then its logs,
takes back logs and then the block, and follows the chain with any delay. A
reorganisation replaces at most `MaxReorg` blocks, no more than
`HandoffBlocks`: the constant `BLOCKSTREAM_HANDOFF_BLOCKS` in the code states
that blocks that deep are taken as final.

*Not in it:* several controllers on one database (lifecycle), the pending
checks between bulk sync and listening, and errors of the Ethereum node, which
are crashes here.

### ReportingTables and MarketReporting

A handler is an operator from tables to tables, with the name of the log
processor; where a processor throws, a `CanUndo...` operator says when it does
not. `AddBlock` and the `Add...` actions are the transaction of a block:
`AdvanceTime` first, then the log. `Remove...` actions take the last block back;
when its processor throws, the node is `halted`. Blocks carry one log at most;
a block with several is a run of blocks of equal time, and its removal takes
them back in reverse: `processBlockAndLogs` follows the order the block stream
gives, which is external and taken to be that. Amounts are small units
of stake; a payout is a name.

The contracts are not in the repository. What they can emit is modelled from
the code that reads them: a market's rounds, bonds and windows follow the logs
already on the chain (`RoundStart`, `RoundWindow`, `IsBond`, `ForkDue`). A
window is over strictly after its end, as `updateActiveFeeWindows` has it; at
that very second `ContractStates` allows both readings. The update at
`universe-forked.ts:43-45` is to mark the payout of the initial report; the query
builder leaves the join out of an update, so that every payout of a reverted
market is marked (`RevertPayouts`). `getFeeWindow` is taken to answer for a market just
created, which has no window; a node that is behind would be told a later one.

`unwound` remembers which kinds of block were taken back. The properties name
the kinds that are known to leave rows astray, and hold without exception as
long as none of those was; each kind named is needed (without it TLC finds a
violation). They are, with the behaviour behind each:

* `"time"`: a block whose time changed rows. `process-block.ts:74` has the
  undoing of time as a TODO.
* `"head"`: removal of several blocks across a window boundary.
  `blockHeadTimestamp` (`process-block.ts:19`) stays that of the last added
  block and files the market under the wrong window.
* `InitialReportSubmitted`: its removal leaves the market's fee window and the
  tentative payout; the end of the window then finalizes a market without a
  report, and a second report on another payout meets the first as the winner.
* `DisputeCrowdsourcerCompleted`: its removal does not restore the disavowed
  flag and completion of the others as they were.
* `UniverseForked`: its removal leaves `FORKING` and `AWAITING_FORK_MIGRATION`,
  and the crowdsourcers and dispute rounds of the other markets reset.

A fork settles the other markets by rules of its own: `RoundsCounted` excepts
markets it was not of, `CrowdsourcersSettled` chains with a fork. `LeaderIsKnown`
has no such exception and says what the fork does: every payout of a
market it reverts is marked as tentatively winning, and as winning after its
window; none of the forking market ever is. While the universe is forked, an initial report and a migration put a market
into states their removals do not expect, so these removals throw:
`HaltsOnlyOnUndoneTime` excepts them.

Without any removal, a market that migrates unreported is filed under a fee
window (`market-migrated.ts:13,21`) and awaits finalization at its end
(`process-block.ts:164-183`) though nobody reported: the one state that differs
from the contract's, which `StateIsTrue` states as such. A market disavowed and
then migrated has -1 debts of disavowal, which `get-reporting-fees.ts:249,334`
reads as true; `DebtsOfTheFork` counts it so.

### OrderBook

The tables of one market are one record `db`; each log processor and each
removal is an operator from tables to tables that sets `thrown` where the code
throws, and `AddBlock` and `RemoveBlock` apply them to the logs of a block, one
after another (`ProcessAll`, `ProcessRemovals`), in one transaction: a throw leaves the tables alone and ends the process
(`halted`). `stage` is what `start-augur-listeners.ts` and the controller do
around a block: in `"bulk"` pending rows pile up, after it, and after every
block the listeners add or take back, the orphan check and then the liquidity
check run. A side is one outcome and order type, one row of
`pending_orphan_checks`.

The chain is the environment: an order id is created once on it, then filled or
canceled. A block has up to `MaxLogs` logs (`BlockLogs`; two in the runs, so that
an order can be filled twice in one block) and the number of reorganisations
before it, which tells apart two blocks of equal content. `ExistingOrders` is
the answer of the contracts for the *newest* block, which the database may not
have reached; the request may also fail, when the code goes on with an empty
list. `lost` are orders the contracts drop from their lists without a log, the
reason for the check. The logs of a removed block are taken to arrive in reverse.

Three volumes of the code (per market in tokens and in ETH, per outcome) move
together and are one `volume` here; the price of an outcome, fees, and the
token side of a fill are left out. A trade has the position of its log in the
block, which is the order of insertion that the query for the first one sees. Two facts the properties are worded around:

* `update-volumetrics.ts` finds the trade of a fill by order and block, so it
  reads the first of two fills of one order in one block twice, and the removal
  of the second finds no trade and throws. `Twins` names such a block.
* Taking a fill back sets the block of the last trade to the block
  taken back; `unwound` remembers that this happened.

An orphaned flag is set on closed orders of the list too and never taken back,
so a reorganisation that drops a cancelation leaves an open order hidden:
`HiddenOnlyIfGone` speaks of chains that were not reorganised.

### NodeLifecycle

A session is one `AugurNodeController` and its `augur`; `sessions` are those of
one process. `pc` follows `start()` and what it awaits: connect, compare the
upload block, open the database (moving it away when a migration left its lock),
migrate, synchronise, check, listen. `Stopped` is `_shutdown` up to its await
and `DatabaseCloses` the rest. `server` is the listening port alone: `shutdownServers`
stops it, while the websockets that are connected go on being answered and sent
events (their subscriptions are in `BlockEffects`). The steps of `start()` look at the flags only
where the code does, so a session that was shut down goes on until it looks or
a query fails. Under `runServer` an error takes a retry, shuts down and sets a
timer (`Caught`), or exits; under `"app"`, an application that embeds the
controller (`index.ts` exports it), the error is only reported, and the
application calls `shutdown`, `resetDatabase` or `warpSync` on its newest
controller in any state and starts another after the call has returned.

Database files are numbered: a rename takes the file from the path, but an open
connection keeps it, so a session can write to a file that was moved away. A
file is empty or migrated, locked by a migration, or torn: half imported. A kill
loses everything but the files; the next version may know other contracts.
File calls that follow one another without a query are one step. What knex
does with its lock, and that requests fail after `augur.disconnect`, is external.

`disturbed` is the exception of the safety properties: the health monitor
failed under runServer, the application called a session that was opening or
closing its database, or it imported a database where the node had never been
started (a later version with other contracts then has no upload block to
compare and keeps the database). Each makes them fail, in the ways the hazards
in `PROJECT.json` describe. The first run of the monitor is inside `start()`, which
does not notice that its error has shut the controller down and started
another; at a later poll the old session may still write while its database
closes, and then fails and takes a second retry.

### FinancialMath, Positions and Portfolio

`FinancialMath` has one operator per function of `financial-math.ts`, on
integers: prices are in a unit that every average the instance meets divides.
`Positions` keeps the rows of `wcl_profit_loss_timeseries` and
`outcome_value_timeseries` in the order they were inserted; `LastRow` orders
them by block and log index as the queries do. A chain is a stack of blocks of
fills, a finalization and claims; `RemoveBlock` takes its logs back in reverse.
Who pays with shares and who pays with tokens follows from the shares the chain
gives an account (`Held`), as in the contracts. `Portfolio` is the answer of
`getProfitLoss`, `getProfitLossSummary` and `getUserTradingPositions`, with
windows, buckets and default rows; where the code throws the answer is `Thrown`.

The properties compare all of it with `Cashflow`: what the logs of the chain
say an account paid and was paid. Two exceptions are named. `claimedShort`: a
claim of a short position is booked at the wrong side's value (run
`positions_claim`). `ClaimBehindTrade`: `trading-proceeds-claimed.ts:36` files a
claim under the index of its transaction instead of its log's, so in one block
it can sort before a trade it follows.

### TokenLedger and AccountHistory

`TokenLedger` has an operator on the tables for every log and every removal that
touches them; `threw` marks that one threw. `Held`, `Mailbox`, `Reporter`,
`Markets` and `Universes` say what the chain says. A block is a transaction of
the contracts: the logs come in the order the contracts emit them (shares are
minted before the fill that minted them is logged, the universe is created
before REP migrates to it). `undone` holds the markets whose open interest was
last written by a removal: the shares are taken back after it, so it is that of the
removed block until the next fill or complete set. A universe created
again on another branch throws, since its token was left behind: the one
reason `LedgerFollowsChain` allows for halting. Categories may drift from the
sum of their markets by a market whose creation is taken back, and
`CategoriesFollowMarkets` says by exactly how much.

`AccountHistory` reads these tables. `HistoryExplainsHoldings` joins two
getters and the ledger: transfers explain balances, and trades in the
transaction history with the transfers that belong to no trade explain the
position in each market. The SQL `UNION` merges like fills of one transaction;
`HasTwin` names them. `HistoryListsTheChain` states what else the answer
does: a sale of complete sets is listed if a fee window covers its block, a
claim once for every payout the market ever had a row for, an initial report
for its present owner.

### BlockEffects

`Begin...`, one step for each log and the commit, failure or throw of the
transaction of a block, for blocks added in bulk, added live and removed.
`overrideTimestamps` and `blockHeadTimestamp` are the variables of
`process-block.ts`: a failed transaction does not restore them, a stopped
session clears them only after `await db.destroy()`. Clients connect, subscribe,
unsubscribe and close between any two steps; sockets outlive the session that
accepted them, since a closing HTTP server keeps its connections. Live, events
of logs are published when the block begins or by the handler, before the
commit; in bulk only those of handlers are. `OverrideIsCurrent` excepts
`overlap`: a controller that started before its predecessor had cleared the
shared stack (`controller.ts:188-192`, `runServer.ts:57`).

## Runs

| Run | Instance | Checks |
|---|---|---|
| `block_sync` | trunk of 7 blocks, branches at heights 3 and 4, hand-off 2, chunks of 2, 2 crashes | safety, refinement of `ChainIndex`, `CatchesUp` |
| `block_order` | the same, 1 crash | refutes `OneBranch` |
| `reporting` | one market, three crowdsourcers in two rounds, chain of 7, two removals | windows, crowdsourcers, rounds, state, leader, exact undo, halting |
| `reporting_rollback` | the same | refutes `RollbackFindsItsState` |
| `fork` | two markets, a forking bond filled, the other market reported (and then disputed) or not, migration and disavowal, chain of 13, one removal | fork flags and debts, leader, state, exact undo |
| `orders` | two orders of one list (amounts 3 and 1), chain of 3, one reorganisation, one lost order | book, volume, halting, orphans, metrics |
| `orders_volume` | the same | refutes `VolumeIsTraded` |
| `lifecycle` | two launches, two retries, four controllers, one monitor failure, one call of the application, seven files, two uploads of the contracts | one writer, right database, closed after shutdown, retries, migrations, `UpOrExits` |
| `positions` | two traders, a scalar market of two outcomes, three blocks of four logs in all, three fills | profit, frozen funds, portfolio answers, buckets |
| `positions_claim` | the same | refutes `ClaimPaysShorts` |
| `ledger` | two accounts, two markets of one category in two universes, chain of 3 transactions, one reorganisation of up to two | balances, supplies, owners, open interest, categories, histories and statistics |
| `effects` | two clients, two subscriptions, two overrides, chain of 3, one removal, two stops | override timestamps, publications |

**Bounds.** *block_sync*: two branches off different heights give a
reorganisation while another is still queued; chunks of two give a batch with
logs of two blocks, in which a crash can fall; two crashes let a session inherit
from one that inherited. *reporting*: the times 1, 3, 7, 10 with windows of
3 seconds (`reporting_rollback` adds 9, the start of a window) put blocks before, on and after window boundaries and let one block
skip a whole window; three crowdsourcers make two compete and one answer in the
second round. Chains of 7 reach finalization. *fork*: `MCMarketFork` starts in the two
states it needs (its bond filled, the other market reported or not), computed
with the handlers themselves; a chain of 13 then has room for the fork, the finalization of both
markets, migration, disavowal and a dispute of the other market. *orders*: two logs to a
block (`MaxLogs`) make twins; an amount
of 3 can be filled by 1 and 2 in one block, in either order, and by more blocks;
two orders of one list make an answer that lacks one and is not empty; three
blocks are created, filled and canceled in, with the hand-off of one that a
reorganisation of one block needs. *lifecycle*: two retries are the least with which one controller can start two;
then four controllers and seven files are the most that come about under
runServer, so these two bounds cut nothing off there (`UpOrExits` would fail if they did).
Two launches have a kill between them at any step. *positions*: three fills open, extend or reverse a position twice; prices on both
sides of the middle and amounts of 1 and 2 make partial closes; a block of two
logs is where index orders can clash. *ledger*: three transactions buy, trade
and sell, or finalize and claim, or migrate REP and create a market in the new
universe; a reorganisation of two takes a trade back with the mint before it.
The first market starts reported and disputed, since the contracts finalize no other. *effects*: three blocks hold two overrides and an
unrelated log; two stops give a session that ends and one that is killed.
`MaxRemovals` of 1 or 2
are the shortest reorganisations that show each exception above.
Deadlock is not checked: bounded chains end.

**Fairness** (`FairSpec` of `BlockSync`): weak fairness of the process's own
steps, of the stream's steps and of the queue's worker, each a step that the event loop
takes when its promise settles. In `NodeLifecycle`: weak fairness of the steps of
`start()`, of the timers and of the closing of a database. Nothing is assumed of the chain, which
may stop or reorganise, and nothing of crashes, which the bound ends.

**Violations.** `block_order`: with a removal waiting in the queue a crash
forgets it, and a reorganisation while the process is down is never noticed: the next start
continues at the highest row plus one and does not compare hashes. The
database then mixes two branches. `check-and-initialize-augur-db.ts:29` expects
writes "serially, in block order". `reporting_rollback`: the assertion of
`rollbackMarketState` (`database.ts:91`) fails when the block that opened the
dispute window is taken back and then the report; the process exits, and does
so again only if the stream repeats the removal, since a restart (see above) goes on without it.
`orders_volume`: `update-volumetrics.ts:9-12` defines volume as the amount
changing hands, and two unequal fills of one order in one block add the
first amount twice. `positions_claim`: `financial-math.ts:374-376` gives
the value of a short share; `update-profit-loss.ts:52` hands over a price that
is already turned over, so a winning short is booked as a loss.

## Proofs

Every theorem is proved for all values of the constants that the assumptions
allow, from one inductive invariant per component: the first state has it, every
action keeps it (a lemma each), it implies the property.

### BlockSync: `BlockSyncProofs`

* `TypeCorrect`, `AtomicBlocks`, `QueuePairs`, `DatabaseFollowsStream`: `TypeOK`,
  `EffectsMatchRows`, `TasksPaired` and `DatabaseIsEarlierStream` always hold;
* `ImplementsChainIndex`: every step is a step of `ChainIndex` or changes no log;
* `NoSilentGapHolds`: `NoSilentGap` always holds.

The listed invariants are not inductive alone. That the database is an earlier
state of the stream needs to know that queued tasks form a path (each `leaves`
what the next `finds`, the last one leaving the stream's history), that each task
changes the top block only, that blocks are numbered consecutively from the
stream's start, and that what an earlier session left lies below it; that no log
is written twice in bulk sync needs the batch to be above everything indexed.
Each conjunct of `IInv` has its name (`QueueInv`, `DbInv`, `BulkInv`, ...).

A restart trusts the highest row, on whatever branch it was written. So `GapInv`
speaks of every chain the rows *could* be on, not of the present one: between
the upload block and any row that may be taken back no more, every block with
logs of a chain through these rows has its row. A reorganisation is then a step
that changes nothing in it, and a crash may leave any of these chains behind.

The assumptions: the chains are paths of a tree numbered from genesis, so that a
block's hash fixes its ancestors (`ParentAssumption`); logs appear after the
upload block; a reorganisation is not deeper than the hand-off.

### NodeLifecycle: `LifecycleProofs`

`OneWriterHolds`, `WritesTheDatabaseHolds`, `StoppedIsClosedHolds`,
`RetriesBoundedHolds` and `MigrationIsFreeHolds`, for any number of retries,
controllers, launches, calls, files and uploads. Undisturbed (`Calm`), every
controller but the newest is over (`Over`): runServer's has ended and has no timer
left, an application's is shut down and closed with no call under way. How far the
newest is in `start()` decides whether it is connected, which file it has open and
what the path and the upload file hold (`Orderly`, `InPlace`, `UploadKnown`). The
retries the newest controller has left, or will hand on, and the controllers
started before it add up to `MaxSystemRetries` (`Tally`): a controller uses one
retry at most. `Ground` holds of disturbed processes too: whatever cuts across a controller, its port
is open only with its database, and its queue, once stopped, stays so (`Port`).

### BlockEffects: `EffectsProofs`

`SubscribersAreToldHolds`. A client's handlers of an event are as many as its
subscriptions to it, even while its socket closes, and listeners and wishes agree
while it is open (`ClientInv`). What a job has told is counted by the logs it has
come to (`JobInv`), at least once for every subscription held since it began. The
two together bound the copies from below and from above.

`OverrideIsCurrentHolds` has an invariant of its own, `OverrideInv`, inductive
relative to the first. What the blocks and the finished logs of the transaction have
set is a sequence (`SetSoFar`; a removal takes logs off its end in reverse). The stack
of a session is an end of it, not the whole: a session starts from the row alone. So
the top of the stack is the newest override (`EndsNewest`) as long as the stack is
not empty, and a removal that finds a single element cannot tell what was set before
it, the one reason to throw that is left. A stopped session's stack matters until its
transaction ends, and is cleared before the next starts; only where a session starts
while its predecessor has yet to clear (`overlap`) two sessions push onto one stack.

### MarketReporting: `TablesProofs`, `ReportingProofs`, `RoundsProofs`, `StatesProofs`

`WindowsFollowTimeHolds`, `DebtsOfTheForkHolds`,
`RoundsCountedHolds`, `CrowdsourcersSettledHolds` and `HaltsOnlyOnUndoneTimeHolds`,
for any markets, crowdsourcers, windows, times, and any mixture of added and removed
blocks. `TablesProofs` has for every handler, removal and part of `advanceTime` a lemma that the tables keep their types and lemmas on what it leaves alone.
`ReportingProofs` has one invariant of three parts:

* `History` speaks of the chain only: what must be before each log (a report has
  its market before it, a fork the completion of a bond, a finalization of a
  market left out of the fork its migration, ...). It is closed under taking the
  last block away, which is all that a removal does to the chain.
* `Follows` says that the rows and flags are those of the logs on the chain: which
  markets, reports, crowdsourcers and windows have rows, which universe a market
  is in, the stakes, the flags and the debts of the fork. It holds without
  exception, whatever was taken back.
* `WindowsTrue`: the windows are right at the time of the last block *and* would
  be at that of every earlier block after which no time moved the tables. The
  second half is what makes it survive the removal of a block that moved none.

The removals are the point of these proofs: a removal finds the tables that other
logs and later times have changed, and `Follows` is what is left to rely on. That
`updateActiveFeeWindows` leaves at most one window CURRENT rests on windows of one
universe not overlapping (`WindowsApart`), not on the order blocks come in.

The handlers know the crowdsourcers of a round by their rows, as those that are not
settled yet or are filed under one fee window (`crowdsourcer.ts`); the chain by what
was logged since the round began. That the two agree is `RInv` of `RoundsProofs`,
of two parts:

* `Rounds` speaks of the chain: the window of every market's round exists, and a
  crowdsourcer's log comes in the window of the round its market is in, and, but
  for its creation, of the round it was created in. It too is closed under taking
  the last block away.
* `Told` speaks of the rows, each conjunct for as long as the removals it depends on
  have not happened: a crowdsourcer is filed under the window of the round it was
  created in (`Filed`); it is completed exactly when the chain has completed it
  (`Won`); a reported market's count of rounds is the number of those (`Counted`);
  and it is open, failed and disavowed as its round and the clock have it
  (`SettledRight`). `Won` and `Counted` go on to hold, after a fork, of the forking
  market.

The hard steps are the completion of a crowdsourcer, which fails every other one
of its market that is open, and its removal, which takes back the completion of
*all* crowdsourcers of the market in that window. The first is right because no
window of an open crowdsourcer has ended while its round lasts (`CompletedTells`);
the second because two rounds of a market never share a window (`CompletedApart`):
the round after a completion is in a window that starts later (`WindowsLater`).
`SettledRight` does not survive the second, which is why the run names that removal.

`market_state` is a stack: a log that moves a market inserts a row, and its removal
deletes the latest one, which `rollbackMarketState` asserts to be the one it expects.
`SInv` of `StatesProofs` says that it is, of the blocks on the chain:

* `Layers`: the log of each block left its own state on top of those it had found
  (`Pushed`), as the tables were when the next block came, if that one's time moved
  nothing. What a removal finds is therefore what the addition left, however many
  blocks came and went above it.
* `Place`: a market that awaits the next window is filed under the window of its
  round, and that window is still to come (`Rests`). So a log that comes in the
  window, or after it, finds the market past awaiting it (`RoundRuns`), which is what
  tells the state the log pushed from the one below it.

Both hold of reported markets until a block whose time moved the tables, or the
fork, is taken back; of the others also until an initial report is, whose removal
leaves the market a fee window (the parameter `all`).

The assumptions: the child universe is another than the genesis universe, the
windows that exist before the markets are finitely many, and SQL's null is not
one of the numbers 0 and 1.

### OrderBook: `OrderBookProofs`

`BookFollowsTheChain`, `VolumeCountsTheFills`, `OnlyTwinsHalt`, `NoOpenOrderHidden`
and `MetricsAreFresh`, for any orders, sides and amounts, a chain of any length, blocks
of any number of logs (`MaxLogs` is arbitrary) and any reorganisations. `Lawful` says that each log of a
chain may follow those before it. `At` says that the tables are those of some blocks:
the rows of the orders, one trade for each fill, the volume. `BlockProcessed` and
`BlockRemoved` are the heart: from the tables of the blocks before it, processing all
the logs of a block gives the tables with it and throws nothing; from those, taking
its logs back, last one first, gives the tables without it, or throws, and then an
order is filled twice in the block. In the midst of that second loop
(`Unwinding`) the rows of the orders are those of the logs that are left, but the
trades are not: the first removal of a fill deletes every trade of the order in the
block, and the next one finds none.

A chain that forks away never comes back: an indexed block above the chain is of an
earlier reorganisation than the blocks still to be mined (`Births`), so that a node
that halted stays off the chain. That an order which is created and not open never
opens again while the chain grows (`StaysGone`) makes an orphan flag right for ever.

The sums, and the loops over the logs of a block, are recursive functions. The
library's induction theorems cannot be cited here; `SetInduction`
is one over a *set* of numbers, proved from the well-foundedness of `<`, and
does for them: a property of the i-th partial result is a set of i.

### What is only model-checked

* `CatchesUp` and `UpOrExits`: liveness is out of the prover's reach.
* `LeaderIsKnown`, and all of `Positions`, `Portfolio`, `TokenLedger`
  and `AccountHistory`: they compare tables with folds over the logs of
  the chain, by operators that the library defines for an arbitrary function of a set.
  Their induction theorems cannot be cited here; the folds would have to be written
  as recursive functions, as in `OrderBook`.
* `StateIsTrue` and `UndoIsExact`: they need exact effects of every handler and of
  `advanceTime`, where `SInv` only needs what is pushed. Not done yet.

## Plan

All components named above are modelled or excluded below. What is left are
proofs; every module is written for them (no `RECURSIVE`).

1. `StateIsTrue` and `UndoIsExact` of `MarketReporting`.
2. `TokenLedger`: a handler followed by its removal leaves balances and supplies
   as they were, with the folds written as recursive functions first, as in `OrderBook`.
3. `FinancialMath`: a trade that reverses a position is a close and an opening.

## Not modelled

The other getters (joins and formatting over the modelled tables): among those
modelled, canceled orders, disputes, claims of crowdsourcers and of creator fees
in the transaction history, disputes in the statistics, and time ranges other
than that of all blocks. The simulation of taking liquidity
(`simulated-order-book.ts`), export and compression of warp sync files, HTTP
status routes, migrations, seeds, configuration, gas prices and the text search
tables. The flag of `/status/sync` that a bulk sync has finished is never reset
by a retry (`bulk-sync-augur-node-with-blockchain.ts:12`); no part of the
repository says what the route promises then, so no property speaks of it.
