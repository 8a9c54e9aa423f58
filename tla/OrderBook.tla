------------------------------ MODULE OrderBook -----------------------------
(***************************************************************************)
(* The orders of one market and their trades in the database, as the log   *)
(* processors and their removals write them block by block, and the two    *)
(* checks that follow a block: orders the chain's order book no longer has *)
(* are flagged as orphaned, and the liquidity metrics are recomputed.      *)
(*                                                                         *)
(* The database follows the chain with any delay, while the order book     *)
(* that the orphan check asks for is that of the newest block.             *)
(***************************************************************************)
EXTENDS Integers, Sequences, FiniteSets, SequencesExt

CONSTANTS
  Order,          \* order ids
  Side,           \* an outcome and order type of the market: one order book list
  SideOf,         \* order -> its side
  Amount,         \* order -> the amount it is created with
  HandoffBlocks,  \* bulk sync stays that far from the head
  MaxReorg,       \* most blocks one reorganisation drops
  MaxReorgs,      \* bound on the reorganisations
  MaxHeight,      \* bound on the length of the chain
  MaxLogs,        \* bound on the logs of a block
  MaxLost         \* bound on the orders the contracts lose

ASSUME OrderAssumption ==
  /\ SideOf \in [Order -> Side] /\ Amount \in [Order -> Nat \ {0}]
  /\ HandoffBlocks \in Nat /\ MaxReorg \in 0..HandoffBlocks
  /\ MaxReorgs \in Nat /\ MaxHeight \in Nat /\ MaxLogs \in Nat /\ MaxLost \in Nat

VARIABLES
  chain,     \* the node's chain: its blocks, with their logs and the number of
             \* reorganisations before they were mined, which tells them apart
  lost,      \* orders the contracts dropped from their lists without a log
  reorgs,    \* how often the chain was reorganised
  indexed,   \* the blocks in the database
  db,        \* the tables
  stage,     \* "bulk"; then "ready" for the next block or "checking" after one
  halted,    \* a log processor threw: the process has ended
  unwound    \* a fill was taken back: only the properties read it

vars == <<chain, lost, reorgs, indexed, db, stage, halted, unwound>>

(***************************************************************************)
(* The tables.  book: the orders; trades: the trades, each with the position  *)
(* of its log; the market's volume and last trade; the two tables of pending checks;       *)
(* metrics: the order book the liquidity metrics were last computed from.  *)
(***************************************************************************)
EmptyTables == [book |-> <<>>, canceled |-> {}, trades |-> {}, volume |-> 0, lastTrade |-> 0,
                pendingOrphan |-> {}, pendingLiquidity |-> FALSE, metrics |-> <<>>,
                thrown |-> FALSE]

Without(f, x) == [y \in DOMAIN f \ {x} |-> f[y]]

\* getMarketOrderBooks: the open orders, orphaned or not, and what is left of them.
OpenOrders(d) == [o \in {p \in DOMAIN d.book : d.book[p].state = "OPEN"} |-> d.book[o].left]
UpdateLiquidityMetrics(d) == [d EXCEPT !.metrics = OpenOrders(d)]

Throw(d) == [d EXCEPT !.thrown = TRUE]

\* An order that is there already keeps its orphaned flag.
OrderCreated(d, o) ==
  LET row == [state |-> "OPEN", left |-> Amount[o],
              orphaned |-> o \in DOMAIN d.book /\ d.book[o].orphaned]
  IN [d EXCEPT !.book = [p \in DOMAIN @ \cup {o} |-> IF p = o THEN row ELSE @[p]],
               !.pendingOrphan = @ \cup {SideOf[o]}, !.pendingLiquidity = TRUE]

OrderCreatedRemoval(d, o) ==
  IF o \notin DOMAIN d.book THEN Throw(d)
  ELSE UpdateLiquidityMetrics([d EXCEPT !.book = Without(@, o)])

\* Mutant: the update of the metrics is not asked for.
CancelUnmarked(d, o) ==
  IF o \notin DOMAIN d.book THEN Throw(d)
  ELSE [d EXCEPT !.book[o].state = "CANCELED", !.canceled = @ \cup {o}]

OrderCanceled(d, o) ==
  IF o \notin DOMAIN d.book THEN Throw(d)
  ELSE [d EXCEPT !.book[o].state = "CANCELED", !.canceled = @ \cup {o},
                 !.pendingLiquidity = TRUE]

OrderCanceledRemoval(d, o) ==
  IF o \notin DOMAIN d.book THEN Throw(d)
  ELSE UpdateLiquidityMetrics([d EXCEPT !.book[o].state = "OPEN", !.canceled = @ \ {o}])

\* The volume grows, or shrinks, by the first trade found of the order in the
\* block: the oldest, in the order of insertion, which is that of the logs.
TradesOf(d, o, n) == {t \in d.trades : t.order = o /\ t.block = n}
FirstOf(trades) == CHOOSE t \in trades : \A u \in trades : t.index <= u.index
UpdateVolumetrics(d, o, n, isIncrease) ==
  IF TradesOf(d, o, n) = {} THEN Throw(d)
  ELSE LET amount == FirstOf(TradesOf(d, o, n)).amount
       IN [d EXCEPT !.volume = IF isIncrease THEN @ + amount ELSE @ - amount, !.lastTrade = n]

\* Mutant: the order stays open.
StateKept(d, o, amount) == [d EXCEPT !.book[o].left = @ - amount]

UpdateOrder(d, o, amount) ==
  [d EXCEPT !.book[o] = [state |-> IF @.left = amount THEN "FILLED" ELSE "OPEN",
                         left |-> @.left - amount, orphaned |-> @.orphaned]]

OrderFilled(d, o, amount, n, i) ==
  IF o \notin DOMAIN d.book THEN Throw(d)
  ELSE LET row == [order |-> o, block |-> n, index |-> i, amount |-> amount]
           traded == [d EXCEPT !.trades = @ \cup {row}]
       IN [UpdateOrder(UpdateVolumetrics(traded, o, n, TRUE), o, amount)
             EXCEPT !.pendingLiquidity = TRUE]

\* Mutant: the trades of the order are not deleted.
FilledRemovalKeepsTrade(d, o, amount, n) ==
  IF o \notin DOMAIN d.book \/ TradesOf(d, o, n) = {} THEN Throw(d)
  ELSE UpdateLiquidityMetrics(UpdateOrder(UpdateVolumetrics(d, o, n, FALSE), o, -amount))

\* It deletes every trade of the order in the block.
OrderFilledRemoval(d, o, amount, n) ==
  IF o \notin DOMAIN d.book \/ TradesOf(d, o, n) = {} THEN Throw(d)
  ELSE LET untraded == [UpdateVolumetrics(d, o, n, FALSE) EXCEPT !.trades = @ \ TradesOf(d, o, n)]
       IN UpdateLiquidityMetrics(UpdateOrder(untraded, o, -amount))

\* A log is the i-th of block n.
Process(d, log, n, i) ==
  CASE d.thrown -> d
    [] ~d.thrown /\ log.kind = "OrderCreated"  -> OrderCreated(d, log.order)
    [] ~d.thrown /\ log.kind = "OrderCanceled" -> OrderCanceled(d, log.order)
    [] ~d.thrown /\ log.kind = "OrderFilled"   -> OrderFilled(d, log.order, log.amount, n, i)

ProcessRemoval(d, log, n) ==
  CASE d.thrown -> d
    [] ~d.thrown /\ log.kind = "OrderCreated"  -> OrderCreatedRemoval(d, log.order)
    [] ~d.thrown /\ log.kind = "OrderCanceled" -> OrderCanceledRemoval(d, log.order)
    [] ~d.thrown /\ log.kind = "OrderFilled"   -> OrderFilledRemoval(d, log.order, log.amount, n)

\* The tables after all the logs, in the order they are given.
ProcessAll(d, logs, n) ==
  LET after[i \in 0..Len(logs)] == IF i = 0 THEN d ELSE Process(after[i - 1], logs[i], n, i)
  IN after[Len(logs)]

ProcessRemovals(d, logs, n) ==
  LET after[i \in 0..Len(logs)] == IF i = 0 THEN d ELSE ProcessRemoval(after[i - 1], logs[i], n)
  IN after[Len(logs)]

(***************************************************************************)
(* The chain.                                                              *)
(***************************************************************************)
Has(blocks, kind, o) ==
  \E n \in 1..Len(blocks) : \E i \in 1..Len(blocks[n].logs) :
    blocks[n].logs[i].kind = kind /\ blocks[n].logs[i].order = o

CreatedIn(blocks, o)  == Has(blocks, "OrderCreated", o)
CanceledIn(blocks, o) == Has(blocks, "OrderCanceled", o)

Total(numbers) ==
  LET sum[i \in 0..Len(numbers)] == IF i = 0 THEN 0 ELSE sum[i - 1] + numbers[i]
  IN sum[Len(numbers)]

\* The amount by which the logs, and the blocks, fill some orders.
FilledBy(log, orders) == IF log.kind = "OrderFilled" /\ log.order \in orders THEN log.amount ELSE 0
FilledByAll(logs, orders) == Total([i \in 1..Len(logs) |-> FilledBy(logs[i], orders)])
FilledIn(blocks, orders) == Total([n \in 1..Len(blocks) |-> FilledByAll(blocks[n].logs, orders)])

LeftIn(blocks, o) == Amount[o] - FilledIn(blocks, {o})
OpenIn(blocks, o) == CreatedIn(blocks, o) /\ ~CanceledIn(blocks, o) /\ LeftIn(blocks, o) > 0

\* The contracts' order book: what getExistingOrders answers.
ExistingOrders(side) == {o \in Order : SideOf[o] = side /\ OpenIn(chain, o) /\ o \notin lost}

HasFill(block) == \E i \in 1..Len(block.logs) : block.logs[i].kind = "OrderFilled"

Block(logs) == [born |-> reorgs, logs |-> logs]
Log(kind, o, n) == [kind |-> kind, order |-> o, amount |-> n]

\* The logs that may follow: an order id is used once on a chain.
Following(blocks) ==
  UNION {IF ~CreatedIn(blocks, o) THEN {Log("OrderCreated", o, 0)}
         ELSE IF ~OpenIn(blocks, o) THEN {}
         ELSE {Log("OrderCanceled", o, 0)} \cup
              {Log("OrderFilled", o, n) : n \in 1..LeftIn(blocks, o)} : o \in Order}

\* The logs a block can have: each may follow those before it.
OneMore(logs) == {Append(logs, l) : l \in Following(Append(chain, Block(logs)))}
BlockLogs ==
  LET first[n \in 0..MaxLogs] ==
        IF n = 0 THEN {<<>>} ELSE UNION {OneMore(logs) : logs \in first[n - 1]}
  IN UNION {first[n] : n \in 0..MaxLogs}

MineBlock ==
  /\ Len(chain) < MaxHeight
  /\ \E logs \in BlockLogs : chain' = Append(chain, Block(logs))
  /\ UNCHANGED <<lost, reorgs, indexed, db, stage, halted, unwound>>

Reorganise(n) ==
  /\ reorgs < MaxReorgs /\ n <= Len(chain)
  /\ chain' = SubSeq(chain, 1, Len(chain) - n) /\ reorgs' = reorgs + 1
  /\ UNCHANGED <<lost, indexed, db, stage, halted, unwound>>

\* The order stays open in the contracts but is in no list of theirs any more.
LoseOrder(o) ==
  /\ Cardinality(lost) < MaxLost /\ OpenIn(chain, o) /\ o \notin lost
  /\ lost' = lost \cup {o}
  /\ UNCHANGED <<chain, reorgs, indexed, db, stage, halted, unwound>>

(***************************************************************************)
(* The node: a block is added or taken back in one transaction, unless a   *)
(* log processor throws.                                                   *)
(***************************************************************************)
Commit(tables, blocks) ==
  /\ IF tables.thrown THEN halted' = TRUE /\ UNCHANGED <<indexed, db, stage>>
     ELSE /\ indexed' = blocks /\ db' = tables /\ UNCHANGED halted
          /\ stage' = IF stage = "bulk" THEN "bulk" ELSE "checking"
  /\ UNCHANGED <<chain, lost, reorgs>>

OnChain == Len(indexed) <= Len(chain) /\ indexed = SubSeq(chain, 1, Len(indexed))

AddBlock ==
  LET n == Len(indexed) + 1
  IN /\ ~halted /\ OnChain
     /\ n <= Len(chain) - (IF stage = "bulk" THEN HandoffBlocks ELSE 0)
     /\ stage \in {"bulk", "ready"}
     /\ Commit(ProcessAll(db, chain[n].logs, n),
               Append(indexed, chain[n]))
     /\ UNCHANGED unwound

\* The block stream hands the logs of a removed block over last one first.  (The
\* first operator is the mutant that keeps their order.)
AsAdded(logs) == logs
InReverse(logs) == Reverse(logs)

RemoveBlock ==
  LET n == Len(indexed)
      logs == indexed[n].logs
  IN /\ ~halted /\ stage = "ready" /\ ~OnChain
     /\ Commit(ProcessRemovals(db, InReverse(logs), n), Front(indexed))
     /\ unwound' = (unwound \/ HasFill(indexed[n]))

\* AugurNodeController.start: the checks of all that bulk sync left pending.
FinishBulkSync ==
  /\ stage = "bulk" /\ Len(indexed) + HandoffBlocks >= Len(chain)
  /\ stage' = "checking"
  /\ UNCHANGED <<chain, lost, reorgs, indexed, db, halted, unwound>>

(***************************************************************************)
(* The checks.  One side of the book is asked for at a time; the chain may *)
(* grow in between.                                                        *)
(***************************************************************************)
\* The answer is not asked for when there is no order to check; the call may fail.
OrderIds(side) ==
  IF \E o \in DOMAIN db.book : SideOf[o] = side /\ db.book[o].state = "OPEN" /\ ~db.book[o].orphaned
  THEN {ExistingOrders(side), {}} ELSE {{}}

\* Mutant: an empty answer counts too.
FlagUnlessListed(d, side, ids) ==
  [d EXCEPT !.book = [o \in DOMAIN d.book |->
                        [d.book[o] EXCEPT !.orphaned = @ \/ (SideOf[o] = side /\ o \notin ids)]]]

\* Every order of the side that is not in the answer is flagged, open or not.
FlagOrphans(d, side, ids) ==
  IF ids = {} THEN d
  ELSE [d EXCEPT !.book = [o \in DOMAIN d.book |->
                             [d.book[o] EXCEPT !.orphaned = @ \/ (SideOf[o] = side /\ o \notin ids)]]]

CheckOrphanedOrders(side) ==
  /\ stage = "checking" /\ side \in db.pendingOrphan
  /\ \E ids \in OrderIds(side) :
       db' = [FlagOrphans(db, side, ids) EXCEPT !.pendingOrphan = @ \ {side}]
  /\ UNCHANGED <<chain, lost, reorgs, indexed, stage, halted, unwound>>

CheckMarketLiquidityUpdates ==
  /\ stage = "checking" /\ db.pendingOrphan = {}
  /\ db' = IF db.pendingLiquidity
           THEN [UpdateLiquidityMetrics(db) EXCEPT !.pendingLiquidity = FALSE] ELSE db
  /\ stage' = "ready"
  /\ UNCHANGED <<chain, lost, reorgs, indexed, halted, unwound>>

Init ==
  /\ chain = <<>> /\ lost = {} /\ reorgs = 0
  /\ indexed = <<>> /\ db = EmptyTables /\ stage = "bulk" /\ halted = FALSE /\ unwound = FALSE

ChainStep == MineBlock \/ (\E n \in 1..MaxReorg : Reorganise(n)) \/ (\E o \in Order : LoseOrder(o))
NodeStep == \/ AddBlock \/ RemoveBlock \/ FinishBulkSync
            \/ (\E side \in Side : CheckOrphanedOrders(side)) \/ CheckMarketLiquidityUpdates
Next == ChainStep \/ NodeStep

Spec == Init /\ [][Next]_vars

-----------------------------------------------------------------------------
\* The tables keep their schema: what is left of an order is within the amount
\* it was created with, which the constraint nonnegativeAmount has in part.
TypeOK ==
  /\ DOMAIN db.book \subseteq Order /\ db.canceled \subseteq Order
  /\ \A o \in DOMAIN db.book :
       db.book[o] \in [state : {"OPEN", "CANCELED", "FILLED"}, left : 0..Amount[o], orphaned : BOOLEAN]
  /\ db.pendingOrphan \subseteq Side /\ db.pendingLiquidity \in BOOLEAN /\ ~db.thrown
  /\ db.volume \in Int /\ db.lastTrade \in 0..MaxHeight
  /\ stage \in {"bulk", "ready", "checking"} /\ halted \in BOOLEAN

\* The orders are those of the indexed blocks, with the state and the amount
\* left that their fills and cancelations give, whatever blocks were taken back.
BookFollowsChain ==
  /\ TypeOK
  /\ DOMAIN db.book = {o \in Order : CreatedIn(indexed, o)}
  /\ \A o \in DOMAIN db.book :
       /\ db.book[o].left = LeftIn(indexed, o)
       /\ db.book[o].state = IF CanceledIn(indexed, o) THEN "CANCELED"
                             ELSE IF OpenIn(indexed, o) THEN "OPEN" ELSE "FILLED"
  /\ db.canceled = {o \in Order : CanceledIn(indexed, o)}

\* An order that is filled twice in the block.
Twins(block) ==
  \E i, j \in 1..Len(block.logs) :
    /\ i < j /\ block.logs[i].kind = "OrderFilled" /\ block.logs[j].kind = "OrderFilled"
    /\ block.logs[i].order = block.logs[j].order

\* The rows of "trades" that the fills make.
RowsOf(logs, n) ==
  {[order |-> logs[i].order, block |-> n, index |-> i, amount |-> logs[i].amount] :
     i \in {j \in 1..Len(logs) : logs[j].kind = "OrderFilled"}}
Rows(blocks) == UNION {RowsOf(blocks[n].logs, n) : n \in 1..Len(blocks)}

\* What "volume" is for: "amount of currency/tokens changing hands"
\* (update-volumetrics.ts:12), summed over every trade.
VolumeIsTraded == db.volume = FilledIn(indexed, Order)

\* There is one row in "trades" for each fill, also after blocks were taken back.
\* The volume is their sum as long as no order is filled twice in a block, and
\* the block of the last trade is known until a fill is taken back.
VolumeCountsFills ==
  /\ db.trades = Rows(indexed)
  /\ (\A n \in 1..Len(indexed) : ~Twins(indexed[n])) => VolumeIsTraded
  /\ ~unwound =>
       /\ db.lastTrade \in {0} \cup 1..Len(indexed)
       /\ \A n \in 1..Len(indexed) : n > db.lastTrade => ~HasFill(indexed[n])

\* Taking a block back throws, and ends the process, only when an order is
\* filled twice in it; adding a block never throws.
HaltsOnlyOnTwins == halted => indexed # <<>> /\ ~OnChain /\ Twins(Last(indexed))

\* While the chain only grows, an order is flagged as orphaned, and so kept
\* from the clients of getOrders, only when the order book does not have it.
HiddenOnlyIfGone ==
  reorgs = 0 => \A o \in DOMAIN db.book : db.book[o].orphaned => ~OpenIn(chain, o) \/ o \in lost

\* "Clients must call updateLiquidityMetricsForMarketAndOutcomes each time the
\* orders table changes for any reason" (liquidity.ts:41): the metrics are those
\* of the open orders or an update is pending, and none is after the checks.
MetricsFresh ==
  /\ db.pendingLiquidity \/ db.metrics = OpenOrders(db)
  /\ stage = "ready" => ~db.pendingLiquidity /\ db.pendingOrphan = {}
=============================================================================
