----------------------------- MODULE BlockSync ------------------------------
(***************************************************************************)
(* How augur-node follows the chain: the bulk download of finished blocks, *)
(* the handoff to the block stream, BlockAndLogsQueue, and the transaction *)
(* that writes a block, with reorganisations of the chain and restarts of  *)
(* the process at any point.                                               *)
(*                                                                         *)
(* A log is abstracted to the block it is in: "logs" of block b is b       *)
(* itself, and writing them adds one to applied[b], undoing them takes one *)
(* away.  The Ethereum node and the block stream of augur.js are outside   *)
(* the repository; they are modelled from how the code uses them.          *)
(***************************************************************************)
EXTENDS Integers, Sequences

CONSTANTS
  Block,          \* block hashes
  Genesis,        \* the block numbered 0
  Number,         \* block -> its number
  Chains,         \* the paths of the block tree from Genesis, as sequences
  LogBlocks,      \* the blocks with Augur logs in them
  UploadBlock,    \* number of the block the Augur contracts were uploaded in
  HandoffBlocks,  \* BLOCKSTREAM_HANDOFF_BLOCKS: how far bulk sync stays from the head
  MaxReorg,       \* most blocks one reorganisation replaces
  BlocksPerChunk, \* blocks per getLogs request
  MaxRestarts,    \* bound on the crashes of a behaviour
  None            \* JavaScript's undefined

ASSUME TreeAssumption ==
  /\ Genesis \in Block /\ None \notin Block /\ Number \in [Block -> Nat]
  /\ Chains \subseteq Seq(Block) /\ <<Genesis>> \in Chains
  /\ \A c \in Chains : \A i \in 1..Len(c) : Number[c[i]] = i - 1

\* The hash of a block covers that of its parent.
ASSUME ParentAssumption ==
  \A c, d \in Chains : \A i \in 1..Len(c) :
    i <= Len(d) /\ c[i] = d[i] => \A j \in 1..i : c[j] = d[j]

\* Before the upload there are no Augur contracts that could log.
ASSUME LogAssumption ==
  /\ UploadBlock \in Nat \ {0}
  /\ LogBlocks \subseteq {b \in Block : Number[b] >= UploadBlock}

\* Bulk sync relies on blocks HandoffBlocks below the head being final.
ASSUME BoundAssumption ==
  /\ HandoffBlocks \in Nat /\ MaxReorg \in 0..HandoffBlocks
  /\ BlocksPerChunk \in Nat \ {0} /\ MaxRestarts \in Nat

VARIABLES
  \* the Ethereum node and its block stream
  chain,      \* the canonical chain, block number n at position n + 1
  start,      \* the block number the stream was started at
  history,    \* the blocks the stream has announced and not taken back
  half,       \* the block of which only the first of its two calls was made
  \* the database
  rows,       \* the "blocks" table
  applied,    \* how many times the logs of each block are in the other tables
  \* memory of the process
  phase,      \* what AugurNodeController.start is at
  fromBlock, handoff, nextFetch, batch,  \* bulkSyncAugurNodeWithBlockchain
  addBlocks, removeLogs, queue, stage,   \* BlockAndLogsQueue
  restarts

chainVars  == <<chain>>
streamVars == <<start, history, half>>
dbVars     == <<rows, applied>>
bulkVars   == <<fromBlock, handoff, nextFetch, batch>>
queueVars  == <<addBlocks, removeLogs, queue, stage>>
vars == <<chainVars, streamVars, dbVars, phase, bulkVars, queueVars, restarts>>

\* One call of the processor.  "finds" and "leaves" are the stream's history
\* before and after the call was announced: nothing reads these two but the
\* properties.
Task == [direction : {"add", "remove"}, block : Block \cup {None},
         logs : Block \cup {None}, finds : Seq(Block), leaves : Seq(Block)]

NoHalf == [direction |-> "none", block |-> Genesis]
Half   == [direction : {"none", "add", "remove"}, block : Block]

HeadNumber == Len(chain) - 1
AtNumber(n) == chain[n + 1]
OnChain(b) == Number[b] <= HeadNumber /\ AtNumber(Number[b]) = b

\* insertBlockRow: one row per number, the row of an earlier block is overwritten.
InsertBlockRow(b) == {r \in rows : Number[r] # Number[b]} \cup {b}

\* The logs of a block without Augur logs change nothing.
Count(b, n) == IF b \in LogBlocks THEN [applied EXCEPT ![b] = @ + n] ELSE applied

TypeOK ==
  /\ chain \in Seq(Block)
  /\ start \in Nat /\ history \in Seq(Block) /\ half \in Half
  /\ rows \subseteq Block /\ applied \in [Block -> Int]
  /\ phase \in {"down", "waiting", "bulk", "listening"}
  /\ fromBlock \in Nat /\ handoff \in Int /\ nextFetch \in Nat
  /\ batch \subseteq Block
  /\ addBlocks \subseteq Block /\ removeLogs \subseteq Block
  /\ queue \in Seq(Task) /\ stage \in {"idle", "building", "committed"}
  /\ restarts \in 0..MaxRestarts

(***************************************************************************)
(* The Ethereum node: the head moves up the same branch or, replacing at   *)
(* most MaxReorg blocks, to a longer one.                                  *)
(***************************************************************************)
NewHead(c) ==
  /\ Len(c) = Len(chain) + 1
  /\ \A n \in 0..HeadNumber - MaxReorg : c[n + 1] = AtNumber(n)
  /\ chain' = c
  /\ UNCHANGED <<streamVars, dbVars, phase, bulkVars, queueVars, restarts>>

(***************************************************************************)
(* AugurNodeController.start and bulkSyncAugurNodeWithBlockchain.          *)
(***************************************************************************)
LastSynced == {r \in rows : \A s \in rows : Number[s] <= Number[r]}

\* Mutant: an empty database far from the upload starts at the handoff block.
StartBlocksFromHandoff ==
  IF UploadBlock > HeadNumber THEN {HeadNumber - HandoffBlocks}
  ELSE IF rows = {} THEN {UploadBlock}
  ELSE {Number[r] + 1 : r \in LastSynced}

\* Mutant: the last synced block is synced again.
StartBlocksAtLast ==
  IF UploadBlock > HeadNumber THEN {0}
  ELSE IF rows = {} THEN {UploadBlock}
  ELSE {Number[r] : r \in LastSynced}

StartBlocks ==
  IF UploadBlock > HeadNumber THEN {0}
  ELSE IF rows = {} THEN {UploadBlock}
  ELSE {Number[r] + 1 : r \in LastSynced}

\* waitForEthNodeToFinishSyncing takes a node at block 0 for one still syncing.
Start ==
  /\ phase = "down" /\ HeadNumber > 0
  /\ \E from \in StartBlocks :
       /\ fromBlock' = from /\ nextFetch' = from
       /\ handoff' = HeadNumber - HandoffBlocks
       /\ phase' = IF handoff' < from THEN "waiting" ELSE "bulk"
  /\ UNCHANGED <<chainVars, streamVars, dbVars, batch, queueVars, restarts>>

\* Too few blocks since the last sync: wait for them, then stream them all.
WaitForBlocks ==
  /\ phase = "waiting" /\ HeadNumber - HandoffBlocks >= fromBlock
  /\ handoff' = HeadNumber - HandoffBlocks
  /\ phase' = "listening" /\ start' = fromBlock
  /\ UNCHANGED <<chainVars, history, half, dbVars, fromBlock, nextFetch, batch,
                 queueVars, restarts>>

FetchLogs ==
  LET last == IF nextFetch + BlocksPerChunk - 1 < handoff
              THEN nextFetch + BlocksPerChunk - 1 ELSE handoff
  IN /\ phase = "bulk" /\ nextFetch <= handoff
     /\ batch' = batch \cup (LogBlocks \cap {AtNumber(n) : n \in nextFetch..last})
     /\ nextFetch' = last + 1
     /\ UNCHANGED <<chainVars, streamVars, dbVars, phase, fromBlock, handoff,
                    queueVars, restarts>>

\* Mutant: the blocks of a batch are processed in any order.
ProcessBatchUnordered(b) ==
  /\ phase = "bulk" /\ b \in batch
  /\ rows' = InsertBlockRow(AtNumber(Number[b]))
  /\ applied' = Count(b, 1)
  /\ batch' = batch \ {b}
  /\ UNCHANGED <<chainVars, streamVars, phase, fromBlock, handoff, nextFetch,
                 queueVars, restarts>>

\* One transaction per block with logs, lowest first.  The block's details
\* were asked for by number, after its logs.
ProcessBatchBlock(b) ==
  /\ phase = "bulk" /\ b \in batch
  /\ \A c \in batch : Number[b] <= Number[c]
  /\ rows' = InsertBlockRow(AtNumber(Number[b]))
  /\ applied' = Count(b, 1)
  /\ batch' = batch \ {b}
  /\ UNCHANGED <<chainVars, streamVars, phase, fromBlock, handoff, nextFetch,
                 queueVars, restarts>>

\* Mutant: the stream starts at the handoff block itself.
StartListenersAtHandoff ==
  /\ phase = "bulk" /\ nextFetch > handoff /\ batch = {}
  /\ phase' = "listening" /\ start' = handoff
  /\ UNCHANGED <<chainVars, history, half, dbVars, bulkVars, queueVars, restarts>>

StartListeners ==
  /\ phase = "bulk" /\ nextFetch > handoff /\ batch = {}
  /\ phase' = "listening" /\ start' = handoff + 1
  /\ UNCHANGED <<chainVars, history, half, dbVars, bulkVars, queueVars, restarts>>

(***************************************************************************)
(* BlockAndLogsQueue: the four calls of the stream, two for each block.    *)
(***************************************************************************)
Enqueue(direction, block, logs) ==
  queue' = Append(queue, [direction |-> direction, block |-> block, logs |-> logs,
                          finds |-> history, leaves |-> history'])

Found(b, blocks) == IF b \in blocks THEN b ELSE None

AcceptAddBlock(b) ==
  /\ addBlocks' = addBlocks \cup {b} /\ UNCHANGED <<removeLogs, queue, stage>>

AcceptAddLogs(b) ==
  /\ Enqueue("add", Found(b, addBlocks), b)
  /\ addBlocks' = addBlocks \ {b} /\ UNCHANGED <<removeLogs, stage>>

AcceptRemoveLogs(b) ==
  /\ removeLogs' = removeLogs \cup {b} /\ UNCHANGED <<addBlocks, queue, stage>>

\* Mutant: the removed logs are looked up among the added blocks.
AcceptRemoveBlockWrongMap(b) ==
  /\ Enqueue("remove", b, Found(b, addBlocks))
  /\ removeLogs' = removeLogs \ {b} /\ UNCHANGED <<addBlocks, stage>>

AcceptRemoveBlock(b) ==
  /\ Enqueue("remove", b, Found(b, removeLogs))
  /\ removeLogs' = removeLogs \ {b} /\ UNCHANGED <<addBlocks, stage>>

(***************************************************************************)
(* The block stream: it announces the blocks of the chain from its start   *)
(* on and takes back, last first, those that left the chain.               *)
(***************************************************************************)
StreamUpToDate ==
  \/ history = <<>>
  \/ history # <<>> /\ OnChain(history[Len(history)])

StreamAddBlock ==
  /\ phase = "listening" /\ half = NoHalf /\ StreamUpToDate
  /\ start + Len(history) <= HeadNumber
  /\ half' = [direction |-> "add", block |-> AtNumber(start + Len(history))]
  /\ AcceptAddBlock(half'.block)
  /\ UNCHANGED <<chainVars, start, history, dbVars, phase, bulkVars, restarts>>

StreamAddLogs ==
  /\ half.direction = "add"
  /\ history' = Append(history, half.block)
  /\ AcceptAddLogs(half.block)
  /\ half' = NoHalf
  /\ UNCHANGED <<chainVars, start, dbVars, phase, bulkVars, restarts>>

StreamRemoveLogs ==
  /\ phase = "listening" /\ half = NoHalf /\ ~StreamUpToDate
  /\ half' = [direction |-> "remove", block |-> history[Len(history)]]
  /\ AcceptRemoveLogs(half'.block)
  /\ UNCHANGED <<chainVars, start, history, dbVars, phase, bulkVars, restarts>>

StreamRemoveBlock ==
  /\ half.direction = "remove"
  /\ history' = SubSeq(history, 1, Len(history) - 1)
  /\ AcceptRemoveBlock(half.block)
  /\ half' = NoHalf
  /\ UNCHANGED <<chainVars, start, dbVars, phase, bulkVars, restarts>>

(***************************************************************************)
(* processBlockAndLogs, one task at a time.  The task being processed      *)
(* stays at the head of the queue until it is done.                        *)
(***************************************************************************)
Complete(t) == t.block # None /\ t.logs # None

\* The log processors ask the chain for what they need, before the transaction.
BuildWrites ==
  /\ stage = "idle" /\ queue # <<>> /\ Complete(queue[1])
  /\ stage' = "building"
  /\ UNCHANGED <<chainVars, streamVars, dbVars, phase, bulkVars, addBlocks,
                 removeLogs, queue, restarts>>

AddBlock(t) == /\ rows' = InsertBlockRow(t.block)
               /\ applied' = Count(t.logs, 1)

\* Mutant: the row of a removed block stays.
RemoveBlockKeepRow(t) == /\ applied' = Count(t.logs, -1)
                         /\ UNCHANGED rows

RemoveBlock(t) == /\ applied' = Count(t.logs, -1)
                  /\ rows' = rows \ {t.block}

CommitBlock ==
  /\ stage = "building"
  /\ \/ queue[1].direction = "add" /\ AddBlock(queue[1])
     \/ queue[1].direction = "remove" /\ RemoveBlock(queue[1])
  /\ stage' = "committed"
  /\ UNCHANGED <<chainVars, streamVars, phase, bulkVars, addBlocks, removeLogs,
                 queue, restarts>>

\* Mutant: the queue is not told that a removal is done.
FinishAddedBlock ==
  /\ stage = "committed" /\ queue[1].direction = "add"
  /\ queue' = Tail(queue) /\ stage' = "idle"
  /\ UNCHANGED <<chainVars, streamVars, dbVars, phase, bulkVars, addBlocks,
                 removeLogs, restarts>>

\* The orphan and liquidity checks are over: the queue takes the next task.
FinishBlock ==
  /\ stage = "committed"
  /\ queue' = Tail(queue) /\ stage' = "idle"
  /\ UNCHANGED <<chainVars, streamVars, dbVars, phase, bulkVars, addBlocks,
                 removeLogs, restarts>>

(***************************************************************************)
(* The process stops and forgets everything but the database: it is        *)
(* killed, or _shutdownCallback and errorCatch end it after an error in    *)
(* the download or in a task, whose transaction then rolls back.           *)
(***************************************************************************)
Stop ==
  /\ phase # "down" /\ restarts < MaxRestarts
  /\ restarts' = restarts + 1
  /\ phase' = "down"
  /\ start' = 0 /\ history' = <<>> /\ half' = NoHalf
  /\ fromBlock' = 0 /\ handoff' = 0 /\ nextFetch' = 0 /\ batch' = {}
  /\ addBlocks' = {} /\ removeLogs' = {} /\ queue' = <<>> /\ stage' = "idle"
  /\ UNCHANGED <<chainVars, dbVars>>

Init ==
  /\ chain = <<Genesis>>
  /\ start = 0 /\ history = <<>> /\ half = NoHalf
  /\ rows = {} /\ applied = [b \in Block |-> 0]
  /\ phase = "down" /\ restarts = 0
  /\ fromBlock = 0 /\ handoff = 0 /\ nextFetch = 0 /\ batch = {}
  /\ addBlocks = {} /\ removeLogs = {} /\ queue = <<>> /\ stage = "idle"

ChainStep == \E c \in Chains : NewHead(c)

SyncStep == \/ Start \/ WaitForBlocks \/ FetchLogs \/ StartListeners
            \/ \E b \in Block : ProcessBatchBlock(b)

StreamStep == StreamAddBlock \/ StreamAddLogs \/ StreamRemoveLogs \/ StreamRemoveBlock

ProcessStep == BuildWrites \/ CommitBlock \/ FinishBlock

Next == ChainStep \/ SyncStep \/ StreamStep \/ ProcessStep \/ Stop

\* The event loop runs whatever is ready; blocks and errors come as they like.
Fairness == WF_vars(SyncStep) /\ WF_vars(StreamStep) /\ WF_vars(ProcessStep)

Spec == Init /\ [][Next]_vars
FairSpec == Spec /\ Fairness

-----------------------------------------------------------------------------
(***************************************************************************)
(* Properties.                                                             *)
(***************************************************************************)
Indexed == {b \in LogBlocks : applied[b] = 1}

\* A block's logs are in the tables exactly once when the block has its row,
\* and not at all when it has none: processBlockAndLogs writes both in one
\* transaction, insertBlockRow may overwrite a row of the same number, and a
\* restart goes on after the highest row.
EffectsMatchRows ==
  \A b \in LogBlocks : applied[b] = IF b \in rows THEN 1 ELSE 0

\* Every task the queue hands to processBlockAndLogs has the block and the
\* logs of one and the same hash, whatever calls came in between: neither is
\* undefined and nothing of an earlier announcement of the hash is left over.
TasksPaired ==
  /\ \A i \in 1..Len(queue) : queue[i].logs = queue[i].block /\ queue[i].block # None
  /\ addBlocks \cup removeLogs \subseteq {half.block}

\* What the stream's history was when it announced what the database holds.
DbHistory == IF queue = <<>> THEN history
             ELSE IF stage = "committed" THEN queue[1].leaves ELSE queue[1].finds

\* While listening, the database lags behind the stream but holds, of the
\* blocks since the stream's start, exactly those of one earlier moment of it:
\* no announcement is lost, repeated or applied out of order.
DatabaseIsEarlierStream ==
  phase = "listening" =>
    {b \in Indexed : Number[b] >= start} =
      LogBlocks \cap {DbHistory[i] : i \in 1..Len(DbHistory)}

Stranded == {r \in rows : ~OnChain(r)}

\* A restart never skips a block silently: as long as every row of the
\* database is on the chain, every block with logs up to the last synced one
\* is indexed, so bulkSyncAugurNodeWithBlockchain may go on from there.
NoSilentGap ==
  Stranded = {} =>
    \A r \in LastSynced : \A n \in 0..Number[r] :
      AtNumber(n) \in LogBlocks => AtNumber(n) \in Indexed

\* The database changes as ChainIndex says: one block at a time, at the top,
\* each block's logs at most once.
Index == INSTANCE ChainIndex WITH index <- applied
WritesSerially == Index!Spec

\* When the chain and the crashes come to an end, the database catches up: to
\* the head once it listens, to HandoffBlocks below it when it still waits for
\* blocks; unless a crash stranded a row of a replaced block.
CatchesUp ==
  <>[](\/ Stranded # {}
       \/ \A n \in 0..HeadNumber - (IF phase = "listening" THEN 0 ELSE HandoffBlocks) :
            AtNumber(n) \in LogBlocks => AtNumber(n) \in Indexed)

\* "Serially, in block order" (check-and-initialize-augur-db.ts:29) would have
\* all indexed blocks on one branch, whether or not it still is the chain.
OneBranch == \E c \in Chains : Indexed \subseteq {c[i] : i \in 1..Len(c)}
=============================================================================
