--------------------------- MODULE BlockSyncProofs --------------------------
(***************************************************************************)
(* Proofs about BlockSync, for every block tree, handoff distance and      *)
(* reorganisation depth its assumptions allow, and any number of restarts. *)
(*                                                                         *)
(* The inductive invariant says where the blocks are: numbered upwards     *)
(* from the stream's start in the stream's history and in every task, and  *)
(* in the database those of the history the first task starts from, with   *)
(* everything a former session indexed below them.                         *)
(***************************************************************************)
EXTENDS BlockSync, TLAPS

OneMore(short, long, b) ==
  /\ Len(long) = Len(short) + 1 /\ long[Len(long)] = b
  /\ \A k \in 1..Len(short) : long[k] = short[k]

NumberedFrom(h, first, bound) ==
  /\ first + Len(h) <= bound
  /\ \A k \in 1..Len(h) : Number[h[k]] = first + k - 1

Numbered(h) == NumberedFrom(h, start, Len(chain))

ChainInv == chain \in Chains /\ \A b \in Indexed : Number[b] < Len(chain)

PhaseInv ==
  /\ phase # "bulk" => batch = {}
  /\ phase # "listening" =>
       /\ history = <<>> /\ half = NoHalf /\ queue = <<>> /\ stage = "idle"
       /\ addBlocks = {} /\ removeLogs = {}

WaitInv == phase = "waiting" => \A b \in Indexed : Number[b] < fromBlock

BulkInv ==
  phase = "bulk" =>
    /\ 0 <= handoff /\ nextFetch <= handoff + 1 /\ handoff + HandoffBlocks < Len(chain)
    /\ \A b \in batch : b \in LogBlocks /\ Number[b] < nextFetch /\ AtNumber(Number[b]) = b
    /\ \A b \in Indexed : Number[b] < nextFetch /\ \A c \in batch : Number[b] < Number[c]

HalfInv ==
  /\ half.direction = "none" => half = NoHalf /\ addBlocks = {} /\ removeLogs = {}
  /\ half.direction = "add" =>
       /\ addBlocks = {half.block} /\ removeLogs = {}
       /\ Number[half.block] = start + Len(history) /\ Number[half.block] < Len(chain)
  /\ half.direction = "remove" =>
       /\ addBlocks = {} /\ removeLogs = {half.block}
       /\ history # <<>> /\ history[Len(history)] = half.block

TaskInv(t) ==
  /\ t.block \in Block /\ t.logs = t.block
  /\ Numbered(t.finds) /\ Numbered(t.leaves)
  /\ t.direction = "add" => OneMore(t.finds, t.leaves, t.block)
  /\ t.direction = "remove" => OneMore(t.leaves, t.finds, t.block)

QueueInv ==
  /\ stage # "idle" => queue # <<>>
  /\ Numbered(history)
  /\ \A i \in 1..Len(queue) : TaskInv(queue[i])
  /\ \A i \in 1..Len(queue) - 1 : queue[i].leaves = queue[i + 1].finds
  /\ queue # <<>> => queue[Len(queue)].leaves = history

InDb(b) == \E i \in 1..Len(DbHistory) : DbHistory[i] = b

DbInv ==
  /\ EffectsMatchRows
  /\ \A b \in Block \ LogBlocks : applied[b] = 0
  /\ phase = "listening" =>
       \A b \in LogBlocks : /\ b \in Indexed => Number[b] < start \/ InDb(b)
                            /\ InDb(b) => b \in Indexed

IInv == TypeOK /\ ChainInv /\ PhaseInv /\ WaitInv /\ BulkInv /\ HalfInv /\ QueueInv /\ DbInv

-----------------------------------------------------------------------------
(* What the actions rely on, and what an action leaves alone. *)

USE TreeAssumption, LogAssumption, BoundAssumption

\* The block at a position of the chain has that number.
LEMMA ChainShape ==
  ASSUME TypeOK, ChainInv
  PROVE  /\ Len(chain) \in Nat
         /\ \A n \in 0..Len(chain) - 1 : AtNumber(n) \in Block /\ Number[AtNumber(n)] = n
BY DEF TypeOK, ChainInv, AtNumber

\* A task at the head of the queue, its fields typed.
LEMMA HeadTask ==
  ASSUME TypeOK, QueueInv, queue # <<>>
  PROVE  /\ Len(queue) \in Nat \ {0} /\ queue[1] \in Task /\ TaskInv(queue[1])
         /\ queue[1].finds \in Seq(Block) /\ queue[1].leaves \in Seq(Block)
<1>1. Len(queue) \in Nat \ {0} /\ queue[1] \in Task
  BY DEF TypeOK
<1> QED
  BY <1>1 DEF QueueInv, Task

\* The history the database is at is a numbered sequence of blocks.
LEMMA DbHistoryShape ==
  ASSUME TypeOK, QueueInv
  PROVE  DbHistory \in Seq(Block) /\ Numbered(DbHistory)
BY HeadTask DEF TypeOK, QueueInv, DbHistory, TaskInv

\* What the queue's invariant says survives a step that leaves the queue alone.
LEMMA QueueKept ==
  ASSUME TypeOK, QueueInv, Len(chain)' \in Nat, Len(chain)' >= Len(chain),
         UNCHANGED <<start, history, queue>>, stage' = stage \/ queue # <<>>
  PROVE  QueueInv'
<1>1. ASSUME NEW h \in Seq(Block), NEW m \in Nat, NEW n \in Nat, m <= n,
             NumberedFrom(h, start, m)
      PROVE  NumberedFrom(h, start, n)
  <2>1. Len(h) \in Nat /\ start \in Nat
    BY DEF TypeOK
  <2> QED
    BY <2>1, <1>1 DEF NumberedFrom
<1>2. Len(chain) \in Nat
  BY DEF TypeOK
<1>3. ASSUME NEW i \in 1..Len(queue) PROVE TaskInv(queue[i])'
  <2>1. queue[i] \in Task
    BY <1>3 DEF TypeOK
  <2>2. TaskInv(queue[i])
    BY <1>3 DEF QueueInv
  <2> QED
    BY <2>1, <2>2, <1>1, <1>2 DEF TaskInv, Task, Numbered, OneMore
<1> QED
  BY <1>1, <1>2, <1>3 DEF QueueInv, TypeOK, Numbered

\* So does what is said of the half-made call.
LEMMA HalfKept ==
  ASSUME TypeOK, HalfInv, Len(chain)' \in Nat, Len(chain)' >= Len(chain),
         UNCHANGED <<start, history, half, addBlocks, removeLogs>>
  PROVE  HalfInv'
<1>1. half.block \in Block /\ Number[half.block] \in Nat /\ Len(chain) \in Nat
  BY DEF TypeOK, Half
<1> QED
  BY <1>1 DEF HalfInv

LEMMA InitInv == Init => IInv
<1> SUFFICES ASSUME Init PROVE IInv
  OBVIOUS
<1>1. TypeOK
  BY DEF Init, TypeOK, NoHalf, Half
<1>2. ChainInv /\ PhaseInv /\ WaitInv /\ BulkInv
  BY DEF Init, ChainInv, PhaseInv, WaitInv, BulkInv, Indexed
<1>3. HalfInv /\ QueueInv
  BY DEF Init, HalfInv, QueueInv, NoHalf, Numbered, NumberedFrom
<1>4. DbInv
  BY DEF Init, DbInv, EffectsMatchRows
<1> QED
  BY <1>1, <1>2, <1>3, <1>4 DEF IInv

-----------------------------------------------------------------------------
(* One lemma for each action. *)

LEMMA NewHeadInv ==
  ASSUME IInv, NEW c \in Chains, NewHead(c)
  PROVE  IInv'
<1> USE DEF IInv, NewHead, streamVars, dbVars, bulkVars, queueVars
<1>1. TypeOK'
  BY DEF TypeOK
<1>2. Len(chain) \in Nat /\ Len(chain)' = Len(chain) + 1
  BY DEF TypeOK
<1>3. ChainInv'
  BY <1>2 DEF ChainInv, Indexed, TypeOK
<1>4. PhaseInv' /\ WaitInv'
  BY DEF PhaseInv, WaitInv, Indexed
<1>5. BulkInv'
  <2> SUFFICES ASSUME phase = "bulk" PROVE BulkInv'
    BY DEF BulkInv
  <2>1. ASSUME NEW b \in batch PROVE c[Number[b] + 1] = b
    <3>0. /\ b \in Block /\ Number[b] \in Nat /\ Number[b] < nextFetch
          /\ nextFetch <= handoff + 1 /\ handoff + HandoffBlocks < Len(chain)
          /\ nextFetch \in Nat /\ handoff \in Int
      BY DEF BulkInv, TypeOK
    <3>1. Number[b] \in 0..HeadNumber - MaxReorg
      BY ONLY <3>0, <1>2, BoundAssumption DEF HeadNumber
    <3>2. AtNumber(Number[b]) = b /\ c[Number[b] + 1] = AtNumber(Number[b])
      BY ONLY <3>1, IInv, NewHead(c), phase = "bulk", b \in batch DEF IInv, NewHead, BulkInv
    <3> QED
      BY ONLY <3>2
  <2>2. handoff + HandoffBlocks < Len(chain)'
    BY <1>2 DEF BulkInv, TypeOK
  <2> QED
    BY <2>1, <2>2 DEF BulkInv, Indexed, AtNumber
<1>6. QueueInv' /\ HalfInv'
  BY <1>2, QueueKept, HalfKept
<1>7. DbInv'
  BY DEF DbInv, EffectsMatchRows, InDb, DbHistory, Indexed
<1> QED
  BY <1>1, <1>3, <1>4, <1>5, <1>6, <1>7

LEMMA StartInv ==
  ASSUME IInv, Start
  PROVE  IInv'
<1> USE DEF IInv, Start, chainVars, streamVars, dbVars, queueVars
<1>1. StartBlocks \subseteq Nat
  BY SMTT(20) DEF TypeOK, StartBlocks, LastSynced
<1>2. PICK from \in StartBlocks :
        /\ fromBlock' = from /\ nextFetch' = from
        /\ handoff' = HeadNumber - HandoffBlocks
        /\ phase' = IF handoff' < from THEN "waiting" ELSE "bulk"
  OBVIOUS
<1>3. \A b \in Indexed : Number[b] < from
  <2> SUFFICES ASSUME NEW b \in Indexed PROVE Number[b] < from
    OBVIOUS
  <2>1. b \in rows /\ Number[b] >= UploadBlock /\ Number[b] < Len(chain) /\ b \in Block
    BY DEF Indexed, DbInv, EffectsMatchRows, ChainInv
  <2>2. ~(UploadBlock > HeadNumber)
    BY <2>1 DEF HeadNumber, TypeOK
  <2>3. StartBlocks = {Number[r] + 1 : r \in LastSynced}
    BY <2>1, <2>2 DEF StartBlocks
  <2>4. PICK r \in LastSynced : from = Number[r] + 1
    BY <2>3
  <2> QED
    BY <2>1, <2>4, SMTT(20) DEF LastSynced, TypeOK
<1>4. HeadNumber \in Int /\ Len(chain) = HeadNumber + 1
  BY DEF HeadNumber, TypeOK
<1>5. TypeOK'
  BY <1>1, <1>2, <1>4 DEF TypeOK
<1>6. ChainInv' /\ PhaseInv' /\ WaitInv'
  BY <1>2, <1>3 DEF ChainInv, PhaseInv, WaitInv, Indexed
<1>7. BulkInv'
  BY <1>1, <1>2, <1>3, <1>4 DEF BulkInv, PhaseInv, Indexed
<1>8. QueueInv' /\ HalfInv'
  BY QueueKept, HalfKept DEF TypeOK
<1>9. DbInv'
  BY <1>2 DEF DbInv, EffectsMatchRows
<1> QED
  BY <1>5, <1>6, <1>7, <1>8, <1>9

LEMMA WaitForBlocksInv ==
  ASSUME IInv, WaitForBlocks
  PROVE  IInv'
<1> USE DEF IInv, WaitForBlocks, chainVars, dbVars, queueVars
<1>1. TypeOK'
  BY DEF TypeOK, HeadNumber
<1>2. ChainInv' /\ PhaseInv' /\ WaitInv' /\ BulkInv'
  BY DEF ChainInv, PhaseInv, WaitInv, BulkInv, Indexed
<1>3. HalfInv' /\ QueueInv'
  BY DEF HalfInv, QueueInv, PhaseInv, NoHalf, Numbered, NumberedFrom, HeadNumber, TypeOK
<1>4. DbInv'
  BY DEF DbInv, EffectsMatchRows, PhaseInv, WaitInv, InDb, DbHistory, Indexed
<1> QED
  BY <1>1, <1>2, <1>3, <1>4

LEMMA FetchLogsInv ==
  ASSUME IInv, FetchLogs
  PROVE  IInv'
<1> USE DEF IInv, chainVars, streamVars, dbVars, queueVars
<1> DEFINE last == IF nextFetch + BlocksPerChunk - 1 < handoff
                   THEN nextFetch + BlocksPerChunk - 1 ELSE handoff
<1>1. /\ last \in Nat /\ last >= nextFetch /\ last <= handoff /\ last + 1 \in Nat
      /\ handoff < Len(chain) /\ nextFetch \in Nat /\ handoff \in Nat
  <2>1. /\ phase = "bulk" /\ nextFetch <= handoff
        /\ nextFetch \in Nat /\ handoff \in Int /\ Len(chain) \in Nat
    BY DEF FetchLogs, TypeOK
  <2>2. 0 <= handoff /\ handoff + HandoffBlocks < Len(chain)
    BY <2>1 DEF BulkInv
  <2>3. BlocksPerChunk \in Nat \ {0} /\ HandoffBlocks \in Nat
    BY BoundAssumption
  <2>4. handoff < Len(chain) /\ handoff \in Nat
    BY <2>1, <2>2, <2>3
  <2>5. last \in Nat /\ last >= nextFetch /\ last <= handoff
    <3> HIDE DEF IInv, queueVars, dbVars, streamVars, chainVars
    <3>1. CASE nextFetch + BlocksPerChunk - 1 < handoff
      BY ONLY <2>1, <2>3, <3>1
    <3>2. CASE ~(nextFetch + BlocksPerChunk - 1 < handoff)
      BY ONLY <2>1, <2>4, <3>2
    <3> QED
      BY <3>1, <3>2
  <2> QED
    BY <2>1, <2>4, <2>5
<1>2. /\ nextFetch' = last + 1
      /\ batch' = batch \cup (LogBlocks \cap {AtNumber(n) : n \in nextFetch..last})
  BY DEF FetchLogs
<1> HIDE DEF last
<1>3. TypeOK'
  BY <1>1, <1>2 DEF FetchLogs, TypeOK
<1>4. ChainInv' /\ PhaseInv' /\ WaitInv'
  BY DEF FetchLogs, ChainInv, PhaseInv, WaitInv, Indexed
<1>5. BulkInv'
  <2>1. ASSUME NEW b \in batch'
        PROVE  /\ b \in LogBlocks /\ Number[b] < last + 1 /\ AtNumber(Number[b]) = b
               /\ \A a \in Indexed : Number[a] < Number[b]
    <3>1. CASE b \in batch
      <4>1. b \in LogBlocks /\ Number[b] \in Nat /\ Number[b] < nextFetch
        BY <3>1 DEF FetchLogs, BulkInv
      <4>2. AtNumber(Number[b]) = b /\ \A a \in Indexed : Number[a] < Number[b]
        BY <3>1 DEF FetchLogs, BulkInv
      <4> QED
        BY <4>1, <4>2, <1>1
    <3>2. CASE b \notin batch
      <4>1. PICK n \in nextFetch..last : b \in LogBlocks /\ b = AtNumber(n)
        BY <2>1, <3>2, <1>2
      <4>2. n \in Nat /\ n \in 0..Len(chain) - 1
        BY <4>1, <1>1 DEF TypeOK
      <4>3. Number[b] = n
        BY <4>1, <4>2, ChainShape
      <4>4. \A a \in Indexed : Number[a] \in Nat /\ Number[a] < nextFetch
        BY DEF FetchLogs, BulkInv, Indexed
      <4>5. nextFetch <= n /\ n <= last
        BY <4>1, <4>2, <1>1
      <4> QED
        BY <4>1, <4>2, <4>3, <4>4, <4>5, <1>1
    <3> QED
      BY <3>1, <3>2
  <2>2. ASSUME NEW a \in Indexed PROVE Number[a] < last + 1
    <3>1. Number[a] \in Nat /\ Number[a] < nextFetch
      BY DEF FetchLogs, BulkInv, Indexed
    <3> QED
      BY <3>1, <1>1
  <2>3. 0 <= handoff' /\ nextFetch' <= handoff' + 1 /\ handoff' + HandoffBlocks < Len(chain)'
    <3>1. handoff' = handoff /\ chain' = chain /\ handoff + HandoffBlocks < Len(chain)
      BY DEF FetchLogs, BulkInv
    <3> QED
      BY <3>1, <1>1, <1>2
  <2>4. Indexed' = Indexed /\ \A n : AtNumber(n)' = AtNumber(n)
    BY DEF FetchLogs, Indexed, AtNumber
  <2> QED
    BY <2>1, <2>2, <2>3, <2>4, <1>2 DEF BulkInv
<1>6. QueueInv' /\ HalfInv'
  BY QueueKept, HalfKept DEF FetchLogs, TypeOK
<1>7. DbInv'
  BY DEF FetchLogs, DbInv, EffectsMatchRows, InDb, DbHistory, Indexed
<1> QED
  BY <1>3, <1>4, <1>5, <1>6, <1>7

LEMMA ProcessBatchBlockInv ==
  ASSUME IInv, NEW b \in Block, ProcessBatchBlock(b)
  PROVE  IInv'
<1> USE DEF IInv, ProcessBatchBlock, chainVars, streamVars, queueVars
<1>1. /\ b \in LogBlocks /\ AtNumber(Number[b]) = b /\ Number[b] \in Nat
      /\ Number[b] < nextFetch /\ Number[b] < Len(chain)
  BY DEF BulkInv, TypeOK
<1>2. \A a \in Indexed : Number[a] \in Nat /\ Number[a] < Number[b]
  BY DEF BulkInv, Indexed
<1>3. /\ rows' = {r \in rows : Number[r] # Number[b]} \cup {b}
      /\ applied' = [applied EXCEPT ![b] = @ + 1]
  BY <1>1 DEF InsertBlockRow, Count
<1>4. TypeOK'
  <2>1. rows' \subseteq Block /\ applied' \in [Block -> Int] /\ batch' \subseteq Block
    BY <1>3 DEF TypeOK
  <2>2. UNCHANGED <<chain, start, history, half, phase, fromBlock, handoff, nextFetch,
                    addBlocks, removeLogs, queue, stage, restarts>>
    BY DEF chainVars
  <2> QED
    BY ONLY <2>1, <2>2, TypeOK DEF TypeOK
<1>5. b \notin Indexed /\ applied[b] = 0
  BY <1>1, <1>2 DEF DbInv, EffectsMatchRows, Indexed
<1>6. Indexed' = Indexed \cup {b}
  <2>1. applied \in [Block -> Int] /\ LogBlocks \subseteq Block
    BY DEF TypeOK
  <2>2. ASSUME NEW a \in LogBlocks PROVE applied'[a] = IF a = b THEN 1 ELSE applied[a]
    BY ONLY <2>1, <1>3, <1>5
  <2> QED
    BY ONLY <1>1, <2>2 DEF Indexed
<1>7. ChainInv' /\ PhaseInv' /\ WaitInv'
  BY <1>1, <1>6 DEF ChainInv, PhaseInv, WaitInv
<1>8. BulkInv'
  <2>1. ASSUME NEW c \in batch' PROVE c \in batch /\ Number[b] < Number[c]
    <3>1. c \in batch /\ c # b /\ c \in Block /\ Number[c] \in Nat /\ Number[b] <= Number[c]
      BY <2>1 DEF TypeOK
    <3>2. Number[c] # Number[b]
      BY <3>1, <1>1 DEF BulkInv
    <3> QED
      BY <3>1, <3>2, <1>1
  <2> QED
    BY <2>1, <1>1, <1>2, <1>6 DEF BulkInv, AtNumber
<1>9. QueueInv' /\ HalfInv'
  BY QueueKept, HalfKept DEF TypeOK
<1>10. DbInv'
  <2>1. ASSUME NEW a \in LogBlocks PROVE applied'[a] = IF a \in rows' THEN 1 ELSE 0
    <3>1. CASE a = b
      BY <3>1, <1>1, <1>3, <1>5 DEF TypeOK
    <3>2. CASE a # b /\ a \in rows
      <4>1. a \in Indexed
        BY <3>2 DEF DbInv, EffectsMatchRows, Indexed
      <4> QED
        BY <4>1, <3>2, <1>1, <1>2, <1>3 DEF Indexed, TypeOK
    <3>3. CASE a # b /\ a \notin rows
      BY <3>3, <1>3 DEF DbInv, EffectsMatchRows, TypeOK
    <3> QED
      BY <3>1, <3>2, <3>3
  <2> QED
    BY <2>1, <1>1, <1>3 DEF DbInv, EffectsMatchRows, TypeOK
<1> QED
  BY <1>4, <1>7, <1>8, <1>9, <1>10

LEMMA StartListenersInv ==
  ASSUME IInv, StartListeners
  PROVE  IInv'
<1> USE DEF IInv, StartListeners, chainVars, dbVars, bulkVars, queueVars
<1>1. start' = handoff + 1 /\ nextFetch = handoff + 1 /\ start' \in Nat /\ start' <= Len(chain)
  BY DEF BulkInv, TypeOK
<1>2. TypeOK'
  BY <1>1 DEF TypeOK
<1>3. ChainInv' /\ PhaseInv' /\ WaitInv' /\ BulkInv'
  BY DEF ChainInv, PhaseInv, WaitInv, BulkInv, Indexed
<1>4. HalfInv' /\ QueueInv'
  BY <1>1 DEF HalfInv, QueueInv, PhaseInv, NoHalf, Numbered, NumberedFrom, TypeOK
<1>5. DbInv'
  BY <1>1 DEF DbInv, EffectsMatchRows, PhaseInv, BulkInv, InDb, DbHistory, Indexed
<1> QED
  BY <1>2, <1>3, <1>4, <1>5

LEMMA StreamAddBlockInv ==
  ASSUME IInv, StreamAddBlock
  PROVE  IInv'
<1> USE DEF IInv, chainVars, dbVars, bulkVars
<1> DEFINE b == AtNumber(start + Len(history))
<1>1. /\ half' = [direction |-> "add", block |-> b]
      /\ addBlocks' = addBlocks \cup {b} /\ UNCHANGED <<removeLogs, queue, stage>>
  BY DEF StreamAddBlock, AcceptAddBlock
<1>2. UNCHANGED <<chain, start, history, rows, applied, phase, fromBlock, handoff,
                  nextFetch, batch, restarts>>
  BY DEF StreamAddBlock
<1>3. start + Len(history) \in 0..Len(chain) - 1 /\ Len(chain) \in Nat
  BY DEF StreamAddBlock, HeadNumber, TypeOK
<1>4. b \in Block /\ Number[b] = start + Len(history)
  BY <1>3, ChainShape
<1>5. TypeOK'
  BY <1>1, <1>2, <1>4 DEF TypeOK, Half
<1>6. PhaseInv'
  BY <1>2 DEF StreamAddBlock, PhaseInv
<1>7. ChainInv' /\ WaitInv' /\ BulkInv'
  BY <1>2 DEF ChainInv, WaitInv, BulkInv, Indexed, AtNumber
<1>8. QueueInv'
  BY <1>1, <1>2, <1>3, QueueKept
<1>9. HalfInv'
  <2>1. addBlocks = {} /\ removeLogs = {}
    BY DEF StreamAddBlock, NoHalf, HalfInv
  <2> HIDE DEF b
  <2> QED
    BY <2>1, <1>1, <1>2, <1>3, <1>4 DEF HalfInv
<1>10. DbInv'
  BY <1>1, <1>2 DEF DbInv, EffectsMatchRows, InDb, DbHistory, Indexed
<1> QED
  BY <1>5, <1>6, <1>7, <1>8, <1>9, <1>10

\* The database is where it was before a task was announced.
LEMMA EnqueueKeeps ==
  ASSUME TypeOK, QueueInv, NEW t \in Task, queue' = Append(queue, t), t.finds = history,
         UNCHANGED stage
  PROVE  DbHistory' = DbHistory
<1>1. Len(queue) \in Nat /\ queue \in Seq(Task) /\ Len(queue') = Len(queue) + 1
  BY DEF TypeOK
<1>2. queue'[Len(queue')] = t /\ \A i \in 1..Len(queue) : queue'[i] = queue[i]
  BY <1>1
<1>3. CASE queue = <<>>
  BY <1>1, <1>2, <1>3 DEF DbHistory, QueueInv
<1>4. CASE queue # <<>>
  <2>1. 1 \in 1..Len(queue) /\ queue' # <<>>
    BY ONLY <1>4, <1>1
  <2>2. queue'[1] = queue[1]
    BY ONLY <2>1, <1>2
  <2> QED
    BY <1>4, <2>1, <2>2 DEF DbHistory
<1> QED
  BY <1>3, <1>4

\* A task announced at the end of the queue.
LEMMA EnqueueInv ==
  ASSUME IInv, phase = "listening", NEW t \in Task, queue' = Append(queue, t),
         TaskInv(t), t.finds = history, t.leaves = history', history' \in Seq(Block),
         UNCHANGED <<chain, start, stage, rows, applied, phase>>
  PROVE  QueueInv' /\ DbInv'
<1> USE DEF IInv
<1>1. Len(queue) \in Nat /\ queue \in Seq(Task) /\ Len(queue') = Len(queue) + 1
  BY DEF TypeOK
<1>2. queue'[Len(queue')] = t /\ \A i \in 1..Len(queue) : queue'[i] = queue[i]
  BY <1>1
<1>3. \A i \in 1..Len(queue') : TaskInv(queue'[i])
  BY <1>1, <1>2 DEF QueueInv
<1>4. ASSUME NEW i \in 1..Len(queue') - 1 PROVE queue'[i].leaves = queue'[i + 1].finds
  <2>1. CASE i = Len(queue)
    BY <2>1, <1>1, <1>2 DEF QueueInv
  <2>2. CASE i # Len(queue)
    <3>1. i \in 1..Len(queue) - 1 /\ i + 1 \in 1..Len(queue) /\ i \in 1..Len(queue)
      BY <2>2, <1>1, <1>4
    <3> QED
      BY <3>1, <1>2 DEF QueueInv
  <2> QED
    BY <2>1, <2>2
<1>5. QueueInv'
  <2>1. Numbered(history)'
    BY DEF TaskInv, Numbered
  <2>2. queue' # <<>> /\ queue'[Len(queue')].leaves = history'
    BY <1>1, <1>2, SMTT(20)
  <2>3. \A i \in 1..Len(queue)' : TaskInv(queue[i])'
    <3> SUFFICES ASSUME NEW i \in 1..Len(queue') PROVE TaskInv(queue[i])'
      OBVIOUS
    <3>1. TaskInv(queue'[i])
      BY <1>3
    <3> QED
      BY ONLY <3>1, UNCHANGED <<chain, start>> DEF TaskInv, Numbered
  <2>4. \A i \in 1..Len(queue)' - 1 : queue'[i].leaves = queue'[i + 1].finds
    BY <1>4
  <2> QED
    BY <2>1, <2>2, <2>3, <2>4 DEF QueueInv
<1>6. DbHistory' = DbHistory
  BY EnqueueKeeps
<1>7. DbInv'
  BY <1>6 DEF DbInv, EffectsMatchRows, InDb, Indexed
<1> QED
  BY <1>5, <1>7

LEMMA StreamAddLogsInv ==
  ASSUME IInv, StreamAddLogs
  PROVE  IInv'
<1> USE DEF IInv, chainVars, dbVars, bulkVars
<1> DEFINE b == half.block
           t == [direction |-> "add", block |-> b, logs |-> b,
                 finds |-> history, leaves |-> history']
<1>1. /\ half.direction = "add" /\ addBlocks = {b} /\ removeLogs = {} /\ b \in Block
      /\ Number[b] = start + Len(history) /\ Number[b] < Len(chain)
  BY DEF StreamAddLogs, HalfInv, TypeOK, Half
<1>2. /\ history' = Append(history, b) /\ half' = NoHalf
      /\ addBlocks' = {} /\ removeLogs' = {}
      /\ UNCHANGED <<chain, start, rows, applied, phase, fromBlock, handoff,
                     nextFetch, batch, restarts, stage>>
  BY <1>1 DEF StreamAddLogs, AcceptAddLogs
<1>3. queue' = Append(queue, t)
  BY <1>1 DEF StreamAddLogs, AcceptAddLogs, Enqueue, Found
<1>4. history \in Seq(Block) /\ history' \in Seq(Block)
  BY <1>1, <1>2 DEF TypeOK
<1>5. t \in Task
  BY <1>1, <1>4 DEF Task
<1>6. OneMore(history, history', b)
  BY <1>1, <1>2, <1>4 DEF OneMore
<1>7. Numbered(history) /\ Numbered(history')
  <2>1. Numbered(history) /\ start \in Nat /\ Len(history) \in Nat /\ Len(chain) \in Nat
    BY DEF QueueInv, TypeOK
  <2> QED
    BY <2>1, <1>1, <1>6, SMTT(20) DEF Numbered, NumberedFrom, OneMore
<1>8. TaskInv(t)
  BY <1>1, <1>6, <1>7 DEF TaskInv
<1>9. phase = "listening"
  BY <1>1 DEF PhaseInv, NoHalf
<1>10. QueueInv' /\ DbInv'
  <2> HIDE DEF t
  <2>1. t.finds = history /\ t.leaves = history'
    BY DEF t
  <2> QED
    BY <2>1, <1>2, <1>3, <1>4, <1>5, <1>8, <1>9, EnqueueInv
<1>11. TypeOK'
  BY <1>2, <1>3, <1>4, <1>5 DEF TypeOK, NoHalf, Half
<1>12. ChainInv' /\ WaitInv' /\ BulkInv' /\ PhaseInv'
  BY <1>2, <1>9 DEF ChainInv, WaitInv, BulkInv, PhaseInv, Indexed, AtNumber
<1>13. HalfInv'
  BY <1>2 DEF HalfInv, NoHalf
<1> QED
  BY <1>10, <1>11, <1>12, <1>13

LEMMA StreamRemoveLogsInv ==
  ASSUME IInv, StreamRemoveLogs
  PROVE  IInv'
<1> USE DEF IInv, chainVars, dbVars, bulkVars
<1> DEFINE b == history[Len(history)]
<1>1. /\ half' = [direction |-> "remove", block |-> b]
      /\ removeLogs' = removeLogs \cup {b}
      /\ UNCHANGED <<chain, start, history, rows, applied, phase, fromBlock, handoff,
                     nextFetch, batch, restarts, addBlocks, queue, stage>>
  BY DEF StreamRemoveLogs, AcceptRemoveLogs
<1>2. history # <<>> /\ b \in Block
  BY DEF StreamRemoveLogs, StreamUpToDate, TypeOK
<1>3. TypeOK'
  BY <1>1, <1>2 DEF TypeOK, Half
<1>4. ChainInv' /\ WaitInv' /\ BulkInv' /\ PhaseInv'
  BY <1>1 DEF StreamRemoveLogs, ChainInv, WaitInv, BulkInv, PhaseInv, Indexed, AtNumber
<1>5. QueueInv'
  BY <1>1, QueueKept DEF TypeOK
<1>6. HalfInv'
  <2>1. addBlocks = {} /\ removeLogs = {}
    BY DEF StreamRemoveLogs, NoHalf, HalfInv
  <2> QED
    BY <2>1, <1>1, <1>2 DEF HalfInv
<1>7. DbInv'
  BY <1>1 DEF DbInv, EffectsMatchRows, InDb, DbHistory, Indexed
<1> QED
  BY <1>3, <1>4, <1>5, <1>6, <1>7

LEMMA StreamRemoveBlockInv ==
  ASSUME IInv, StreamRemoveBlock
  PROVE  IInv'
<1> USE DEF IInv, chainVars, dbVars, bulkVars
<1> DEFINE b == half.block
           t == [direction |-> "remove", block |-> b, logs |-> b,
                 finds |-> history, leaves |-> history']
<1>1. /\ half.direction = "remove" /\ addBlocks = {} /\ removeLogs = {b} /\ b \in Block
      /\ history # <<>> /\ history[Len(history)] = b
  BY DEF StreamRemoveBlock, HalfInv, TypeOK, Half
<1>2. /\ history' = SubSeq(history, 1, Len(history) - 1) /\ half' = NoHalf
      /\ addBlocks' = {} /\ removeLogs' = {}
      /\ UNCHANGED <<chain, start, rows, applied, phase, fromBlock, handoff,
                     nextFetch, batch, restarts, stage>>
  BY <1>1 DEF StreamRemoveBlock, AcceptRemoveBlock
<1>3. queue' = Append(queue, t)
  BY <1>1 DEF StreamRemoveBlock, AcceptRemoveBlock, Enqueue, Found
<1>4. history \in Seq(Block) /\ Len(history) \in Nat \ {0} /\ history' \in Seq(Block)
  BY <1>1, <1>2 DEF TypeOK
<1>5. t \in Task
  BY <1>1, <1>4 DEF Task
<1>6. OneMore(history', history, b)
  <2>1. Len(history') = Len(history) - 1
    BY <1>2, <1>4
  <2>2. \A k \in 1..Len(history) - 1 : history'[k] = history[k]
    BY <1>2, <1>4
  <2>3. Len(history) = Len(history') + 1
    BY <2>1, <1>4
  <2>4. \A k \in 1..Len(history') : history'[k] = history[k]
    BY <2>1, <2>2
  <2>5. history[Len(history)] = b
    BY <1>1
  <2> QED
    BY ONLY <2>3, <2>4, <2>5 DEF OneMore
<1>7. Numbered(history) /\ Numbered(history')
  <2>1. Numbered(history) /\ start \in Nat /\ Len(history) \in Nat /\ Len(chain) \in Nat
    BY DEF QueueInv, TypeOK
  <2>2. Len(history') \in Nat
    BY <1>4
  <2> QED
    BY <2>1, <2>2, <1>6 DEF Numbered, NumberedFrom, OneMore
<1>8. TaskInv(t)
  BY <1>1, <1>6, <1>7 DEF TaskInv
<1>9. phase = "listening"
  BY <1>1 DEF PhaseInv, NoHalf
<1>10. QueueInv' /\ DbInv'
  <2> HIDE DEF t
  <2>1. t.finds = history /\ t.leaves = history'
    BY DEF t
  <2> QED
    BY <2>1, <1>2, <1>3, <1>4, <1>5, <1>8, <1>9, EnqueueInv
<1>11. TypeOK'
  BY <1>2, <1>3, <1>4, <1>5 DEF TypeOK, NoHalf, Half
<1>12. ChainInv' /\ WaitInv' /\ BulkInv' /\ PhaseInv'
  BY <1>2, <1>9 DEF ChainInv, WaitInv, BulkInv, PhaseInv, Indexed, AtNumber
<1>13. HalfInv'
  BY <1>2 DEF HalfInv, NoHalf
<1> QED
  BY <1>10, <1>11, <1>12, <1>13

LEMMA BuildWritesInv ==
  ASSUME IInv, BuildWrites
  PROVE  IInv'
<1> USE DEF IInv, BuildWrites, chainVars, streamVars, dbVars, bulkVars
<1>1. TypeOK'
  BY DEF TypeOK
<1>2. ChainInv' /\ WaitInv' /\ BulkInv' /\ PhaseInv'
  BY DEF ChainInv, WaitInv, BulkInv, PhaseInv, Indexed, AtNumber
<1>3. QueueInv' /\ HalfInv'
  BY QueueKept, HalfKept DEF TypeOK
<1>4. DbInv'
  BY DEF DbInv, EffectsMatchRows, InDb, DbHistory, Indexed
<1> QED
  BY <1>1, <1>2, <1>3, <1>4

\* Nor does the database move when a task is finished.
LEMMA FinishKeeps ==
  ASSUME TypeOK, QueueInv, FinishBlock
  PROVE  DbHistory' = DbHistory
<1> USE DEF FinishBlock, streamVars
<1>1. queue # <<>> /\ Len(queue) \in Nat \ {0} /\ Len(queue') = Len(queue) - 1
  BY DEF QueueInv, TypeOK
<1>2. \A i \in 1..Len(queue') : queue'[i] = queue[i + 1]
  BY <1>1 DEF TypeOK
<1>3. DbHistory = queue[1].leaves
  BY <1>1 DEF DbHistory
<1>4. CASE queue' = <<>>
  <2>1. Len(queue) = 1
    BY <1>1, <1>4
  <2> QED
    BY <2>1, <1>1, <1>3, <1>4 DEF DbHistory, QueueInv
<1>5. CASE queue' # <<>>
  <2>1. queue' \in Seq(Task)
    BY <1>1 DEF TypeOK
  <2>2. Len(queue') \in Nat \ {0}
    BY <1>5, <2>1
  <2>3. 1 \in 1..Len(queue') /\ 1 \in 1..Len(queue) - 1
    BY <2>2, <1>1
  <2>4. queue'[1] = queue[2] /\ queue[1].leaves = queue[2].finds
    BY <2>3, <1>2 DEF QueueInv
  <2> QED
    BY <2>4, <1>3, <1>5 DEF DbHistory
<1> QED
  BY <1>4, <1>5

LEMMA FinishBlockInv ==
  ASSUME IInv, FinishBlock
  PROVE  IInv'
<1> USE DEF IInv, FinishBlock, chainVars, streamVars, dbVars, bulkVars
<1>1. queue # <<>> /\ Len(queue) \in Nat \ {0} /\ Len(queue') = Len(queue) - 1
  BY DEF QueueInv, TypeOK
<1>2. /\ \A i \in 1..Len(queue') : queue'[i] = queue[i + 1]
      /\ \A i \in 1..Len(queue') : i + 1 \in 1..Len(queue)
      /\ \A i \in 1..Len(queue') - 1 : i + 1 \in 1..Len(queue) - 1
  BY <1>1 DEF TypeOK
<1>3. TypeOK'
  BY <1>1 DEF TypeOK
<1>4. ChainInv' /\ WaitInv' /\ BulkInv' /\ PhaseInv'
  BY <1>1 DEF ChainInv, WaitInv, BulkInv, PhaseInv, Indexed, AtNumber
<1>5. HalfInv'
  BY HalfKept DEF TypeOK
<1>6. QueueInv'
  <2>1. \A i \in 1..Len(queue)' : TaskInv(queue[i])'
    <3> SUFFICES ASSUME NEW i \in 1..Len(queue') PROVE TaskInv(queue[i])'
      OBVIOUS
    <3>1. TaskInv(queue'[i])
      BY <1>2 DEF QueueInv
    <3> QED
      BY <3>1 DEF TaskInv, Numbered
  <2>2. ASSUME NEW i \in 1..Len(queue') - 1 PROVE queue'[i].leaves = queue'[i + 1].finds
    <3>1. i \in 1..Len(queue') /\ i + 1 \in 1..Len(queue')
      BY <1>1
    <3> QED
      BY <3>1, <1>2 DEF QueueInv
  <2>3. queue' # <<>> => queue'[Len(queue')].leaves = history'
    <3> HAVE queue' # <<>>
    <3>1. Len(queue') \in 1..Len(queue')
      BY <1>1, <1>3 DEF TypeOK
    <3> QED
      BY <3>1, <1>1, <1>2 DEF QueueInv
  <2>4. Numbered(history)'
    BY DEF QueueInv, Numbered
  <2> QED
    BY <2>1, <2>2, <2>3, <2>4 DEF QueueInv
<1>7. DbHistory' = DbHistory
  BY FinishKeeps
<1>8. DbInv'
  BY <1>7 DEF DbInv, EffectsMatchRows, InDb, Indexed
<1> QED
  BY <1>3, <1>4, <1>5, <1>6, <1>8

LEMMA StopInv ==
  ASSUME IInv, Stop
  PROVE  IInv'
<1> USE DEF IInv, Stop, chainVars, dbVars
<1>1. TypeOK'
  BY DEF TypeOK, NoHalf, Half
<1>2. ChainInv' /\ WaitInv' /\ BulkInv' /\ PhaseInv'
  BY DEF ChainInv, WaitInv, BulkInv, PhaseInv, Indexed
<1>3. HalfInv' /\ QueueInv'
  BY DEF HalfInv, QueueInv, NoHalf, Numbered, NumberedFrom, TypeOK
<1>4. DbInv'
  BY DEF DbInv, EffectsMatchRows
<1> QED
  BY <1>1, <1>2, <1>3, <1>4

\* What a commit finds: the block of an added task is above all indexed ones,
\* that of a removed task is the highest of them.
LEMMA CommitFinds ==
  ASSUME IInv, CommitBlock
  PROVE  /\ queue # <<>> /\ TaskInv(queue[1]) /\ DbHistory = queue[1].finds
         /\ phase = "listening"
         /\ queue[1].direction = "add" =>
              \A a \in Indexed : Number[a] < Number[queue[1].block]
         /\ queue[1].direction = "remove" =>
              /\ queue[1].block \in LogBlocks => queue[1].block \in Indexed
              /\ \A a \in Indexed : a # queue[1].block => Number[a] < Number[queue[1].block]
<1> USE DEF IInv
<1> DEFINE t == queue[1]
<1>1. queue # <<>> /\ stage = "building" /\ phase = "listening"
  BY DEF CommitBlock, QueueInv, PhaseInv
<1>2. TaskInv(t) /\ t.finds \in Seq(Block) /\ t.leaves \in Seq(Block) /\ t.block \in Block
  BY <1>1, HeadTask DEF TaskInv
<1>3. DbHistory = t.finds
  BY <1>1 DEF DbHistory
<1> HIDE DEF t
<1>4. /\ start \in Nat /\ Len(t.finds) \in Nat /\ Len(t.leaves) \in Nat
      /\ \A k \in 1..Len(t.finds) : Number[t.finds[k]] = start + k - 1
      /\ \A k \in 1..Len(t.leaves) : Number[t.leaves[k]] = start + k - 1
  BY <1>2 DEF TypeOK, TaskInv, Numbered, NumberedFrom
<1>5. ASSUME NEW a \in Indexed
      PROVE  /\ a \in Block /\ Number[a] \in Nat
             /\ Number[a] < start \/ \E k \in 1..Len(t.finds) : t.finds[k] = a
  BY <1>1, <1>3 DEF DbInv, InDb, Indexed
<1>6. ASSUME t.direction = "add", NEW a \in Indexed PROVE Number[a] < Number[t.block]
  <2>1. Number[t.block] = start + Len(t.finds)
    <3>1. Len(t.leaves) = Len(t.finds) + 1 /\ t.leaves[Len(t.leaves)] = t.block
      BY <1>2, <1>6 DEF TaskInv, OneMore
    <3>2. Len(t.leaves) \in 1..Len(t.leaves)
      BY <3>1, <1>4
    <3>3. Number[t.leaves[Len(t.leaves)]] = start + Len(t.leaves) - 1
      BY <3>2, <1>4
    <3> QED
      BY <3>1, <3>3, <1>4
  <2>2. /\ Number[a] \in Nat
        /\ Number[a] < start \/ \E k \in 1..Len(t.finds) : t.finds[k] = a
    BY <1>5
  <2> QED
    BY ONLY <2>1, <2>2, <1>4
<1>7. ASSUME t.direction = "remove"
      PROVE  /\ t.block \in LogBlocks => t.block \in Indexed
             /\ \A a \in Indexed : a # t.block => Number[a] < Number[t.block]
  <2>1. /\ Len(t.finds) = Len(t.leaves) + 1 /\ t.finds[Len(t.finds)] = t.block
        /\ Number[t.block] = start + Len(t.finds) - 1 /\ Len(t.finds) \in 1..Len(t.finds)
    <3>1. /\ Len(t.finds) = Len(t.leaves) + 1 /\ t.finds[Len(t.finds)] = t.block
      BY <1>2, <1>7 DEF TaskInv, OneMore
    <3>2. Len(t.finds) \in 1..Len(t.finds)
      BY ONLY <3>1, <1>4
    <3> QED
      BY ONLY <3>1, <3>2, <1>4
  <2>2. InDb(t.block)
    BY ONLY <2>1, <1>3 DEF InDb
  <2>3. ASSUME NEW a \in Indexed, a # t.block PROVE Number[a] < Number[t.block]
    <3>1. CASE Number[a] < start
      <4>1. Number[a] \in Nat
        BY <2>3, <1>5
      <4> QED
        BY ONLY <3>1, <4>1, <2>1, <1>4
    <3>2. CASE \E k \in 1..Len(t.finds) : t.finds[k] = a
      <4>1. PICK k \in 1..Len(t.finds) : t.finds[k] = a
        BY <3>2
      <4>2. k # Len(t.finds) /\ Number[a] = start + k - 1
        BY <4>1, <2>1, <2>3, <1>4
      <4> QED
        BY <4>1, <4>2, <2>1, <1>4
    <3> QED
      BY <3>1, <3>2, <1>5
  <2> QED
    BY <2>2, <2>3, <1>1 DEF DbInv
<1> QED
  BY <1>1, <1>2, <1>3, <1>6, <1>7 DEF t

LEMMA CommitAddInv ==
  ASSUME IInv, CommitBlock, queue[1].direction = "add"
  PROVE  DbInv' /\ \A a \in Indexed' : a \in Indexed \/ a = queue[1].block
<1> USE DEF IInv
<1> DEFINE t == queue[1]  b == queue[1].block
<1>1. /\ queue # <<>> /\ TaskInv(t) /\ DbHistory = t.finds /\ phase = "listening"
      /\ \A a \in Indexed : Number[a] < Number[b]
  BY CommitFinds
<1>2. /\ b \in Block /\ t.logs = b /\ OneMore(t.finds, t.leaves, b)
      /\ Number[b] \in Nat /\ Len(t.finds) \in Nat
  BY <1>1, HeadTask DEF TaskInv
<1>3. /\ rows' = {r \in rows : Number[r] # Number[b]} \cup {b}
      /\ applied' = IF b \in LogBlocks THEN [applied EXCEPT ![b] = @ + 1] ELSE applied
      /\ queue' = queue /\ stage' = "committed" /\ phase' = phase /\ start' = start
  BY <1>2 DEF CommitBlock, AddBlock, InsertBlockRow, Count, streamVars
<1>4. applied \in [Block -> Int] /\ rows \subseteq Block
  BY DEF TypeOK
<1>5. DbHistory' = t.leaves
  BY <1>1, <1>3 DEF DbHistory
<1>6. b \notin Indexed
  BY <1>1, <1>2
<1>7. b \in LogBlocks => applied[b] = 0
  BY <1>6 DEF Indexed, DbInv, EffectsMatchRows
<1>8. EffectsMatchRows'
  <2> SUFFICES ASSUME NEW a \in LogBlocks PROVE applied'[a] = IF a \in rows' THEN 1 ELSE 0
    BY DEF EffectsMatchRows
  <2>1. CASE a = b
    BY <2>1, <1>3, <1>4, <1>7
  <2>2. CASE a # b /\ a \in rows
    <3>1. applied[a] = 1 /\ a \in Indexed
      BY <2>2 DEF DbInv, EffectsMatchRows, Indexed
    <3>2. Number[a] # Number[b]
      BY <3>1, <1>1, <1>2
    <3> QED
      BY <3>1, <3>2, <2>2, <1>3, <1>4
  <2>3. CASE a # b /\ a \notin rows
    BY <2>3, <1>3, <1>4 DEF DbInv, EffectsMatchRows
  <2> QED
    BY <2>1, <2>2, <2>3
<1>9. Indexed' = IF b \in LogBlocks THEN Indexed \cup {b} ELSE Indexed
  BY <1>2, <1>3, <1>4, <1>7 DEF Indexed
<1>10. ASSUME NEW a
       PROVE  (\E k \in 1..Len(t.leaves) : t.leaves[k] = a)
                <=> a = b \/ \E k \in 1..Len(t.finds) : t.finds[k] = a
  <2>1. ASSUME NEW k \in 1..Len(t.leaves)
        PROVE  k = Len(t.leaves) \/ k \in 1..Len(t.finds)
    BY <2>1, <1>2 DEF OneMore
  <2>2. Len(t.leaves) \in 1..Len(t.leaves) /\ 1..Len(t.finds) \subseteq 1..Len(t.leaves)
    BY <1>2 DEF OneMore
  <2> QED
    BY <2>1, <2>2, <1>2 DEF OneMore
<1>11. \A a : InDb(a)' <=> a = b \/ InDb(a)
  BY <1>1, <1>5, <1>10 DEF InDb
<1>12. \A a \in Block \ LogBlocks : applied'[a] = 0
  BY <1>3, <1>4 DEF DbInv
<1>13. ASSUME NEW a \in LogBlocks
       PROVE  /\ a \in Indexed' => Number[a] < start' \/ InDb(a)'
              /\ InDb(a)' => a \in Indexed'
  <2>1. /\ a \in Indexed => Number[a] < start \/ InDb(a)
        /\ InDb(a) => a \in Indexed
    BY <1>1 DEF DbInv
  <2>2. a \in Indexed' <=> a = b \/ a \in Indexed
    BY ONLY <1>9, a \in LogBlocks
  <2> QED
    BY ONLY <2>1, <2>2, <1>3, <1>11
<1> QED
  BY <1>8, <1>9, <1>12, <1>13 DEF DbInv

LEMMA CommitRemoveInv ==
  ASSUME IInv, CommitBlock, queue[1].direction = "remove"
  PROVE  DbInv' /\ \A a \in Indexed' : a \in Indexed
<1> USE DEF IInv
<1> DEFINE t == queue[1]  b == queue[1].block
<1>1. /\ queue # <<>> /\ TaskInv(t) /\ DbHistory = t.finds /\ phase = "listening"
      /\ b \in LogBlocks => b \in Indexed
  BY CommitFinds
<1>2. /\ b \in Block /\ t.logs = b /\ OneMore(t.leaves, t.finds, b)
      /\ Len(t.finds) \in Nat /\ Len(t.leaves) \in Nat /\ start \in Nat
      /\ \A k \in 1..Len(t.finds) : Number[t.finds[k]] = start + k - 1
  <2>1. /\ t.finds \in Seq(Block) /\ t.leaves \in Seq(Block) /\ start \in Nat
        /\ b \in Block /\ t.logs = b /\ OneMore(t.leaves, t.finds, b) /\ Numbered(t.finds)
    <3>1. t.finds \in Seq(Block) /\ t.leaves \in Seq(Block)
      BY <1>1, HeadTask
    <3> QED
      BY <3>1, <1>1 DEF TaskInv, TypeOK
  <2> QED
    BY ONLY <2>1 DEF Numbered, NumberedFrom
<1>3. /\ rows' = rows \ {b}
      /\ applied' = IF b \in LogBlocks THEN [applied EXCEPT ![b] = @ + -1] ELSE applied
      /\ queue' = queue /\ stage' = "committed" /\ phase' = phase /\ start' = start
  BY <1>2 DEF CommitBlock, RemoveBlock, Count, streamVars
<1>4. applied \in [Block -> Int]
  BY DEF TypeOK
<1>5. DbHistory' = t.leaves
  BY <1>1, <1>3 DEF DbHistory
<1>6. b \in LogBlocks => applied[b] = 1
  BY <1>1 DEF Indexed
<1>7. EffectsMatchRows'
  BY <1>3, <1>4, <1>6 DEF DbInv, EffectsMatchRows
<1>8. Indexed' = Indexed \ {b}
  BY <1>2, <1>3, <1>4, <1>6 DEF Indexed
<1>9. \A a \in Block \ LogBlocks : applied'[a] = 0
  BY <1>3, <1>4 DEF DbInv
<1>10. /\ Len(t.finds) = Len(t.leaves) + 1 /\ t.finds[Len(t.finds)] = b
       /\ \A k \in 1..Len(t.leaves) : t.leaves[k] = t.finds[k] /\ k \in 1..Len(t.finds)
       /\ \A k \in 1..Len(t.finds) : k = Len(t.finds) \/ k \in 1..Len(t.leaves)
       /\ Number[b] = start + Len(t.finds) - 1
  <2>1. /\ Len(t.finds) = Len(t.leaves) + 1 /\ t.finds[Len(t.finds)] = b
        /\ \A k \in 1..Len(t.leaves) : t.finds[k] = t.leaves[k]
    BY <1>2 DEF OneMore
  <2>2. Len(t.finds) \in 1..Len(t.finds)
    BY <2>1, <1>2
  <2>3. Number[t.finds[Len(t.finds)]] = start + Len(t.finds) - 1
    BY <2>2, <1>2
  <2>4. \A k \in 1..Len(t.leaves) : k \in 1..Len(t.finds)
    BY <2>1, <1>2
  <2>5. \A k \in 1..Len(t.finds) : k = Len(t.finds) \/ k \in 1..Len(t.leaves)
    BY <2>1, <1>2
  <2> QED
    BY <2>1, <2>3, <2>4, <2>5
<1>11. ASSUME NEW a, InDb(a), a # b PROVE InDb(a)'
  <2>1. PICK k \in 1..Len(t.finds) : t.finds[k] = a
    BY <1>1, <1>11 DEF InDb
  <2>2. k \in 1..Len(t.leaves) /\ t.leaves[k] = a
    BY <2>1, <1>10, <1>11
  <2> QED
    BY <2>2, <1>5 DEF InDb
<1>12. ASSUME NEW a, InDb(a)' PROVE InDb(a) /\ a # b
  <2>1. PICK k \in 1..Len(t.leaves) : t.leaves[k] = a
    BY <1>5, <1>12 DEF InDb
  <2>2. t.finds[k] = a /\ k \in 1..Len(t.finds)
    BY <2>1, <1>10
  <2>3. Number[a] = start + k - 1
    BY <2>2, <1>2
  <2>4. k < Len(t.finds)
    BY <1>10, <1>2
  <2>5. Number[a] # Number[b]
    <3> HIDE DEF t, b
    <3> QED
      BY <2>3, <2>4, <1>2, <1>10
  <2> QED
    BY <2>2, <2>5, <1>1 DEF InDb
<1>13. ASSUME NEW a \in LogBlocks
       PROVE  /\ a \in Indexed' => Number[a] < start' \/ InDb(a)'
              /\ InDb(a)' => a \in Indexed'
  <2>1. /\ a \in Indexed => Number[a] < start \/ InDb(a)
        /\ InDb(a) => a \in Indexed
    BY <1>1 DEF DbInv
  <2> QED
    BY ONLY <2>1, <1>3, <1>8, <1>11, <1>12
<1> QED
  BY <1>7, <1>8, <1>9, <1>13 DEF DbInv

LEMMA CommitBlockInv ==
  ASSUME IInv, CommitBlock
  PROVE  IInv'
<1> USE DEF IInv, chainVars, streamVars, bulkVars
<1>1. /\ queue # <<>> /\ TaskInv(queue[1]) /\ phase = "listening" /\ queue[1].block \in Block
      /\ queue[1].logs = queue[1].block
  BY CommitFinds DEF TaskInv
<1>2. /\ UNCHANGED <<chain, start, history, half, phase, fromBlock, handoff, nextFetch,
                      batch, addBlocks, removeLogs, queue, restarts>>
      /\ stage' = "committed"
  BY DEF CommitBlock
<1>3. TypeOK'
  <2>1. /\ rows \subseteq Block /\ applied \in [Block -> Int]
        /\ stage' \in {"idle", "building", "committed"}
    BY <1>2 DEF TypeOK
  <2>2. rows' \subseteq Block /\ applied' \in [Block -> Int]
    <3>1. CASE AddBlock(queue[1])
      BY ONLY <3>1, <2>1, <1>1 DEF AddBlock, InsertBlockRow, Count
    <3>2. CASE RemoveBlock(queue[1])
      BY ONLY <3>2, <2>1, <1>1 DEF RemoveBlock, Count
    <3> QED
      BY <3>1, <3>2 DEF CommitBlock
  <2> QED
    BY ONLY <2>1, <2>2, <1>2, TypeOK DEF TypeOK
<1>4. DbInv' /\ \A a \in Indexed' : a \in Indexed \/ a = queue[1].block
  BY CommitAddInv, CommitRemoveInv DEF CommitBlock
<1>5. Number[queue[1].block] < Len(chain)
  <2>1. PICK h \in Seq(Block) : /\ NumberedFrom(h, start, Len(chain))
                                /\ \E k \in 1..Len(h) : h[k] = queue[1].block
    <3>1. /\ queue[1].finds \in Seq(Block) /\ queue[1].leaves \in Seq(Block)
          /\ Numbered(queue[1].finds) /\ Numbered(queue[1].leaves)
      BY <1>1, HeadTask DEF TaskInv
    <3>2. CASE queue[1].direction = "add"
      <4>1. OneMore(queue[1].finds, queue[1].leaves, queue[1].block)
        BY <1>1, <3>2 DEF TaskInv
      <4>2. Len(queue[1].leaves) \in 1..Len(queue[1].leaves)
        BY <4>1, <3>1 DEF OneMore
      <4> QED
        BY <4>1, <4>2, <3>1 DEF OneMore, Numbered
    <3>3. CASE queue[1].direction = "remove"
      <4>1. OneMore(queue[1].leaves, queue[1].finds, queue[1].block)
        BY <1>1, <3>3 DEF TaskInv
      <4>2. Len(queue[1].finds) \in 1..Len(queue[1].finds)
        BY <4>1, <3>1 DEF OneMore
      <4> QED
        BY <4>1, <4>2, <3>1 DEF OneMore, Numbered
    <3> QED
      BY <3>2, <3>3 DEF CommitBlock
  <2>2. PICK k \in 1..Len(h) : h[k] = queue[1].block
    BY <2>1
  <2>3. start \in Nat /\ Len(h) \in Nat /\ Len(chain) \in Nat
    BY DEF TypeOK
  <2>4. start + Len(h) <= Len(chain) /\ Number[queue[1].block] = start + k - 1
    BY <2>1, <2>2 DEF NumberedFrom
  <2> QED
    BY <2>3, <2>4
<1>6. ChainInv'
  BY <1>2, <1>4, <1>5 DEF ChainInv
<1>7. PhaseInv' /\ WaitInv' /\ BulkInv'
  BY <1>1, <1>2 DEF PhaseInv, WaitInv, BulkInv
<1>8. QueueInv' /\ HalfInv'
  BY <1>1, <1>2, QueueKept, HalfKept DEF TypeOK
<1> QED
  BY <1>3, <1>4, <1>6, <1>7, <1>8

-----------------------------------------------------------------------------
(* The theorems. *)

LEMMA NextInv == IInv /\ [Next]_vars => IInv'
<1> SUFFICES ASSUME IInv, [Next]_vars PROVE IInv'
  OBVIOUS
<1>1. CASE ChainStep
  BY <1>1, NewHeadInv DEF ChainStep
<1>2. CASE SyncStep
  BY <1>2, StartInv, WaitForBlocksInv, FetchLogsInv, StartListenersInv, ProcessBatchBlockInv
  DEF SyncStep
<1>3. CASE StreamStep
  BY <1>3, StreamAddBlockInv, StreamAddLogsInv, StreamRemoveLogsInv, StreamRemoveBlockInv
  DEF StreamStep
<1>4. CASE ProcessStep
  BY <1>4, BuildWritesInv, CommitBlockInv, FinishBlockInv DEF ProcessStep
<1>5. CASE Stop
  BY <1>5, StopInv
<1>6. CASE UNCHANGED vars
  <2> USE <1>6 DEF IInv, vars, chainVars, streamVars, dbVars, bulkVars, queueVars
  <2>1. TypeOK' /\ ChainInv' /\ PhaseInv' /\ WaitInv' /\ BulkInv'
    BY DEF TypeOK, ChainInv, PhaseInv, WaitInv, BulkInv, Indexed, AtNumber
  <2>2. QueueInv' /\ HalfInv'
    BY QueueKept, HalfKept DEF TypeOK
  <2>3. DbInv'
    BY DEF DbInv, EffectsMatchRows, InDb, DbHistory, Indexed
  <2> QED
    BY <2>1, <2>2, <2>3
<1> QED
  BY <1>1, <1>2, <1>3, <1>4, <1>5, <1>6 DEF Next

\* The invariant holds of every behaviour.
THEOREM Invariant == Spec => []IInv
<1> QED
  BY InitInv, NextInv, PTL DEF Spec

\* Every variable keeps its type, for every tree, bound and number of restarts.
THEOREM TypeCorrect == Spec => []TypeOK
<1>1. IInv => TypeOK
  BY DEF IInv
<1> QED
  BY <1>1, Invariant, PTL

\* processBlockAndLogs and insertBlockRow keep the logs of a block in the
\* tables exactly when its row is there, across reorganisations and restarts.
THEOREM AtomicBlocks == Spec => []EffectsMatchRows
<1>1. IInv => EffectsMatchRows
  BY DEF IInv, DbInv
<1> QED
  BY <1>1, Invariant, PTL

\* BlockAndLogsQueue never hands on a block without its logs or with others.
THEOREM QueuePairs == Spec => []TasksPaired
<1>1. IInv => TasksPaired
  <2> SUFFICES ASSUME IInv PROVE TasksPaired
    OBVIOUS
  <2>1. ASSUME NEW i \in 1..Len(queue)
        PROVE  queue[i].logs = queue[i].block /\ queue[i].block # None
    BY DEF IInv, QueueInv, TaskInv
  <2>2. half.direction \in {"none", "add", "remove"}
    BY DEF IInv, TypeOK, Half
  <2>3. addBlocks \cup removeLogs \subseteq {half.block}
    BY <2>2 DEF IInv, HalfInv
  <2> QED
    BY <2>1, <2>3 DEF TasksPaired
<1> QED
  BY <1>1, Invariant, PTL

\* The queue applies what the stream announced in the order it was announced:
\* the database is always at an earlier moment of the stream.
THEOREM DatabaseFollowsStream == Spec => []DatabaseIsEarlierStream
<1>1. IInv => DatabaseIsEarlierStream
  <2> SUFFICES ASSUME IInv, phase = "listening"
               PROVE  {b \in Indexed : Number[b] >= start} =
                        LogBlocks \cap {DbHistory[i] : i \in 1..Len(DbHistory)}
    BY DEF DatabaseIsEarlierStream
  <2> USE DEF IInv
  <2>1. /\ DbHistory \in Seq(Block) /\ start \in Nat
        /\ \A k \in 1..Len(DbHistory) : Number[DbHistory[k]] = start + k - 1
    BY DbHistoryShape DEF TypeOK, Numbered, NumberedFrom
  <2>2. ASSUME NEW b \in Indexed, Number[b] >= start PROVE InDb(b)
    <3>1. b \in LogBlocks /\ Number[b] \in Nat
      BY DEF Indexed
    <3> QED
      BY <3>1, <2>1, <2>2 DEF DbInv
  <2>3. ASSUME NEW b \in LogBlocks, InDb(b) PROVE b \in Indexed /\ Number[b] >= start
    <3>1. PICK k \in 1..Len(DbHistory) : DbHistory[k] = b
      BY <2>3 DEF InDb
    <3>2. Number[b] = start + k - 1
      BY <3>1, <2>1
    <3> QED
      BY <3>2, <2>1, <2>3 DEF DbInv
  <2> QED
    BY <2>2, <2>3 DEF InDb, Indexed
<1> QED
  BY <1>1, Invariant, PTL

LEMMA IndexedAgree ==
  ASSUME IInv
  PROVE  Index!Indexed = Indexed
BY DEF IInv, DbInv, Indexed, Index!Indexed

\* A step of BlockSync is a step of ChainIndex or leaves the index alone.
LEMMA StepRefines ==
  ASSUME IInv, [Next]_vars
  PROVE  [Index!Next]_applied
<1> USE DEF IInv
<1> SUFFICES ASSUME applied' # applied PROVE Index!Next
  OBVIOUS
<1>1. applied \in [Block -> Int]
  BY DEF TypeOK
<1>2. ASSUME NEW b \in Block, ProcessBatchBlock(b) PROVE Index!Next
  <2>1. b \in LogBlocks /\ \A a \in Indexed : Number[a] < Number[b]
    BY <1>2 DEF ProcessBatchBlock, BulkInv
  <2>2. applied' = [applied EXCEPT ![b] = @ + 1]
    BY <1>2, <2>1 DEF ProcessBatchBlock, Count
  <2>3. applied[b] = 0
    <3>1. b \notin Indexed
      BY <2>1
    <3> QED
      BY <3>1, <2>1 DEF DbInv, EffectsMatchRows, Indexed
  <2>4. applied' = [applied EXCEPT ![b] = 1]
    BY <2>2, <2>3, <1>1
  <2> QED
    BY <2>1, <2>3, <2>4, IndexedAgree DEF Index!Next, Index!Add
<1>3. CASE CommitBlock
  <2> DEFINE b == queue[1].block
  <2>1. b \in Block /\ queue[1].logs = b
    BY <1>3, CommitFinds DEF TaskInv
  <2>2. CASE queue[1].direction = "add"
    <3>1. b \in LogBlocks /\ applied' = [applied EXCEPT ![b] = @ + 1]
      BY <1>3, <2>1, <2>2 DEF CommitBlock, AddBlock, Count
    <3>2. \A a \in Indexed : Number[a] < Number[b]
      BY <1>3, <2>2, CommitFinds
    <3>3. applied[b] = 0
      <4>1. b \notin Indexed
        BY <3>2, <2>1
      <4> QED
        BY <4>1, <3>1 DEF DbInv, EffectsMatchRows, Indexed
    <3>4. applied' = [applied EXCEPT ![b] = 1]
      BY <3>1, <3>3, <1>1
    <3> QED
      BY <3>2, <3>3, <3>4, <2>1, IndexedAgree DEF Index!Next, Index!Add
  <2>3. CASE queue[1].direction = "remove"
    <3>1. b \in LogBlocks /\ applied' = [applied EXCEPT ![b] = @ + -1]
      BY <1>3, <2>1, <2>3 DEF CommitBlock, RemoveBlock, Count
    <3>2. b \in Indexed /\ \A a \in Indexed : a # b => Number[a] < Number[b]
      BY <1>3, <2>3, <3>1, CommitFinds
    <3>3. applied[b] = 1
      BY <3>2 DEF Indexed
    <3>4. applied' = [applied EXCEPT ![b] = 0]
      BY <3>1, <3>3, <1>1
    <3> QED
      BY <3>2, <3>3, <3>4, <2>1, IndexedAgree DEF Index!Next, Index!Remove
  <2> QED
    BY <1>3, <2>2, <2>3 DEF CommitBlock
<1> QED
  BY <1>2, <1>3
  DEF Next, ChainStep, SyncStep, StreamStep, ProcessStep, NewHead, Start, WaitForBlocks,
      FetchLogs, StartListeners, StreamAddBlock, StreamAddLogs, StreamRemoveLogs,
      StreamRemoveBlock, BuildWrites, FinishBlock, Stop, vars, dbVars

\* BlockSync implements ChainIndex: bulk sync, stream, queue and restarts
\* together write the blocks' logs once each, at the top only.
THEOREM ImplementsChainIndex == Spec => WritesSerially
<1>1. Init => Index!Init
  BY DEF Init, Index!Init
<1> QED
  BY <1>1, StepRefines, Invariant, PTL DEF Spec, WritesSerially, Index!Spec

-----------------------------------------------------------------------------
(***************************************************************************)
(* Proof that a restart of BlockSync skips no block silently.              *)
(*                                                                         *)
(* A restart trusts the highest row, whatever the chain was when it was    *)
(* written.  So the invariant speaks of every chain the rows could be on:  *)
(* blocks below the start of the stream are final and covered by rows, and *)
(* a block the stream announced is on no chain but with those before it.   *)
(***************************************************************************)

HIDE TreeAssumption

On(b, c) == Number[b] < Len(c) /\ c[Number[b] + 1] = b

\* The rows that matter and that the stream does not take back.
Settled == {r \in rows : UploadBlock <= Number[r] /\ (phase = "listening" => Number[r] < start)}

Gapless ==
  \A c \in Chains :
    (\A r \in Settled : On(r, c)) =>
      \A r \in Settled : \A n \in UploadBlock..Number[r] : c[n + 1] \in LogBlocks => c[n + 1] \in rows

\* Unless a settled row is stranded, the logs below block m are found.
Covered(m, found) ==
  (\A r \in Settled : On(r, chain)) =>
    \A n \in UploadBlock..m - 1 : AtNumber(n) \in LogBlocks => AtNumber(n) \in found

\* The k-th block of h is on no chain but with those before it and the
\* present chain below the start.
OnPath(h) ==
  \A c \in Chains : \A k \in 1..Len(h) :
    start + k <= Len(c) /\ c[start + k] = h[k] =>
      /\ \A j \in 1..k : c[start + j] = h[j]
      /\ \A n \in 1..start : c[n] = chain[n]

RowInv == \A r \in rows : Number[r] < Len(chain)

WaitGap ==
  phase = "waiting" =>
    /\ \A r \in Settled : Number[r] < fromBlock
    /\ fromBlock <= UploadBlock \/ \E r \in Settled : fromBlock = Number[r] + 1

BulkGap ==
  phase = "bulk" =>
    /\ \A r \in Settled : Number[r] < nextFetch /\ \A b \in batch : Number[r] < Number[b]
    /\ Covered(nextFetch, rows \cup batch)

ListenGap ==
  phase = "listening" =>
    /\ start + HandoffBlocks <= Len(chain)
    /\ Covered(start, rows)
    /\ \A r \in rows : UploadBlock <= Number[r] => Number[r] < start \/ InDb(r)
    /\ \A k \in 1..Len(DbHistory) : DbHistory[k] \in rows

PathInv ==
  /\ OnPath(history)
  /\ half.direction = "add" => OnPath(Append(history, half.block))
  /\ \A i \in 1..Len(queue) : OnPath(queue[i].finds) /\ OnPath(queue[i].leaves)

GapInv == Gapless /\ RowInv /\ WaitGap /\ BulkGap /\ ListenGap /\ PathInv
-----------------------------------------------------------------------------
(* Chains that share a block, and what the rows say of any chain. *)

LEMMA ChainTypes ==
  ASSUME NEW c \in Chains
  PROVE  /\ c \in Seq(Block) /\ Len(c) \in Nat
         /\ \A n \in 0..Len(c) - 1 : c[n + 1] \in Block /\ Number[c[n + 1]] = n
<1>1. c \in Seq(Block) /\ Len(c) \in Nat /\ \A i \in 1..Len(c) : Number[c[i]] = i - 1
  BY TreeAssumption
<1>2. ASSUME NEW n \in 0..Len(c) - 1 PROVE c[n + 1] \in Block /\ Number[c[n + 1]] = n
  <2>1. n + 1 \in 1..Len(c)
    BY <1>1
  <2> QED
    BY <1>1, <2>1
<1> QED
  BY <1>1, <1>2

LEMMA SameUpTo ==
  ASSUME NEW c \in Chains, NEW d \in Chains, NEW b \in Block, On(b, c), On(b, d)
  PROVE  \A n \in 0..Number[b] : c[n + 1] = d[n + 1]
<1>1. Number[b] \in Nat /\ Number[b] + 1 \in 1..Len(c) /\ Number[b] + 1 <= Len(d)
  <2>1. Number[b] \in Nat
    BY TreeAssumption
  <2>2. Len(c) \in Nat /\ Len(d) \in Nat
    BY ChainTypes
  <2> QED
    BY <2>1, <2>2 DEF On
<1>2. \A j \in 1..Number[b] + 1 : c[j] = d[j]
  BY <1>1, ParentAssumption DEF On
<1> QED
  BY <1>1, <1>2

\* What the proofs below know of the chain, the rows and the database.
LEMMA GapTypes ==
  ASSUME IInv, GapInv
  PROVE  /\ chain \in Chains /\ chain \in Seq(Block) /\ Len(chain) \in Nat
         /\ start \in Nat /\ rows \subseteq Block /\ UploadBlock \in Nat \ {0}
         /\ \A r \in rows : Number[r] \in Nat /\ Number[r] < Len(chain)
         /\ \A b \in Block : Number[b] \in Nat
         /\ HandoffBlocks \in Nat /\ MaxReorg \in Nat /\ MaxReorg <= HandoffBlocks
BY TreeAssumption, LogAssumption, BoundAssumption DEF IInv, TypeOK, ChainInv, GapInv, RowInv

\* A block of the database that is on a chain has the blocks before it there.
LEMMA DbPath ==
  ASSUME IInv, GapInv, phase = "listening", NEW c \in Chains, NEW k \in 1..Len(DbHistory),
         On(DbHistory[k], c)
  PROVE  /\ Number[DbHistory[k]] = start + k - 1
         /\ \A j \in 1..k : c[start + j] = DbHistory[j]
         /\ \A n \in 1..start : c[n] = chain[n]
<1>1. DbHistory \in Seq(Block) /\ NumberedFrom(DbHistory, start, Len(chain))
  BY DbHistoryShape DEF IInv, Numbered
<1>2. Number[DbHistory[k]] = start + k - 1 /\ k \in Nat
  BY <1>1 DEF NumberedFrom
<1>3. OnPath(DbHistory)
  <2>1. queue # <<>> => 1 \in 1..Len(queue)
    BY DEF IInv, TypeOK
  <2> QED
    BY <2>1 DEF GapInv, PathInv, DbHistory
<1>4. start + k <= Len(c) /\ c[start + k] = DbHistory[k]
  BY <1>2, GapTypes, ChainTypes DEF On
<1> QED
  BY <1>2, <1>3, <1>4 DEF OnPath

\* Whatever chain the rows are on, they have its logs up to the highest of them.
LEMMA NoGap ==
  ASSUME IInv, GapInv, NEW c \in Chains, \A r \in rows : UploadBlock <= Number[r] => On(r, c),
         NEW r \in rows, NEW n \in UploadBlock..Number[r], c[n + 1] \in LogBlocks
  PROVE  c[n + 1] \in rows
<1>1. UploadBlock <= Number[r] /\ Number[r] \in Nat /\ n \in Nat /\ n <= Number[r]
  BY GapTypes
<1>2. \A q \in Settled : On(q, c)
  BY DEF Settled
<1>3. CASE r \in Settled
  BY <1>2, <1>3 DEF GapInv, Gapless
<1>4. CASE r \notin Settled
  <2>1. phase = "listening" /\ ~(Number[r] < start)
    BY <1>1, <1>4 DEF Settled
  <2>2. InDb(r)
    BY <2>1, <1>1 DEF GapInv, ListenGap
  <2>3. PICK k \in 1..Len(DbHistory) : DbHistory[k] = r
    BY <2>2 DEF InDb
  <2>4. /\ Number[r] = start + k - 1
        /\ \A j \in 1..k : c[start + j] = DbHistory[j]
        /\ \A m \in 1..start : c[m] = chain[m]
    <3>1. On(DbHistory[k], c)
      BY <1>1, <2>3
    <3> QED
      BY <2>1, <2>3, <3>1, DbPath
  <2>5. CASE n >= start
    <3>1. n - start + 1 \in 1..k /\ start + (n - start + 1) = n + 1
      <4>1. start \in Nat /\ k \in Nat
        BY GapTypes
      <4> QED
        BY ONLY <4>1, <2>4, <2>5, <1>1
    <3>2. c[n + 1] = DbHistory[n - start + 1] /\ n - start + 1 \in 1..Len(DbHistory)
      BY <3>1, <2>4, DbHistoryShape DEF IInv
    <3> QED
      BY <3>2, <2>1 DEF GapInv, ListenGap
  <2>6. CASE n < start
    <3>1. ASSUME NEW q \in Settled PROVE On(q, chain)
      <4>1. On(q, c) /\ Number[q] \in Nat /\ Number[q] < start /\ Number[q] < Len(chain)
        BY <1>2, <2>1, GapTypes DEF Settled
      <4>2. Number[q] + 1 \in 1..start
        BY <4>1, GapTypes
      <4> QED
        BY <4>1, <4>2, <2>4 DEF On
    <3>2. n \in UploadBlock..start - 1 /\ n + 1 \in 1..start
      BY <2>6, <1>1, GapTypes
    <3>3. AtNumber(n) = c[n + 1]
      BY <3>2, <2>4 DEF AtNumber
    <3> QED
      BY <3>1, <3>2, <3>3, <2>1 DEF GapInv, ListenGap, Covered
  <2> QED
    BY <2>5, <2>6, <1>1, GapTypes
<1> QED
  BY <1>3, <1>4
-----------------------------------------------------------------------------
(* One lemma for each action. *)

LEMMA GapInitially == Init => GapInv
BY DEF Init, GapInv, Gapless, Settled, RowInv, WaitGap, BulkGap, ListenGap, PathInv, OnPath, NoHalf

\* What a step keeps that touches neither the chain nor the rows.
LEMMA GapKept ==
  ASSUME IInv, GapInv, UNCHANGED <<chain, start, rows, phase, fromBlock, nextFetch, batch>>,
         DbHistory' = DbHistory
  PROVE  /\ Gapless' /\ RowInv' /\ WaitGap' /\ BulkGap' /\ ListenGap'
         /\ \A h : OnPath(h)' <=> OnPath(h)
<1>1. Settled' = Settled
  BY DEF Settled
<1>2. Gapless' /\ RowInv' /\ WaitGap'
  BY <1>1 DEF GapInv, Gapless, RowInv, WaitGap
<1>3. BulkGap'
  BY <1>1 DEF GapInv, BulkGap, Covered, AtNumber
<1>4. ListenGap'
  BY <1>1 DEF GapInv, ListenGap, Covered, AtNumber, InDb
<1>5. \A h : OnPath(h)' <=> OnPath(h)
  BY DEF OnPath
<1> QED
  BY <1>2, <1>3, <1>4, <1>5

\* A path without its last block.
LEMMA ShorterPath ==
  ASSUME NEW short \in Seq(Block), NEW long \in Seq(Block), NEW b, OneMore(short, long, b),
         OnPath(long)
  PROVE  OnPath(short)
<1>1. /\ Len(short) \in Nat /\ Len(long) = Len(short) + 1
      /\ \A k \in 1..Len(short) : long[k] = short[k] /\ k \in 1..Len(long)
  BY DEF OneMore
<1> SUFFICES ASSUME NEW c \in Chains, NEW k \in 1..Len(short), start + k <= Len(c),
                    c[start + k] = short[k]
             PROVE  /\ \A j \in 1..k : c[start + j] = short[j]
                    /\ \A n \in 1..start : c[n] = chain[n]
  BY DEF OnPath
<1>2. k \in 1..Len(long) /\ c[start + k] = long[k]
  BY <1>1
<1>3. /\ \A j \in 1..k : c[start + j] = long[j]
      /\ \A n \in 1..start : c[n] = chain[n]
  BY <1>2 DEF OnPath
<1>4. \A j \in 1..k : j \in 1..Len(short)
  BY <1>1
<1> QED
  BY <1>1, <1>3, <1>4

LEMMA GapNewHead ==
  ASSUME IInv, GapInv, NEW c \in Chains, NewHead(c)
  PROVE  GapInv'
<1>1. /\ chain' = c /\ Len(c) = Len(chain) + 1
      /\ UNCHANGED <<start, history, half, rows, phase, fromBlock, nextFetch, batch, queue, stage>>
  BY DEF NewHead, streamVars, dbVars, bulkVars, queueVars
<1>2. ASSUME NEW n \in Nat, n + HandoffBlocks < Len(chain) PROVE c[n + 1] = chain[n + 1]
  <2>1. /\ n \in Nat /\ n + HandoffBlocks < Len(chain)
        /\ Len(chain) \in Nat /\ HandoffBlocks \in Nat /\ MaxReorg \in Nat
        /\ MaxReorg <= HandoffBlocks
    BY <1>2, GapTypes
  <2>2. n \in 0..HeadNumber - MaxReorg
    BY ONLY <2>1 DEF HeadNumber
  <2> QED
    BY <2>2 DEF NewHead, AtNumber
<1>3. Settled' = Settled
  BY <1>1 DEF Settled
<1>4. Gapless' /\ RowInv' /\ WaitGap'
  BY <1>1, <1>3, GapTypes DEF GapInv, Gapless, RowInv, WaitGap
<1>5. ASSUME NEW m \in Nat, NEW found, m + HandoffBlocks <= Len(chain), Covered(m, found),
             \A r \in Settled : Number[r] < m
      PROVE  Covered(m, found)'
  <2>1. ASSUME NEW r \in Settled PROVE On(r, c) => On(r, chain)
    <3>1. Number[r] \in Nat /\ Number[r] + HandoffBlocks < Len(chain)
      BY <1>5, GapTypes DEF Settled
    <3> QED
      BY <3>1, <1>2, GapTypes DEF On
  <2>2. ASSUME NEW n \in UploadBlock..m - 1 PROVE c[n + 1] = chain[n + 1]
    <3>1. n \in Nat /\ n + HandoffBlocks < Len(chain)
      BY <1>5, GapTypes
    <3> QED
      BY <3>1, <1>2
  <2> QED
    BY <2>1, <2>2, <1>1, <1>3, <1>5 DEF Covered, AtNumber
<1>6. BulkGap'
  <2> SUFFICES ASSUME phase = "bulk" PROVE BulkGap'
    BY <1>1 DEF BulkGap
  <2>1. nextFetch \in Nat /\ nextFetch + HandoffBlocks <= Len(chain)
    BY GapTypes DEF IInv, TypeOK, BulkInv
  <2>2. Covered(nextFetch, rows \cup batch) /\ \A r \in Settled : Number[r] < nextFetch
    BY DEF GapInv, BulkGap
  <2>3. Covered(nextFetch, rows \cup batch)'
    <3>1. PICK m \in Nat : m = nextFetch
      BY <2>1
    <3>2. PICK found : found = rows \cup batch
      OBVIOUS
    <3>3. Covered(m, found)'
      BY <1>5, <2>1, <2>2, <3>1, <3>2
    <3> QED
      BY <1>1, <3>1, <3>2, <3>3 DEF Covered
  <2> QED
    BY <2>3, <1>1, <1>3 DEF GapInv, BulkGap
<1>7. phase = "listening" => start + HandoffBlocks <= Len(chain)
  BY DEF GapInv, ListenGap
<1>8. ListenGap'
  <2> SUFFICES ASSUME phase = "listening" PROVE ListenGap'
    BY <1>1 DEF ListenGap
  <2>1. Covered(start, rows)'
    <3>1. PICK m \in Nat : m = start
      BY GapTypes
    <3>2. PICK found : found = rows
      OBVIOUS
    <3>3. Covered(m, found)'
      BY <1>5, <1>7, <3>1, <3>2 DEF GapInv, ListenGap, Settled
    <3> QED
      BY <1>1, <3>1, <3>2, <3>3 DEF Covered
  <2>2. DbHistory' = DbHistory /\ \A b : InDb(b)' <=> InDb(b)
    BY <1>1 DEF DbHistory, InDb
  <2>3. start' + HandoffBlocks <= Len(chain')
    BY <1>1, <1>7, GapTypes
  <2> QED
    BY <2>1, <2>2, <2>3, <1>1 DEF GapInv, ListenGap
<1>9. PathInv'
  <2>1. CASE phase = "listening"
    <3>1. ASSUME NEW n \in 1..start PROVE c[n] = chain[n]
      <4>1. n - 1 \in Nat /\ n - 1 + HandoffBlocks < Len(chain) /\ (n - 1) + 1 = n
        BY <1>7, <2>1, GapTypes
      <4> QED
        BY <4>1, <1>2
    <3>2. \A h : OnPath(h) => OnPath(h)'
      BY <3>1, <1>1 DEF OnPath
    <3> QED
      BY <3>2, <1>1 DEF GapInv, PathInv
  <2>2. CASE phase # "listening"
    BY <2>2, <1>1 DEF IInv, PhaseInv, NoHalf, PathInv, OnPath
  <2> QED
    BY <2>1, <2>2
<1> QED
  BY <1>4, <1>6, <1>8, <1>9 DEF GapInv

\* The rows cover what is below the last settled one.
LEMMA CoveredByRows ==
  ASSUME IInv, GapInv, NEW m \in Nat, m <= UploadBlock \/ \E r \in Settled : m = Number[r] + 1
  PROVE  Covered(m, rows)
<1> SUFFICES ASSUME \A r \in Settled : On(r, chain), NEW n \in UploadBlock..m - 1,
                    AtNumber(n) \in LogBlocks
             PROVE  AtNumber(n) \in rows
  BY DEF Covered
<1>1. ~(m <= UploadBlock)
  BY GapTypes
<1>2. PICK r \in Settled : m = Number[r] + 1
  BY <1>1
<1>3. n \in UploadBlock..Number[r]
  BY <1>2, GapTypes DEF Settled
<1> QED
  BY <1>2, <1>3, GapTypes DEF GapInv, Gapless, AtNumber

LEMMA StartsBehindRows ==
  ASSUME IInv, GapInv, phase = "down", NEW from \in StartBlocks
  PROVE  /\ from \in Nat
         /\ \A r \in Settled : Number[r] < from
         /\ from <= UploadBlock \/ \E r \in Settled : from = Number[r] + 1
<1>1. Settled = {r \in rows : UploadBlock <= Number[r]}
  BY DEF Settled
<1>2. CASE UploadBlock > HeadNumber
  <2>1. Settled = {}
    BY <1>1, <1>2, GapTypes DEF HeadNumber
  <2> QED
    BY <2>1, <1>2, GapTypes DEF StartBlocks
<1>3. CASE ~(UploadBlock > HeadNumber) /\ rows = {}
  BY <1>1, <1>3, GapTypes DEF StartBlocks
<1>4. CASE ~(UploadBlock > HeadNumber) /\ rows # {}
  <2>1. PICK r \in LastSynced : from = Number[r] + 1
    BY <1>4 DEF StartBlocks
  <2>2. r \in rows /\ Number[r] \in Nat /\ \A s \in rows : Number[s] <= Number[r] /\ Number[s] \in Nat
    BY GapTypes DEF LastSynced
  <2>3. CASE UploadBlock <= Number[r]
    BY <1>1, <2>1, <2>2, <2>3
  <2>4. CASE ~(UploadBlock <= Number[r])
    BY <1>1, <2>1, <2>2, <2>4, GapTypes
  <2> QED
    BY <2>3, <2>4
<1> QED
  BY <1>2, <1>3, <1>4

LEMMA GapStart ==
  ASSUME IInv, GapInv, Start
  PROVE  GapInv'
<1>1. /\ phase = "down" /\ UNCHANGED <<chain, start, history, half, rows, batch, queue, stage>>
      /\ batch = {}
  BY DEF Start, chainVars, streamVars, dbVars, queueVars, IInv, PhaseInv
<1>2. PICK from \in StartBlocks :
        /\ fromBlock' = from /\ nextFetch' = from
        /\ phase' = IF handoff' < from THEN "waiting" ELSE "bulk"
  BY DEF Start
<1>3. /\ from \in Nat /\ \A r \in Settled : Number[r] < from
      /\ from <= UploadBlock \/ \E r \in Settled : from = Number[r] + 1
  BY <1>1, StartsBehindRows
<1>4. Covered(from, rows)
  BY <1>3, CoveredByRows
<1>5. phase' \in {"waiting", "bulk"} /\ Settled' = Settled
  BY <1>1, <1>2 DEF Settled
<1>6. Gapless' /\ RowInv'
  BY <1>1, <1>5 DEF GapInv, Gapless, RowInv
<1>7. WaitGap'
  BY <1>2, <1>3, <1>5 DEF WaitGap
<1>8. BulkGap'
  <2>1. Covered(nextFetch, rows \cup batch)'
    BY <1>1, <1>2, <1>4, <1>5 DEF Covered, AtNumber
  <2> QED
    BY <1>1, <1>2, <1>3, <1>5, <2>1 DEF BulkGap
<1>9. ListenGap'
  BY <1>5 DEF ListenGap
<1>10. PathInv'
  <2>1. \A h : OnPath(h)' <=> OnPath(h)
    BY <1>1 DEF OnPath
  <2> QED
    BY <1>1, <2>1 DEF GapInv, PathInv
<1> QED
  BY <1>6, <1>7, <1>8, <1>9, <1>10 DEF GapInv

LEMMA GapWaitForBlocks ==
  ASSUME IInv, GapInv, WaitForBlocks
  PROVE  GapInv'
<1>1. /\ phase = "waiting" /\ phase' = "listening" /\ start' = fromBlock
      /\ UNCHANGED <<chain, history, half, rows, queue, stage>>
      /\ HeadNumber - HandoffBlocks >= fromBlock
  BY DEF WaitForBlocks, chainVars, dbVars, queueVars
<1>2. history = <<>> /\ half = NoHalf /\ queue = <<>>
  BY <1>1 DEF IInv, PhaseInv
<1>3. fromBlock \in Nat /\ fromBlock + HandoffBlocks <= Len(chain)
  <2>1. fromBlock \in Nat /\ Len(chain) \in Nat /\ HandoffBlocks \in Nat
    BY GapTypes DEF IInv, TypeOK
  <2> QED
    BY ONLY <1>1, <2>1 DEF HeadNumber
<1>4. /\ \A r \in Settled : Number[r] < fromBlock
      /\ fromBlock <= UploadBlock \/ \E r \in Settled : fromBlock = Number[r] + 1
  BY <1>1 DEF GapInv, WaitGap
<1>5. Covered(fromBlock, rows)
  BY <1>3, <1>4, CoveredByRows
<1>6. Settled = {r \in rows : UploadBlock <= Number[r]}
  BY <1>1 DEF Settled
<1>7. Settled' = Settled
  BY <1>1, <1>4, <1>6 DEF Settled
<1>8. Gapless' /\ RowInv'
  BY <1>1, <1>7 DEF GapInv, Gapless, RowInv
<1>9. WaitGap' /\ BulkGap'
  BY <1>1 DEF WaitGap, BulkGap
<1>10. ListenGap'
  <2>1. Covered(start, rows)'
    BY <1>1, <1>5, <1>7 DEF Covered, AtNumber
  <2>2. DbHistory' = <<>>
    BY <1>1, <1>2 DEF DbHistory
  <2> QED
    BY <1>1, <1>3, <1>4, <1>6, <2>1, <2>2 DEF ListenGap
<1>11. PathInv'
  BY <1>1, <1>2 DEF PathInv, OnPath, NoHalf
<1> QED
  BY <1>8, <1>9, <1>10, <1>11 DEF GapInv

LEMMA GapFetchLogs ==
  ASSUME IInv, GapInv, FetchLogs
  PROVE  GapInv'
<1> DEFINE last == IF nextFetch + BlocksPerChunk - 1 < handoff
                   THEN nextFetch + BlocksPerChunk - 1 ELSE handoff
<1>1. /\ phase = "bulk" /\ nextFetch' = last + 1
      /\ batch' = batch \cup (LogBlocks \cap {AtNumber(n) : n \in nextFetch..last})
      /\ UNCHANGED <<chain, start, history, half, rows, phase, queue, stage>>
  BY DEF FetchLogs, chainVars, streamVars, dbVars, queueVars
<1>2. /\ nextFetch \in Nat /\ handoff \in Int /\ nextFetch <= handoff
      /\ handoff < Len(chain) /\ BlocksPerChunk \in Nat \ {0}
  <2>1. /\ nextFetch \in Nat /\ handoff \in Int /\ handoff + HandoffBlocks < Len(chain)
        /\ Len(chain) \in Nat /\ HandoffBlocks \in Nat
    BY <1>1, GapTypes DEF IInv, TypeOK, BulkInv
  <2> QED
    BY <2>1, BoundAssumption DEF FetchLogs
<1>3. last \in Nat /\ nextFetch <= last /\ last < Len(chain)
  BY ONLY <1>2, GapTypes, IInv, GapInv
<1> HIDE DEF last
<1>4. Settled' = Settled
  BY <1>1 DEF Settled
<1>5. ASSUME NEW n \in nextFetch..last PROVE AtNumber(n) \in Block /\ Number[AtNumber(n)] = n
  <2>1. chain \in Chains /\ Len(chain) \in Nat
    BY GapTypes
  <2>2. n \in 0..Len(chain) - 1
    BY ONLY <2>1, <1>2, <1>3, n \in nextFetch..last
  <2> QED
    BY <2>1, <2>2, ChainTypes DEF AtNumber
<1>6. /\ \A r \in Settled : Number[r] \in Nat /\ Number[r] < nextFetch
      /\ \A r \in Settled : \A b \in batch : Number[r] < Number[b]
      /\ Covered(nextFetch, rows \cup batch)
  BY <1>1, GapTypes DEF GapInv, BulkGap, Settled
<1>7. ASSUME NEW r \in Settled
      PROVE  Number[r] < last + 1 /\ \A b \in batch' : Number[r] < Number[b]
  <2>1. ASSUME NEW n \in nextFetch..last PROVE Number[r] < Number[AtNumber(n)]
    BY <1>2, <1>3, <1>5, <1>6
  <2> QED
    BY <2>1, <1>1, <1>2, <1>3, <1>6
<1>8. Covered(last + 1, rows \cup batch')
  <2> SUFFICES ASSUME \A r \in Settled : On(r, chain), NEW n \in UploadBlock..last,
                      AtNumber(n) \in LogBlocks
               PROVE  AtNumber(n) \in rows \cup batch'
    BY <1>3, GapTypes DEF Covered
  <2>1. CASE n < nextFetch
    <3>1. n \in UploadBlock..nextFetch - 1
      BY <2>1, <1>2, <1>3, GapTypes
    <3> QED
      BY <3>1, <1>1, <1>6 DEF Covered
  <2>2. CASE ~(n < nextFetch)
    <3>1. n \in nextFetch..last
      BY <2>2, <1>2, <1>3, GapTypes
    <3> QED
      BY <3>1, <1>1
  <2> QED
    BY <2>1, <2>2
<1>9. BulkGap'
  <2>1. Covered(nextFetch, rows \cup batch)'
    BY <1>1, <1>4, <1>8 DEF Covered, AtNumber
  <2> QED
    BY <1>1, <1>4, <1>7, <2>1 DEF BulkGap
<1>10. Gapless' /\ RowInv'
  BY <1>1, <1>4 DEF GapInv, Gapless, RowInv
<1>11. WaitGap' /\ ListenGap'
  BY <1>1 DEF WaitGap, ListenGap
<1>12. PathInv'
  <2>1. \A h : OnPath(h)' <=> OnPath(h)
    BY <1>1 DEF OnPath
  <2> QED
    BY <2>1, <1>1 DEF GapInv, PathInv
<1> QED
  BY <1>9, <1>10, <1>11, <1>12 DEF GapInv

LEMMA GapProcessBatchBlock ==
  ASSUME IInv, GapInv, NEW b \in Block, ProcessBatchBlock(b)
  PROVE  GapInv'
<1>1. /\ phase = "bulk" /\ b \in batch /\ \A d \in batch : Number[b] <= Number[d]
      /\ rows' = InsertBlockRow(AtNumber(Number[b])) /\ batch' = batch \ {b}
      /\ UNCHANGED <<chain, start, history, half, phase, nextFetch, queue, stage>>
  BY DEF ProcessBatchBlock, chainVars, streamVars, queueVars
<1>2. \A d \in batch : /\ d \in LogBlocks /\ d \in Block /\ Number[d] \in Nat
                       /\ Number[d] < nextFetch /\ AtNumber(Number[d]) = d
                       /\ UploadBlock <= Number[d]
  BY <1>1, LogAssumption, GapTypes DEF IInv, TypeOK, BulkInv
<1>3. Number[b] < Len(chain) /\ On(b, chain) /\ nextFetch \in Nat
  <2>1. /\ nextFetch \in Nat /\ handoff \in Int /\ handoff + HandoffBlocks < Len(chain)
        /\ nextFetch <= handoff + 1
    BY <1>1 DEF IInv, TypeOK, BulkInv
  <2>2. /\ Number[b] \in Nat /\ Number[b] < nextFetch /\ AtNumber(Number[b]) = b
        /\ Len(chain) \in Nat /\ HandoffBlocks \in Nat
    BY <1>1, <1>2, GapTypes
  <2>3. Number[b] < Len(chain)
    BY ONLY <2>1, <2>2
  <2> QED
    BY <2>1, <2>2, <2>3 DEF On, AtNumber
<1>4. /\ \A r \in Settled : /\ r \in rows /\ Number[r] \in Nat /\ Number[r] < nextFetch
                            /\ Number[r] < Number[b] /\ \A d \in batch : Number[r] < Number[d]
      /\ Covered(nextFetch, rows \cup batch)
  BY <1>1, GapTypes DEF GapInv, BulkGap, Settled
<1>5. rows' = rows \cup {b} /\ Settled' = Settled \cup {b}
  <2>1. Settled = {r \in rows : UploadBlock <= Number[r]}
    BY <1>1 DEF Settled
  <2>2. \A r \in rows : Number[r] # Number[b]
    BY <2>1, <1>1, <1>2, <1>4, GapTypes
  <2>3. rows' = rows \cup {b}
    BY <2>2, <1>1, <1>2 DEF InsertBlockRow
  <2>4. Settled' = {r \in rows' : UploadBlock <= Number[r]}
    BY <1>1 DEF Settled
  <2> QED
    BY <2>1, <2>3, <2>4, <1>1, <1>2
<1>6. Gapless'
  <2> SUFFICES ASSUME NEW c \in Chains, \A r \in Settled' : On(r, c), NEW r \in Settled',
                      NEW n \in UploadBlock..Number[r], c[n + 1] \in LogBlocks
               PROVE  c[n + 1] \in rows'
    BY DEF Gapless, On
  <2>1. CASE r \in Settled
    BY <2>1, <1>5 DEF GapInv, Gapless
  <2>2. CASE r = b
    <3>1. chain \in Chains /\ n \in Nat /\ n <= Number[b] /\ Number[b] \in Nat /\ UploadBlock <= n
      BY <2>2, <1>1, <1>2, GapTypes
    <3>2. \A m \in 0..Number[b] : c[m + 1] = chain[m + 1]
      BY <3>1, <1>3, <1>5, SameUpTo
    <3>3. \A q \in Settled : On(q, chain)
      <4> SUFFICES ASSUME NEW q \in Settled PROVE On(q, chain)
        OBVIOUS
      <4>1. Number[q] \in 0..Number[b] /\ Number[q] < Len(chain) /\ On(q, c)
        BY <1>4, <1>5, <3>1, GapTypes
      <4> QED
        BY <4>1, <3>2 DEF On
    <3>4. c[n + 1] = AtNumber(n) /\ n \in UploadBlock..nextFetch - 1
      BY <3>1, <3>2, <1>1, <1>2, <1>3, GapTypes DEF AtNumber
    <3>5. c[n + 1] \in rows \cup batch
      BY <3>3, <3>4, <1>4 DEF Covered
    <3>6. c[n + 1] \in batch => c[n + 1] = b
      <4>1. Number[AtNumber(n)] = n
        BY <3>1, <1>3, ChainTypes, GapTypes DEF AtNumber
      <4> QED
        BY <4>1, <3>1, <3>4, <1>1, <1>2
    <3> QED
      BY <3>5, <3>6, <1>5
  <2> QED
    BY <2>1, <2>2, <1>5
<1>7. RowInv'
  BY <1>1, <1>3, <1>5 DEF GapInv, RowInv
<1>8. BulkGap'
  <2>1. \A d \in batch' : Number[b] < Number[d]
    <3> SUFFICES ASSUME NEW d \in batch, d # b PROVE Number[b] < Number[d]
      BY <1>1
    <3>1. Number[b] <= Number[d] /\ Number[b] # Number[d]
      BY <1>1, <1>2
    <3> QED
      BY <3>1, <1>1, <1>2
  <2>2. Covered(nextFetch, rows \cup batch)'
    <3>1. rows \cup batch \subseteq rows' \cup batch'
      BY <1>1, <1>5
    <3> QED
      BY <3>1, <1>1, <1>4, <1>5 DEF Covered, AtNumber, On
  <2> QED
    BY <2>1, <2>2, <1>1, <1>2, <1>4, <1>5 DEF BulkGap
<1>9. WaitGap' /\ ListenGap'
  BY <1>1 DEF WaitGap, ListenGap
<1>10. PathInv'
  <2>1. \A h : OnPath(h)' <=> OnPath(h)
    BY <1>1 DEF OnPath
  <2> QED
    BY <2>1, <1>1 DEF GapInv, PathInv
<1> QED
  BY <1>6, <1>7, <1>8, <1>9, <1>10 DEF GapInv

LEMMA GapStartListeners ==
  ASSUME IInv, GapInv, StartListeners
  PROVE  GapInv'
<1>1. /\ phase = "bulk" /\ phase' = "listening" /\ start' = handoff + 1 /\ batch = {}
      /\ nextFetch > handoff /\ UNCHANGED <<chain, history, half, rows, queue, stage>>
  BY DEF StartListeners, chainVars, dbVars, queueVars
<1>2. history = <<>> /\ half = NoHalf /\ queue = <<>>
  BY <1>1 DEF IInv, PhaseInv
<1>3. start' = nextFetch /\ start' \in Nat /\ start' + HandoffBlocks <= Len(chain)
  <2>1. /\ nextFetch \in Nat /\ handoff \in Int /\ handoff + HandoffBlocks < Len(chain)
        /\ nextFetch <= handoff + 1 /\ HandoffBlocks \in Nat /\ Len(chain) \in Nat
    BY <1>1, GapTypes DEF IInv, TypeOK, BulkInv
  <2> QED
    BY ONLY <1>1, <2>1
<1>4. Settled = {r \in rows : UploadBlock <= Number[r]} /\ \A r \in Settled : Number[r] < nextFetch
  BY <1>1 DEF Settled, GapInv, BulkGap
<1>5. Settled' = Settled
  BY <1>1, <1>3, <1>4 DEF Settled
<1>6. Gapless' /\ RowInv' /\ WaitGap' /\ BulkGap'
  BY <1>1, <1>5 DEF GapInv, Gapless, RowInv, WaitGap, BulkGap
<1>7. ListenGap'
  <2>1. Covered(nextFetch, rows)
    BY <1>1 DEF GapInv, BulkGap
  <2>2. Covered(start, rows)'
    BY <2>1, <1>1, <1>3, <1>5 DEF Covered, AtNumber
  <2>3. DbHistory' = <<>>
    BY <1>1, <1>2 DEF DbHistory
  <2> QED
    BY <1>1, <1>3, <1>4, <2>2, <2>3 DEF ListenGap
<1>8. PathInv'
  BY <1>1, <1>2 DEF PathInv, OnPath, NoHalf
<1> QED
  BY <1>6, <1>7, <1>8 DEF GapInv

\* A block announced on top of a history that is on the chain.
LEMMA GapStreamAddBlock ==
  ASSUME IInv, GapInv, StreamAddBlock
  PROVE  GapInv'
<1> DEFINE b == AtNumber(start + Len(history))
           i == start + Len(history) + 1
<1>1. /\ phase = "listening" /\ StreamUpToDate /\ start + Len(history) <= HeadNumber
      /\ half' = [direction |-> "add", block |-> b]
      /\ UNCHANGED <<chain, start, history, rows, phase, fromBlock, nextFetch, batch, queue, stage>>
  BY DEF StreamAddBlock, AcceptAddBlock, chainVars, dbVars, bulkVars
<1>2. /\ history \in Seq(Block) /\ Len(history) \in Nat /\ start \in Nat /\ Numbered(history)
      /\ OnPath(history) /\ chain \in Chains /\ chain \in Seq(Block) /\ Len(chain) \in Nat
  BY GapTypes DEF IInv, TypeOK, QueueInv, GapInv, PathInv
<1>3. i \in 1..Len(chain) /\ chain[i] = b
  BY <1>1, <1>2 DEF HeadNumber, AtNumber
<1>4. \A j \in 1..Len(history) : chain[start + j] = history[j]
  <2> SUFFICES ASSUME history # <<>> PROVE \A j \in 1..Len(history) : chain[start + j] = history[j]
    BY <1>2
  <2>1. Len(history) \in 1..Len(history)
    BY <1>2
  <2>2. Number[history[Len(history)]] = start + Len(history) - 1
    BY <2>1, <1>2 DEF Numbered, NumberedFrom
  <2>3. OnChain(history[Len(history)])
    BY <1>1 DEF StreamUpToDate
  <2>4. start + Len(history) <= Len(chain) /\ chain[start + Len(history)] = history[Len(history)]
    BY <2>2, <2>3, <1>2 DEF OnChain, HeadNumber, AtNumber
  <2> QED
    BY <2>1, <2>4, <1>2 DEF OnPath
<1> HIDE DEF b, i
<1>5. b \in Block
  BY <1>2, <1>3
<1>6. OnPath(Append(history, b))
  <2> DEFINE h == Append(history, b)
  <2>1. /\ Len(h) = Len(history) + 1 /\ h[Len(history) + 1] = b
        /\ \A j \in 1..Len(history) : h[j] = history[j]
    BY <1>2, <1>5
  <2> HIDE DEF h
  <2> SUFFICES ASSUME NEW c \in Chains, NEW k \in 1..Len(h), start + k <= Len(c),
                      c[start + k] = h[k]
               PROVE  /\ \A j \in 1..k : c[start + j] = h[j]
                      /\ \A n \in 1..start : c[n] = chain[n]
    BY DEF OnPath, h
  <2>2. CASE k \in 1..Len(history)
    <3>1. \A j \in 1..k : j \in 1..Len(history)
      BY <2>2, <1>2
    <3> QED
      BY <2>1, <2>2, <3>1, <1>2 DEF OnPath
  <2>3. CASE k \notin 1..Len(history)
    <3>1. k = Len(history) + 1 /\ start + k = i
      BY <2>1, <2>3, <1>2 DEF i
    <3>2. i \in 1..Len(c) /\ c[i] = chain[i]
      BY <2>1, <3>1, <1>2, <1>3, ChainTypes
    <3>3. \A j \in 1..i : c[j] = chain[j]
      BY <3>2, <1>2, <1>3, ParentAssumption
    <3>4. \A j \in 1..k : start + j \in 1..i /\ (j \in 1..Len(history) \/ j = k)
      BY <3>1, <1>2
    <3>5. \A n \in 1..start : n \in 1..i
      BY <3>1, <1>2
    <3> QED
      BY <3>1, <3>3, <3>4, <3>5, <2>1, <1>3, <1>4
  <2> QED
    BY <2>2, <2>3
<1>7. DbHistory' = DbHistory
  BY <1>1 DEF DbHistory
<1>8. PathInv'
  <2>1. \A h : OnPath(h)' <=> OnPath(h)
    BY <1>1 DEF OnPath
  <2>2. half'.block = b /\ history' = history /\ queue' = queue
    BY <1>1
  <2> QED
    BY <2>1, <2>2, <1>6 DEF GapInv, PathInv
<1> QED
  BY <1>1, <1>7, <1>8, GapKept DEF GapInv

\* A task is queued when both calls of its block are made.
LEMMA GapEnqueue ==
  ASSUME IInv, GapInv, UNCHANGED <<chain, start, rows, phase, fromBlock, nextFetch, batch, stage>>,
         NEW t \in Task, queue' = Append(queue, t), t.finds = history, t.leaves = history',
         OnPath(history'), half' = NoHalf
  PROVE  GapInv'
<1>1. DbHistory' = DbHistory
  BY EnqueueKeeps DEF IInv
<1>2. \A h : OnPath(h)' <=> OnPath(h)
  BY DEF OnPath
<1>3. Len(queue) \in Nat /\ queue \in Seq(Task) /\ OnPath(history)
  BY DEF IInv, TypeOK, GapInv, PathInv
<1>4. ASSUME NEW i \in 1..Len(queue') PROVE OnPath(queue'[i].finds) /\ OnPath(queue'[i].leaves)
  <2>1. CASE i = Len(queue) + 1
    <3>1. queue'[i] = t
      BY <2>1, <1>3
    <3> QED
      BY <3>1, <1>3
  <2>2. CASE i # Len(queue) + 1
    <3>1. i \in 1..Len(queue) /\ queue'[i] = queue[i]
      BY <2>2, <1>3, <1>4
    <3> QED
      BY <3>1 DEF GapInv, PathInv
  <2> QED
    BY <2>1, <2>2
<1>5. PathInv'
  BY <1>2, <1>4 DEF PathInv, NoHalf
<1> QED
  BY <1>1, <1>5, GapKept DEF GapInv

LEMMA GapStreamAddLogs ==
  ASSUME IInv, GapInv, StreamAddLogs
  PROVE  GapInv'
<1> DEFINE b == half.block
           t == [direction |-> "add", block |-> b, logs |-> b,
                 finds |-> history, leaves |-> history']
<1>1. half.direction = "add" /\ addBlocks = {b} /\ b \in Block /\ history \in Seq(Block)
  BY DEF StreamAddLogs, IInv, HalfInv, TypeOK, Half
<1>2. /\ history' = Append(history, b) /\ half' = NoHalf /\ queue' = Append(queue, t)
      /\ UNCHANGED <<chain, start, rows, phase, fromBlock, nextFetch, batch, stage>>
  BY <1>1 DEF StreamAddLogs, AcceptAddLogs, Enqueue, Found, chainVars, dbVars, bulkVars
<1>3. t \in Task
  BY <1>1, <1>2 DEF Task
<1>4. OnPath(history')
  BY <1>1, <1>2 DEF GapInv, PathInv
<1>5. t.finds = history /\ t.leaves = history'
  OBVIOUS
<1> HIDE DEF t
<1> QED
  BY <1>2, <1>3, <1>4, <1>5, GapEnqueue

LEMMA GapStreamRemoveLogs ==
  ASSUME IInv, GapInv, StreamRemoveLogs
  PROVE  GapInv'
<1>1. /\ half'.direction = "remove"
      /\ UNCHANGED <<chain, start, history, rows, phase, fromBlock, nextFetch, batch, queue, stage>>
  BY DEF StreamRemoveLogs, AcceptRemoveLogs, chainVars, dbVars, bulkVars
<1>2. DbHistory' = DbHistory
  BY <1>1 DEF DbHistory
<1>3. PathInv'
  <2>1. \A h : OnPath(h)' <=> OnPath(h)
    BY <1>1 DEF OnPath
  <2> QED
    BY <2>1, <1>1 DEF GapInv, PathInv
<1> QED
  BY <1>1, <1>2, <1>3, GapKept DEF GapInv

LEMMA GapStreamRemoveBlock ==
  ASSUME IInv, GapInv, StreamRemoveBlock
  PROVE  GapInv'
<1> DEFINE b == half.block
           t == [direction |-> "remove", block |-> b, logs |-> b,
                 finds |-> history, leaves |-> history']
<1>1. /\ half.direction = "remove" /\ removeLogs = {b} /\ b \in Block
      /\ history # <<>> /\ history[Len(history)] = b /\ history \in Seq(Block)
  BY DEF StreamRemoveBlock, IInv, HalfInv, TypeOK, Half
<1>2. /\ history' = SubSeq(history, 1, Len(history) - 1) /\ half' = NoHalf
      /\ queue' = Append(queue, t)
      /\ UNCHANGED <<chain, start, rows, phase, fromBlock, nextFetch, batch, stage>>
  BY <1>1 DEF StreamRemoveBlock, AcceptRemoveBlock, Enqueue, Found, chainVars, dbVars, bulkVars
<1>3. /\ history' \in Seq(Block) /\ Len(history) \in Nat \ {0} /\ Len(history') = Len(history) - 1
      /\ \A k \in 1..Len(history) - 1 : history'[k] = history[k]
  <2>1. Len(history) \in Nat \ {0} /\ history' = SubSeq(history, 1, Len(history) - 1)
    BY <1>1, <1>2
  <2>2. history' \in Seq(Block)
    BY <1>1, <2>1
  <2>3. Len(history') = Len(history) - 1
    <3>1. history \in Seq(Block)
      BY <1>1
    <3>2. PICK m \in Nat : m = Len(history) - 1
      BY <2>1
    <3>3. Len(SubSeq(history, 1, m)) = m
      BY <2>1, <3>1, <3>2
    <3> QED
      BY <2>1, <3>2, <3>3
  <2>4. \A k \in 1..Len(history) - 1 : history'[k] = history[k]
    BY <1>1, <2>1
  <2> QED
    BY <2>1, <2>2, <2>3, <2>4
<1>4. t \in Task
  BY <1>1, <1>3 DEF Task
<1>5. OneMore(history', history, b)
  BY <1>1, <1>3 DEF OneMore
<1>6. OnPath(history')
  BY <1>1, <1>3, <1>5, ShorterPath DEF GapInv, PathInv
<1>7. t.finds = history /\ t.leaves = history'
  OBVIOUS
<1> HIDE DEF t
<1> QED
  BY <1>2, <1>4, <1>6, <1>7, GapEnqueue

LEMMA GapBuildWrites ==
  ASSUME IInv, GapInv, BuildWrites
  PROVE  GapInv'
<1>1. /\ stage = "idle" /\ stage' = "building"
      /\ UNCHANGED <<chain, start, history, half, rows, phase, fromBlock, nextFetch, batch, queue>>
  BY DEF BuildWrites, chainVars, streamVars, dbVars, bulkVars
<1>2. DbHistory' = DbHistory
  BY <1>1 DEF DbHistory
<1>3. PathInv'
  <2>1. \A h : OnPath(h)' <=> OnPath(h)
    BY <1>1 DEF OnPath
  <2> QED
    BY <2>1, <1>1 DEF GapInv, PathInv
<1> QED
  BY <1>1, <1>2, <1>3, GapKept DEF GapInv

LEMMA GapFinishBlock ==
  ASSUME IInv, GapInv, FinishBlock
  PROVE  GapInv'
<1>1. /\ queue' = Tail(queue)
      /\ UNCHANGED <<chain, start, history, half, rows, phase, fromBlock, nextFetch, batch>>
  BY DEF FinishBlock, chainVars, streamVars, dbVars, bulkVars
<1>2. DbHistory' = DbHistory
  BY FinishKeeps DEF IInv
<1>3. queue \in Seq(Task) /\ queue # <<>>
  BY DEF FinishBlock, IInv, TypeOK, QueueInv
<1>4. \A i \in 1..Len(queue') : queue'[i] = queue[i + 1] /\ i + 1 \in 1..Len(queue)
  BY <1>1, <1>3
<1>5. PathInv'
  <2>1. \A h : OnPath(h)' <=> OnPath(h)
    BY <1>1 DEF OnPath
  <2>2. \A i \in 1..Len(queue') : OnPath(queue'[i].finds) /\ OnPath(queue'[i].leaves)
    BY <1>4 DEF GapInv, PathInv
  <2> QED
    BY <2>1, <2>2, <1>1 DEF GapInv, PathInv
<1> QED
  BY <1>1, <1>2, <1>5, GapKept DEF GapInv

\* The numbers of a history with one more block.
LEMMA OneMoreNumbers ==
  ASSUME NEW short \in Seq(Block), NEW long \in Seq(Block), NEW b \in Block,
         OneMore(short, long, b), Numbered(long), start \in Nat, Len(chain) \in Nat
  PROVE  /\ start <= Number[b] /\ Number[b] < Len(chain)
         /\ \A k \in 1..Len(short) : /\ k \in 1..Len(long) /\ short[k] = long[k]
                                     /\ Number[short[k]] < Number[b]
         /\ \A k \in 1..Len(long) : k \in 1..Len(short) \/ long[k] = b
         /\ \E k \in 1..Len(long) : long[k] = b
<1>1. /\ Len(short) \in Nat /\ Len(long) = Len(short) + 1 /\ long[Len(long)] = b
      /\ \A k \in 1..Len(short) : long[k] = short[k]
      /\ start + Len(long) <= Len(chain)
      /\ \A k \in 1..Len(long) : Number[long[k]] = start + k - 1
  BY DEF OneMore, Numbered, NumberedFrom
<1>2. /\ Len(long) \in 1..Len(long)
      /\ \A k \in 1..Len(short) : k \in 1..Len(long)
      /\ \A k \in 1..Len(long) : k \in 1..Len(short) \/ k = Len(long)
  BY ONLY <1>1
<1>3. Number[b] = start + Len(long) - 1
  BY ONLY <1>1, <1>2
<1>4. ASSUME NEW k \in 1..Len(short) PROVE Number[short[k]] < Number[b]
  <2>1. Number[short[k]] = start + k - 1
    BY <1>1, <1>2
  <2> QED
    BY ONLY <2>1, <1>1, <1>3, start \in Nat, k \in 1..Len(short)
<1> QED
  BY <1>1, <1>2, <1>3, <1>4

\* A commit changes the rows from the stream's start on, as DbHistory changes.
LEMMA GapCommitBlock ==
  ASSUME IInv, GapInv, CommitBlock
  PROVE  GapInv'
<1> DEFINE t == queue[1]  b == queue[1].block
<1>1. /\ queue # <<>> /\ TaskInv(t) /\ DbHistory = t.finds /\ phase = "listening"
      /\ t.direction \in {"add", "remove"}
  BY CommitFinds DEF CommitBlock
<1>2. /\ stage' = "committed"
      /\ UNCHANGED <<chain, start, history, half, phase, fromBlock, nextFetch, batch, queue>>
  BY DEF CommitBlock, chainVars, streamVars, bulkVars
<1>3. DbHistory' = t.leaves
  BY <1>1, <1>2 DEF DbHistory
<1>4. /\ t.finds \in Seq(Block) /\ t.leaves \in Seq(Block) /\ b \in Block
      /\ Numbered(t.finds) /\ Numbered(t.leaves) /\ Number[b] \in Nat
      /\ start \in Nat /\ Len(chain) \in Nat
      /\ t.direction = "add" => OneMore(t.finds, t.leaves, b)
      /\ t.direction = "remove" => OneMore(t.leaves, t.finds, b)
  BY <1>1, HeadTask, GapTypes DEF TaskInv, IInv
<1>5. /\ t.direction = "add" => rows' = {r \in rows : Number[r] # Number[b]} \cup {b}
      /\ t.direction = "remove" => rows' = rows \ {b}
  BY DEF CommitBlock, AddBlock, RemoveBlock, InsertBlockRow
<1>6. \A k \in 1..Len(t.finds) : t.finds[k] \in rows
  BY <1>1 DEF GapInv, ListenGap
<1>7. \A r \in rows : UploadBlock <= Number[r] => Number[r] < start \/ \E k \in 1..Len(t.finds) : t.finds[k] = r
  BY <1>1 DEF GapInv, ListenGap, InDb
<1> HIDE DEF t, b
<1>8. /\ start <= Number[b] /\ Number[b] < Len(chain)
      /\ \A k \in 1..Len(t.leaves) : t.leaves[k] \in rows'
      /\ \A r \in rows' : UploadBlock <= Number[r] =>
           Number[r] < start \/ \E k \in 1..Len(t.leaves) : t.leaves[k] = r
  <2>1. CASE t.direction = "add"
    <3>1. /\ start <= Number[b] /\ Number[b] < Len(chain)
          /\ \A k \in 1..Len(t.finds) : /\ k \in 1..Len(t.leaves) /\ t.finds[k] = t.leaves[k]
                                        /\ Number[t.finds[k]] < Number[b]
          /\ \A k \in 1..Len(t.leaves) : k \in 1..Len(t.finds) \/ t.leaves[k] = b
          /\ \E k \in 1..Len(t.leaves) : t.leaves[k] = b
      BY <2>1, <1>4, OneMoreNumbers, SMTT(20)
    <3>2. \A k \in 1..Len(t.finds) : t.finds[k] \in rows'
      BY <2>1, <3>1, <1>4, <1>5, <1>6
    <3>3. b \in rows' /\ \A r \in rows' : r = b \/ r \in rows
      BY <2>1, <1>5
    <3> QED
      BY <3>1, <3>2, <3>3, <1>7
  <2>2. CASE t.direction = "remove"
    <3>1. /\ start <= Number[b] /\ Number[b] < Len(chain)
          /\ \A k \in 1..Len(t.leaves) : /\ k \in 1..Len(t.finds) /\ t.leaves[k] = t.finds[k]
                                         /\ Number[t.leaves[k]] < Number[b]
          /\ \A k \in 1..Len(t.finds) : k \in 1..Len(t.leaves) \/ t.finds[k] = b
      BY <2>2, <1>4, OneMoreNumbers
    <3>2. \A k \in 1..Len(t.leaves) : t.leaves[k] \in rows'
      BY <2>2, <3>1, <1>4, <1>5, <1>6
    <3> QED
      BY <2>2, <3>1, <3>2, <1>5, <1>7
  <2> QED
    BY <2>1, <2>2, <1>1 DEF t
<1>9. \A r \in Block : Number[r] < start => (r \in rows' <=> r \in rows)
  BY <1>1, <1>4, <1>5, <1>8, GapTypes DEF t
<1>10. rows' \subseteq rows \cup {b} /\ rows \subseteq Block
  BY <1>1, <1>5, GapTypes DEF t
<1>11. Settled' = Settled
  BY <1>1, <1>2, <1>4, <1>9, <1>10 DEF Settled
<1>12. Gapless'
  <2> SUFFICES ASSUME NEW c \in Chains, \A r \in Settled : On(r, c), NEW r \in Settled,
                      NEW n \in UploadBlock..Number[r], c[n + 1] \in LogBlocks
               PROVE  c[n + 1] \in rows'
    BY <1>11 DEF Gapless, On
  <2>1. c[n + 1] \in rows
    BY DEF GapInv, Gapless
  <2>2. n \in 0..Len(c) - 1 /\ n < start
    BY <1>1, <1>4, ChainTypes, GapTypes DEF Settled, On
  <2>3. c[n + 1] \in Block /\ Number[c[n + 1]] = n
    BY <2>2, ChainTypes
  <2> QED
    BY <2>1, <2>2, <2>3, <1>9
<1>13. RowInv'
  BY <1>2, <1>8, <1>10 DEF GapInv, RowInv
<1>14. ListenGap'
  <2>1. Covered(start, rows)'
    <3> SUFFICES ASSUME \A r \in Settled : On(r, chain), NEW n \in UploadBlock..start - 1,
                        AtNumber(n) \in LogBlocks
                 PROVE  AtNumber(n) \in rows'
      BY <1>2, <1>11 DEF Covered, AtNumber, On
    <3>1. AtNumber(n) \in rows
      BY <1>1 DEF GapInv, ListenGap, Covered
    <3>2. n \in 0..Len(chain) - 1 /\ n < start
      BY <1>4, <1>8, GapTypes
    <3>3. AtNumber(n) \in Block /\ Number[AtNumber(n)] = n
      BY <3>2, GapTypes, ChainTypes DEF AtNumber
    <3> QED
      BY <3>1, <3>2, <3>3, <1>9
  <2>2. start' + HandoffBlocks <= Len(chain')
    BY <1>1, <1>2 DEF GapInv, ListenGap
  <2>3. \A r \in rows' : UploadBlock <= Number[r] => Number[r] < start' \/ InDb(r)'
    BY <1>2, <1>3, <1>8 DEF InDb
  <2>4. \A k \in 1..Len(DbHistory') : DbHistory'[k] \in rows'
    BY <1>3, <1>8
  <2> QED
    BY <2>1, <2>2, <2>3, <2>4 DEF ListenGap
<1>15. WaitGap' /\ BulkGap'
  BY <1>1, <1>2 DEF WaitGap, BulkGap
<1>16. PathInv'
  <2>1. \A h : OnPath(h)' <=> OnPath(h)
    BY <1>2 DEF OnPath
  <2> QED
    BY <2>1, <1>2 DEF GapInv, PathInv
<1> QED
  BY <1>12, <1>13, <1>14, <1>15, <1>16 DEF GapInv

\* A restart trusts every row, the announced ones too.
LEMMA GapStop ==
  ASSUME IInv, GapInv, Stop
  PROVE  GapInv'
<1>1. /\ phase' = "down" /\ history' = <<>> /\ half' = NoHalf /\ queue' = <<>>
      /\ UNCHANGED <<chain, rows>>
  BY DEF Stop, chainVars, dbVars
<1>2. Settled' = {r \in rows : UploadBlock <= Number[r]}
  BY <1>1 DEF Settled
<1>3. Gapless'
  <2> SUFFICES ASSUME NEW c \in Chains, \A r \in rows : UploadBlock <= Number[r] => On(r, c),
                      NEW r \in rows, UploadBlock <= Number[r],
                      NEW n \in UploadBlock..Number[r], c[n + 1] \in LogBlocks
               PROVE  c[n + 1] \in rows
    BY <1>1, <1>2 DEF Gapless, On
  <2> QED
    BY NoGap
<1>4. RowInv' /\ WaitGap' /\ BulkGap' /\ ListenGap'
  BY <1>1 DEF GapInv, RowInv, WaitGap, BulkGap, ListenGap
<1>5. PathInv'
  BY <1>1 DEF PathInv, OnPath, NoHalf
<1> QED
  BY <1>3, <1>4, <1>5 DEF GapInv
-----------------------------------------------------------------------------
(* The theorems. *)

LEMMA GapStep == IInv /\ GapInv /\ [Next]_vars => GapInv'
<1> SUFFICES ASSUME IInv, GapInv, [Next]_vars PROVE GapInv'
  OBVIOUS
<1>1. CASE ChainStep
  BY <1>1, GapNewHead DEF ChainStep
<1>2. CASE SyncStep
  BY <1>2, GapStart, GapWaitForBlocks, GapFetchLogs, GapStartListeners, GapProcessBatchBlock
  DEF SyncStep
<1>3. CASE StreamStep
  BY <1>3, GapStreamAddBlock, GapStreamAddLogs, GapStreamRemoveLogs, GapStreamRemoveBlock
  DEF StreamStep
<1>4. CASE ProcessStep
  BY <1>4, GapBuildWrites, GapCommitBlock, GapFinishBlock DEF ProcessStep
<1>5. CASE Stop
  BY <1>5, GapStop
<1>6. CASE UNCHANGED vars
  <2>1. UNCHANGED <<chain, start, history, half, rows, phase, fromBlock, nextFetch, batch,
                    queue, stage>>
    BY <1>6 DEF vars, chainVars, streamVars, dbVars, bulkVars, queueVars
  <2>2. DbHistory' = DbHistory
    BY <2>1 DEF DbHistory
  <2>3. PathInv'
    <3>1. \A h : OnPath(h)' <=> OnPath(h)
      BY <2>1 DEF OnPath
    <3> QED
      BY <2>1, <3>1 DEF GapInv, PathInv
  <2> QED
    BY <2>1, <2>2, <2>3, GapKept DEF GapInv
<1> QED
  BY <1>1, <1>2, <1>3, <1>4, <1>5, <1>6 DEF Next

\* The rows of the database and the stream's histories have no gap on any
\* chain they could be on, whatever reorganisations and restarts there were.
THEOREM NoGapOnAnyChain == Spec => []GapInv
<1> QED
  BY Invariant, GapInitially, GapStep, PTL DEF Spec

\* bulkSyncAugurNodeWithBlockchain may go on after the last synced row: with
\* no row stranded by a reorganisation, every block with logs up to it is
\* indexed.
THEOREM NoSilentGapHolds == Spec => []NoSilentGap
<1>1. ASSUME IInv, GapInv PROVE NoSilentGap
  <2> SUFFICES ASSUME Stranded = {}, NEW r \in LastSynced, NEW n \in 0..Number[r],
                      AtNumber(n) \in LogBlocks
               PROVE  AtNumber(n) \in Indexed
    BY DEF NoSilentGap
  <2>1. chain \in Chains /\ r \in rows /\ Number[r] \in Nat /\ Number[r] < Len(chain)
    BY <1>1, GapTypes DEF LastSynced
  <2>2. \A q \in rows : On(q, chain)
    BY <1>1, GapTypes DEF Stranded, OnChain, On, AtNumber
  <2>3. Number[AtNumber(n)] = n /\ n \in Nat /\ n <= Number[r]
    <3>1. n \in Nat /\ n <= Number[r] /\ Len(chain) \in Nat
      BY <2>1, ChainTypes
    <3>2. n \in 0..Len(chain) - 1
      BY <2>1, <3>1
    <3> QED
      BY <2>1, <3>1, <3>2, ChainTypes DEF AtNumber
  <2>4. n \in UploadBlock..Number[r] /\ chain[n + 1] \in LogBlocks
    BY <2>1, <2>3, LogAssumption DEF AtNumber
  <2>5. chain[n + 1] \in rows
    BY <1>1, <2>1, <2>2, <2>4, NoGap
  <2> QED
    BY <1>1, <2>5 DEF AtNumber, Indexed, IInv, DbInv, EffectsMatchRows
<1> QED
  BY <1>1, Invariant, NoGapOnAnyChain, PTL
=============================================================================
