---------------------------- MODULE BlockEffects ----------------------------
(***************************************************************************)
(* What the transaction of a block does outside the database, where a       *)
(* rollback does not reach: the override timestamps and the time of the     *)
(* head, which are variables of the module process-block.ts, and the events *)
(* it publishes to the subscriptions of the websocket clients.  Sessions    *)
(* (controllers) of one process share both; a killed process loses both.    *)
(*                                                                         *)
(* The chain is a stack of blocks; of their logs two kinds are told apart:  *)
(* TimestampSet moves the time and is published before the transaction      *)
(* opens, OrderCreated is published from within it.                         *)
(***************************************************************************)
EXTENDS Integers, SequencesExt, FiniteSetsExt, TLC

CONSTANTS
  Client, Subscription,          \* a subscription id is used once
  Override,                      \* timestamps a TimestampSet may carry
  BlockLogs,                     \* sequences of logs a block may have
  MaxBlocks, MaxRemovals, MaxStops   \* bounds

NoTime == 0                      \* no override: null in the network_id row
None == "none"
Event == {"TimestampSet", "OrderCreated"}
SetTo(t) == [event |-> "TimestampSet", time |-> t]
Created == [event |-> "OrderCreated", time |-> NoTime]

ASSUME EffectsAssumption ==
  /\ NoTime \notin Override
  /\ BlockLogs \subseteq Seq({Created} \cup {SetTo(t) : t \in Override})
  /\ {MaxBlocks, MaxRemovals, MaxStops} \subseteq Nat

VARIABLES
  blocks,       \* committed: [logs, time, stamp], the stamp is the row's timestamp
  row,          \* network_id.overrideTimestamp
  overrideTimestamps, blockHeadTimestamp,   \* of the process
  session,      \* "down" | "bulk" | "live"
  clearing,     \* a shutdown waits for its database to close
  job,          \* the block being processed
  socket,       \* by client: "none" | "open" | "closing"
  handlers,     \* by client and event: its handlers on augurEmitter
  listeners,    \* by client: subscriptions whose publish function listens
  topic,        \* by subscription: its event, None while unused
  copies,       \* history: messages sent for the block, by subscription
  wanted,       \* history: subscriptions each connected client holds
  due,          \* history: messages the events published for the block come to
  overlap,      \* history: a session began before its predecessor had cleared
  made, removals, stops

effectVars == <<row, overrideTimestamps, blockHeadTimestamp>>
clientVars == <<socket, handlers, listeners, topic, wanted>>
publishVars == <<copies, due>>
bounds == <<made, removals, stops>>
vars == <<blocks, effectVars, session, clearing, job, clientVars, publishVars,
          overlap, bounds>>

NoJob == [kind |-> None]
Idle == job = NoJob

Init ==
  /\ blocks = <<>> /\ row = NoTime
  /\ overrideTimestamps = <<>> /\ blockHeadTimestamp = 0
  /\ session = "down" /\ clearing = FALSE /\ job = NoJob
  /\ socket = [c \in Client |-> "none"]
  /\ handlers = [c \in Client |-> [e \in Event |-> 0]]
  /\ listeners = [c \in Client |-> {}] /\ wanted = [c \in Client |-> {}]
  /\ topic = [s \in Subscription |-> None]
  /\ copies = [s \in Subscription |-> 0] /\ due = copies
  /\ overlap = FALSE /\ made = 0 /\ removals = 0 /\ stops = 0

-----------------------------------------------------------------------------
(* Publishing: each handler of a client relays an event to every publish    *)
(* function of its subscriptions to that event; safeSend drops what a       *)
(* closing socket would send.                                               *)

Holder(s, of) == {c \in Client : s \in of[c]}
Heard(s, of, e) == topic[s] = e /\ \E c \in Holder(s, of) : socket[c] = "open"
Relayed(s, e) ==
  IF Heard(s, listeners, e)
  THEN handlers[CHOOSE c \in Holder(s, listeners) : TRUE][e] ELSE 0
Promised(s, e) ==
  IF Heard(s, wanted, e)
  THEN LET c == CHOOSE c \in Holder(s, wanted) : TRUE
       IN  Quantify(wanted[c], LAMBDA t : topic[t] = e)
  ELSE 0
Emit(e, n) ==                    \* n events of kind e
  /\ copies' = [s \in Subscription |-> copies[s] + n * Relayed(s, e)]
  /\ due' = [s \in Subscription |-> due[s] + n * Promised(s, e)]
NothingEmitted ==
  copies' = [s \in Subscription |-> 0] /\ due' = copies'
Wanted == UNION {wanted[c] : c \in Client}

-----------------------------------------------------------------------------
(* process-block.ts                                                         *)

GetOverrideTimestamp ==
  IF overrideTimestamps = <<>> THEN NoTime ELSE Last(overrideTimestamps)
TimeAt(head) ==                  \* getCurrentTime, once the head is set
  IF GetOverrideTimestamp # NoTime THEN GetOverrideTimestamp ELSE head

EventsOf(logs, e) == Quantify(DOMAIN logs, LAMBDA i : logs[i].event = e)

\* Live, the logs that are published automatically are published here.
Begin(kind, logs, time) ==
  /\ Idle
  /\ job' = [kind |-> kind, bulk |-> session = "bulk", logs |-> logs, done |-> 0,
             row |-> row, time |-> time, stamp |-> NoTime, since |-> Wanted]
  /\ IF session = "live" THEN Emit("TimestampSet", EventsOf(logs, "TimestampSet"))
     ELSE UNCHANGED publishVars

AddBlock ==
  /\ session # "down" /\ made < MaxBlocks
  /\ \E logs \in BlockLogs : Begin("add", logs, made + 1)
  /\ made' = made + 1
  /\ UNCHANGED <<blocks, effectVars, session, clearing, clientVars, overlap,
                 removals, stops>>

RemoveBlock ==
  /\ session = "live" /\ blocks # <<>> /\ removals < MaxRemovals
  /\ Begin("remove", Reverse(Last(blocks).logs), Last(blocks).time)
  /\ removals' = removals + 1
  /\ UNCHANGED <<blocks, effectVars, session, clearing, clientVars, overlap,
                 made, stops>>

ProcessBlockByBlockDetails ==
  /\ ~Idle /\ job.kind = "add" /\ job.stamp = NoTime
  /\ blockHeadTimestamp' = job.time
  /\ job' = [job EXCEPT !.stamp = TimeAt(job.time)]
  /\ UNCHANGED <<blocks, row, overrideTimestamps, session, clearing, clientVars,
                 publishVars, overlap, bounds>>

InTransaction == ~Idle /\ (job.kind = "add" => job.stamp # NoTime)
NextLog == job.logs[job.done + 1]
HasLog(e) ==
  InTransaction /\ job.done < Len(job.logs) /\ NextLog.event = e

\* A mutant: the timestamp goes to the row alone.
OnlyTheRow(stack, t) == UNCHANGED overrideTimestamps
SetOverrideTimestamp(stack, t) == overrideTimestamps' = Append(stack, t)

RemovalThrows ==
  \/ Len(overrideTimestamps) < 2
  \/ GetOverrideTimestamp # NextLog.time

TimestampSet ==
  /\ HasLog("TimestampSet")
  /\ IF job.kind = "add"
     THEN /\ SetOverrideTimestamp(overrideTimestamps, NextLog.time)
          /\ job' = [job EXCEPT !.done = @ + 1, !.row = NextLog.time]
     ELSE /\ ~RemovalThrows
          /\ overrideTimestamps' = Front(overrideTimestamps)
          /\ job' = [job EXCEPT !.done = @ + 1,
                                !.row = Last(Front(overrideTimestamps))]
  /\ UNCHANGED <<blocks, row, blockHeadTimestamp, session, clearing, clientVars,
                 publishVars, overlap, bounds>>

OrderCreated ==
  /\ HasLog("OrderCreated")
  /\ job' = [job EXCEPT !.done = @ + 1]
  /\ Emit("OrderCreated", 1)
  /\ UNCHANGED <<blocks, effectVars, session, clearing, clientVars, overlap, bounds>>

\* Bulk, the events that are published automatically are not.
OwedTo(s) ==
  IF s \notin job.since \cap Wanted \/ (job.bulk /\ topic[s] = "TimestampSet") THEN 0
  ELSE EventsOf(job.logs, topic[s])

Commit ==
  /\ InTransaction /\ job.done = Len(job.logs)
  /\ blocks' = IF job.kind = "remove" THEN Front(blocks)
               ELSE Append(blocks, [logs |-> job.logs, time |-> job.time,
                                    stamp |-> job.stamp])
  /\ row' = job.row /\ job' = NoJob
  /\ NothingEmitted
  /\ UNCHANGED <<overrideTimestamps, blockHeadTimestamp, session, clearing, clientVars,
                 overlap, bounds>>

-----------------------------------------------------------------------------
(* Sessions                                                                 *)

\* createDbAndConnect, initializeNetworkInfo.  Its first write waits for the
\* transaction a previous session has open, not for that session's clear.
Start ==
  /\ session = "down" /\ Idle
  /\ session' = "bulk" /\ overlap' = (overlap \/ clearing)
  /\ IF row = NoTime THEN UNCHANGED overrideTimestamps
     ELSE SetOverrideTimestamp(overrideTimestamps, row)
  /\ UNCHANGED <<blocks, row, blockHeadTimestamp, clearing, job, clientVars, publishVars,
                 bounds>>

StartAugurListeners ==
  /\ session = "bulk" /\ Idle
  /\ session' = "live"
  /\ UNCHANGED <<blocks, effectVars, clearing, job, clientVars, publishVars, overlap,
                 bounds>>

\* _shutdown up to the await of db.destroy; connected sockets stay.
Shutdown ==
  /\ session # "down" /\ ~clearing /\ stops < MaxStops
  /\ session' = "down" /\ clearing' = TRUE /\ stops' = stops + 1
  /\ UNCHANGED <<blocks, effectVars, job, clientVars, publishVars, overlap,
                 made, removals>>

ClearOverrideTimestamp ==
  /\ clearing /\ (session = "down" => Idle)
  /\ clearing' = FALSE
  /\ overrideTimestamps' = <<>> /\ blockHeadTimestamp' = 0
  /\ UNCHANGED <<blocks, row, session, job, clientVars, publishVars, overlap, bounds>>

\* A bulk block that cannot be written ends its session, if that still runs.
BulkAborts ==
  /\ ~Idle /\ job.bulk /\ ~clearing /\ stops < MaxStops
  /\ job' = NoJob /\ NothingEmitted
  /\ session' = "down" /\ clearing' = TRUE /\ stops' = stops + 1
  /\ UNCHANGED <<blocks, effectVars, clientVars, overlap, made, removals>>

ProcessEnds ==
  /\ overrideTimestamps' = <<>> /\ blockHeadTimestamp' = 0
  /\ session' = "down" /\ clearing' = FALSE /\ job' = NoJob /\ NothingEmitted
  /\ socket' = [c \in Client |-> "none"]
  /\ handlers' = [c \in Client |-> [e \in Event |-> 0]]
  /\ listeners' = [c \in Client |-> {}] /\ wanted' = [c \in Client |-> {}]
  /\ UNCHANGED <<blocks, row, topic, overlap, made, removals>>

\* A removal that throws ends the process through _shutdownCallback.
LiveThrows ==
  /\ HasLog("TimestampSet") /\ job.kind = "remove" /\ RemovalThrows
  /\ ProcessEnds /\ UNCHANGED stops

\* So does any other failure of a live block, and a kill at any time.
Kill == stops < MaxStops /\ stops' = stops + 1 /\ ProcessEnds

-----------------------------------------------------------------------------
(* run-websocket-server.ts, subscriptions.ts                                *)

Connect(c) ==
  /\ session # "down" /\ socket[c] = "none"
  /\ socket' = [socket EXCEPT ![c] = "open"]
  /\ UNCHANGED <<handlers, listeners, topic, wanted>>

Subscribe(c, s, e) ==
  /\ socket[c] = "open" /\ topic[s] = None
  /\ topic' = [topic EXCEPT ![s] = e]
  /\ handlers' = [handlers EXCEPT ![c][e] = @ + 1]
  /\ listeners' = [listeners EXCEPT ![c] = @ \cup {s}]
  /\ wanted' = [wanted EXCEPT ![c] = @ \cup {s}]
  /\ UNCHANGED socket

\* A mutant: the parent's handler is not removed.
KeepsHandler(c, s) ==
  /\ socket[c] = "open" /\ topic[s] # None
  /\ wanted' = [wanted EXCEPT ![c] = @ \ {s}]
  /\ listeners' = [listeners EXCEPT ![c] = @ \ {s}]
  /\ UNCHANGED <<socket, topic, handlers>>

\* An id that is another client's, or was unsubscribed before, has no effect.
Unsubscribe(c, s) ==
  /\ socket[c] = "open" /\ topic[s] # None
  /\ wanted' = [wanted EXCEPT ![c] = @ \ {s}]
  /\ listeners' = [listeners EXCEPT ![c] = @ \ {s}]
  /\ handlers' = IF s \in listeners[c] THEN [handlers EXCEPT ![c][topic[s]] = @ - 1]
                 ELSE handlers
  /\ UNCHANGED <<socket, topic>>

Disconnect(c) ==
  /\ socket[c] = "open"
  /\ socket' = [socket EXCEPT ![c] = "closing"]
  /\ wanted' = [wanted EXCEPT ![c] = {}]
  /\ UNCHANGED <<handlers, listeners, topic>>

RemoveAllListeners(c) ==
  /\ socket[c] = "closing"
  /\ socket' = [socket EXCEPT ![c] = "none"]
  /\ handlers' = [handlers EXCEPT ![c] = [e \in Event |-> 0]]
  /\ listeners' = [listeners EXCEPT ![c] = {}]
  /\ UNCHANGED <<topic, wanted>>

ClientStep ==
  /\ \E c \in Client :
       \/ Connect(c) \/ Disconnect(c) \/ RemoveAllListeners(c)
       \/ \E s \in Subscription : Unsubscribe(c, s) \/ \E e \in Event : Subscribe(c, s, e)
  /\ UNCHANGED <<blocks, effectVars, session, clearing, job, publishVars, overlap,
                 bounds>>

Next ==
  \/ AddBlock \/ RemoveBlock \/ ProcessBlockByBlockDetails
  \/ TimestampSet \/ OrderCreated \/ Commit
  \/ Start \/ StartAugurListeners \/ Shutdown \/ ClearOverrideTimestamp
  \/ BulkAborts \/ LiveThrows \/ Kill \/ ClientStep
Spec == Init /\ [][Next]_vars

-----------------------------------------------------------------------------
(* Properties                                                               *)

\* What the first n logs set the time to, after what was set before them.
SetBy(logs, n, before) ==
  LET set[i \in 0..n] ==
        IF i = 0 THEN before
        ELSE IF logs[i].event = "TimestampSet" THEN Append(set[i - 1], logs[i].time)
        ELSE set[i - 1]
  IN  set[n]

\* What the first n blocks of a stack set the time to, and the newest of it.
SetThrough(stack, n) ==
  LET set[i \in 0..n] ==
        IF i = 0 THEN <<>> ELSE SetBy(stack[i].logs, Len(stack[i].logs), set[i - 1])
  IN  set[n]
NewestOf(times) == IF times = <<>> THEN NoTime ELSE Last(times)
Newest(n) == NewestOf(SetThrough(blocks, n))

\* The override a session works with is the newest TimestampSet of the blocks
\* followed, through removals, failed transactions, restarts of the session and
\* kills: the network_id row always is, and the stack whenever a session is
\* between two blocks.  So every blocks row carries the newest override of the
\* blocks before it, or the block's own time when there is none; and a removal
\* throws for one reason only, that the session knows no earlier override.
\* All of it unless a session began before the shutdown of its predecessor
\* cleared the stack they share (overlap): then none of it holds.
OverrideIsCurrent ==
  ~overlap =>
    /\ row = Newest(Len(blocks))
    /\ session # "down" /\ Idle => GetOverrideTimestamp = row
    /\ \A i \in 1..Len(blocks) :
         blocks[i].stamp = IF Newest(i - 1) # NoTime THEN Newest(i - 1) ELSE blocks[i].time
    /\ HasLog("TimestampSet") /\ job.kind = "remove" /\ RemovalThrows =>
         Len(overrideTimestamps) = 1

\* When a block commits, its client has been sent, for each subscription it
\* held from the block's first step to the commit, every event of the block;
\* nothing for one it has unsubscribed; and of each event as many copies as it
\* holds subscriptions to that event, since each of its handlers relays to all
\* of them.  What a transaction that is rolled back published is not taken back,
\* hence "at least".
SubscribersAreTold ==
  \A s \in Subscription :
    /\ copies[s] = due[s]
    /\ InTransaction /\ job.done = Len(job.logs) => copies[s] >= OwedTo(s)

=============================================================================
