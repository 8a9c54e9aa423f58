---------------------------- MODULE EffectsProofs ---------------------------
(***************************************************************************)
(* Proof that BlockEffects tells every subscriber what its block owes it,  *)
(* for any number of clients, subscriptions, blocks and restarts.          *)
(*                                                                         *)
(* A client's handlers of an event are as many as its subscriptions to it, *)
(* and what the client wants is what listens as long as its socket is      *)
(* open.  So an event reaches a subscription as often as the client holds  *)
(* subscriptions to the event, and at least once.                          *)
(*                                                                         *)
(* And proof that the override timestamp is that of the blocks followed.   *)
(***************************************************************************)
EXTENDS BlockEffects, FiniteSetTheorems, SequenceTheorems, WellFoundedInduction, TLAPS

LogRecord == {Created} \cup {SetTo(t) : t \in Override}
Time == Override \cup {NoTime}
BlockRow == [logs : Seq(LogRecord), time : Nat, stamp : Time \cup Nat]
Job == [kind : {"add", "remove"}, bulk : BOOLEAN, logs : Seq(LogRecord), done : Nat, row : Time,
        time : Nat, stamp : Time \cup Nat, since : SUBSET Subscription]

ClientTypes ==
  /\ socket \in [Client -> {"none", "open", "closing"}]
  /\ handlers \in [Client -> [Event -> Int]]
  /\ listeners \in [Client -> SUBSET Subscription] /\ wanted \in [Client -> SUBSET Subscription]
  /\ topic \in [Subscription -> Event \cup {None}]

BlockTypes ==
  /\ blocks \in Seq(BlockRow) /\ row \in Time /\ overrideTimestamps \in Seq(Time)
  /\ blockHeadTimestamp \in Nat /\ session \in {"down", "bulk", "live"} /\ clearing \in BOOLEAN
  /\ job \in {NoJob} \cup Job /\ overlap \in BOOLEAN
  /\ made \in Nat /\ removals \in Nat /\ stops \in Nat

Subscribed(c, e) == {s \in listeners[c] : topic[s] = e}

ClientInv ==
  /\ \A c \in Client :
       /\ socket[c] = "open" => wanted[c] = listeners[c]
       /\ socket[c] # "open" => wanted[c] = {}
       /\ socket[c] = "none" => listeners[c] = {}
       /\ IsFiniteSet(listeners[c])
       /\ \A s \in listeners[c] : topic[s] # None
       /\ \A e \in Event : handlers[c][e] = Cardinality(Subscribed(c, e))
  /\ \A c, d \in Client : \A s \in listeners[c] : s \in listeners[d] => c = d

CopiesInv == copies \in [Subscription -> Nat] /\ due = copies

\* How many of the first n logs are of event e.
Among(n, logs, e) == Cardinality({i \in 1..n : logs[i].event = e})

\* What the block has published of event e so far.
Told(e) == IF e = "OrderCreated" THEN Among(job.done, job.logs, e)
           ELSE IF job.bulk THEN 0 ELSE EventsOf(job.logs, e)

JobInv ==
  ~Idle => /\ job.done <= Len(job.logs)
           /\ \A s \in job.since : topic[s] # None
           /\ \A s \in job.since \cap Wanted, e \in Event : topic[s] = e => copies[s] >= Told(e)

IInv == ClientTypes /\ BlockTypes /\ ClientInv /\ CopiesInv /\ JobInv
-----------------------------------------------------------------------------
(* Counting. *)

LEMMA EventsCount ==
  ASSUME NEW logs, NEW n \in Nat, NEW e
  PROVE  Among(n, logs, e) \in Nat
<1>1. IsFiniteSet(1..n)
  BY FS_Interval
<1>2. {i \in 1..n : logs[i].event = e} \in SUBSET (1..n)
  OBVIOUS
<1>3. IsFiniteSet({i \in 1..n : logs[i].event = e})
  BY <1>1, <1>2, FS_Subset
<1> QED
  BY <1>3, FS_CardinalityType DEF Among

LEMMA OneMoreEvent ==
  ASSUME NEW logs, NEW n \in Nat, NEW e
  PROVE  Among(n + 1, logs, e) = Among(n, logs, e) + (IF logs[n + 1].event = e THEN 1 ELSE 0)
<1> DEFINE S == {i \in 1..n : logs[i].event = e}
           T == {i \in 1..n + 1 : logs[i].event = e}
<1>1. IsFiniteSet(S)
  <2>1. IsFiniteSet(1..n) /\ S \in SUBSET (1..n)
    BY FS_Interval
  <2> QED
    BY <2>1, FS_Subset
<1>2. Cardinality(S) \in Nat
  BY <1>1, FS_CardinalityType
<1>3. CASE logs[n + 1].event = e
  <2>1. T = S \cup {n + 1} /\ n + 1 \notin S
    BY <1>3
  <2>2. Cardinality(T) = Cardinality(S) + 1
    BY <1>1, <2>1, FS_AddElement
  <2> QED
    BY <1>3, <2>2 DEF Among
<1>4. CASE logs[n + 1].event # e
  <2>1. T = S
    BY <1>4
  <2> QED
    BY <1>2, <1>4, <2>1 DEF Among
<1> QED
  BY <1>3, <1>4

LEMMA Times == \A n, k \in Nat : n * k \in Nat /\ (k >= 1 => n * k >= n)
OBVIOUS

\* An event is relayed to a subscription as often as promised.
LEMMA RelayedIsPromised ==
  ASSUME ClientTypes, ClientInv, NEW s \in Subscription, NEW e \in Event
  PROVE  /\ Relayed(s, e) = Promised(s, e) /\ Relayed(s, e) \in Nat
         /\ s \in Wanted /\ topic[s] = e => Relayed(s, e) >= 1
<1>1. \A c \in Client : wanted[c] \subseteq listeners[c]
  BY DEF ClientInv
<1>2. CASE \E c \in Client : s \in listeners[c] /\ socket[c] = "open"
  <2>1. PICK c \in Client : s \in listeners[c] /\ socket[c] = "open"
    BY <1>2
  <2>2. wanted[c] = listeners[c] /\ IsFiniteSet(listeners[c])
    BY <2>1 DEF ClientInv
  <2>3. Holder(s, listeners) = {c}
    BY <2>1 DEF Holder, ClientInv
  <2>4. Holder(s, wanted) = {c}
    BY <2>1, <2>2, <2>3, <1>1 DEF Holder
  <2>5. handlers[c][e] = Cardinality(Subscribed(c, e))
    BY DEF ClientInv
  <2>6. Quantify(wanted[c], LAMBDA t : topic[t] = e) = Cardinality(Subscribed(c, e))
    BY <2>2 DEF Quantify, Subscribed
  <2>7. IsFiniteSet(Subscribed(c, e))
    <3>1. Subscribed(c, e) \in SUBSET listeners[c]
      BY DEF Subscribed
    <3> QED
      BY <2>2, <3>1, FS_Subset
  <2>8. Cardinality(Subscribed(c, e)) \in Nat
    BY <2>7, FS_CardinalityType
  <2>9. topic[s] = e => Cardinality(Subscribed(c, e)) >= 1
    <3>1. topic[s] = e => Subscribed(c, e) # {}
      BY <2>1 DEF Subscribed
    <3> QED
      BY <2>7, <2>8, <3>1, FS_EmptySet
  <2>10. /\ Heard(s, listeners, e) <=> topic[s] = e
         /\ Heard(s, wanted, e) <=> topic[s] = e
    BY <2>1, <2>3, <2>4 DEF Heard
  <2>11. Relayed(s, e) = IF topic[s] = e THEN Cardinality(Subscribed(c, e)) ELSE 0
    BY <2>3, <2>5, <2>10 DEF Relayed
  <2>12. Promised(s, e) = IF topic[s] = e THEN Cardinality(Subscribed(c, e)) ELSE 0
    BY <2>4, <2>6, <2>10 DEF Promised
  <2> QED
    BY <2>8, <2>9, <2>11, <2>12
<1>3. CASE ~\E c \in Client : s \in listeners[c] /\ socket[c] = "open"
  <2>1. ~Heard(s, listeners, e) /\ ~Heard(s, wanted, e)
    BY <1>1, <1>3 DEF Heard, Holder
  <2>2. s \notin Wanted
    BY <1>1, <1>3 DEF Wanted, ClientInv
  <2> QED
    BY <2>1, <2>2 DEF Relayed, Promised
<1> QED
  BY <1>2, <1>3

LEMMA EmitTells ==
  ASSUME ClientTypes, ClientInv, CopiesInv, NEW e \in Event, NEW n \in Nat, Emit(e, n)
  PROVE  /\ CopiesInv'
         /\ \A s \in Subscription :
              /\ copies'[s] >= copies[s]
              /\ s \in Wanted /\ topic[s] = e => copies'[s] >= copies[s] + n
<1>1. \A s \in Subscription :
        /\ Relayed(s, e) = Promised(s, e) /\ Relayed(s, e) \in Nat
        /\ s \in Wanted /\ topic[s] = e => Relayed(s, e) >= 1
  BY RelayedIsPromised
<1>2. \A s \in Subscription :
        /\ n * Relayed(s, e) \in Nat
        /\ s \in Wanted /\ topic[s] = e => n * Relayed(s, e) >= n
  BY <1>1, Times
<1>3. copies \in [Subscription -> Nat] /\ due = copies
  BY DEF CopiesInv
<1>4. /\ copies' = [s \in Subscription |-> copies[s] + n * Relayed(s, e)]
      /\ due' = copies'
  BY <1>1, <1>3, Zenon DEF Emit
<1>5. \A s \in Subscription : copies[s] \in Nat /\ copies'[s] = copies[s] + n * Relayed(s, e)
  BY <1>3, <1>4
<1>6. copies' \in [Subscription -> Nat]
  BY <1>2, <1>4, <1>5
<1> QED
  BY <1>2, <1>4, <1>5, <1>6 DEF CopiesInv

LEMMA NothingIsForgotten == NothingEmitted => CopiesInv'
BY DEF NothingEmitted, CopiesInv

LEMMA NobodyWantsUnused ==
  ASSUME ClientTypes, ClientInv, NEW s \in Wanted
  PROVE  s \in Subscription /\ topic[s] \in Event
<1>1. PICK c \in Client : s \in wanted[c]
  BY DEF Wanted
<1>2. s \in listeners[c]
  BY <1>1 DEF ClientInv
<1>3. s \in Subscription /\ topic[s] # None
  BY <1>1, <1>2 DEF ClientTypes, ClientInv
<1> QED
  BY <1>3 DEF ClientTypes
-----------------------------------------------------------------------------
(* Clients come and go. *)

LEMMA InitInv == EffectsAssumption /\ Init => IInv
<1> SUFFICES ASSUME EffectsAssumption, Init
             PROVE  IInv
  OBVIOUS
<1>1. ClientTypes
  BY DEF Init, ClientTypes
<1>2. BlockTypes
  <2>1. blocks \in Seq(BlockRow) /\ overrideTimestamps \in Seq(Time)
    BY DEF Init
  <2> QED
    BY <2>1 DEF Init, BlockTypes, Time
<1>3. ClientInv
  <2>1. \A c \in Client : \A e \in Event : Subscribed(c, e) = {}
    BY DEF Init, Subscribed
  <2> QED
    BY <2>1, FS_EmptySet DEF Init, ClientInv
<1>4. CopiesInv
  BY DEF Init, CopiesInv
<1>5. JobInv
  BY DEF Init, JobInv, Idle
<1> QED
  BY <1>1, <1>2, <1>3, <1>4, <1>5 DEF IInv

LEMMA ConnectStep ==
  ASSUME ClientTypes, ClientInv, NEW c \in Client, Connect(c)
  PROVE  ClientTypes' /\ ClientInv' /\ Wanted' = Wanted
<1>1. ClientTypes'
  BY DEF Connect, ClientTypes
<1>2. \A d \in Client, e \in Event : Subscribed(d, e)' = Subscribed(d, e)
  BY DEF Connect, Subscribed
<1>3. ClientInv'
  <2>1. /\ socket[c] = "none" /\ listeners' = listeners /\ wanted' = wanted /\ topic' = topic
        /\ handlers' = handlers
        /\ \A d \in Client : socket'[d] = IF d = c THEN "open" ELSE socket[d]
    BY DEF Connect, ClientTypes
  <2>2. wanted[c] = listeners[c]
    BY <2>1 DEF ClientInv
  <2>3. \A d \in Client :
          /\ socket'[d] = "open" => wanted'[d] = listeners'[d]
          /\ socket'[d] # "open" => wanted'[d] = {}
          /\ socket'[d] = "none" => listeners'[d] = {}
    BY <2>1, <2>2 DEF ClientInv
  <2>4. \A d \in Client : \A e \in Event : handlers'[d][e] = Cardinality(Subscribed(d, e)')
    BY <1>2, <2>1 DEF ClientInv
  <2> QED
    BY <2>1, <2>3, <2>4, Zenon DEF ClientInv
<1>4. Wanted' = Wanted
  BY DEF Connect, Wanted
<1> QED
  BY <1>1, <1>3, <1>4

LEMMA SubscribeStep ==
  ASSUME ClientTypes, ClientInv, NEW c \in Client, NEW s \in Subscription, NEW e \in Event,
         Subscribe(c, s, e)
  PROVE  /\ ClientTypes' /\ ClientInv' /\ Wanted' = Wanted \cup {s}
         /\ \A t \in Subscription : topic[t] # None => topic'[t] = topic[t]
<1>1. /\ socket[c] = "open" /\ topic[s] = None /\ socket' = socket
      /\ topic' = [topic EXCEPT ![s] = e]
      /\ listeners' = [listeners EXCEPT ![c] = @ \cup {s}]
      /\ wanted' = [wanted EXCEPT ![c] = @ \cup {s}]
  BY DEF Subscribe
<1>2. handlers' = [handlers EXCEPT ![c][e] = @ + 1]
  BY DEF Subscribe
<1>3. /\ listeners \in [Client -> SUBSET Subscription] /\ wanted \in [Client -> SUBSET Subscription]
      /\ topic \in [Subscription -> Event \cup {None}]
      /\ socket \in [Client -> {"none", "open", "closing"}]
  BY DEF ClientTypes
<1>4. handlers \in [Client -> [Event -> Int]]
  BY DEF ClientTypes
<1>5. /\ \A d \in Client : listeners'[d] = IF d = c THEN listeners[d] \cup {s} ELSE listeners[d]
      /\ \A d \in Client : wanted'[d] = IF d = c THEN wanted[d] \cup {s} ELSE wanted[d]
      /\ \A t \in Subscription : topic'[t] = IF t = s THEN e ELSE topic[t]
  BY <1>1, <1>3
<1>6. \A d \in Client, f \in Event :
        handlers'[d][f] = IF d = c /\ f = e THEN handlers[d][f] + 1 ELSE handlers[d][f]
  BY <1>2, <1>4
<1>7. /\ listeners' \in [Client -> SUBSET Subscription] /\ wanted' \in [Client -> SUBSET Subscription]
      /\ topic' \in [Subscription -> Event \cup {None}]
  BY <1>1, <1>3
<1>8. handlers' \in [Client -> [Event -> Int]]
  BY <1>2, <1>4
<1>9. \A d \in Client : s \notin listeners[d]
  BY <1>1 DEF ClientInv
<1>10. \A d \in Client, f \in Event :
         Subscribed(d, f)' = IF d = c /\ f = e THEN Subscribed(d, f) \cup {s} ELSE Subscribed(d, f)
  <2> TAKE d \in Client, f \in Event
  <2>1. \A t \in listeners[d] : t \in Subscription /\ t # s /\ topic'[t] = topic[t]
    BY <1>3, <1>5, <1>9
  <2> QED
    BY <1>5, <2>1 DEF Subscribed
<1>11. ASSUME NEW d \in Client
       PROVE  /\ IsFiniteSet(listeners'[d])
              /\ \A f \in Event : handlers'[d][f] = Cardinality(Subscribed(d, f)')
  <2>1. IsFiniteSet(listeners[d])
    BY DEF ClientInv
  <2>2. IsFiniteSet(listeners'[d])
    <3>1. IsFiniteSet(listeners[d] \cup {s})
      BY <2>1, FS_AddElement
    <3> QED
      BY <1>5, <2>1, <3>1
  <2>3. \A f \in Event : IsFiniteSet(Subscribed(d, f)) /\ s \notin Subscribed(d, f)
    <3>1. \A f \in Event : Subscribed(d, f) \in SUBSET listeners[d]
      BY DEF Subscribed
    <3> QED
      BY <1>9, <2>1, <3>1, FS_Subset
  <2>4. \A f \in Event : Cardinality(Subscribed(d, f) \cup {s}) = Cardinality(Subscribed(d, f)) + 1
    BY <2>3, FS_AddElement
  <2>5. \A f \in Event : handlers[d][f] = Cardinality(Subscribed(d, f))
    BY DEF ClientInv
  <2> QED
    BY <1>6, <1>10, <2>2, <2>4, <2>5
<1>12. \A d \in Client : \A t \in listeners'[d] : topic'[t] # None
  <2> TAKE d \in Client
  <2> TAKE t \in listeners'[d]
  <2>1. CASE t = s
    BY <1>3, <1>5, <2>1 DEF Event, None
  <2>2. CASE t # s
    <3>1. t \in listeners[d] /\ t \in Subscription
      BY <1>3, <1>5, <2>2
    <3> QED
      BY <1>5, <2>2, <3>1 DEF ClientInv
  <2> QED
    BY <2>1, <2>2
<1>13. \A d, f \in Client : \A t \in listeners'[d] : t \in listeners'[f] => d = f
  <2>1. \A d \in Client : \A t \in listeners'[d] : t # s => t \in listeners[d]
    BY <1>5
  <2>2. \A d \in Client : s \in listeners'[d] => d = c
    BY <1>5, <1>9
  <2>3. \A d, f \in Client : \A t \in listeners[d] : t \in listeners[f] => d = f
    BY DEF ClientInv
  <2> QED
    BY <2>1, <2>2, <2>3
<1>14. \A d \in Client :
         /\ socket'[d] = "open" => wanted'[d] = listeners'[d]
         /\ socket'[d] # "open" => wanted'[d] = {}
         /\ socket'[d] = "none" => listeners'[d] = {}
  BY <1>1, <1>5, SMTT(20) DEF ClientInv
<1>15. ClientInv'
  BY <1>11, <1>12, <1>13, <1>14, Zenon DEF ClientInv
<1>16. Wanted' = Wanted \cup {s}
  <2>1. \A t : t \in Wanted' <=> \E d \in Client : t \in wanted'[d]
    BY DEF Wanted
  <2>2. \A t : t \in Wanted <=> \E d \in Client : t \in wanted[d]
    BY DEF Wanted
  <2>3. \A t : (\E d \in Client : t \in wanted'[d]) <=> t = s \/ \E d \in Client : t \in wanted[d]
    BY <1>5
  <2> QED
    BY <2>1, <2>2, <2>3
<1>17. ClientTypes'
  BY <1>1, <1>3, <1>7, <1>8 DEF ClientTypes
<1> QED
  BY <1>1, <1>5, <1>15, <1>16, <1>17

LEMMA UnsubscribeStep ==
  ASSUME ClientTypes, ClientInv, NEW c \in Client, NEW s \in Subscription, Unsubscribe(c, s)
  PROVE  ClientTypes' /\ ClientInv' /\ Wanted' \subseteq Wanted /\ topic' = topic
<1>1. /\ socket[c] = "open" /\ topic[s] # None /\ socket' = socket /\ topic' = topic
      /\ listeners' = [listeners EXCEPT ![c] = @ \ {s}]
      /\ wanted' = [wanted EXCEPT ![c] = @ \ {s}]
  BY DEF Unsubscribe
<1>2. handlers' = IF s \in listeners[c] THEN [handlers EXCEPT ![c][topic[s]] = @ - 1] ELSE handlers
  BY DEF Unsubscribe
<1>3. /\ listeners \in [Client -> SUBSET Subscription] /\ wanted \in [Client -> SUBSET Subscription]
      /\ topic[s] \in Event
  BY <1>1 DEF ClientTypes
<1>4. handlers \in [Client -> [Event -> Int]]
  BY DEF ClientTypes
<1>5. /\ \A d \in Client : listeners'[d] = IF d = c THEN listeners[d] \ {s} ELSE listeners[d]
      /\ \A d \in Client : wanted'[d] = IF d = c THEN wanted[d] \ {s} ELSE wanted[d]
  BY <1>1, <1>3
<1>6. \A d \in Client, f \in Event :
        handlers'[d][f] = IF d = c /\ f = topic[s] /\ s \in listeners[c]
                          THEN handlers[d][f] - 1 ELSE handlers[d][f]
  <2>1. CASE s \in listeners[c]
    <3>1. handlers' = [handlers EXCEPT ![c][topic[s]] = @ - 1]
      BY <1>2, <2>1
    <3> QED
      BY <1>3, <1>4, <2>1, <3>1
  <2>2. CASE s \notin listeners[c]
    BY <1>2, <2>2
  <2> QED
    BY <2>1, <2>2
<1>7. /\ listeners' \in [Client -> SUBSET Subscription] /\ wanted' \in [Client -> SUBSET Subscription]
  BY <1>1, <1>3
<1>8. handlers' \in [Client -> [Event -> Int]]
  <2>1. [handlers EXCEPT ![c][topic[s]] = @ - 1] \in [Client -> [Event -> Int]]
    BY <1>3, <1>4
  <2> QED
    BY <1>2, <1>4, <2>1
<1>9. \A d \in Client, f \in Event :
        Subscribed(d, f)' = IF d = c /\ f = topic[s] THEN Subscribed(d, f) \ {s} ELSE Subscribed(d, f)
  BY <1>1, <1>5 DEF Subscribed
<1>10. ASSUME NEW d \in Client
       PROVE  /\ IsFiniteSet(listeners'[d])
              /\ \A f \in Event : handlers'[d][f] = Cardinality(Subscribed(d, f)')
  <2>1. IsFiniteSet(listeners[d])
    BY DEF ClientInv
  <2>2. IsFiniteSet(listeners'[d])
    <3>1. listeners'[d] \in SUBSET listeners[d]
      BY <1>5
    <3> QED
      BY <2>1, <3>1, FS_Subset
  <2>3. ASSUME NEW f \in Event
        PROVE  handlers'[d][f] = Cardinality(Subscribed(d, f)')
    <3>1. Subscribed(d, f) \in SUBSET listeners[d]
      BY DEF Subscribed
    <3>2. IsFiniteSet(Subscribed(d, f))
      BY <2>1, <3>1, FS_Subset
    <3>3. handlers[d][f] = Cardinality(Subscribed(d, f))
      BY DEF ClientInv
    <3>4. CASE d = c /\ f = topic[s] /\ s \in listeners[c]
      <4>1. s \in Subscribed(d, f)
        BY <3>4 DEF Subscribed
      <4>2. Cardinality(Subscribed(d, f) \ {s}) = Cardinality(Subscribed(d, f)) - 1
        BY <3>2, <4>1, FS_RemoveElement
      <4> QED
        BY <1>6, <1>9, <3>3, <3>4, <4>2
    <3>5. CASE ~(d = c /\ f = topic[s] /\ s \in listeners[c])
      <4>1. Subscribed(d, f)' = Subscribed(d, f)
        BY <1>9, <3>5 DEF Subscribed
      <4>2. handlers'[d][f] = handlers[d][f]
        BY <1>6, <3>5
      <4> QED
        BY <3>3, <4>1, <4>2
    <3> QED
      BY <3>4, <3>5
  <2> QED
    BY <2>2, <2>3
<1>11. /\ \A d \in Client : \A t \in listeners'[d] : topic'[t] # None
       /\ \A d, f \in Client : \A t \in listeners'[d] : t \in listeners'[f] => d = f
  BY <1>1, <1>5 DEF ClientInv
<1>12. \A d \in Client :
         /\ socket'[d] = "open" => wanted'[d] = listeners'[d]
         /\ socket'[d] # "open" => wanted'[d] = {}
         /\ socket'[d] = "none" => listeners'[d] = {}
  BY <1>1, <1>5 DEF ClientInv
<1>13. ClientInv'
  BY <1>10, <1>11, <1>12, Zenon DEF ClientInv
<1>14. Wanted' \subseteq Wanted
  BY <1>5 DEF Wanted
<1>15. ClientTypes'
  BY <1>1, <1>7, <1>8 DEF ClientTypes
<1> QED
  BY <1>1, <1>13, <1>14, <1>15

LEMMA DisconnectStep ==
  ASSUME ClientTypes, ClientInv, NEW c \in Client, Disconnect(c)
  PROVE  ClientTypes' /\ ClientInv' /\ Wanted' \subseteq Wanted /\ topic' = topic
<1>1. /\ listeners' = listeners /\ topic' = topic /\ handlers' = handlers
      /\ socket' = [socket EXCEPT ![c] = "closing"] /\ wanted' = [wanted EXCEPT ![c] = {}]
  BY DEF Disconnect
<1>2. ClientTypes'
  BY <1>1 DEF ClientTypes
<1>3. /\ \A d \in Client : socket'[d] = IF d = c THEN "closing" ELSE socket[d]
      /\ \A d \in Client : wanted'[d] = IF d = c THEN {} ELSE wanted[d]
  BY <1>1 DEF ClientTypes
<1>4. \A d \in Client :
        /\ socket'[d] = "open" => wanted'[d] = listeners'[d]
        /\ socket'[d] # "open" => wanted'[d] = {}
        /\ socket'[d] = "none" => listeners'[d] = {}
  BY <1>1, <1>3 DEF ClientInv
<1>5. \A d \in Client : \A e \in Event : handlers'[d][e] = Cardinality(Subscribed(d, e)')
  <2>1. \A d \in Client : \A e \in Event : Subscribed(d, e)' = Subscribed(d, e)
    BY <1>1 DEF Subscribed
  <2> QED
    BY <1>1, <2>1 DEF ClientInv
<1>6. ClientInv'
  BY <1>1, <1>4, <1>5, Zenon DEF ClientInv
<1>7. Wanted' \subseteq Wanted
  BY <1>3 DEF Wanted
<1> QED
  BY <1>1, <1>2, <1>6, <1>7

LEMMA RemoveAllListenersStep ==
  ASSUME ClientTypes, ClientInv, NEW c \in Client, RemoveAllListeners(c)
  PROVE  ClientTypes' /\ ClientInv' /\ Wanted' \subseteq Wanted /\ topic' = topic
<1>1. /\ socket[c] = "closing" /\ wanted' = wanted /\ topic' = topic
      /\ socket' = [socket EXCEPT ![c] = "none"] /\ listeners' = [listeners EXCEPT ![c] = {}]
      /\ handlers' = [handlers EXCEPT ![c] = [e \in Event |-> 0]]
  BY DEF RemoveAllListeners
<1>2. ClientTypes'
  BY <1>1 DEF ClientTypes
<1>3. /\ \A d \in Client : socket'[d] = IF d = c THEN "none" ELSE socket[d]
      /\ \A d \in Client : listeners'[d] = IF d = c THEN {} ELSE listeners[d]
      /\ \A d \in Client : handlers'[d] = IF d = c THEN [e \in Event |-> 0] ELSE handlers[d]
  BY <1>1 DEF ClientTypes
<1>4. \A d \in Client :
        /\ socket'[d] = "open" => wanted'[d] = listeners'[d]
        /\ socket'[d] # "open" => wanted'[d] = {}
        /\ socket'[d] = "none" => listeners'[d] = {}
  BY <1>1, <1>3 DEF ClientInv
<1>5. ASSUME NEW d \in Client
      PROVE  /\ IsFiniteSet(listeners'[d])
             /\ \A e \in Event : handlers'[d][e] = Cardinality(Subscribed(d, e)')
  <2>1. CASE d = c
    <3>1. listeners'[d] = {} /\ \A e \in Event : handlers'[d][e] = 0
      BY <1>3, <2>1
    <3>2. \A e \in Event : Subscribed(d, e)' = {}
      BY <3>1 DEF Subscribed
    <3> QED
      BY <3>1, <3>2, FS_EmptySet
  <2>2. CASE d # c
    <3>1. \A e \in Event : Subscribed(d, e)' = Subscribed(d, e)
      BY <1>1, <1>3, <2>2 DEF Subscribed
    <3> QED
      BY <1>3, <2>2, <3>1 DEF ClientInv
  <2> QED
    BY <2>1, <2>2
<1>6. /\ \A d \in Client : \A s \in listeners'[d] : topic'[s] # None
      /\ \A d, f \in Client : \A s \in listeners'[d] : s \in listeners'[f] => d = f
  BY <1>1, <1>3 DEF ClientInv
<1>7. ClientInv'
  BY <1>4, <1>5, <1>6, Zenon DEF ClientInv
<1>8. Wanted' = Wanted
  BY <1>1 DEF Wanted
<1> QED
  BY <1>1, <1>2, <1>7, <1>8

LEMMA ClientStepKeeps == IInv /\ ClientStep => IInv'
<1> SUFFICES ASSUME IInv, ClientStep
             PROVE  IInv'
  OBVIOUS
<1>1. ClientTypes /\ BlockTypes /\ ClientInv /\ CopiesInv /\ JobInv
  BY DEF IInv
<1>2. UNCHANGED <<blocks, effectVars, session, clearing, job, publishVars, overlap, bounds>>
  BY DEF ClientStep
<1>3. PICK c \in Client :
        \/ Connect(c) \/ Disconnect(c) \/ RemoveAllListeners(c)
        \/ \E s \in Subscription : Unsubscribe(c, s) \/ \E e \in Event : Subscribe(c, s, e)
  BY DEF ClientStep
<1>4. /\ ClientTypes' /\ ClientInv'
      /\ \A s \in Subscription : topic[s] # None => topic'[s] = topic[s]
      /\ \A s \in Wanted' : s \in Wanted \/ topic[s] = None
  <2>1. CASE Connect(c)
    <3>1. topic' = topic
      BY <2>1 DEF Connect
    <3> QED
      BY <1>1, <2>1, <3>1, ConnectStep
  <2>2. CASE Disconnect(c)
    BY <1>1, <2>2, DisconnectStep
  <2>3. CASE RemoveAllListeners(c)
    BY <1>1, <2>3, RemoveAllListenersStep
  <2>4. CASE \E s \in Subscription : Unsubscribe(c, s)
    BY <1>1, <2>4, UnsubscribeStep
  <2>5. CASE \E s \in Subscription : \E e \in Event : Subscribe(c, s, e)
    <3>1. PICK s \in Subscription, e \in Event : Subscribe(c, s, e)
      BY <2>5
    <3>2. topic[s] = None
      BY <3>1 DEF Subscribe
    <3> QED
      BY <1>1, <3>1, <3>2, SubscribeStep
  <2> QED
    BY <1>3, <2>1, <2>2, <2>3, <2>4, <2>5
<1>5. BlockTypes' /\ CopiesInv'
  BY <1>1, <1>2 DEF BlockTypes, CopiesInv, effectVars, publishVars, bounds
<1>6. JobInv'
  <2>1. CASE Idle
    BY <1>2, <2>1 DEF JobInv, Idle
  <2>2. CASE ~Idle
    <3>1. /\ job.done <= Len(job.logs)
          /\ \A s \in job.since : topic[s] # None
          /\ \A s \in job.since \cap Wanted, e \in Event : topic[s] = e => copies[s] >= Told(e)
      BY <1>1, <2>2 DEF JobInv
    <3>2. job \in Job
      BY <1>1, <2>2 DEF BlockTypes, Idle
    <3>3. job.since \subseteq Subscription
      BY <3>2 DEF Job
    <3>4. job' = job /\ copies' = copies
      BY <1>2 DEF publishVars
    <3>5. \A e : Told(e)' = Told(e)
      BY <3>4 DEF Told, EventsOf, Quantify, Among
    <3>6. \A s \in job.since : topic'[s] = topic[s]
      BY <1>4, <3>1, <3>3
    <3>7. \A s \in job.since \cap Wanted' : s \in Wanted
      BY <1>4, <3>1
    <3>8. \A s \in job.since \cap Wanted', e \in Event : topic'[s] = e => copies'[s] >= Told(e)'
      BY <3>1, <3>4, <3>5, <3>6, <3>7
    <3> QED
      BY <3>1, <3>4, <3>6, <3>8 DEF JobInv
  <2> QED
    BY <2>1, <2>2
<1> QED
  BY <1>4, <1>5, <1>6 DEF IInv
-----------------------------------------------------------------------------
(* Blocks. *)

LEMMA SameClients ==
  ASSUME ClientTypes, ClientInv, UNCHANGED clientVars
  PROVE  /\ ClientTypes' /\ ClientInv' /\ Wanted' = Wanted /\ topic' = topic
         /\ \A s \in Wanted : s \in Subscription /\ topic[s] \in Event
<1>1. /\ socket' = socket /\ handlers' = handlers /\ listeners' = listeners
      /\ topic' = topic /\ wanted' = wanted
  BY DEF clientVars
<1>2. \A c \in Client, e \in Event : Subscribed(c, e)' = Subscribed(c, e)
  BY <1>1 DEF Subscribed
<1>3. ClientTypes' /\ Wanted' = Wanted
  BY <1>1 DEF ClientTypes, Wanted
<1>4. \A c \in Client, e \in Event : handlers'[c][e] = Cardinality(Subscribed(c, e)')
  BY <1>1, <1>2 DEF ClientInv
<1>5. ClientInv'
  BY <1>1, <1>4 DEF ClientInv
<1>6. \A s \in Wanted : s \in Subscription /\ topic[s] \in Event
  BY NobodyWantsUnused
<1> QED
  BY <1>1, <1>3, <1>5, <1>6

LEMMA EventsOfCount ==
  ASSUME NEW logs \in Seq(LogRecord), NEW e
  PROVE  EventsOf(logs, e) = Among(Len(logs), logs, e) /\ EventsOf(logs, e) \in Nat
<1>1. DOMAIN logs = 1..Len(logs) /\ Len(logs) \in Nat
  OBVIOUS
<1>2. EventsOf(logs, e) = Among(Len(logs), logs, e)
  BY <1>1 DEF EventsOf, Quantify, Among
<1> QED
  BY <1>1, <1>2, EventsCount

LEMMA NothingToldYet == ASSUME NEW logs, NEW e
                        PROVE  Among(0, logs, e) = 0
<1>1. {i \in 1..0 : logs[i].event = e} = {}
  OBVIOUS
<1> QED
  BY <1>1, FS_EmptySet DEF Among

LEMMA BeginStep ==
  ASSUME ClientTypes, ClientInv, CopiesInv, row \in Time, session \in {"bulk", "live"},
         NEW kind \in {"add", "remove"}, NEW logs \in Seq(LogRecord), NEW time \in Nat,
         Begin(kind, logs, time), UNCHANGED clientVars
  PROVE  job' \in Job /\ CopiesInv' /\ JobInv'
<1>1. job' = [kind |-> kind, bulk |-> session = "bulk", logs |-> logs, done |-> 0, row |-> row,
              time |-> time, stamp |-> NoTime, since |-> Wanted]
  BY DEF Begin
<1>2. /\ topic' = topic /\ Wanted' = Wanted
      /\ \A s \in Wanted : s \in Subscription /\ topic[s] \in Event
  BY SameClients
<1>3. job' \in Job
  <2>1. Wanted \in SUBSET Subscription /\ NoTime \in Time \cup Nat /\ 0 \in Nat
    BY <1>2 DEF Time
  <2>2. (session = "bulk") \in BOOLEAN
    OBVIOUS
  <2> QED
    BY <1>1, <2>1, <2>2 DEF Job
<1>4. job'.done = 0 /\ job'.logs = logs /\ job'.since = Wanted /\ job'.bulk = (session = "bulk")
  BY <1>1
<1>5. /\ CopiesInv'
      /\ \A s \in Wanted : topic[s] = "TimestampSet" /\ session = "live" =>
                             copies'[s] >= EventsOf(logs, "TimestampSet")
  <2>1. CASE session = "live"
    <3>1. Emit("TimestampSet", EventsOf(logs, "TimestampSet"))
      BY <2>1 DEF Begin
    <3>2. EventsOf(logs, "TimestampSet") \in Nat /\ "TimestampSet" \in Event
      BY EventsOfCount DEF Event
    <3>3. /\ CopiesInv'
          /\ \A s \in Subscription : s \in Wanted /\ topic[s] = "TimestampSet" =>
               copies'[s] >= copies[s] + EventsOf(logs, "TimestampSet")
      BY <3>1, <3>2, EmitTells
    <3>4. \A s \in Subscription : copies[s] \in Nat /\ copies'[s] \in Nat
      BY <3>3 DEF CopiesInv
    <3> QED
      BY <1>2, <3>2, <3>3, <3>4
  <2>2. CASE session # "live"
    <3>1. copies' = copies /\ due' = due
      BY <2>2 DEF Begin, publishVars
    <3> QED
      BY <2>2, <3>1 DEF CopiesInv
  <2> QED
    BY <2>1, <2>2
<1>6. \A s \in Wanted : copies'[s] \in Nat
  BY <1>2, <1>5 DEF CopiesInv
<1>7. /\ Told("OrderCreated")' = 0
      /\ Told("TimestampSet")' = IF session = "bulk" THEN 0 ELSE EventsOf(logs, "TimestampSet")
  <2>1. Told("OrderCreated")' = Among(0, logs, "OrderCreated")
    BY <1>4 DEF Told, Among
  <2>2. Told("OrderCreated")' = 0
    BY <2>1, NothingToldYet
  <2> QED
    BY <1>4, <2>2 DEF Told, EventsOf, Quantify
<1>8. \A s \in job'.since \cap Wanted', e \in Event : topic'[s] = e => copies'[s] >= Told(e)'
  <2> TAKE s \in job'.since \cap Wanted', e \in Event
  <2>1. s \in Wanted /\ copies'[s] \in Nat
    BY <1>2, <1>6
  <2>2. CASE e = "OrderCreated"
    BY <1>7, <2>1, <2>2
  <2>3. CASE e = "TimestampSet" /\ session = "bulk"
    BY <1>7, <2>1, <2>3
  <2>4. CASE e = "TimestampSet" /\ session = "live"
    BY <1>2, <1>5, <1>7, <2>1, <2>4
  <2> QED
    BY <2>2, <2>3, <2>4 DEF Event
<1>9. \A s \in job'.since : topic'[s] # None
  BY <1>2, <1>4 DEF Event, None
<1>10. job'.done <= Len(job'.logs)
  BY <1>4
<1> QED
  BY <1>3, <1>5, <1>8, <1>9, <1>10 DEF JobInv

LEMMA ReverseKind ==
  ASSUME NEW logs \in Seq(LogRecord)
  PROVE  Reverse(logs) \in Seq(LogRecord)
<1>1. Len(logs) \in Nat /\ \A i \in 1..Len(logs) : logs[(Len(logs) - i) + 1] \in LogRecord
  OBVIOUS
<1> QED
  BY <1>1 DEF Reverse

LEMMA AddBlockStep == EffectsAssumption /\ IInv /\ AddBlock => IInv'
<1> SUFFICES ASSUME EffectsAssumption, IInv, AddBlock
             PROVE  IInv'
  OBVIOUS
<1>1. ClientTypes /\ BlockTypes /\ ClientInv /\ CopiesInv
  BY DEF IInv
<1>2. /\ session # "down" /\ made' = made + 1
      /\ UNCHANGED <<blocks, effectVars, session, clearing, clientVars, overlap, removals, stops>>
  BY DEF AddBlock
<1>3. PICK logs \in BlockLogs : Begin("add", logs, made + 1)
  BY DEF AddBlock
<1>4. logs \in Seq(LogRecord)
  BY DEF EffectsAssumption, LogRecord
<1>5. row \in Time /\ session \in {"bulk", "live"} /\ made + 1 \in Nat
  BY <1>1, <1>2 DEF BlockTypes
<1>6. job' \in Job /\ CopiesInv' /\ JobInv'
  BY <1>1, <1>2, <1>3, <1>4, <1>5, BeginStep
<1>7. ClientTypes' /\ ClientInv'
  BY <1>1, <1>2, SameClients
<1>8. BlockTypes'
  BY <1>1, <1>2, <1>5, <1>6 DEF BlockTypes, effectVars
<1> QED
  BY <1>6, <1>7, <1>8 DEF IInv

LEMMA RemoveBlockStep == IInv /\ RemoveBlock => IInv'
<1> SUFFICES ASSUME IInv, RemoveBlock
             PROVE  IInv'
  OBVIOUS
<1>1. ClientTypes /\ BlockTypes /\ ClientInv /\ CopiesInv
  BY DEF IInv
<1>2. /\ session = "live" /\ blocks # <<>> /\ removals' = removals + 1
      /\ Begin("remove", Reverse(Last(blocks).logs), Last(blocks).time)
      /\ UNCHANGED <<blocks, effectVars, session, clearing, clientVars, overlap, made, stops>>
  BY DEF RemoveBlock
<1>3. Last(blocks) \in BlockRow
  <2>1. blocks \in Seq(BlockRow)
    BY <1>1 DEF BlockTypes
  <2>2. Len(blocks) \in Nat /\ Len(blocks) # 0
    BY <1>2, <2>1
  <2> QED
    BY <2>1, <2>2 DEF Last
<1>4. Last(blocks).logs \in Seq(LogRecord) /\ Last(blocks).time \in Nat
  BY <1>3 DEF BlockRow
<1>5. Reverse(Last(blocks).logs) \in Seq(LogRecord)
  BY <1>4, ReverseKind
<1>6. row \in Time
  BY <1>1 DEF BlockTypes
<1>7. job' \in Job /\ CopiesInv' /\ JobInv'
  BY <1>1, <1>2, <1>4, <1>5, <1>6, BeginStep
<1>8. ClientTypes' /\ ClientInv'
  BY <1>1, <1>2, SameClients
<1>9. BlockTypes'
  BY <1>1, <1>2, <1>7 DEF BlockTypes, effectVars
<1> QED
  BY <1>7, <1>8, <1>9 DEF IInv

LEMMA StaysTold ==
  ASSUME ClientTypes, ClientInv, CopiesInv, JobInv, ~Idle, UNCHANGED <<clientVars, publishVars>>,
         job'.since = job.since, job'.done <= Len(job'.logs),
         \A e \in Event : Told(e)' = Told(e)
  PROVE  CopiesInv' /\ JobInv'
<1>1. copies' = copies /\ due' = due
  BY DEF publishVars
<1>2. topic' = topic /\ Wanted' = Wanted
  BY SameClients
<1>3. /\ \A s \in job.since : topic[s] # None
      /\ \A s \in job.since \cap Wanted, e \in Event : topic[s] = e => copies[s] >= Told(e)
  BY DEF JobInv
<1>4. \A s \in job'.since \cap Wanted', e \in Event : topic'[s] = e => copies'[s] >= Told(e)'
  BY <1>1, <1>2, <1>3
<1> QED
  BY <1>1, <1>2, <1>3, <1>4 DEF JobInv, CopiesInv

LEMMA ProcessBlockStep == IInv /\ ProcessBlockByBlockDetails => IInv'
<1> SUFFICES ASSUME IInv, ProcessBlockByBlockDetails
             PROVE  IInv'
  OBVIOUS
<1>1. ClientTypes /\ BlockTypes /\ ClientInv /\ CopiesInv /\ JobInv
  BY DEF IInv
<1>2. /\ ~Idle /\ blockHeadTimestamp' = job.time /\ job' = [job EXCEPT !.stamp = TimeAt(job.time)]
      /\ UNCHANGED <<blocks, row, overrideTimestamps, session, clearing, clientVars, publishVars,
                     overlap, bounds>>
  BY DEF ProcessBlockByBlockDetails
<1>3. job \in Job
  BY <1>1, <1>2 DEF BlockTypes, Idle
<1>4. TimeAt(job.time) \in Time \cup Nat
  <2>1. job.time \in Nat
    BY <1>3 DEF Job
  <2>2. overrideTimestamps # <<>> => Last(overrideTimestamps) \in Time
    <3>1. overrideTimestamps \in Seq(Time)
      BY <1>1 DEF BlockTypes
    <3>2. overrideTimestamps # <<>> => Len(overrideTimestamps) \in 1..Len(overrideTimestamps)
      BY <3>1
    <3> QED
      BY <3>1, <3>2 DEF Last
  <2> QED
    BY <2>1, <2>2 DEF TimeAt, GetOverrideTimestamp
<1>5. job' \in Job
  BY <1>2, <1>3, <1>4 DEF Job
<1>6. /\ job'.since = job.since /\ job'.done = job.done /\ job'.logs = job.logs
      /\ job'.bulk = job.bulk
  BY <1>2, <1>3 DEF Job
<1>7. CopiesInv' /\ JobInv'
  <2>1. \A e \in Event : Told(e)' = Told(e)
    BY <1>6 DEF Told, EventsOf, Quantify, Among
  <2>2. job'.done <= Len(job'.logs)
    BY <1>1, <1>2, <1>6 DEF JobInv
  <2> QED
    BY <1>1, <1>2, <1>6, <2>1, <2>2, StaysTold
<1>8. ClientTypes' /\ ClientInv'
  BY <1>1, <1>2, SameClients
<1>9. BlockTypes'
  <2>1. job.time \in Nat
    BY <1>3 DEF Job
  <2> QED
    BY <1>1, <1>2, <1>5, <2>1 DEF BlockTypes, bounds
<1> QED
  BY <1>7, <1>8, <1>9 DEF IInv

\* The log at hand, and how far the block is with it done.
LEMMA NextLogDone ==
  ASSUME job \in Job, NEW e, HasLog(e)
  PROVE  /\ job.done + 1 \in Nat /\ job.done + 1 <= Len(job.logs)
         /\ NextLog.event = e /\ NextLog.time \in Time /\ ~Idle
         /\ \A f : Among(job.done + 1, job.logs, f) =
                     Among(job.done, job.logs, f) + (IF f = e THEN 1 ELSE 0)
<1>1. job.done \in Nat /\ job.logs \in Seq(LogRecord)
  BY DEF Job
<1>2. job.done < Len(job.logs) /\ NextLog.event = e /\ ~Idle
  BY DEF HasLog, InTransaction
<1>3. job.done + 1 \in 1..Len(job.logs)
  BY <1>1, <1>2
<1>4. NextLog \in LogRecord
  BY <1>1, <1>3 DEF NextLog
<1>5. NextLog.time \in Time
  BY <1>4 DEF LogRecord, Time, Created, SetTo
<1>6. \A f : Among(job.done + 1, job.logs, f) =
               Among(job.done, job.logs, f) + (IF NextLog.event = f THEN 1 ELSE 0)
  BY <1>1, OneMoreEvent DEF NextLog
<1> QED
  BY <1>1, <1>2, <1>3, <1>5, <1>6

LEMMA TimestampSetStep == IInv /\ TimestampSet => IInv'
<1> SUFFICES ASSUME IInv, TimestampSet
             PROVE  IInv'
  OBVIOUS
<1>1. ClientTypes /\ BlockTypes /\ ClientInv /\ CopiesInv /\ JobInv
  BY DEF IInv
<1>2. /\ HasLog("TimestampSet")
      /\ UNCHANGED <<blocks, row, blockHeadTimestamp, session, clearing, clientVars, publishVars,
                     overlap, bounds>>
  BY DEF TimestampSet
<1>3. job \in Job
  BY <1>1, <1>2 DEF BlockTypes, HasLog, InTransaction, Idle
<1>4. /\ job.done + 1 \in Nat /\ job.done + 1 <= Len(job.logs)
      /\ NextLog.event = "TimestampSet" /\ NextLog.time \in Time /\ ~Idle
      /\ \A f : Among(job.done + 1, job.logs, f) =
                  Among(job.done, job.logs, f) + (IF f = "TimestampSet" THEN 1 ELSE 0)
  BY <1>2, <1>3, NextLogDone
<1>5. \E t \in Time : /\ overrideTimestamps' \in Seq(Time)
                      /\ job' = [job EXCEPT !.done = @ + 1, !.row = t]
  <2>1. overrideTimestamps \in Seq(Time)
    BY <1>1 DEF BlockTypes
  <2>2. CASE job.kind = "add"
    <3>1. /\ overrideTimestamps' = Append(overrideTimestamps, NextLog.time)
          /\ job' = [job EXCEPT !.done = @ + 1, !.row = NextLog.time]
      BY <2>2 DEF TimestampSet, SetOverrideTimestamp
    <3>2. PICK u \in Time : u = NextLog.time
      BY <1>4
    <3>3. Append(overrideTimestamps, u) \in Seq(Time)
      BY <2>1
    <3> QED
      BY <3>1, <3>2, <3>3
  <2>3. CASE job.kind # "add"
    <3>1. /\ ~RemovalThrows /\ overrideTimestamps' = Front(overrideTimestamps)
          /\ job' = [job EXCEPT !.done = @ + 1, !.row = Last(Front(overrideTimestamps))]
      BY <2>3 DEF TimestampSet
    <3>2. PICK n \in Nat : n = Len(overrideTimestamps)
      BY <2>1
    <3>3. n >= 2
      BY <3>1, <3>2 DEF RemovalThrows
    <3>4. /\ n - 1 \in Nat /\ n - 1 >= 1
          /\ \A i \in 1..n - 1 : i \in 1..Len(overrideTimestamps)
      BY <3>2, <3>3
    <3>5. Front(overrideTimestamps) = SubSeq(overrideTimestamps, 1, n - 1)
      BY <3>2 DEF Front
    <3>6. \A i \in 1..n - 1 : overrideTimestamps[i] \in Time
      BY <2>1, <3>4
    <3>7. /\ Front(overrideTimestamps) \in Seq(Time)
          /\ Len(Front(overrideTimestamps)) = n - 1
      BY <2>1, <3>2, <3>4, <3>5, <3>6
    <3>8. Last(Front(overrideTimestamps)) \in Time
      <4>1. n - 1 \in 1..Len(Front(overrideTimestamps))
        BY <3>4, <3>7
      <4> QED
        BY <3>7, <4>1 DEF Last
    <3> QED
      BY <3>1, <3>7, <3>8
  <2> QED
    BY <2>2, <2>3
<1>6. PICK t \in Time : job' = [job EXCEPT !.done = @ + 1, !.row = t]
  BY <1>5
<1>7. job' \in Job
  <2>1. PICK d \in Nat : d = job.done + 1
    BY <1>4
  <2>2. job' = [job EXCEPT !.done = d, !.row = t]
    BY <1>3, <1>6, <2>1 DEF Job
  <2> QED
    BY <1>3, <2>1, <2>2 DEF Job
<1>8. /\ job'.since = job.since /\ job'.done = job.done + 1 /\ job'.logs = job.logs
      /\ job'.bulk = job.bulk
  BY <1>3, <1>6 DEF Job
<1>9. CopiesInv' /\ JobInv'
  <2>1. Told("OrderCreated")' = Told("OrderCreated")
    <3>1. Told("OrderCreated")' = Among(job.done + 1, job.logs, "OrderCreated")
      BY <1>8 DEF Told, Among
    <3>2. Told("OrderCreated") = Among(job.done, job.logs, "OrderCreated")
      BY DEF Told
    <3>3. Among(job.done, job.logs, "OrderCreated") \in Nat
      BY <1>3, EventsCount DEF Job
    <3> QED
      BY <1>4, <3>1, <3>2, <3>3
  <2>2. Told("TimestampSet")' = Told("TimestampSet")
    BY <1>8 DEF Told, EventsOf, Quantify
  <2>3. \A e \in Event : Told(e)' = Told(e)
    <3> TAKE e \in Event
    <3>1. CASE e = "OrderCreated"
      BY <2>1, <3>1 DEF Told, Among
    <3>2. CASE e = "TimestampSet"
      BY <2>2, <3>2 DEF Told, EventsOf, Quantify
    <3> QED
      BY <3>1, <3>2 DEF Event
  <2>4. job'.done <= Len(job'.logs)
    BY <1>4, <1>8
  <2> QED
    BY <1>1, <1>2, <1>4, <1>8, <2>3, <2>4, StaysTold
<1>10. ClientTypes' /\ ClientInv'
  BY <1>1, <1>2, SameClients
<1>11. BlockTypes'
  BY <1>1, <1>2, <1>5, <1>7 DEF BlockTypes, bounds
<1> QED
  BY <1>9, <1>10, <1>11 DEF IInv

LEMMA OrderCreatedStep == IInv /\ OrderCreated => IInv'
<1> SUFFICES ASSUME IInv, OrderCreated
             PROVE  IInv'
  OBVIOUS
<1>1. ClientTypes /\ BlockTypes /\ ClientInv /\ CopiesInv /\ JobInv
  BY DEF IInv
<1>2. /\ HasLog("OrderCreated") /\ job' = [job EXCEPT !.done = @ + 1] /\ Emit("OrderCreated", 1)
      /\ UNCHANGED <<blocks, effectVars, session, clearing, clientVars, overlap, bounds>>
  BY DEF OrderCreated
<1>3. job \in Job
  BY <1>1, <1>2 DEF BlockTypes, HasLog, InTransaction, Idle
<1>4. /\ job.done + 1 \in Nat /\ job.done + 1 <= Len(job.logs)
      /\ NextLog.event = "OrderCreated" /\ NextLog.time \in Time /\ ~Idle
      /\ \A f : Among(job.done + 1, job.logs, f) =
                  Among(job.done, job.logs, f) + (IF f = "OrderCreated" THEN 1 ELSE 0)
  BY <1>2, <1>3, NextLogDone
<1>5. job' \in Job
  <2>1. PICK d \in Nat : d = job.done + 1
    BY <1>4
  <2>2. job' = [job EXCEPT !.done = d]
    BY <1>2, <1>3, <2>1 DEF Job
  <2> QED
    BY <1>3, <2>1, <2>2 DEF Job
<1>6. /\ job'.since = job.since /\ job'.done = job.done + 1 /\ job'.logs = job.logs
      /\ job'.bulk = job.bulk
  BY <1>2, <1>3 DEF Job
<1>7. /\ CopiesInv'
      /\ \A s \in Subscription :
           /\ copies'[s] >= copies[s]
           /\ s \in Wanted /\ topic[s] = "OrderCreated" => copies'[s] >= copies[s] + 1
  <2>1. "OrderCreated" \in Event /\ 1 \in Nat
    BY DEF Event
  <2> QED
    BY <1>1, <1>2, <2>1, EmitTells
<1>8. \A s \in Subscription : copies[s] \in Nat /\ copies'[s] \in Nat
  BY <1>1, <1>7 DEF CopiesInv
<1>9. /\ topic' = topic /\ Wanted' = Wanted /\ ClientTypes' /\ ClientInv'
      /\ \A s \in Wanted : s \in Subscription
  BY <1>1, <1>2, SameClients
<1>10. /\ job.done <= Len(job.logs)
       /\ \A s \in job.since : topic[s] # None
       /\ \A s \in job.since \cap Wanted, e \in Event : topic[s] = e => copies[s] >= Told(e)
  BY <1>1, <1>4 DEF JobInv
<1>11. /\ Told("OrderCreated") \in Nat /\ Told("OrderCreated")' = Told("OrderCreated") + 1
       /\ Told("TimestampSet") \in Nat /\ Told("TimestampSet")' = Told("TimestampSet")
  <2>1. job.done \in Nat /\ job.logs \in Seq(LogRecord)
    BY <1>3 DEF Job
  <2>2. Told("OrderCreated")' = Among(job.done + 1, job.logs, "OrderCreated")
    BY <1>6 DEF Told, Among
  <2>3. Told("OrderCreated") = Among(job.done, job.logs, "OrderCreated")
    BY DEF Told
  <2>4. Told("OrderCreated") \in Nat
    BY <2>1, <2>3, EventsCount
  <2>5. Told("TimestampSet") \in Nat
    BY <2>1, EventsOfCount DEF Told
  <2>6. Told("TimestampSet")' = Told("TimestampSet")
    BY <1>6 DEF Told, EventsOf, Quantify
  <2> QED
    BY <1>4, <2>2, <2>3, <2>4, <2>5, <2>6
<1>12. \A s \in job'.since \cap Wanted', e \in Event : topic'[s] = e => copies'[s] >= Told(e)'
  <2> TAKE s \in job'.since \cap Wanted', e \in Event
  <2>1. s \in job.since \cap Wanted /\ s \in Subscription /\ topic'[s] = topic[s]
    BY <1>6, <1>9
  <2>2. CASE e = "OrderCreated"
    <3>1. topic[s] = "OrderCreated" => copies[s] >= Told("OrderCreated")
      BY <1>10, <2>1 DEF Event
    <3>2. topic[s] = "OrderCreated" => copies'[s] >= Told("OrderCreated")'
      BY <1>7, <1>8, <1>11, <2>1, <3>1
    <3> QED
      BY <2>1, <2>2, <3>2 DEF Told, Among
  <2>3. CASE e = "TimestampSet"
    <3>1. topic[s] = "TimestampSet" => copies[s] >= Told("TimestampSet")
      BY <1>10, <2>1 DEF Event
    <3>2. topic[s] = "TimestampSet" => copies'[s] >= Told("TimestampSet")'
      BY <1>7, <1>8, <1>11, <2>1, <3>1
    <3> QED
      BY <2>1, <2>3, <3>2 DEF Told, EventsOf, Quantify
  <2> QED
    BY <2>2, <2>3 DEF Event
<1>13. JobInv'
  BY <1>4, <1>6, <1>9, <1>10, <1>12 DEF JobInv
<1>14. BlockTypes'
  BY <1>1, <1>2, <1>5 DEF BlockTypes, effectVars, bounds
<1> QED
  BY <1>7, <1>9, <1>13, <1>14 DEF IInv

LEMMA CommitStep == IInv /\ Commit => IInv'
<1> SUFFICES ASSUME IInv, Commit
             PROVE  IInv'
  OBVIOUS
<1>1. ClientTypes /\ BlockTypes /\ ClientInv
  BY DEF IInv
<1>2. /\ ~Idle /\ row' = job.row /\ job' = NoJob /\ NothingEmitted
      /\ UNCHANGED <<overrideTimestamps, blockHeadTimestamp, session, clearing, clientVars,
                     overlap, bounds>>
  BY DEF Commit, InTransaction
<1>3. blocks' = IF job.kind = "remove" THEN Front(blocks)
                ELSE Append(blocks, [logs |-> job.logs, time |-> job.time, stamp |-> job.stamp])
  BY DEF Commit
<1>4. job \in Job
  BY <1>1, <1>2 DEF BlockTypes, Idle
<1>5. blocks' \in Seq(BlockRow)
  <2>1. blocks \in Seq(BlockRow)
    BY <1>1 DEF BlockTypes
  <2>2. [logs |-> job.logs, time |-> job.time, stamp |-> job.stamp] \in BlockRow
    BY <1>4 DEF Job, BlockRow
  <2>3. Append(blocks, [logs |-> job.logs, time |-> job.time, stamp |-> job.stamp]) \in Seq(BlockRow)
    BY <2>1, <2>2, AppendProperties
  <2>4. Front(blocks) \in Seq(BlockRow)
    <3>1. PICK n \in Nat : n = Len(blocks)
      BY <2>1
    <3>2. \A i \in 1..n - 1 : i \in 1..Len(blocks)
      BY <3>1
    <3>3. \A i \in 1..n - 1 : blocks[i] \in BlockRow
      BY <2>1, <3>2
    <3> QED
      BY <3>1, <3>3, SubSeqProperties DEF Front
  <2> QED
    BY <1>3, <2>3, <2>4
<1>6. row' \in Time
  BY <1>2, <1>4 DEF Job
<1>7. BlockTypes'
  BY <1>1, <1>2, <1>5, <1>6 DEF BlockTypes, bounds
<1>8. ClientTypes' /\ ClientInv'
  BY <1>1, <1>2, SameClients
<1>9. CopiesInv'
  BY <1>2, NothingIsForgotten
<1>10. JobInv'
  BY <1>2 DEF JobInv, Idle
<1> QED
  BY <1>7, <1>8, <1>9, <1>10 DEF IInv
-----------------------------------------------------------------------------
(* Sessions. *)

\* A step that touches neither the block at hand nor a client.
LEMMA JobUntouched ==
  ASSUME IInv, UNCHANGED <<job, clientVars, publishVars>>
  PROVE  ClientTypes' /\ ClientInv' /\ CopiesInv' /\ JobInv'
<1>1. ClientTypes /\ ClientInv /\ CopiesInv /\ JobInv
  BY DEF IInv
<1>2. ClientTypes' /\ ClientInv'
  BY <1>1, SameClients
<1>3. CASE Idle
  <2>1. copies' = copies /\ due' = due /\ job' = job
    BY DEF publishVars
  <2> QED
    BY <1>1, <1>2, <1>3, <2>1 DEF JobInv, CopiesInv, Idle
<1>4. CASE ~Idle
  <2>1. \A e \in Event : Told(e)' = Told(e)
    BY DEF Told, EventsOf, Quantify, Among
  <2>2. job'.done <= Len(job'.logs)
    BY <1>1, <1>4 DEF JobInv
  <2>3. CopiesInv' /\ JobInv'
    <3>1. UNCHANGED <<clientVars, publishVars>> /\ job'.since = job.since
      OBVIOUS
    <3> QED
      BY <1>1, <1>4, <2>1, <2>2, <3>1, StaysTold
  <2> QED
    BY <1>2, <2>3
<1> QED
  BY <1>2, <1>3, <1>4

LEMMA SessionStep ==
  IInv /\ (Start \/ StartAugurListeners \/ Shutdown \/ ClearOverrideTimestamp) => IInv'
<1> SUFFICES ASSUME IInv, Start \/ StartAugurListeners \/ Shutdown \/ ClearOverrideTimestamp
             PROVE  IInv'
  OBVIOUS
<1>1. BlockTypes
  BY DEF IInv
<1>2. UNCHANGED <<job, clientVars, publishVars>>
  BY DEF Start, StartAugurListeners, Shutdown, ClearOverrideTimestamp
<1>3. ClientTypes' /\ ClientInv' /\ CopiesInv' /\ JobInv'
  BY <1>2, JobUntouched
<1>4. BlockTypes'
  <2>1. CASE Start
    <3>1. overrideTimestamps' \in Seq(Time)
      <4>1. overrideTimestamps \in Seq(Time) /\ row \in Time
        BY <1>1 DEF BlockTypes
      <4>2. Append(overrideTimestamps, row) \in Seq(Time)
        BY <4>1
      <4> QED
        BY <2>1, <4>1, <4>2 DEF Start, SetOverrideTimestamp
    <3>2. /\ session' = "bulk" /\ overlap' = (overlap \/ clearing)
          /\ UNCHANGED <<blocks, row, blockHeadTimestamp, clearing, job, bounds>>
      BY <2>1 DEF Start
    <3>3. overlap' \in BOOLEAN
      BY <1>1, <3>2 DEF BlockTypes
    <3> QED
      BY <1>1, <3>1, <3>2, <3>3 DEF BlockTypes, bounds
  <2>2. CASE StartAugurListeners
    BY <1>1, <2>2 DEF BlockTypes, StartAugurListeners, effectVars, bounds
  <2>3. CASE Shutdown
    BY <1>1, <2>3 DEF BlockTypes, Shutdown, effectVars
  <2>4. CASE ClearOverrideTimestamp
    <3>1. /\ clearing' = FALSE /\ overrideTimestamps' = <<>> /\ blockHeadTimestamp' = 0
          /\ UNCHANGED <<blocks, row, session, job, overlap, bounds>>
      BY <2>4 DEF ClearOverrideTimestamp
    <3>2. overrideTimestamps' \in Seq(Time)
      BY <3>1
    <3> QED
      BY <1>1, <3>1, <3>2 DEF BlockTypes, bounds
  <2> QED
    BY <2>1, <2>2, <2>3, <2>4, <1>1
<1> QED
  BY <1>3, <1>4 DEF IInv

LEMMA BulkAbortsStep == IInv /\ BulkAborts => IInv'
<1> SUFFICES ASSUME IInv, BulkAborts
             PROVE  IInv'
  OBVIOUS
<1>1. ClientTypes /\ BlockTypes /\ ClientInv
  BY DEF IInv
<1>2. /\ job' = NoJob /\ NothingEmitted /\ session' = "down" /\ clearing' = TRUE
      /\ stops' = stops + 1
      /\ UNCHANGED <<blocks, effectVars, clientVars, overlap, made, removals>>
  BY DEF BulkAborts
<1>3. BlockTypes'
  BY <1>1, <1>2 DEF BlockTypes, effectVars
<1>4. ClientTypes' /\ ClientInv'
  BY <1>1, <1>2, SameClients
<1>5. CopiesInv'
  BY <1>2, NothingIsForgotten
<1>6. JobInv'
  BY <1>2 DEF JobInv, Idle
<1> QED
  BY <1>3, <1>4, <1>5, <1>6 DEF IInv

LEMMA ProcessEndsStep == IInv /\ (LiveThrows \/ Kill) => IInv'
<1> SUFFICES ASSUME IInv, LiveThrows \/ Kill
             PROVE  IInv'
  OBVIOUS
<1>1. ClientTypes /\ BlockTypes
  BY DEF IInv
<1>2. ProcessEnds /\ stops' \in Nat
  BY <1>1 DEF LiveThrows, Kill, BlockTypes
<1>3. /\ overrideTimestamps' = <<>> /\ blockHeadTimestamp' = 0
      /\ session' = "down" /\ clearing' = FALSE /\ job' = NoJob /\ NothingEmitted
      /\ UNCHANGED <<blocks, row, overlap, made, removals>>
  BY <1>2 DEF ProcessEnds
<1>4. /\ socket' = [c \in Client |-> "none"]
      /\ handlers' = [c \in Client |-> [e \in Event |-> 0]]
      /\ listeners' = [c \in Client |-> {}] /\ wanted' = [c \in Client |-> {}]
      /\ topic' = topic
  BY <1>2 DEF ProcessEnds
<1>5. BlockTypes'
  <2>1. overrideTimestamps' \in Seq(Time)
    BY <1>3
  <2> QED
    BY <1>1, <1>2, <1>3, <2>1 DEF BlockTypes
<1>6. ClientTypes'
  BY <1>1, <1>4 DEF ClientTypes
<1>7. ClientInv'
  <2>1. \A c \in Client, e \in Event : Subscribed(c, e)' = {}
    BY <1>4 DEF Subscribed
  <2>2. \A c \in Client : listeners'[c] = {} /\ \A e \in Event : handlers'[c][e] = 0
    BY <1>4
  <2> QED
    BY <1>4, <2>1, <2>2, FS_EmptySet DEF ClientInv
<1>8. CopiesInv'
  BY <1>3, NothingIsForgotten
<1>9. JobInv'
  BY <1>3 DEF JobInv, Idle
<1> QED
  BY <1>5, <1>6, <1>7, <1>8, <1>9 DEF IInv

LEMMA StutterStep == IInv /\ UNCHANGED vars => IInv'
<1> SUFFICES ASSUME IInv, UNCHANGED vars
             PROVE  IInv'
  OBVIOUS
<1>1. ClientTypes' /\ ClientInv' /\ CopiesInv' /\ JobInv'
  <2>1. UNCHANGED <<job, clientVars, publishVars>>
    BY DEF vars
  <2> QED
    BY <2>1, JobUntouched
<1>2. BlockTypes'
  BY DEF IInv, BlockTypes, vars, effectVars, bounds
<1> QED
  BY <1>1, <1>2 DEF IInv
-----------------------------------------------------------------------------
(* The theorems. *)

\* In every reachable state of the block effects (process-block.ts,
\* subscriptions.ts, run-websocket-server.ts) a client has as many handlers per
\* event as subscriptions, and a block has told them what it has come to.
THEOREM SubscriptionsAreCounted == Spec => []IInv
<1>1. Init => IInv
  BY InitInv, EffectsAssumption
<1>2. IInv /\ [Next]_vars => IInv'
  <2> SUFFICES ASSUME IInv, [Next]_vars
               PROVE  IInv'
    OBVIOUS
  <2>1. CASE AddBlock
    BY <2>1, AddBlockStep, EffectsAssumption
  <2>2. CASE RemoveBlock
    BY <2>2, RemoveBlockStep
  <2>3. CASE ProcessBlockByBlockDetails
    BY <2>3, ProcessBlockStep
  <2>4. CASE TimestampSet
    BY <2>4, TimestampSetStep
  <2>5. CASE OrderCreated
    BY <2>5, OrderCreatedStep
  <2>6. CASE Commit
    BY <2>6, CommitStep
  <2>7. CASE Start \/ StartAugurListeners \/ Shutdown \/ ClearOverrideTimestamp
    BY <2>7, SessionStep
  <2>8. CASE BulkAborts
    BY <2>8, BulkAbortsStep
  <2>9. CASE LiveThrows \/ Kill
    BY <2>9, ProcessEndsStep
  <2>10. CASE ClientStep
    BY <2>10, ClientStepKeeps
  <2>11. CASE UNCHANGED vars
    BY <2>11, StutterStep
  <2> QED
    BY <2>1, <2>2, <2>3, <2>4, <2>5, <2>6, <2>7, <2>8, <2>9, <2>10, <2>11 DEF Next
<1> QED
  BY <1>1, <1>2, PTL DEF Spec

\* SubscribersAreTold: what a committing block has published to a subscription
\* (subscriptions.ts) is at least what the block owes it, and never more than
\* one copy of each event per subscription of the client to that event.
THEOREM SubscribersAreToldHolds == Spec => []SubscribersAreTold
<1>1. IInv => SubscribersAreTold
  <2> SUFFICES ASSUME IInv, NEW s \in Subscription
               PROVE  /\ copies[s] = due[s]
                      /\ InTransaction /\ job.done = Len(job.logs) => copies[s] >= OwedTo(s)
    BY DEF SubscribersAreTold
  <2>1. ClientTypes /\ BlockTypes /\ ClientInv /\ CopiesInv /\ JobInv
    BY DEF IInv
  <2>2. copies[s] = due[s] /\ copies[s] \in Nat
    BY <2>1 DEF CopiesInv
  <2>3. ASSUME InTransaction, job.done = Len(job.logs)
        PROVE  copies[s] >= OwedTo(s)
    <3>1. ~Idle /\ job \in Job
      BY <2>1, <2>3 DEF InTransaction, BlockTypes, Idle
    <3>2. job.logs \in Seq(LogRecord)
      BY <3>1 DEF Job
    <3>3. CASE s \notin job.since \cap Wanted \/ (job.bulk /\ topic[s] = "TimestampSet")
      BY <2>2, <3>3 DEF OwedTo
    <3>4. CASE s \in job.since \cap Wanted /\ ~(job.bulk /\ topic[s] = "TimestampSet")
      <4>1. topic[s] \in Event
        BY <2>1, <3>4, NobodyWantsUnused
      <4>2. copies[s] >= Told(topic[s])
        BY <2>1, <3>1, <3>4, <4>1 DEF JobInv
      <4>3. OwedTo(s) = EventsOf(job.logs, topic[s])
        BY <3>4 DEF OwedTo
      <4>4. EventsOf(job.logs, topic[s]) = Among(job.done, job.logs, topic[s])
        BY <2>3, <3>2, EventsOfCount
      <4>5. Told(topic[s]) = EventsOf(job.logs, topic[s])
        <5>1. CASE topic[s] = "OrderCreated"
          BY <4>4, <5>1 DEF Told
        <5>2. CASE topic[s] = "TimestampSet"
          BY <3>4, <5>2 DEF Told
        <5> QED
          BY <4>1, <5>1, <5>2 DEF Event
      <4> QED
        BY <4>2, <4>3, <4>5
    <3> QED
      BY <3>3, <3>4
  <2> QED
    BY <2>2, <2>3
<1> QED
  BY <1>1, SubscriptionsAreCounted, PTL
-----------------------------------------------------------------------------
(***************************************************************************)
(* Recursion.  The library's induction theorems take an operator; what is  *)
(* proved by induction here is stated as a set of naturals instead, whose  *)
(* complement would have a least element.                                  *)
(***************************************************************************)

\* The order of the naturals has no infinite descent.
LEMMA LessIsWellFounded == IsWellFoundedOn({p \in Nat \X Nat : p[1] < p[2]}, Nat)
BY NatLessThanWellFounded DEF OpToRel

\* A set that has 0 and the successor of each of its members has all naturals.
LEMMA SetInduction ==
  ASSUME NEW S, 0 \in S, \A n \in Nat : n \in S => n + 1 \in S
  PROVE  Nat \subseteq S
<1> DEFINE T == Nat \ S
           R == {p \in Nat \X Nat : p[1] < p[2]}
<1>1. SUFFICES ASSUME T # {} PROVE FALSE
  OBVIOUS
<1>2. PICK x \in T : \A y \in T : ~(<<y, x>> \in R)
  <2>1. T \subseteq Nat /\ IsWellFoundedOn(R, Nat)
    BY LessIsWellFounded
  <2> HIDE DEF T, R
  <2> QED
    BY <1>1, <2>1, WFMin
<1>3. x \in Nat /\ x # 0
  OBVIOUS
<1>4. x - 1 \in Nat /\ x - 1 \in S => x \in S
  <2>1. x - 1 \in Nat /\ (x - 1) + 1 = x
    BY <1>3
  <2> QED
    BY <2>1
<1>5. x - 1 \in T
  BY <1>2, <1>4
<1>6. <<x - 1, x>> \in R
  BY <1>3, <1>5
<1> QED
  BY <1>2, <1>5, <1>6

(***************************************************************************)
(* The override.  The stack a session works with ends what the blocks and  *)
(* the finished logs of the transaction have set, and is empty only where  *)
(* they have set nothing.                                                  *)
(***************************************************************************)

\* f is the function that SetBy defines.
Settings(f, logs, before, n) == f = [i \in 0..n |-> IF i = 0 THEN before ELSE (IF logs[i].event = "TimestampSet" THEN Append(f[i - 1], logs[i].time) ELSE f[i - 1])]

\* There is such a function, up to any position.
LEMMA SettingsExist ==
  ASSUME NEW logs, NEW before, NEW n \in Nat
  PROVE  \E f : Settings(f, logs, before, n)
<1> DEFINE S == {m \in Nat : \E f : Settings(f, logs, before, m)}
<1>1. 0 \in S
  <2>1. Settings([i \in 0..0 |-> before], logs, before, 0)
    BY DEF Settings
  <2> QED
    BY <2>1
<1>2. ASSUME NEW m \in Nat, m \in S
      PROVE  m + 1 \in S
  <2>1. PICK f : Settings(f, logs, before, m)
    BY <1>2
  <2> DEFINE last == (IF logs[m + 1].event = "TimestampSet" THEN Append(f[m], logs[m + 1].time) ELSE f[m])
             g == [i \in 0..(m + 1) |-> IF i = m + 1 THEN last ELSE f[i]]
  <2>2. \A i \in 0..m : f[i] = IF i = 0 THEN before ELSE (IF logs[i].event = "TimestampSet" THEN Append(f[i - 1], logs[i].time) ELSE f[i - 1])
    BY <2>1 DEF Settings
  <2>3. ASSUME NEW i \in 0..(m + 1)
        PROVE  g[i] = IF i = 0 THEN before ELSE (IF logs[i].event = "TimestampSet" THEN Append(g[i - 1], logs[i].time) ELSE g[i - 1])
    <3>1. CASE i = m + 1
      <4>1. i # 0 /\ i - 1 = m /\ m \in 0..(m + 1) /\ m # m + 1
        BY <3>1
      <4>2. g[i] = last /\ g[m] = f[m]
        BY <3>1, <4>1
      <4> QED
        BY <3>1, <4>1, <4>2
    <3>2. CASE i = 0
      <4>1. i \in 0..m /\ i # m + 1
        BY <3>2
      <4> QED
        BY <2>2, <3>2, <4>1
    <3>3. CASE i # 0 /\ i # m + 1
      <4>1. i \in 0..m /\ i - 1 \in 0..(m + 1) /\ i - 1 # m + 1
        BY <3>3
      <4>2. g[i] = f[i] /\ g[i - 1] = f[i - 1]
        BY <3>3, <4>1
      <4> QED
        BY <2>2, <3>3, <4>1, <4>2
    <3> QED
      BY <3>1, <3>2, <3>3
  <2>4. Settings(g, logs, before, m + 1)
    BY <2>3 DEF Settings
  <2> QED
    BY <2>4
<1>3. Nat \subseteq S
  <2> HIDE DEF S
  <2> QED
    BY <1>1, <1>2, SetInduction
<1> QED
  BY <1>3

\* Two such functions agree as far as their sequences do.
LEMMA SettingsAgree ==
  ASSUME NEW logs, NEW before, NEW f, NEW g, NEW other, NEW n \in Nat, NEW m \in Nat, m <= n,
         Settings(f, logs, before, n), Settings(g, other, before, m),
         \A i \in 1..m : logs[i] = other[i]
  PROVE  \A i \in 0..m : f[i] = g[i]
<1> DEFINE S == {k \in Nat : k <= m => f[k] = g[k]}
<1>0. /\ \A i \in 0..n : f[i] = IF i = 0 THEN before ELSE (IF logs[i].event = "TimestampSet" THEN Append(f[i - 1], logs[i].time) ELSE f[i - 1])
      /\ \A i \in 0..m : g[i] = IF i = 0 THEN before ELSE (IF other[i].event = "TimestampSet" THEN Append(g[i - 1], other[i].time) ELSE g[i - 1])
  BY DEF Settings
<1>1. 0 \in S
  <2>1. 0 \in 0..n /\ 0 \in 0..m
    OBVIOUS
  <2> QED
    BY <1>0, <2>1
<1>2. ASSUME NEW k \in Nat, k \in S
      PROVE  k + 1 \in S
  <2>1. SUFFICES ASSUME k + 1 <= m
                 PROVE  f[k + 1] = g[k + 1]
    OBVIOUS
  <2>2. /\ k + 1 \in 0..n /\ k + 1 \in 0..m /\ k + 1 \in 1..m /\ k + 1 # 0
        /\ (k + 1) - 1 = k /\ k <= m
    BY <2>1
  <2>3. /\ f[k + 1] = (IF logs[k + 1].event = "TimestampSet" THEN Append(f[k], logs[k + 1].time) ELSE f[k])
        /\ g[k + 1] = (IF other[k + 1].event = "TimestampSet" THEN Append(g[k], other[k + 1].time) ELSE g[k])
    BY <1>0, <2>2
  <2>4. logs[k + 1] = other[k + 1] /\ f[k] = g[k]
    BY <1>2, <2>2
  <2> QED
    BY <2>3, <2>4
<1>3. Nat \subseteq S
  <2> HIDE DEF S
  <2> QED
    BY <1>1, <1>2, SetInduction
<1>4. ASSUME NEW i \in 0..m
      PROVE  f[i] = g[i]
  <2>1. i \in Nat /\ i <= m
    OBVIOUS
  <2> QED
    BY <1>3, <2>1
<1> QED
  BY <1>4

\* What SetBy returns is the last value of any such function.
LEMMA SetByIs ==
  ASSUME NEW logs, NEW before, NEW n \in Nat, NEW f, Settings(f, logs, before, n)
  PROVE  SetBy(logs, n, before) = f[n]
<1> DEFINE h == CHOOSE g : g = [i \in 0..n |-> IF i = 0 THEN before ELSE (IF logs[i].event = "TimestampSet" THEN Append(g[i - 1], logs[i].time) ELSE g[i - 1])]
<1>1. Settings(h, logs, before, n)
  BY DEF Settings
<1>2. SetBy(logs, n, before) = h[n]
  BY DEF SetBy
<1>3. \A i \in 0..n : h[i] = f[i]
  <2> HIDE DEF h
  <2> QED
    BY <1>1, SettingsAgree
<1> QED
  BY <1>2, <1>3, SMTT(20)

\* SetBy one position at a time.
LEMMA SetBySteps ==
  ASSUME NEW logs, NEW before, NEW n \in Nat
  PROVE  /\ SetBy(logs, 0, before) = before
         /\ SetBy(logs, n + 1, before) = (IF logs[n + 1].event = "TimestampSet" THEN Append(SetBy(logs, n, before), logs[n + 1].time) ELSE SetBy(logs, n, before))
<1>1. PICK f : Settings(f, logs, before, n)
  BY SettingsExist
<1>2. PICK g : Settings(g, logs, before, n + 1)
  BY SettingsExist
<1>3. \A i \in 0..n : g[i] = f[i]
  BY <1>1, <1>2, SettingsAgree
<1>4. SetBy(logs, n, before) = f[n] /\ SetBy(logs, n + 1, before) = g[n + 1]
  BY <1>1, <1>2, SetByIs
<1>5. g[n + 1] = (IF logs[n + 1].event = "TimestampSet" THEN Append(g[n], logs[n + 1].time) ELSE g[n])
  <2>1. n + 1 \in 0..(n + 1) /\ n + 1 # 0 /\ (n + 1) - 1 = n
    OBVIOUS
  <2> QED
    BY <1>2, <2>1 DEF Settings
<1>6. SetBy(logs, 0, before) = before
  <2>1. PICK z : Settings(z, logs, before, 0)
    BY SettingsExist
  <2> QED
    BY <2>1, SetByIs DEF Settings
<1> QED
  BY <1>3, <1>4, <1>5, <1>6

\* SetBy looks at the first positions only.
LEMMA SetByLocal ==
  ASSUME NEW logs, NEW before, NEW other, NEW n \in Nat, \A i \in 1..n : logs[i] = other[i]
  PROVE  SetBy(logs, n, before) = SetBy(other, n, before)
<1>1. PICK f : Settings(f, logs, before, n)
  BY SettingsExist
<1>2. PICK g : Settings(g, other, before, n)
  BY SettingsExist
<1>3. \A i \in 0..n : f[i] = g[i]
  BY <1>1, <1>2, SettingsAgree
<1> QED
  BY <1>1, <1>2, <1>3, SetByIs

\* f is the function that SetThrough defines.
Throughs(f, stack, n) == f = [i \in 0..n |-> IF i = 0 THEN <<>> ELSE SetBy(stack[i].logs, Len(stack[i].logs), f[i - 1])]

\* There is such a function, up to any position.
LEMMA ThroughsExist ==
  ASSUME NEW stack, NEW n \in Nat
  PROVE  \E f : Throughs(f, stack, n)
<1> DEFINE S == {m \in Nat : \E f : Throughs(f, stack, m)}
<1>1. 0 \in S
  <2>1. Throughs([i \in 0..0 |-> <<>>], stack, 0)
    BY DEF Throughs
  <2> QED
    BY <2>1
<1>2. ASSUME NEW m \in Nat, m \in S
      PROVE  m + 1 \in S
  <2>1. PICK f : Throughs(f, stack, m)
    BY <1>2
  <2> DEFINE last == SetBy(stack[m + 1].logs, Len(stack[m + 1].logs), f[m])
             g == [i \in 0..(m + 1) |-> IF i = m + 1 THEN last ELSE f[i]]
  <2>2. \A i \in 0..m : f[i] = IF i = 0 THEN <<>> ELSE SetBy(stack[i].logs, Len(stack[i].logs), f[i - 1])
    BY <2>1 DEF Throughs
  <2>3. ASSUME NEW i \in 0..(m + 1)
        PROVE  g[i] = IF i = 0 THEN <<>> ELSE SetBy(stack[i].logs, Len(stack[i].logs), g[i - 1])
    <3>1. CASE i = m + 1
      <4>1. i # 0 /\ i - 1 = m /\ m \in 0..(m + 1) /\ m # m + 1
        BY <3>1
      <4>2. g[i] = last /\ g[m] = f[m]
        BY <3>1, <4>1
      <4> QED
        BY <3>1, <4>1, <4>2
    <3>2. CASE i = 0
      <4>1. i \in 0..m /\ i # m + 1
        BY <3>2
      <4> QED
        BY <2>2, <3>2, <4>1
    <3>3. CASE i # 0 /\ i # m + 1
      <4>1. i \in 0..m /\ i - 1 \in 0..(m + 1) /\ i - 1 # m + 1
        BY <3>3
      <4>2. g[i] = f[i] /\ g[i - 1] = f[i - 1]
        BY <3>3, <4>1
      <4> QED
        BY <2>2, <3>3, <4>1, <4>2
    <3> QED
      BY <3>1, <3>2, <3>3
  <2>4. Throughs(g, stack, m + 1)
    BY <2>3 DEF Throughs
  <2> QED
    BY <2>4
<1>3. Nat \subseteq S
  <2> HIDE DEF S
  <2> QED
    BY <1>1, <1>2, SetInduction
<1> QED
  BY <1>3

\* Two such functions agree as far as their sequences do.
LEMMA ThroughsAgree ==
  ASSUME NEW stack, NEW f, NEW g, NEW other, NEW n \in Nat, NEW m \in Nat, m <= n,
         Throughs(f, stack, n), Throughs(g, other, m),
         \A i \in 1..m : stack[i] = other[i]
  PROVE  \A i \in 0..m : f[i] = g[i]
<1> DEFINE S == {k \in Nat : k <= m => f[k] = g[k]}
<1>0. /\ \A i \in 0..n : f[i] = IF i = 0 THEN <<>> ELSE SetBy(stack[i].logs, Len(stack[i].logs), f[i - 1])
      /\ \A i \in 0..m : g[i] = IF i = 0 THEN <<>> ELSE SetBy(other[i].logs, Len(other[i].logs), g[i - 1])
  BY DEF Throughs
<1>1. 0 \in S
  <2>1. 0 \in 0..n /\ 0 \in 0..m
    OBVIOUS
  <2> QED
    BY <1>0, <2>1
<1>2. ASSUME NEW k \in Nat, k \in S
      PROVE  k + 1 \in S
  <2>1. SUFFICES ASSUME k + 1 <= m
                 PROVE  f[k + 1] = g[k + 1]
    OBVIOUS
  <2>2. /\ k + 1 \in 0..n /\ k + 1 \in 0..m /\ k + 1 \in 1..m /\ k + 1 # 0
        /\ (k + 1) - 1 = k /\ k <= m
    BY <2>1
  <2>3. /\ f[k + 1] = SetBy(stack[k + 1].logs, Len(stack[k + 1].logs), f[k])
        /\ g[k + 1] = SetBy(other[k + 1].logs, Len(other[k + 1].logs), g[k])
    BY <1>0, <2>2
  <2>4. stack[k + 1] = other[k + 1] /\ f[k] = g[k]
    BY <1>2, <2>2
  <2> QED
    BY <2>3, <2>4
<1>3. Nat \subseteq S
  <2> HIDE DEF S
  <2> QED
    BY <1>1, <1>2, SetInduction
<1>4. ASSUME NEW i \in 0..m
      PROVE  f[i] = g[i]
  <2>1. i \in Nat /\ i <= m
    OBVIOUS
  <2> QED
    BY <1>3, <2>1
<1> QED
  BY <1>4

\* What SetThrough returns is the last value of any such function.
LEMMA SetThroughIs ==
  ASSUME NEW stack, NEW n \in Nat, NEW f, Throughs(f, stack, n)
  PROVE  SetThrough(stack, n) = f[n]
<1> DEFINE h == CHOOSE g : g = [i \in 0..n |-> IF i = 0 THEN <<>> ELSE SetBy(stack[i].logs, Len(stack[i].logs), g[i - 1])]
<1>1. Throughs(h, stack, n)
  BY DEF Throughs
<1>2. SetThrough(stack, n) = h[n]
  BY DEF SetThrough
<1>3. \A i \in 0..n : h[i] = f[i]
  <2> HIDE DEF h
  <2> QED
    BY <1>1, ThroughsAgree
<1> QED
  BY <1>2, <1>3

\* SetThrough one position at a time.
LEMMA SetThroughSteps ==
  ASSUME NEW stack, NEW n \in Nat
  PROVE  /\ SetThrough(stack, 0) = <<>>
         /\ SetThrough(stack, n + 1) = SetBy(stack[n + 1].logs, Len(stack[n + 1].logs), SetThrough(stack, n))
<1>1. PICK f : Throughs(f, stack, n)
  BY ThroughsExist
<1>2. PICK g : Throughs(g, stack, n + 1)
  BY ThroughsExist
<1>3. \A i \in 0..n : g[i] = f[i]
  BY <1>1, <1>2, ThroughsAgree
<1>4. SetThrough(stack, n) = f[n] /\ SetThrough(stack, n + 1) = g[n + 1]
  BY <1>1, <1>2, SetThroughIs
<1>5. g[n + 1] = SetBy(stack[n + 1].logs, Len(stack[n + 1].logs), g[n])
  <2>1. n + 1 \in 0..(n + 1) /\ n + 1 # 0 /\ (n + 1) - 1 = n
    OBVIOUS
  <2> QED
    BY <1>2, <2>1 DEF Throughs
<1>6. SetThrough(stack, 0) = <<>>
  <2>1. PICK z : Throughs(z, stack, 0)
    BY ThroughsExist
  <2> QED
    BY <2>1, SetThroughIs DEF Throughs
<1> QED
  BY <1>3, <1>4, <1>5, <1>6

\* SetThrough looks at the first positions only.
LEMMA SetThroughLocal ==
  ASSUME NEW stack, NEW other, NEW n \in Nat, \A i \in 1..n : stack[i] = other[i]
  PROVE  SetThrough(stack, n) = SetThrough(other, n)
<1>1. PICK f : Throughs(f, stack, n)
  BY ThroughsExist
<1>2. PICK g : Throughs(g, other, n)
  BY ThroughsExist
<1>3. \A i \in 0..n : f[i] = g[i]
  BY <1>1, <1>2, ThroughsAgree
<1> QED
  BY <1>1, <1>2, <1>3, SetThroughIs

\* The logs of the block that are in force while it is processed: those added
\* so far, or those not yet removed.
SetSoFar ==
  IF Idle THEN SetThrough(blocks, Len(blocks))
  ELSE IF job.kind = "add" THEN SetBy(job.logs, job.done, SetThrough(blocks, Len(blocks)))
  ELSE SetBy(blocks[Len(blocks)].logs, Len(job.logs) - job.done, SetThrough(blocks, Len(blocks) - 1))

\* The stack is an end of times, and not an empty one unless times is empty.
Ends(stack, times) ==
  /\ Len(stack) <= Len(times)
  /\ Len(stack) = 0 => Len(times) = 0
  /\ \A i \in 1..Len(stack) : stack[i] = times[Len(times) - Len(stack) + i]

StampOf(n, time) == IF Newest(n) # NoTime THEN Newest(n) ELSE time

RowsInv ==
  /\ row = Newest(Len(blocks))
  /\ \A i \in 1..Len(blocks) : blocks[i].stamp = StampOf(i - 1, blocks[i].time)

SessionInv ==
  /\ session # "down" => ~clearing
  /\ session = "down" /\ ~clearing => Idle /\ overrideTimestamps = <<>>

StackInv == session # "down" \/ ~Idle => Ends(overrideTimestamps, SetSoFar)

TransactionInv ==
  ~Idle =>
    /\ job.done <= Len(job.logs)
    /\ job.row = NewestOf(SetSoFar)
    /\ job.kind = "add" /\ job.stamp = NoTime => job.done = 0
    /\ job.kind = "add" /\ job.stamp # NoTime => job.stamp = StampOf(Len(blocks), job.time)
    /\ job.kind = "remove" => blocks # <<>> /\ job.logs = Reverse(blocks[Len(blocks)].logs)

OverrideInv == ~overlap => RowsInv /\ SessionInv /\ StackInv /\ TransactionInv
-----------------------------------------------------------------------------
(* Ends of sequences. *)

LEMMA LastAndFront ==
  ASSUME NEW S, NEW s \in Seq(S), s # <<>>
  PROVE  /\ Len(s) \in Nat /\ Len(s) >= 1
         /\ Last(s) = s[Len(s)] /\ Last(s) \in S
         /\ Front(s) \in Seq(S) /\ Len(Front(s)) = Len(s) - 1
         /\ \A i \in 1..(Len(s) - 1) : Front(s)[i] = s[i]
<1>1. Len(s) \in Nat /\ Len(s) >= 1 /\ Len(s) \in 1..Len(s)
  OBVIOUS
<1>2. Last(s) = s[Len(s)] /\ s[Len(s)] \in S
  BY <1>1 DEF Last
<1>3. /\ Front(s) \in Seq(S) /\ Len(Front(s)) = Len(s) - 1
      /\ \A i \in 1..(Len(s) - 1) : Front(s)[i] = s[i]
  <2>1. PICK n : n = Len(s) - 1
    OBVIOUS
  <2>2. 1 \in 1..(Len(s) + 1) /\ n \in (1 - 1)..Len(s) /\ n \in Nat
    BY <1>1, <2>1
  <2>3. PICK f : f = SubSeq(s, 1, n)
    OBVIOUS
  <2>4. /\ f \in Seq(S) /\ Len(f) = IF 1 <= n THEN n - 1 + 1 ELSE 0
        /\ \A i \in 1..(n - 1 + 1) : f[i] = s[1 + i - 1]
    BY <2>2, <2>3, SubSeqProperties
  <2>5. Len(f) = n /\ \A i \in 1..n : f[i] = s[i]
    BY <2>2, <2>4
  <2>6. Front(s) = f
    BY <2>1, <2>3 DEF Front
  <2> QED
    BY <2>1, <2>4, <2>5, <2>6
<1> QED
  BY <1>1, <1>2, <1>3

LEMMA ReverseOf ==
  ASSUME NEW S, NEW s \in Seq(S)
  PROVE  /\ Len(Reverse(s)) = Len(s)
         /\ \A i \in 1..Len(s) : Reverse(s)[i] = s[Len(s) - i + 1]
BY DEF Reverse

\* Both sequences get the same last element.
LEMMA EndsAppend ==
  ASSUME NEW S, NEW stack \in Seq(S), NEW T, NEW times \in Seq(T), Ends(stack, times), NEW t
  PROVE  Ends(Append(stack, t), Append(times, t))
<1> DEFINE m == Len(stack)
           n == Len(times)
<1>1. m \in Nat /\ n \in Nat /\ m <= n /\ \A i \in 1..m : stack[i] = times[n - m + i]
  BY DEF Ends
<1>2. Len(Append(stack, t)) = m + 1 /\ Len(Append(times, t)) = n + 1
  OBVIOUS
<1>3. ASSUME NEW i \in 1..(m + 1)
      PROVE  Append(stack, t)[i] = Append(times, t)[(n + 1) - (m + 1) + i]
  <2>1. CASE i = m + 1
    <3>1. (n + 1) - (m + 1) + i = n + 1
      BY <1>1, <2>1
    <3>2. Append(stack, t)[m + 1] = t /\ Append(times, t)[n + 1] = t
      OBVIOUS
    <3> QED
      BY <2>1, <3>1, <3>2
  <2>2. CASE i # m + 1
    <3>1. i \in 1..m /\ (n + 1) - (m + 1) + i = n - m + i /\ n - m + i \in 1..n
      BY <1>1, <2>2
    <3>2. Append(stack, t)[i] = stack[i]
      BY <3>1
    <3>3. Append(times, t)[n - m + i] = times[n - m + i]
      BY <3>1
    <3> QED
      BY <1>1, <3>1, <3>2, <3>3
  <2> QED
    BY <2>1, <2>2
<1>4. PICK more : more = Append(stack, t)
  OBVIOUS
<1>5. PICK all : all = Append(times, t)
  OBVIOUS
<1>6. Len(more) <= Len(all) /\ Len(more) # 0
  BY <1>1, <1>2, <1>4, <1>5
<1>7. \A i \in 1..Len(more) : more[i] = all[Len(all) - Len(more) + i]
  BY <1>2, <1>3, <1>4, <1>5
<1>8. Ends(more, all)
  BY <1>6, <1>7 DEF Ends
<1> QED
  BY <1>4, <1>5, <1>8

\* What a stack shows on top is the newest of what it ends.
LEMMA EndsNewest ==
  ASSUME NEW S, NEW stack \in Seq(S), NEW T, NEW times \in Seq(T), Ends(stack, times)
  PROVE  (IF stack = <<>> THEN NoTime ELSE Last(stack)) = NewestOf(times)
<1>1. Len(stack) \in Nat /\ Len(times) \in Nat
  OBVIOUS
<1>2. CASE stack = <<>>
  <2>1. Len(times) = 0
    BY <1>2 DEF Ends
  <2>2. times = <<>>
    BY <2>1
  <2> QED
    BY <1>2, <2>2 DEF NewestOf
<1>3. CASE stack # <<>>
  <2>1. Len(stack) >= 1 /\ Last(stack) = stack[Len(stack)]
    BY <1>3, LastAndFront
  <2>2. Len(times) >= 1 /\ Len(stack) \in 1..Len(stack)
    BY <1>1, <2>1 DEF Ends
  <2>3. times # <<>>
    BY <2>2
  <2>4. Last(times) = times[Len(times)]
    BY <2>3, LastAndFront
  <2>5. stack[Len(stack)] = times[Len(times) - Len(stack) + Len(stack)]
    BY <2>2 DEF Ends
  <2>6. Len(times) - Len(stack) + Len(stack) = Len(times)
    BY <1>1
  <2> QED
    BY <1>3, <2>1, <2>3, <2>4, <2>5, <2>6 DEF NewestOf
<1> QED
  BY <1>2, <1>3

\* A stack of two or more still ends what is set when both lose their last.
LEMMA EndsFront ==
  ASSUME NEW S, NEW stack \in Seq(S), NEW T, NEW times \in Seq(T), NEW t \in T,
         Ends(stack, Append(times, t)), Len(stack) >= 2
  PROVE  Ends(Front(stack), times) /\ Front(stack) # <<>>
<1> DEFINE m == Len(stack)
           n == Len(times)
           more == Append(times, t)
<1>1. m \in Nat /\ n \in Nat /\ Len(more) = n + 1
  OBVIOUS
<1>2. m <= n + 1 /\ \A i \in 1..m : stack[i] = more[(n + 1) - m + i]
  BY <1>1 DEF Ends
<1>3. stack # <<>>
  OBVIOUS
<1>4. /\ Front(stack) \in Seq(S) /\ Len(Front(stack)) = m - 1
      /\ \A i \in 1..(m - 1) : Front(stack)[i] = stack[i]
  BY <1>3, LastAndFront
<1>5. ASSUME NEW i \in 1..(m - 1)
      PROVE  Front(stack)[i] = times[n - (m - 1) + i]
  <2>1. i \in 1..m /\ (n + 1) - m + i = n - (m - 1) + i /\ n - (m - 1) + i \in 1..n
    BY <1>1, <1>2
  <2>2. more[n - (m - 1) + i] = times[n - (m - 1) + i]
    BY <2>1
  <2> QED
    BY <1>2, <1>4, <2>1, <2>2
<1>6. Front(stack) # <<>>
  BY <1>1, <1>4
<1> QED
  BY <1>1, <1>2, <1>4, <1>5, <1>6 DEF Ends

(***************************************************************************)
(* What is set is a sequence of overrides.                                 *)
(***************************************************************************)

LEMMA SetByTimes ==
  ASSUME NEW logs \in Seq(LogRecord), NEW before \in Seq(Override), NEW n \in 0..Len(logs)
  PROVE  SetBy(logs, n, before) \in Seq(Override)
<1> DEFINE S == {k \in Nat : k <= Len(logs) => SetBy(logs, k, before) \in Seq(Override)}
<1>1. 0 \in S
  BY SetBySteps
<1>2. ASSUME NEW k \in Nat, k \in S
      PROVE  k + 1 \in S
  <2>1. SUFFICES ASSUME k + 1 <= Len(logs)
                 PROVE  SetBy(logs, k + 1, before) \in Seq(Override)
    OBVIOUS
  <2>2. Len(logs) \in Nat
    OBVIOUS
  <2>3. k + 1 \in 1..Len(logs) /\ SetBy(logs, k, before) \in Seq(Override)
    BY <1>2, <2>1, <2>2
  <2>4. logs[k + 1] \in LogRecord
    BY <2>3
  <2>5. logs[k + 1].event = "TimestampSet" => logs[k + 1].time \in Override
    <3>1. CASE logs[k + 1] = Created
      BY <3>1 DEF Created
    <3>2. CASE logs[k + 1] # Created
      <4>1. PICK t \in Override : logs[k + 1] = SetTo(t)
        BY <2>4, <3>2 DEF LogRecord
      <4>2. SetTo(t).time = t
        BY DEF SetTo
      <4> QED
        BY <4>1, <4>2
    <3> QED
      BY <3>1, <3>2
  <2>6. SetBy(logs, k + 1, before)
          = IF logs[k + 1].event = "TimestampSet"
            THEN Append(SetBy(logs, k, before), logs[k + 1].time) ELSE SetBy(logs, k, before)
    BY SetBySteps
  <2>7. PICK b : b = SetBy(logs, k, before)
    OBVIOUS
  <2>8. PICK t : t = logs[k + 1].time
    OBVIOUS
  <2>9. b \in Seq(Override) /\ (t \in Override => Append(b, t) \in Seq(Override))
    BY <2>3, <2>7
  <2> QED
    BY <2>5, <2>6, <2>7, <2>8, <2>9
<1>3. Nat \subseteq S
  <2> HIDE DEF S
  <2> QED
    BY <1>1, <1>2, SetInduction
<1>4. n \in Nat /\ n <= Len(logs)
  OBVIOUS
<1> QED
  BY <1>3, <1>4

LEMMA SetThroughTimes ==
  ASSUME NEW stack \in Seq(BlockRow), NEW n \in 0..Len(stack)
  PROVE  SetThrough(stack, n) \in Seq(Override)
<1> DEFINE S == {k \in Nat : k <= Len(stack) => SetThrough(stack, k) \in Seq(Override)}
<1>1. 0 \in S
  <2>1. SetThrough(stack, 0) = <<>>
    BY SetThroughSteps
  <2>2. <<>> \in Seq(Override)
    OBVIOUS
  <2> QED
    BY <2>1, <2>2
<1>2. ASSUME NEW k \in Nat, k \in S
      PROVE  k + 1 \in S
  <2>1. SUFFICES ASSUME k + 1 <= Len(stack)
                 PROVE  SetThrough(stack, k + 1) \in Seq(Override)
    OBVIOUS
  <2>2. Len(stack) \in Nat
    OBVIOUS
  <2>3. k + 1 \in 1..Len(stack) /\ SetThrough(stack, k) \in Seq(Override)
    BY <1>2, <2>1, <2>2
  <2>4. stack[k + 1] \in BlockRow
    BY <2>3
  <2>5. stack[k + 1].logs \in Seq(LogRecord)
    BY <2>4 DEF BlockRow
  <2>6. Len(stack[k + 1].logs) \in 0..Len(stack[k + 1].logs)
    BY <2>5
  <2>7. SetThrough(stack, k + 1)
          = SetBy(stack[k + 1].logs, Len(stack[k + 1].logs), SetThrough(stack, k))
    BY SetThroughSteps
  <2> QED
    BY <2>3, <2>5, <2>6, <2>7, SetByTimes
<1>3. Nat \subseteq S
  <2> HIDE DEF S
  <2> QED
    BY <1>1, <1>2, SetInduction
<1>4. n \in Nat /\ n <= Len(stack)
  OBVIOUS
<1> QED
  BY <1>3, <1>4
-----------------------------------------------------------------------------
(* The steps. *)

LEMMA SetSoFarTimes ==
  ASSUME BlockTypes, TransactionInv
  PROVE  /\ SetSoFar \in Seq(Override)
         /\ SetThrough(blocks, Len(blocks)) \in Seq(Override)
         /\ overrideTimestamps \in Seq(Time)
<1>1. blocks \in Seq(BlockRow) /\ overrideTimestamps \in Seq(Time)
  BY DEF BlockTypes
<1>2. Len(blocks) \in 0..Len(blocks)
  BY <1>1
<1>3. SetThrough(blocks, Len(blocks)) \in Seq(Override)
  BY <1>1, <1>2, SetThroughTimes
<1>4. CASE Idle
  BY <1>1, <1>3, <1>4 DEF SetSoFar
<1>5. CASE ~Idle
  <2>1. job \in Job
    BY <1>5 DEF BlockTypes, Idle
  <2>2. job.logs \in Seq(LogRecord) /\ job.done \in Nat /\ job.kind \in {"add", "remove"}
    BY <2>1 DEF Job
  <2>3. job.done <= Len(job.logs)
    BY <1>5 DEF TransactionInv
  <2>4. CASE job.kind = "add"
    <3>1. job.done \in 0..Len(job.logs)
      BY <2>2, <2>3
    <3> QED
      BY <1>1, <1>3, <1>5, <2>2, <2>4, <3>1, SetByTimes DEF SetSoFar
  <2>5. CASE job.kind = "remove"
    <3> DEFINE L == blocks[Len(blocks)].logs
    <3>1. blocks # <<>> /\ job.logs = Reverse(L)
      BY <1>5, <2>5 DEF TransactionInv
    <3>2. Len(blocks) \in 1..Len(blocks) /\ Len(blocks) - 1 \in 0..Len(blocks)
      BY <1>1, <3>1
    <3>3. blocks[Len(blocks)] \in BlockRow
      BY <1>1, <3>2
    <3>4. L \in Seq(LogRecord)
      BY <3>3 DEF BlockRow
    <3>5. Len(job.logs) = Len(L)
      BY <3>1, <3>4, ReverseOf
    <3>6. Len(job.logs) - job.done \in 0..Len(L)
      <4>1. Len(L) \in Nat
        BY <3>4
      <4> QED
        BY <2>2, <2>3, <3>5, <4>1
    <3>7. SetThrough(blocks, Len(blocks) - 1) \in Seq(Override)
      BY <1>1, <3>2, SetThroughTimes
    <3>8. SetBy(L, Len(job.logs) - job.done, SetThrough(blocks, Len(blocks) - 1)) \in Seq(Override)
      <4> HIDE DEF L
      <4> QED
        BY <3>4, <3>6, <3>7, SetByTimes
    <3> QED
      BY <1>1, <1>3, <1>5, <2>5, <3>8 DEF SetSoFar
  <2> QED
    BY <2>2, <2>4, <2>5
<1> QED
  BY <1>4, <1>5

LEMMA NothingSet ==
  ASSUME OverrideInv,
         UNCHANGED <<blocks, row, overrideTimestamps, session, clearing, job, overlap>>
  PROVE  OverrideInv'
BY DEF OverrideInv, RowsInv, StampOf, Newest, SessionInv, StackInv, SetSoFar, TransactionInv, Idle

LEMMA OverrideInit == Init => OverrideInv
<1> SUFFICES ASSUME Init
             PROVE  OverrideInv
  OBVIOUS
<1>1. blocks = <<>> /\ row = NoTime /\ overrideTimestamps = <<>> /\ session = "down" /\ ~clearing
      /\ Idle
  BY DEF Init, Idle
<1>2. SetThrough(blocks, 0) = <<>> /\ Len(blocks) = 0
  BY <1>1, SetThroughSteps
<1>3. Newest(Len(blocks)) = NoTime
  BY <1>2 DEF Newest, NewestOf
<1> QED
  BY <1>1, <1>2, <1>3 DEF OverrideInv, RowsInv, SessionInv, StackInv, TransactionInv

LEMMA AddBlockSets ==
  ASSUME IInv, IInv', OverrideInv, AddBlock
  PROVE  OverrideInv'
<1> SUFFICES ASSUME ~overlap
             PROVE  OverrideInv'
  BY DEF AddBlock, OverrideInv
<1>1. RowsInv /\ SessionInv /\ StackInv /\ Idle /\ session # "down"
  BY DEF OverrideInv, AddBlock, Begin
<1>2. PICK logs \in BlockLogs : Begin("add", logs, made + 1)
  BY DEF AddBlock
<1>3. job' = [kind |-> "add", bulk |-> session = "bulk", logs |-> logs, done |-> 0,
              row |-> row, time |-> made + 1, stamp |-> NoTime, since |-> Wanted]
  BY <1>2 DEF Begin
<1>4. UNCHANGED <<blocks, row, overrideTimestamps, session, clearing, overlap>>
  BY DEF AddBlock, effectVars
<1>5. ~Idle' /\ job'.kind = "add" /\ job'.logs = logs /\ job'.done = 0 /\ job'.row = row
      /\ job'.stamp = NoTime
  BY <1>3 DEF Idle, NoJob, None
<1>6. SetSoFar' = SetThrough(blocks, Len(blocks))
  <2>1. SetSoFar' = SetBy(logs, 0, SetThrough(blocks, Len(blocks)))
    BY <1>4, <1>5 DEF SetSoFar
  <2> QED
    BY <2>1, SetBySteps
<1>7. SetSoFar = SetThrough(blocks, Len(blocks))
  BY <1>1 DEF SetSoFar
<1>8. RowsInv' /\ SessionInv'
  BY <1>1, <1>4 DEF RowsInv, SessionInv, StampOf, Newest
<1>9. StackInv'
  BY <1>1, <1>4, <1>6, <1>7 DEF StackInv
<1>10. TransactionInv'
  <2>1. job'.done <= Len(job'.logs)
    <3>1. (job \in Job)'
      BY <1>5 DEF IInv, BlockTypes, Idle
    <3>2. job'.logs \in Seq(LogRecord)
      BY <3>1 DEF Job
    <3> QED
      BY <1>5, <3>2
  <2>2. job'.row = NewestOf(SetSoFar')
    BY <1>1, <1>5, <1>6 DEF RowsInv, Newest
  <2> QED
    BY <1>5, <2>1, <2>2 DEF TransactionInv
<1> QED
  BY <1>8, <1>9, <1>10 DEF OverrideInv

LEMMA RemoveBlockSets ==
  ASSUME IInv, IInv', OverrideInv, RemoveBlock
  PROVE  OverrideInv'
<1> SUFFICES ASSUME ~overlap
             PROVE  OverrideInv'
  BY DEF RemoveBlock, OverrideInv
<1> DEFINE n == Len(blocks)
           L == blocks[n].logs
<1>1. RowsInv /\ SessionInv /\ StackInv /\ Idle /\ session # "down" /\ blocks # <<>>
  BY DEF OverrideInv, RemoveBlock, Begin
<1>2. blocks \in Seq(BlockRow)
  BY DEF IInv, BlockTypes
<1>3. n \in Nat /\ n - 1 \in Nat /\ (n - 1) + 1 = n /\ n \in 1..n
  BY <1>1, <1>2
<1>4. L \in Seq(LogRecord)
  <2>1. blocks[n] \in BlockRow
    BY <1>2, <1>3
  <2> QED
    BY <2>1 DEF BlockRow
<1>5. Last(blocks) = blocks[n]
  BY DEF Last
<1>6. job' = [kind |-> "remove", bulk |-> session = "bulk", logs |-> Reverse(L), done |-> 0,
              row |-> row, time |-> blocks[n].time, stamp |-> NoTime, since |-> Wanted]
  BY <1>5 DEF RemoveBlock, Begin
<1>7. UNCHANGED <<blocks, row, overrideTimestamps, session, clearing, overlap>>
  BY DEF RemoveBlock, effectVars
<1>8. ~Idle' /\ job'.kind = "remove" /\ job'.logs = Reverse(L) /\ job'.done = 0 /\ job'.row = row
  BY <1>6 DEF Idle, NoJob, None
<1>9. Len(job'.logs) = Len(L) /\ Len(L) \in Nat
  BY <1>4, <1>8, ReverseOf
<1>10. SetSoFar' = SetThrough(blocks, n)
  <2>1. SetSoFar' = SetBy(L, Len(L) - 0, SetThrough(blocks, n - 1))
    BY <1>7, <1>8, <1>9 DEF SetSoFar
  <2>2. Len(L) - 0 = Len(L)
    BY <1>9
  <2>3. SetThrough(blocks, (n - 1) + 1)
          = SetBy(blocks[(n - 1) + 1].logs, Len(blocks[(n - 1) + 1].logs), SetThrough(blocks, n - 1))
    BY <1>3, SetThroughSteps
  <2> QED
    BY <1>3, <2>1, <2>2, <2>3
<1>11. SetSoFar = SetThrough(blocks, n)
  BY <1>1 DEF SetSoFar
<1>12. RowsInv' /\ SessionInv'
  BY <1>1, <1>7 DEF RowsInv, SessionInv, StampOf, Newest
<1>13. StackInv'
  BY <1>1, <1>7, <1>10, <1>11 DEF StackInv
<1>14. TransactionInv'
  <2>1. job'.done <= Len(job'.logs)
    BY <1>8, <1>9
  <2>2. job'.row = NewestOf(SetSoFar')
    BY <1>1, <1>8, <1>10 DEF RowsInv, Newest
  <2>3. blocks' # <<>> /\ job'.logs = Reverse(blocks'[Len(blocks')].logs)
    BY <1>1, <1>7, <1>8
  <2> QED
    BY <1>8, <2>1, <2>2, <2>3 DEF TransactionInv
<1> QED
  BY <1>12, <1>13, <1>14 DEF OverrideInv

LEMMA ProcessBlockSets ==
  ASSUME IInv, IInv', OverrideInv, ProcessBlockByBlockDetails
  PROVE  OverrideInv'
<1> SUFFICES ASSUME ~overlap
             PROVE  OverrideInv'
  BY DEF ProcessBlockByBlockDetails, OverrideInv
<1>1. RowsInv /\ SessionInv /\ StackInv /\ TransactionInv
  BY DEF OverrideInv
<1>2. ~Idle /\ job.kind = "add" /\ job.stamp = NoTime
  BY DEF ProcessBlockByBlockDetails
<1>3. job \in Job /\ BlockTypes
  BY <1>2 DEF IInv, BlockTypes, Idle
<1>4. /\ job' = [job EXCEPT !.stamp = TimeAt(job.time)]
      /\ UNCHANGED <<blocks, row, overrideTimestamps, session, clearing, overlap>>
  BY DEF ProcessBlockByBlockDetails
<1>5. /\ job'.kind = "add" /\ job'.logs = job.logs /\ job'.done = job.done /\ job'.row = job.row
      /\ job'.time = job.time /\ job'.stamp = TimeAt(job.time)
  BY <1>2, <1>3, <1>4 DEF Job
<1>6. ~Idle'
  BY <1>5 DEF Idle, NoJob, None
<1>7. SetSoFar' = SetSoFar
  BY <1>2, <1>4, <1>5, <1>6 DEF SetSoFar
<1>8. job.done = 0
  BY <1>1, <1>2 DEF TransactionInv
<1>9. SetSoFar = SetThrough(blocks, Len(blocks))
  <2>1. SetSoFar = SetBy(job.logs, 0, SetThrough(blocks, Len(blocks)))
    BY <1>2, <1>8 DEF SetSoFar
  <2> QED
    BY <2>1, SetBySteps
<1>10. GetOverrideTimestamp = Newest(Len(blocks))
  <2>1. Ends(overrideTimestamps, SetSoFar)
    BY <1>1, <1>2 DEF StackInv
  <2>2. SetSoFar \in Seq(Override) /\ overrideTimestamps \in Seq(Time)
    BY <1>1, <1>3, SetSoFarTimes
  <2>3. GetOverrideTimestamp = NewestOf(SetSoFar)
    BY <2>1, <2>2, EndsNewest DEF GetOverrideTimestamp
  <2> QED
    BY <1>9, <2>3 DEF Newest
<1>11. TimeAt(job.time) = StampOf(Len(blocks), job.time)
  BY <1>10 DEF TimeAt, StampOf
<1>12. RowsInv' /\ SessionInv'
  BY <1>1, <1>2, <1>4, <1>6 DEF RowsInv, SessionInv, StampOf, Newest
<1>13. StackInv'
  BY <1>1, <1>2, <1>4, <1>7 DEF StackInv
<1>14. TransactionInv'
  BY <1>1, <1>2, <1>4, <1>5, <1>7, <1>8, <1>11 DEF TransactionInv, StampOf, Newest
<1> QED
  BY <1>12, <1>13, <1>14 DEF OverrideInv

\* The log that an addition processes next is the next to be in force.
LEMMA NextLogAdded ==
  ASSUME BlockTypes, TransactionInv, ~Idle, job.kind = "add", job.done < Len(job.logs),
         UNCHANGED blocks, ~Idle', job'.kind = "add", job'.logs = job.logs,
         job'.done = job.done + 1
  PROVE  SetSoFar' = IF NextLog.event = "TimestampSet" THEN Append(SetSoFar, NextLog.time)
                     ELSE SetSoFar
<1>1. job \in Job
  BY DEF BlockTypes, Idle
<1>2. job.done \in Nat
  BY <1>1 DEF Job
<1> DEFINE before == SetThrough(blocks, Len(blocks))
<1>3. SetSoFar = SetBy(job.logs, job.done, before)
  BY DEF SetSoFar
<1>4. SetSoFar' = SetBy(job.logs, job.done + 1, before)
  BY DEF SetSoFar
<1> HIDE DEF before
<1>5. SetBy(job.logs, job.done + 1, before)
        = IF job.logs[job.done + 1].event = "TimestampSet"
          THEN Append(SetBy(job.logs, job.done, before), job.logs[job.done + 1].time)
          ELSE SetBy(job.logs, job.done, before)
  BY <1>2, SetBySteps
<1> QED
  BY <1>3, <1>4, <1>5 DEF NextLog

\* The log that a removal processes next is the last in force.
Kept ==
  SetBy(blocks[Len(blocks)].logs, Len(job.logs) - (job.done + 1), SetThrough(blocks, Len(blocks) - 1))

LEMMA NextLogRemoved ==
  ASSUME BlockTypes, TransactionInv, ~Idle, job.kind = "remove", job.done < Len(job.logs)
  PROVE  /\ SetSoFar = IF NextLog.event = "TimestampSet" THEN Append(Kept, NextLog.time) ELSE Kept
         /\ Kept \in Seq(Override)
<1> DEFINE n == Len(blocks)
           L == blocks[n].logs
           k == Len(job.logs) - (job.done + 1)
           before == SetThrough(blocks, n - 1)
<1>1. job \in Job /\ blocks \in Seq(BlockRow)
  BY DEF BlockTypes, Idle
<1>2. blocks # <<>> /\ job.logs = Reverse(L) /\ job.done \in Nat
  BY <1>1 DEF TransactionInv, Job
<1>3. n \in 1..n /\ n - 1 \in 0..n
  BY <1>1, <1>2
<1>4. L \in Seq(LogRecord)
  <2>1. blocks[n] \in BlockRow
    BY <1>1, <1>3
  <2> QED
    BY <2>1 DEF BlockRow
<1>5. /\ Len(job.logs) = Len(L) /\ Len(L) \in Nat
      /\ \A i \in 1..Len(L) : job.logs[i] = L[Len(L) - i + 1]
  BY <1>2, <1>4, ReverseOf
<1>6. k \in Nat /\ k \in 0..Len(L) /\ Len(job.logs) - job.done = k + 1
  BY <1>2, <1>5
<1>7. NextLog = L[k + 1]
  <2>1. job.done + 1 \in 1..Len(L) /\ Len(L) - (job.done + 1) + 1 = k + 1
    BY <1>2, <1>5
  <2>2. job.logs[job.done + 1] = L[Len(L) - (job.done + 1) + 1]
    BY <1>5, <2>1
  <2> QED
    BY <2>1, <2>2 DEF NextLog
<1>8. SetSoFar = SetBy(L, k + 1, before)
  BY <1>6 DEF SetSoFar
<1>9. Kept = SetBy(L, k, before)
  BY DEF Kept
<1>10. before \in Seq(Override)
  BY <1>1, <1>3, SetThroughTimes
<1> HIDE DEF before, L, k
<1>11. SetBy(L, k + 1, before)
         = IF L[k + 1].event = "TimestampSet" THEN Append(SetBy(L, k, before), L[k + 1].time)
           ELSE SetBy(L, k, before)
  BY <1>6, SetBySteps
<1>12. SetBy(L, k, before) \in Seq(Override)
  BY <1>4, <1>6, <1>10, SetByTimes
<1> QED
  BY <1>7, <1>8, <1>9, <1>11, <1>12

\* The override a TimestampSet brings.
LEMMA TimeOfNextLog ==
  ASSUME BlockTypes, ~Idle, job.done < Len(job.logs), NextLog.event = "TimestampSet"
  PROVE  NextLog.time \in Override
<1>1. job \in Job
  BY DEF BlockTypes, Idle
<1>2. job.done \in Nat /\ job.logs \in Seq(LogRecord)
  BY <1>1 DEF Job
<1>3. job.done + 1 \in 1..Len(job.logs)
  BY <1>2
<1>4. NextLog \in LogRecord
  BY <1>2, <1>3 DEF NextLog
<1>5. NextLog # Created
  BY DEF Created
<1>6. PICK t \in Override : NextLog = SetTo(t)
  BY <1>4, <1>5 DEF LogRecord
<1> QED
  BY <1>6 DEF SetTo

LEMMA TimestampSetAdds ==
  ASSUME IInv, OverrideInv, ~overlap, TimestampSet, job.kind = "add"
  PROVE  OverrideInv'
<1>1. RowsInv /\ SessionInv /\ StackInv /\ TransactionInv /\ BlockTypes
  BY DEF OverrideInv, IInv
<1>2. /\ ~Idle /\ job.stamp # NoTime /\ job.done < Len(job.logs)
      /\ NextLog.event = "TimestampSet"
  BY DEF TimestampSet, HasLog, InTransaction
<1>3. job \in Job
  BY <1>1, <1>2 DEF BlockTypes, Idle
<1>4. /\ overrideTimestamps' = Append(overrideTimestamps, NextLog.time)
      /\ job' = [job EXCEPT !.done = @ + 1, !.row = NextLog.time]
      /\ UNCHANGED <<blocks, row, session, clearing, overlap>>
  BY DEF TimestampSet, SetOverrideTimestamp
<1>5. /\ job'.kind = "add" /\ job'.logs = job.logs /\ job'.done = job.done + 1
      /\ job'.time = job.time /\ job'.stamp = job.stamp /\ job'.row = NextLog.time
  BY <1>3, <1>4 DEF Job
<1>6. ~Idle'
  BY <1>5 DEF Idle, NoJob, None
<1>7. SetSoFar' = Append(SetSoFar, NextLog.time)
  BY <1>1, <1>2, <1>4, <1>5, <1>6, NextLogAdded
<1>8. SetSoFar \in Seq(Override) /\ overrideTimestamps \in Seq(Time)
  BY <1>1, SetSoFarTimes
<1>9. NextLog.time \in Override
  BY <1>1, <1>2, TimeOfNextLog
<1>10. StackInv'
  <2>1. Ends(overrideTimestamps, SetSoFar)
    BY <1>1, <1>2 DEF StackInv
  <2>2. Ends(Append(overrideTimestamps, NextLog.time), Append(SetSoFar, NextLog.time))
    BY <1>8, <2>1, EndsAppend
  <2> QED
    BY <1>4, <1>7, <2>2 DEF StackInv, Ends
<1>11. job'.row = NewestOf(SetSoFar')
  <2>1. PICK t : t = NextLog.time
    OBVIOUS
  <2>2. PICK s : s = Append(SetSoFar, t)
    OBVIOUS
  <2>3. PICK z : z = SetSoFar
    OBVIOUS
  <2>4. z \in Seq(Override) /\ t \in Override /\ s = Append(z, t)
    BY <1>8, <1>9, <2>1, <2>2, <2>3
  <2>5. s \in Seq(Override) /\ s # <<>> /\ Len(s) = Len(z) + 1 /\ s[Len(z) + 1] = t
    BY <2>4, AppendProperties
  <2>6. NewestOf(s) = t
    BY <2>5, LastAndFront DEF NewestOf
  <2> QED
    BY <1>5, <1>7, <2>1, <2>2, <2>6
<1>12. RowsInv' /\ SessionInv'
  BY <1>1, <1>2, <1>4, <1>6 DEF RowsInv, SessionInv, StampOf, Newest
<1>13. TransactionInv'
  <2>1. job'.done <= Len(job'.logs)
    BY <1>2, <1>3, <1>5 DEF Job
  <2> QED
    BY <1>1, <1>2, <1>4, <1>5, <1>11, <2>1 DEF TransactionInv, StampOf, Newest
<1> QED
  BY <1>10, <1>12, <1>13 DEF OverrideInv

\* What a session that removes a TimestampSet has on top of its stack, and
\* whether it knows an earlier override.
LEMMA RemovedIsOnTop ==
  ASSUME BlockTypes, OverrideInv, ~overlap, HasLog("TimestampSet"), job.kind = "remove"
  PROVE  Len(overrideTimestamps) >= 1 /\ GetOverrideTimestamp = NextLog.time
<1>1. StackInv /\ TransactionInv
  BY DEF OverrideInv
<1>2. ~Idle /\ job.done < Len(job.logs) /\ NextLog.event = "TimestampSet"
  BY DEF HasLog, InTransaction
<1>4. SetSoFar \in Seq(Override) /\ overrideTimestamps \in Seq(Time)
  BY <1>1, SetSoFarTimes
<1>5. Ends(overrideTimestamps, SetSoFar)
  BY <1>1, <1>2 DEF StackInv
<1>6. SetSoFar = Append(Kept, NextLog.time) /\ Kept \in Seq(Override)
  BY <1>1, <1>2, NextLogRemoved
<1>7. NextLog.time \in Override
  BY <1>2, TimeOfNextLog
<1>8. SetSoFar # <<>> /\ Last(SetSoFar) = NextLog.time /\ Len(SetSoFar) >= 1
  <2>1. PICK z : z = Kept
    OBVIOUS
  <2>2. PICK t : t = NextLog.time
    OBVIOUS
  <2>3. PICK s : s = SetSoFar
    OBVIOUS
  <2>4. z \in Seq(Override) /\ t \in Override /\ s = Append(z, t)
    BY <1>6, <1>7, <2>1, <2>2, <2>3
  <2>5. s \in Seq(Override) /\ s # <<>> /\ Len(s) = Len(z) + 1 /\ s[Len(z) + 1] = t
    BY <2>4, AppendProperties
  <2>6. Last(s) = t /\ Len(s) >= 1
    BY <2>5, LastAndFront
  <2> QED
    BY <2>2, <2>3, <2>5, <2>6
<1>9. Len(overrideTimestamps) >= 1
  <2>1. Len(overrideTimestamps) \in Nat /\ Len(SetSoFar) \in Nat
    BY <1>4
  <2> QED
    BY <1>5, <1>8, <2>1 DEF Ends
<1>10. GetOverrideTimestamp = NewestOf(SetSoFar)
  BY <1>4, <1>5, EndsNewest DEF GetOverrideTimestamp
<1> QED
  BY <1>8, <1>9, <1>10 DEF NewestOf

LEMMA TimestampSetRemoves ==
  ASSUME IInv, OverrideInv, ~overlap, TimestampSet, job.kind # "add"
  PROVE  OverrideInv'
<1>1. RowsInv /\ SessionInv /\ StackInv /\ TransactionInv /\ BlockTypes
  BY DEF OverrideInv, IInv
<1>2. ~Idle /\ job.done < Len(job.logs) /\ NextLog.event = "TimestampSet"
  BY DEF TimestampSet, HasLog, InTransaction
<1>3. job \in Job /\ job.kind = "remove"
  BY <1>1, <1>2 DEF BlockTypes, Idle, Job
<1>4. /\ ~RemovalThrows /\ overrideTimestamps' = Front(overrideTimestamps)
      /\ job' = [job EXCEPT !.done = @ + 1, !.row = Last(Front(overrideTimestamps))]
      /\ UNCHANGED <<blocks, row, session, clearing, overlap>>
  BY DEF TimestampSet
<1>5. /\ job'.kind = "remove" /\ job'.logs = job.logs /\ job'.done = job.done + 1
      /\ job'.row = Last(Front(overrideTimestamps))
  BY <1>3, <1>4 DEF Job
<1>6. ~Idle'
  BY <1>5 DEF Idle, NoJob, None
<1>7. SetSoFar = Append(Kept, NextLog.time) /\ Kept \in Seq(Override)
  BY <1>1, <1>2, <1>3, NextLogRemoved
<1>8. SetSoFar' = Kept
  BY <1>4, <1>5, <1>6 DEF SetSoFar, Kept
<1>9. NextLog.time \in Override
  BY <1>1, <1>2, TimeOfNextLog
<1>10. overrideTimestamps \in Seq(Time) /\ Len(overrideTimestamps) >= 2
  BY <1>1, <1>4 DEF RemovalThrows, BlockTypes
<1>11. Ends(Front(overrideTimestamps), Kept) /\ Front(overrideTimestamps) # <<>>
  <2>1. Ends(overrideTimestamps, Append(Kept, NextLog.time))
    BY <1>1, <1>2, <1>7 DEF StackInv
  <2> QED
    BY <1>7, <1>9, <1>10, <2>1, EndsFront
<1>12. StackInv'
  BY <1>4, <1>8, <1>11 DEF StackInv, Ends
<1>13. job'.row = NewestOf(SetSoFar')
  <2>1. overrideTimestamps # <<>>
    BY <1>10
  <2>2. Front(overrideTimestamps) \in Seq(Time)
    BY <1>10, <2>1, LastAndFront
  <2>3. Last(Front(overrideTimestamps)) = NewestOf(Kept)
    BY <1>7, <1>11, <2>2, EndsNewest
  <2> QED
    BY <1>5, <1>8, <2>3
<1>14. RowsInv' /\ SessionInv'
  BY <1>1, <1>2, <1>4, <1>6 DEF RowsInv, SessionInv, StampOf, Newest
<1>15. TransactionInv'
  <2>1. job'.done <= Len(job'.logs)
    BY <1>2, <1>3, <1>5 DEF Job
  <2> QED
    BY <1>1, <1>2, <1>3, <1>4, <1>5, <1>13, <2>1 DEF TransactionInv
<1> QED
  BY <1>12, <1>14, <1>15 DEF OverrideInv

LEMMA TimestampSetSets ==
  ASSUME IInv, OverrideInv, TimestampSet
  PROVE  OverrideInv'
<1>1. overlap' = overlap
  BY DEF TimestampSet
<1>2. CASE overlap
  BY <1>1, <1>2 DEF OverrideInv
<1> QED
  BY <1>2, TimestampSetAdds, TimestampSetRemoves

\* A log that is not a TimestampSet sets nothing, added or removed.
LEMMA OrderCreatedSets ==
  ASSUME IInv, OverrideInv, OrderCreated
  PROVE  OverrideInv'
<1> SUFFICES ASSUME ~overlap
             PROVE  OverrideInv'
  BY DEF OrderCreated, OverrideInv
<1>1. RowsInv /\ SessionInv /\ StackInv /\ TransactionInv /\ BlockTypes
  BY DEF OverrideInv, IInv
<1>2. /\ ~Idle /\ (job.kind = "add" => job.stamp # NoTime) /\ job.done < Len(job.logs)
      /\ NextLog.event # "TimestampSet"
  BY DEF OrderCreated, HasLog, InTransaction
<1>3. job \in Job
  BY <1>1, <1>2 DEF BlockTypes, Idle
<1>4. /\ job' = [job EXCEPT !.done = @ + 1]
      /\ UNCHANGED <<blocks, row, overrideTimestamps, session, clearing, overlap>>
  BY DEF OrderCreated, effectVars
<1>5. /\ job'.kind = job.kind /\ job'.logs = job.logs /\ job'.done = job.done + 1
      /\ job'.time = job.time /\ job'.stamp = job.stamp /\ job'.row = job.row
      /\ job.kind \in {"add", "remove"}
  BY <1>3, <1>4 DEF Job
<1>6. ~Idle'
  BY <1>5 DEF Idle, NoJob, None
<1>7. SetSoFar' = SetSoFar
  <2>1. CASE job.kind = "add"
    BY <1>1, <1>2, <1>4, <1>5, <1>6, <2>1, NextLogAdded
  <2>2. CASE job.kind = "remove"
    <3>1. SetSoFar = Kept
      BY <1>1, <1>2, <2>2, NextLogRemoved
    <3>2. SetSoFar' = Kept
      BY <1>4, <1>5, <1>6, <2>2 DEF SetSoFar, Kept
    <3> QED
      BY <3>1, <3>2
  <2> QED
    BY <1>5, <2>1, <2>2
<1>8. RowsInv' /\ SessionInv'
  BY <1>1, <1>2, <1>4, <1>6 DEF RowsInv, SessionInv, StampOf, Newest
<1>9. StackInv'
  BY <1>1, <1>2, <1>4, <1>7 DEF StackInv
<1>10. TransactionInv'
  <2>1. job'.done <= Len(job'.logs)
    BY <1>2, <1>3, <1>5 DEF Job
  <2> QED
    BY <1>1, <1>2, <1>4, <1>5, <1>7, <2>1 DEF TransactionInv, StampOf, Newest
<1> QED
  BY <1>8, <1>9, <1>10 DEF OverrideInv

LEMMA CommitSets ==
  ASSUME IInv, OverrideInv, Commit
  PROVE  OverrideInv'
<1> SUFFICES ASSUME ~overlap
             PROVE  OverrideInv'
  BY DEF Commit, OverrideInv
<1> DEFINE n == Len(blocks)
<1>1. RowsInv /\ SessionInv /\ StackInv /\ TransactionInv /\ BlockTypes
  BY DEF OverrideInv, IInv
<1>2. /\ ~Idle /\ (job.kind = "add" => job.stamp # NoTime) /\ job.done = Len(job.logs)
  BY DEF Commit, InTransaction
<1>3. job \in Job /\ blocks \in Seq(BlockRow) /\ n \in Nat
  BY <1>1, <1>2 DEF BlockTypes, Idle
<1>4. job.kind \in {"add", "remove"} /\ job.logs \in Seq(LogRecord) /\ job.done \in Nat
  BY <1>3 DEF Job
<1>5. /\ row' = job.row /\ Idle'
      /\ UNCHANGED <<overrideTimestamps, session, clearing, overlap>>
  BY DEF Commit, Idle
<1>6. /\ \A i \in 1..Len(blocks') : blocks'[i].stamp = StampOf(i - 1, blocks[i].time)'
      /\ SetThrough(blocks', Len(blocks')) = SetSoFar
  <2>1. CASE job.kind = "add"
    <3>1. PICK b : b = [logs |-> job.logs, time |-> job.time, stamp |-> job.stamp]
      OBVIOUS
    <3>2. blocks' = Append(blocks, b)
      BY <2>1, <3>1 DEF Commit
    <3>3. Len(blocks') = n + 1 /\ blocks'[n + 1] = b /\ \A i \in 1..n : blocks'[i] = blocks[i]
      BY <1>3, <3>2
    <3>4. ASSUME NEW k \in 0..n
          PROVE  SetThrough(blocks', k) = SetThrough(blocks, k)
      <4>1. k \in Nat /\ \A i \in 1..k : blocks'[i] = blocks[i]
        BY <1>3, <3>3
      <4> QED
        BY <4>1, SetThroughLocal
    <3>5. SetThrough(blocks', n + 1) = SetBy(job.logs, Len(job.logs), SetThrough(blocks, n))
      <4>1. SetThrough(blocks', n + 1)
              = SetBy(blocks'[n + 1].logs, Len(blocks'[n + 1].logs), SetThrough(blocks', n))
        BY <1>3, SetThroughSteps
      <4>2. b.logs = job.logs
        BY <3>1
      <4>3. n \in 0..n
        BY <1>3
      <4> QED
        BY <3>3, <3>4, <4>1, <4>2, <4>3
    <3>6. SetSoFar = SetBy(job.logs, Len(job.logs), SetThrough(blocks, n))
      BY <1>2, <2>1 DEF SetSoFar
    <3>7. ASSUME NEW i \in 1..(n + 1)
          PROVE  blocks'[i].stamp = StampOf(i - 1, blocks[i].time)'
      <4>1. i - 1 \in 0..n
        BY <1>3
      <4>2. Newest(i - 1)' = Newest(i - 1)
        BY <3>4, <4>1 DEF Newest
      <4>3. CASE i = n + 1
        <5>1. blocks'[i].stamp = job.stamp /\ blocks'[i].time = job.time /\ i - 1 = n
          BY <1>3, <3>1, <3>3, <4>3
        <5>2. job.stamp = StampOf(n, job.time)
          BY <1>1, <1>2, <2>1 DEF TransactionInv
        <5> QED
          BY <4>2, <5>1, <5>2 DEF StampOf
      <4>4. CASE i # n + 1
        <5>1. i \in 1..n
          BY <1>3, <4>4
        <5>2. blocks[i].stamp = StampOf(i - 1, blocks[i].time) /\ blocks'[i] = blocks[i]
          BY <1>1, <3>3, <5>1 DEF RowsInv
        <5> QED
          BY <4>2, <5>2 DEF StampOf
      <4> QED
        BY <4>3, <4>4
    <3> QED
      BY <3>3, <3>5, <3>6, <3>7
  <2>2. CASE job.kind = "remove"
    <3>1. blocks' = Front(blocks) /\ blocks # <<>>
      BY <1>1, <1>2, <2>2 DEF Commit, TransactionInv
    <3>2. n >= 1 /\ Len(blocks') = n - 1 /\ \A i \in 1..(n - 1) : blocks'[i] = blocks[i]
      BY <1>3, <3>1, LastAndFront
    <3>3. ASSUME NEW k \in 0..(n - 1)
          PROVE  SetThrough(blocks', k) = SetThrough(blocks, k)
      <4>1. k \in Nat /\ \A i \in 1..k : blocks'[i] = blocks[i]
        BY <1>3, <3>2
      <4> QED
        BY <4>1, SetThroughLocal
    <3>4. SetSoFar = SetThrough(blocks, n - 1)
      <4> DEFINE L == blocks[n].logs
                 before == SetThrough(blocks, n - 1)
      <4>1. SetSoFar = SetBy(L, Len(job.logs) - job.done, before)
        BY <1>2, <2>2 DEF SetSoFar
      <4>2. Len(job.logs) - job.done = 0
        BY <1>2, <1>4
      <4> HIDE DEF L, before
      <4>3. SetBy(L, 0, before) = before
        BY SetBySteps
      <4>4. SetSoFar = before
        BY <4>1, <4>2, <4>3
      <4> QED
        BY <4>4 DEF before
    <3>5. ASSUME NEW i \in 1..(n - 1)
          PROVE  blocks'[i].stamp = StampOf(i - 1, blocks[i].time)'
      <4>1. i - 1 \in 0..(n - 1) /\ i \in 1..n
        BY <1>3
      <4>2. Newest(i - 1)' = Newest(i - 1)
        BY <3>3, <4>1 DEF Newest
      <4>3. blocks[i].stamp = StampOf(i - 1, blocks[i].time) /\ blocks'[i] = blocks[i]
        BY <1>1, <3>2, <4>1 DEF RowsInv
      <4> QED
        BY <4>2, <4>3 DEF StampOf
    <3>6. n - 1 \in 0..(n - 1)
      BY <1>3, <3>2
    <3> QED
      BY <3>2, <3>3, <3>4, <3>5, <3>6
  <2> QED
    BY <1>4, <2>1, <2>2
<1>7. job.row = NewestOf(SetSoFar)
  BY <1>1, <1>2 DEF TransactionInv
<1>8. RowsInv'
  BY <1>5, <1>6, <1>7 DEF RowsInv, Newest
<1>9. SessionInv'
  BY <1>1, <1>2, <1>5 DEF SessionInv
<1>10. StackInv'
  <2>1. Ends(overrideTimestamps, SetSoFar)
    BY <1>1, <1>2 DEF StackInv
  <2>2. SetSoFar' = SetSoFar
    BY <1>5, <1>6 DEF SetSoFar
  <2> QED
    BY <1>5, <2>1, <2>2 DEF StackInv
<1>11. TransactionInv'
  BY <1>5 DEF TransactionInv
<1> QED
  BY <1>8, <1>9, <1>10, <1>11 DEF OverrideInv

\* A session that starts takes its override from the network_id row, onto a
\* stack that is empty unless its predecessor has yet to clear it.
LEMMA StartSets ==
  ASSUME IInv, OverrideInv, Start
  PROVE  OverrideInv'
<1> SUFFICES ASSUME ~overlap, ~clearing
             PROVE  OverrideInv'
  BY DEF Start, OverrideInv
<1>1. RowsInv /\ SessionInv /\ TransactionInv /\ BlockTypes
  BY DEF OverrideInv, IInv
<1>2. session = "down" /\ Idle /\ overrideTimestamps = <<>>
  BY <1>1 DEF Start, SessionInv
<1>3. session' = "bulk" /\ UNCHANGED <<blocks, row, clearing, job>>
  BY DEF Start
<1> DEFINE times == SetThrough(blocks, Len(blocks))
<1>4. times \in Seq(Override) /\ row = NewestOf(times) /\ Idle' /\ SetSoFar' = times
  BY <1>1, <1>2, <1>3, SetSoFarTimes DEF RowsInv, Newest, SetSoFar, Idle
<1> HIDE DEF times
<1>5. Ends(overrideTimestamps, times)'
  <2>1. CASE row = NoTime
    <3>1. overrideTimestamps' = <<>>
      BY <1>2, <2>1 DEF Start
    <3>2. times = <<>>
      <4>1. ASSUME times # <<>>
            PROVE  FALSE
        <5>1. NewestOf(times) \in Override
          BY <1>4, <4>1, LastAndFront DEF NewestOf
        <5> QED
          BY <1>4, <2>1, <5>1, EffectsAssumption DEF EffectsAssumption
      <4> QED
        BY <4>1
    <3>3. times' = times
      BY <1>3 DEF times
    <3> QED
      BY <3>1, <3>2, <3>3 DEF Ends
  <2>2. CASE row # NoTime
    <3>1. overrideTimestamps' = Append(<<>>, row)
      BY <1>2, <2>2 DEF Start, SetOverrideTimestamp
    <3>2. overrideTimestamps' = <<row>>
      BY <3>1
    <3>3. times # <<>> /\ row = Last(times)
      BY <1>4, <2>2 DEF NewestOf
    <3>4. Len(times) \in Nat /\ Len(times) >= 1 /\ row = times[Len(times)]
      BY <1>4, <3>3, LastAndFront
    <3>5. Ends(<<row>>, times)
      BY <3>4 DEF Ends
    <3>6. times' = times
      BY <1>3 DEF times
    <3> QED
      BY <3>2, <3>5, <3>6 DEF Ends
  <2> QED
    BY <2>1, <2>2
<1>6. StackInv'
  <2>1. times' = times
    BY <1>3 DEF times
  <2> QED
    BY <1>4, <1>5, <2>1 DEF StackInv, Ends
<1>7. RowsInv' /\ SessionInv' /\ TransactionInv'
  BY <1>1, <1>3, <1>4 DEF RowsInv, StampOf, Newest, SessionInv, TransactionInv
<1> QED
  BY <1>6, <1>7 DEF OverrideInv

LEMMA SessionSets ==
  ASSUME IInv, OverrideInv,
         StartAugurListeners \/ Shutdown \/ ClearOverrideTimestamp \/ BulkAborts
  PROVE  OverrideInv'
<1>1. UNCHANGED <<blocks, row, overlap>>
  BY DEF StartAugurListeners, Shutdown, ClearOverrideTimestamp, BulkAborts, effectVars
<1> SUFFICES ASSUME ~overlap
             PROVE  OverrideInv'
  BY <1>1 DEF OverrideInv
<1>2. RowsInv /\ SessionInv /\ StackInv /\ TransactionInv
  BY DEF OverrideInv
<1>3. RowsInv'
  BY <1>1, <1>2 DEF RowsInv, StampOf, Newest
<1>4. SessionInv' /\ StackInv' /\ TransactionInv'
  <2>1. CASE StartAugurListeners
    <3>1. /\ session = "bulk" /\ session' = "live" /\ Idle
          /\ UNCHANGED <<overrideTimestamps, clearing, job>>
      BY <2>1 DEF StartAugurListeners, effectVars
    <3> QED
      BY <1>1, <1>2, <3>1 DEF SessionInv, StackInv, TransactionInv, SetSoFar, Idle
  <2>2. CASE Shutdown
    <3>1. /\ session # "down" /\ session' = "down" /\ clearing'
          /\ UNCHANGED <<overrideTimestamps, job>>
      BY <2>2 DEF Shutdown, effectVars
    <3> QED
      BY <1>1, <1>2, <3>1
      DEF SessionInv, StackInv, TransactionInv, SetSoFar, Idle, StampOf, Newest
  <2>3. CASE ClearOverrideTimestamp
    <3>1. /\ clearing /\ (session = "down" => Idle) /\ ~clearing' /\ overrideTimestamps' = <<>>
          /\ UNCHANGED <<session, job>>
      BY <2>3 DEF ClearOverrideTimestamp
    <3>2. session = "down" /\ Idle
      BY <1>2, <3>1 DEF SessionInv
    <3> QED
      BY <3>1, <3>2 DEF SessionInv, StackInv, TransactionInv, Idle
  <2>4. CASE BulkAborts
    <3>1. job' = NoJob /\ session' = "down" /\ clearing'
      BY <2>4 DEF BulkAborts
    <3> QED
      BY <3>1 DEF SessionInv, StackInv, TransactionInv, Idle
  <2> QED
    BY <2>1, <2>2, <2>3, <2>4
<1> QED
  BY <1>3, <1>4 DEF OverrideInv

LEMMA ProcessEndsSets ==
  ASSUME OverrideInv, LiveThrows \/ Kill
  PROVE  OverrideInv'
<1>1. ProcessEnds
  BY DEF LiveThrows, Kill
<1>2. /\ UNCHANGED <<blocks, row, overlap>> /\ overrideTimestamps' = <<>>
      /\ session' = "down" /\ ~clearing' /\ job' = NoJob
  BY <1>1 DEF ProcessEnds
<1>3. RowsInv => RowsInv'
  BY <1>2 DEF RowsInv, StampOf, Newest
<1>4. SessionInv' /\ StackInv' /\ TransactionInv'
  BY <1>2 DEF SessionInv, StackInv, TransactionInv, Idle
<1> QED
  BY <1>2, <1>3, <1>4 DEF OverrideInv

\* The stack of override timestamps (process-block.ts) ends what the blocks
\* followed and the finished logs of the transaction have set, through
\* removals, aborted transactions, restarts and kills, unless sessions overlap.
THEOREM StackEndsTheOverrides == Spec => []OverrideInv
<1>1. Init => OverrideInv
  BY OverrideInit
<1>2. IInv /\ IInv' /\ OverrideInv /\ [Next]_vars => OverrideInv'
  <2> SUFFICES ASSUME IInv, IInv', OverrideInv, [Next]_vars
               PROVE  OverrideInv'
    OBVIOUS
  <2>1. CASE AddBlock
    BY <2>1, AddBlockSets
  <2>2. CASE RemoveBlock
    BY <2>2, RemoveBlockSets
  <2>3. CASE ProcessBlockByBlockDetails
    BY <2>3, ProcessBlockSets
  <2>4. CASE TimestampSet
    BY <2>4, TimestampSetSets
  <2>5. CASE OrderCreated
    BY <2>5, OrderCreatedSets
  <2>6. CASE Commit
    BY <2>6, CommitSets
  <2>7. CASE Start
    BY <2>7, StartSets
  <2>8. CASE StartAugurListeners \/ Shutdown \/ ClearOverrideTimestamp \/ BulkAborts
    BY <2>8, SessionSets
  <2>9. CASE LiveThrows \/ Kill
    BY <2>9, ProcessEndsSets
  <2>10. CASE ClientStep
    <3>1. UNCHANGED <<blocks, row, overrideTimestamps, session, clearing, job, overlap>>
      BY <2>10 DEF ClientStep, effectVars
    <3> QED
      BY <3>1, NothingSet
  <2>11. CASE UNCHANGED vars
    <3>1. UNCHANGED <<blocks, row, overrideTimestamps, session, clearing, job, overlap>>
      BY <2>11 DEF vars, effectVars
    <3> QED
      BY <3>1, NothingSet
  <2> QED
    BY <2>1, <2>2, <2>3, <2>4, <2>5, <2>6, <2>7, <2>8, <2>9, <2>10, <2>11 DEF Next
<1>3. Spec => []IInv
  BY SubscriptionsAreCounted
<1> QED
  BY <1>1, <1>2, <1>3, PTL DEF Spec

\* OverrideIsCurrent: the network_id row, the rows' timestamps and the override
\* a session works with (process-block.ts, process-timestamp-set.ts) follow the
\* TimestampSets of the blocks, and a removal throws only for want of an earlier
\* override.
THEOREM OverrideIsCurrentHolds == Spec => []OverrideIsCurrent
<1>1. IInv /\ OverrideInv => OverrideIsCurrent
  <2> SUFFICES ASSUME IInv, OverrideInv, ~overlap
               PROVE  OverrideIsCurrent
    BY DEF OverrideIsCurrent
  <2>1. RowsInv /\ SessionInv /\ StackInv /\ TransactionInv /\ BlockTypes
    BY DEF OverrideInv, IInv
  <2>2. ASSUME session # "down", Idle
        PROVE  GetOverrideTimestamp = row
    <3>1. Ends(overrideTimestamps, SetThrough(blocks, Len(blocks)))
      BY <2>1, <2>2 DEF StackInv, SetSoFar
    <3>2. /\ SetThrough(blocks, Len(blocks)) \in Seq(Override)
          /\ overrideTimestamps \in Seq(Time)
      BY <2>1, SetSoFarTimes
    <3>3. GetOverrideTimestamp = NewestOf(SetThrough(blocks, Len(blocks)))
      BY <3>1, <3>2, EndsNewest DEF GetOverrideTimestamp
    <3> QED
      BY <2>1, <3>3 DEF RowsInv, Newest
  <2>3. \A i \in 1..Len(blocks) :
          blocks[i].stamp = IF Newest(i - 1) # NoTime THEN Newest(i - 1) ELSE blocks[i].time
    BY <2>1 DEF RowsInv, StampOf
  <2>4. ASSUME HasLog("TimestampSet"), job.kind = "remove", RemovalThrows
        PROVE  Len(overrideTimestamps) = 1
    <3>1. Len(overrideTimestamps) >= 1 /\ GetOverrideTimestamp = NextLog.time
      BY <2>1, <2>4, RemovedIsOnTop
    <3>2. Len(overrideTimestamps) \in Nat
      BY <2>1 DEF BlockTypes
    <3> QED
      BY <2>4, <3>1, <3>2 DEF RemovalThrows
  <2> QED
    BY <2>1, <2>2, <2>3, <2>4 DEF OverrideIsCurrent, RowsInv
<1> QED
  BY <1>1, SubscriptionsAreCounted, StackEndsTheOverrides, PTL
=============================================================================
