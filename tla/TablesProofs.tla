---------------------------- MODULE TablesProofs ----------------------------
(***************************************************************************)
(* Lemmas about ReportingTables: what every operator on the tables keeps   *)
(* of them, their types first, and what it changes.                        *)
(***************************************************************************)
EXTENDS ReportingTables, FiniteSetTheorems, TLAPS

\* A table: a function from the keys of its rows.
Rows(K, V) == UNION {[S -> V] : S \in SUBSET K}
Window == Universe \X Nat
ReportRow == [payout : Payout, disavowed : {0, 1}]
PayoutRow == [tentative : BOOLEAN, winning : BOOLEAN]
Tables ==
  [markets : Rows(Market, MarketRow), states : [Market -> Seq(ReportingState)],
   windows : Rows(Window, {"FUTURE", "CURRENT", "PAST"}), reports : Rows(Market, ReportRow),
   crowdsourcers : Rows(Crowdsourcer, CrowdsourcerRow), payouts : Rows(Market \X Payout, PayoutRow),
   forked : SUBSET Universe]

LEMMA RowsElim ==
  ASSUME NEW K, NEW V, NEW f \in Rows(K, V)
  PROVE  DOMAIN f \in SUBSET K /\ f \in [DOMAIN f -> V]
BY DEF Rows

LEMMA RowsIntro ==
  ASSUME NEW K, NEW V, NEW S \in SUBSET K, NEW f \in [S -> V]
  PROVE  f \in Rows(K, V)
BY DEF Rows

LEMMA RowAdded ==
  ASSUME NEW K, NEW V, NEW f \in Rows(K, V), NEW k \in K, NEW v \in V
  PROVE  With(f, k, v) \in Rows(K, V)
<1>1. DOMAIN f \in SUBSET K /\ f \in [DOMAIN f -> V]
  BY RowsElim
<1>2. With(f, k, v) \in [DOMAIN f \cup {k} -> V]
  BY <1>1 DEF With
<1> QED
  BY <1>1, <1>2, RowsIntro

LEMMA RowDropped ==
  ASSUME NEW K, NEW V, NEW f \in Rows(K, V), NEW k
  PROVE  Without(f, k) \in Rows(K, V)
<1>1. DOMAIN f \in SUBSET K /\ f \in [DOMAIN f -> V]
  BY RowsElim
<1>2. Without(f, k) \in [DOMAIN f \ {k} -> V]
  BY <1>1 DEF Without
<1> QED
  BY <1>1, <1>2, RowsIntro

LEMMA RowChanged ==
  ASSUME NEW K, NEW V, NEW f \in Rows(K, V), NEW k \in DOMAIN f, NEW v \in V
  PROVE  /\ [f EXCEPT ![k] = v] \in Rows(K, V) /\ DOMAIN [f EXCEPT ![k] = v] = DOMAIN f
         /\ [f EXCEPT ![k] = v][k] = v
         /\ \A x \in DOMAIN f : x # k => [f EXCEPT ![k] = v][x] = f[x]
<1>1. DOMAIN f \in SUBSET K /\ f \in [DOMAIN f -> V]
  BY RowsElim
<1>2. [f EXCEPT ![k] = v] \in [DOMAIN f -> V]
  BY <1>1
<1>3. [f EXCEPT ![k] = v] \in Rows(K, V)
  BY <1>1, <1>2, RowsIntro
<1> QED
  BY <1>1, <1>2, <1>3

LEMMA TablesElim ==
  ASSUME NEW d \in Tables
  PROVE  /\ d.markets \in Rows(Market, MarketRow) /\ d.states \in [Market -> Seq(ReportingState)]
         /\ d.windows \in Rows(Window, {"FUTURE", "CURRENT", "PAST"})
         /\ d.reports \in Rows(Market, ReportRow)
         /\ d.crowdsourcers \in Rows(Crowdsourcer, CrowdsourcerRow)
         /\ d.payouts \in Rows(Market \X Payout, PayoutRow) /\ d.forked \in SUBSET Universe
BY DEF Tables

LEMMA SetMarkets ==
  ASSUME NEW d \in Tables, NEW f \in Rows(Market, MarketRow)
  PROVE  LET e == [d EXCEPT !.markets = f]
         IN  /\ e \in Tables /\ e.markets = f /\ e.states = d.states /\ e.windows = d.windows
             /\ e.reports = d.reports /\ e.crowdsourcers = d.crowdsourcers
             /\ e.payouts = d.payouts /\ e.forked = d.forked
BY DEF Tables

LEMMA SetStates ==
  ASSUME NEW d \in Tables, NEW f \in [Market -> Seq(ReportingState)]
  PROVE  LET e == [d EXCEPT !.states = f]
         IN  /\ e \in Tables /\ e.markets = d.markets /\ e.states = f /\ e.windows = d.windows
             /\ e.reports = d.reports /\ e.crowdsourcers = d.crowdsourcers
             /\ e.payouts = d.payouts /\ e.forked = d.forked
BY DEF Tables

LEMMA SetWindows ==
  ASSUME NEW d \in Tables, NEW f \in Rows(Window, {"FUTURE", "CURRENT", "PAST"})
  PROVE  LET e == [d EXCEPT !.windows = f]
         IN  /\ e \in Tables /\ e.markets = d.markets /\ e.states = d.states /\ e.windows = f
             /\ e.reports = d.reports /\ e.crowdsourcers = d.crowdsourcers
             /\ e.payouts = d.payouts /\ e.forked = d.forked
BY DEF Tables

LEMMA SetReports ==
  ASSUME NEW d \in Tables, NEW f \in Rows(Market, ReportRow)
  PROVE  LET e == [d EXCEPT !.reports = f]
         IN  /\ e \in Tables /\ e.markets = d.markets /\ e.states = d.states /\ e.windows = d.windows
             /\ e.reports = f /\ e.crowdsourcers = d.crowdsourcers
             /\ e.payouts = d.payouts /\ e.forked = d.forked
BY DEF Tables

LEMMA SetCrowdsourcers ==
  ASSUME NEW d \in Tables, NEW f \in Rows(Crowdsourcer, CrowdsourcerRow)
  PROVE  LET e == [d EXCEPT !.crowdsourcers = f]
         IN  /\ e \in Tables /\ e.markets = d.markets /\ e.states = d.states /\ e.windows = d.windows
             /\ e.reports = d.reports /\ e.crowdsourcers = f
             /\ e.payouts = d.payouts /\ e.forked = d.forked
BY DEF Tables

LEMMA SetPayouts ==
  ASSUME NEW d \in Tables, NEW f \in Rows(Market \X Payout, PayoutRow)
  PROVE  LET e == [d EXCEPT !.payouts = f]
         IN  /\ e \in Tables /\ e.markets = d.markets /\ e.states = d.states /\ e.windows = d.windows
             /\ e.reports = d.reports /\ e.crowdsourcers = d.crowdsourcers
             /\ e.payouts = f /\ e.forked = d.forked
BY DEF Tables

LEMMA SetForked ==
  ASSUME NEW d \in Tables, NEW f \in SUBSET Universe
  PROVE  LET e == [d EXCEPT !.forked = f]
         IN  /\ e \in Tables /\ e.markets = d.markets /\ e.states = d.states /\ e.windows = d.windows
             /\ e.reports = d.reports /\ e.crowdsourcers = d.crowdsourcers
             /\ e.payouts = d.payouts /\ e.forked = f
BY DEF Tables
-----------------------------------------------------------------------------
(* What the operators on the tables leave alone. *)

KeepsMarkets(d, e) ==
  /\ DOMAIN e.markets = DOMAIN d.markets /\ e.forked = d.forked
  /\ \A m \in DOMAIN d.markets :
       /\ e.markets[m].universe = d.markets[m].universe
       /\ e.markets[m].forking = d.markets[m].forking
       /\ e.markets[m].needsMigration = d.markets[m].needsMigration
       /\ e.markets[m].needsDisavowal = d.markets[m].needsDisavowal
KeepsReports(d, e) == DOMAIN e.reports = DOMAIN d.reports
KeepsStakes(d, e) ==
  /\ DOMAIN e.crowdsourcers = DOMAIN d.crowdsourcers
  /\ \A c \in DOMAIN d.crowdsourcers : e.crowdsourcers[c].staked = d.crowdsourcers[c].staked
KeepsWindows(d, e) == e.windows = d.windows
KeepsAll(d, e) == /\ KeepsMarkets(d, e) /\ KeepsReports(d, e)
                  /\ KeepsStakes(d, e) /\ KeepsWindows(d, e)

LEMMA KeepsTwice ==
  ASSUME NEW d, NEW e, NEW f, KeepsAll(d, e), KeepsAll(e, f)
  PROVE  KeepsAll(d, f)
BY DEF KeepsAll, KeepsMarkets, KeepsReports, KeepsStakes, KeepsWindows

LEMMA StatesUpdated ==
  ASSUME NEW d \in Tables, NEW S, NEW s \in ReportingState
  PROVE  LET e == UpdateMarketState(d, S, s)
         IN  /\ e \in Tables /\ KeepsAll(d, e) /\ e.markets = d.markets
             /\ e.reports = d.reports /\ e.crowdsourcers = d.crowdsourcers
             /\ e.payouts = d.payouts
             /\ \A m \in Market : e.states[m] = IF m \in S THEN Append(d.states[m], s)
                                                ELSE d.states[m]
<1> DEFINE f == [m \in Market |-> IF m \in S THEN Append(d.states[m], s) ELSE d.states[m]]
<1>1. d.states \in [Market -> Seq(ReportingState)]
  BY TablesElim
<1>2. f \in [Market -> Seq(ReportingState)]
  BY <1>1
<1>3. UpdateMarketState(d, S, s) = [d EXCEPT !.states = f]
  BY DEF UpdateMarketState
<1> HIDE DEF f
<1>4. LET e == [d EXCEPT !.states = f]
      IN  /\ e \in Tables /\ e.markets = d.markets /\ e.states = f /\ e.windows = d.windows
          /\ e.reports = d.reports /\ e.crowdsourcers = d.crowdsourcers
          /\ e.payouts = d.payouts /\ e.forked = d.forked
  BY <1>2, SetStates
<1>5. \A m \in Market : f[m] = IF m \in S THEN Append(d.states[m], s) ELSE d.states[m]
  BY DEF f
<1> QED
  BY <1>3, <1>4, <1>5 DEF KeepsAll, KeepsMarkets, KeepsReports, KeepsStakes, KeepsWindows

LEMMA StateRolledBack ==
  ASSUME NEW d \in Tables, NEW m \in Market
  PROVE  LET e == RollbackMarketState(d, m)
         IN  /\ e \in Tables /\ KeepsAll(d, e) /\ e.markets = d.markets
             /\ e.reports = d.reports /\ e.crowdsourcers = d.crowdsourcers
             /\ e.payouts = d.payouts
             /\ e.states = [d.states EXCEPT ![m] = SubSeq(@, 1, Len(@) - 1)]
<1> DEFINE f == [d.states EXCEPT ![m] = SubSeq(@, 1, Len(@) - 1)]
<1>1. d.states \in [Market -> Seq(ReportingState)]
  BY TablesElim
<1>2. SubSeq(d.states[m], 1, Len(d.states[m]) - 1) \in Seq(ReportingState)
  <2>1. PICK s \in Seq(ReportingState) : s = d.states[m]
    BY <1>1
  <2>2. PICK n \in Nat : n = Len(s)
    OBVIOUS
  <2>3. \A i \in 1..n - 1 : s[i] \in ReportingState
    BY <2>2
  <2> QED
    BY <2>1, <2>2, <2>3
<1>3. f \in [Market -> Seq(ReportingState)]
  BY <1>1, <1>2
<1>4. RollbackMarketState(d, m) = [d EXCEPT !.states = f]
  BY DEF RollbackMarketState
<1> HIDE DEF f
<1>5. LET e == [d EXCEPT !.states = f]
      IN  /\ e \in Tables /\ e.markets = d.markets /\ e.states = f /\ e.windows = d.windows
          /\ e.reports = d.reports /\ e.crowdsourcers = d.crowdsourcers
          /\ e.payouts = d.payouts /\ e.forked = d.forked
  BY <1>3, SetStates
<1> QED
  BY <1>4, <1>5 DEF f, KeepsAll, KeepsMarkets, KeepsReports, KeepsStakes, KeepsWindows

LEMMA WindowIsWindow ==
  ASSUME MarketAssumption, NEW u \in Universe, NEW t \in Nat
  PROVE  WindowAt(u, t) \in Window
BY DEF WindowAt, Window, MarketAssumption

LEMMA FeeWindowUpdated ==
  ASSUME MarketAssumption, NEW d \in Tables, NEW u \in Universe, NEW m \in DOMAIN d.markets,
         NEW now \in Nat, NEW next \in BOOLEAN
  PROVE  LET e == UpdateMarketFeeWindow(d, u, m, now, next)
         IN  /\ e \in Tables /\ KeepsAll(d, e) /\ e.states = d.states
             /\ e.reports = d.reports /\ e.crowdsourcers = d.crowdsourcers
             /\ e.payouts = d.payouts
             /\ \A x \in DOMAIN d.markets : x # m => e.markets[x] = d.markets[x]
<1> DEFINE w == WindowAt(u, now + (IF next THEN Duration ELSE 0))
           row == [d.markets[m] EXCEPT !.feeWindow = w]
<1>1. /\ d.markets \in Rows(Market, MarketRow) /\ d.markets \in [DOMAIN d.markets -> MarketRow]
  BY TablesElim, RowsElim
<1>2. w \in Universe \X Nat
  <2>1. now + (IF next THEN Duration ELSE 0) \in Nat
    BY DEF MarketAssumption
  <2> QED
    BY <2>1, WindowIsWindow DEF Window
<1> HIDE DEF w
<1>3. row \in MarketRow
  BY <1>1, <1>2 DEF MarketRow
<1>4. /\ row.universe = d.markets[m].universe /\ row.forking = d.markets[m].forking
      /\ row.needsMigration = d.markets[m].needsMigration
      /\ row.needsDisavowal = d.markets[m].needsDisavowal
  BY <1>1 DEF MarketRow
<1>5. UpdateMarketFeeWindow(d, u, m, now, next) = [d EXCEPT !.markets = [d.markets EXCEPT ![m] = row]]
  BY DEF UpdateMarketFeeWindow, w
<1> HIDE DEF row
<1>6. /\ [d.markets EXCEPT ![m] = row] \in Rows(Market, MarketRow)
      /\ DOMAIN [d.markets EXCEPT ![m] = row] = DOMAIN d.markets
      /\ [d.markets EXCEPT ![m] = row][m] = row
      /\ \A x \in DOMAIN d.markets : x # m => [d.markets EXCEPT ![m] = row][x] = d.markets[x]
  BY <1>1, <1>3, RowChanged
<1> DEFINE f == [d.markets EXCEPT ![m] = row]
<1> HIDE DEF f
<1>7. LET e == [d EXCEPT !.markets = f]
      IN  /\ e \in Tables /\ e.markets = f /\ e.states = d.states /\ e.windows = d.windows
          /\ e.reports = d.reports /\ e.crowdsourcers = d.crowdsourcers
          /\ e.payouts = d.payouts /\ e.forked = d.forked
  BY <1>6, SetMarkets DEF f
<1>8. KeepsAll(d, [d EXCEPT !.markets = f])
  BY <1>4, <1>6, <1>7 DEF f, KeepsAll, KeepsMarkets, KeepsReports, KeepsStakes, KeepsWindows
<1> QED
  BY <1>5, <1>6, <1>7, <1>8 DEF f

LEMMA RoundUpdated ==
  ASSUME NEW d \in Tables, NEW m \in DOMAIN d.markets, IsFiniteSet(DOMAIN d.crowdsourcers)
  PROVE  LET e == UpdateDisputeRound(d, m)
         IN  /\ e \in Tables /\ KeepsAll(d, e) /\ e.states = d.states
             /\ e.reports = d.reports /\ e.crowdsourcers = d.crowdsourcers
             /\ e.payouts = d.payouts
             /\ e.markets = [d.markets EXCEPT ![m].disputeRounds =
                  Cardinality({c \in CrowdsourcersOf(d, m) : d.crowdsourcers[c].completed = 1})]
<1> DEFINE n == Cardinality({c \in CrowdsourcersOf(d, m) : d.crowdsourcers[c].completed = 1})
           row == [d.markets[m] EXCEPT !.disputeRounds = n]
<1>1. /\ d.markets \in Rows(Market, MarketRow) /\ d.markets \in [DOMAIN d.markets -> MarketRow]
  BY TablesElim, RowsElim
<1>2. n \in Nat
  <2>1. {c \in CrowdsourcersOf(d, m) : d.crowdsourcers[c].completed = 1} \in SUBSET DOMAIN d.crowdsourcers
    BY DEF CrowdsourcersOf
  <2>2. IsFiniteSet({c \in CrowdsourcersOf(d, m) : d.crowdsourcers[c].completed = 1})
    BY <2>1, FS_Subset
  <2> QED
    BY <2>2, FS_CardinalityType
<1>3. UpdateDisputeRound(d, m) = [d EXCEPT !.markets = [d.markets EXCEPT ![m] = row]]
  BY DEF UpdateDisputeRound
<1> HIDE DEF n
<1>4. row \in MarketRow
  BY <1>1, <1>2 DEF MarketRow
<1>5. /\ row.universe = d.markets[m].universe /\ row.forking = d.markets[m].forking
      /\ row.needsMigration = d.markets[m].needsMigration
      /\ row.needsDisavowal = d.markets[m].needsDisavowal
  BY <1>1 DEF MarketRow
<1> HIDE DEF row
<1>6. /\ [d.markets EXCEPT ![m] = row] \in Rows(Market, MarketRow)
      /\ DOMAIN [d.markets EXCEPT ![m] = row] = DOMAIN d.markets
      /\ [d.markets EXCEPT ![m] = row][m] = row
      /\ \A x \in DOMAIN d.markets : x # m => [d.markets EXCEPT ![m] = row][x] = d.markets[x]
  BY <1>1, <1>4, RowChanged
<1> DEFINE f == [d.markets EXCEPT ![m] = row]
<1> HIDE DEF f
<1>7. LET e == [d EXCEPT !.markets = f]
      IN  /\ e \in Tables /\ e.markets = f /\ e.states = d.states /\ e.windows = d.windows
          /\ e.reports = d.reports /\ e.crowdsourcers = d.crowdsourcers
          /\ e.payouts = d.payouts /\ e.forked = d.forked
  BY <1>6, SetMarkets DEF f
<1>8. KeepsAll(d, [d EXCEPT !.markets = f])
  BY <1>5, <1>6, <1>7 DEF f, KeepsAll, KeepsMarkets, KeepsReports, KeepsStakes, KeepsWindows
<1> QED
  BY <1>3, <1>7, <1>8 DEF f, row, n

LEMMA PayoutsSet ==
  ASSUME NEW d \in Tables, NEW f \in Rows(Market \X Payout, PayoutRow)
  PROVE  LET e == [d EXCEPT !.payouts = f]
         IN  /\ e \in Tables /\ KeepsAll(d, e) /\ e.states = d.states /\ e.markets = d.markets
             /\ e.reports = d.reports /\ e.crowdsourcers = d.crowdsourcers
<1>1. LET e == [d EXCEPT !.payouts = f]
      IN  /\ e \in Tables /\ e.markets = d.markets /\ e.states = d.states /\ e.windows = d.windows
          /\ e.reports = d.reports /\ e.crowdsourcers = d.crowdsourcers
          /\ e.payouts = f /\ e.forked = d.forked
  BY SetPayouts
<1> QED
  BY <1>1 DEF KeepsAll, KeepsMarkets, KeepsReports, KeepsStakes, KeepsWindows

LEMMA PayoutInserted ==
  ASSUME NEW d \in Tables, NEW m \in Market, NEW p \in Payout, NEW b \in BOOLEAN
  PROVE  LET e == InsertPayout(d, m, p, b)
         IN  /\ e \in Tables /\ KeepsAll(d, e) /\ e.states = d.states /\ e.markets = d.markets
             /\ e.reports = d.reports /\ e.crowdsourcers = d.crowdsourcers
<1>1. CASE <<m, p>> \in DOMAIN d.payouts
  BY <1>1 DEF InsertPayout, KeepsAll, KeepsMarkets, KeepsReports, KeepsStakes, KeepsWindows
<1>2. CASE <<m, p>> \notin DOMAIN d.payouts
  <2> DEFINE f == With(d.payouts, <<m, p>>, [tentative |-> b, winning |-> FALSE])
  <2>1. d.payouts \in Rows(Market \X Payout, PayoutRow)
    BY TablesElim
  <2>2. <<m, p>> \in Market \X Payout /\ [tentative |-> b, winning |-> FALSE] \in PayoutRow
    BY DEF PayoutRow
  <2>3. f \in Rows(Market \X Payout, PayoutRow)
    BY <2>1, <2>2, RowAdded
  <2>4. InsertPayout(d, m, p, b) = [d EXCEPT !.payouts = f]
    BY <1>2 DEF InsertPayout
  <2> HIDE DEF f
  <2> QED
    BY <2>3, <2>4, PayoutsSet
<1> QED
  BY <1>1, <1>2

LEMMA TentativeUpdated ==
  ASSUME NEW d \in Tables, NEW m
  PROVE  LET e == UpdateTentativeWinningPayout(d, m)
         IN  /\ e \in Tables /\ KeepsAll(d, e) /\ e.states = d.states /\ e.markets = d.markets
             /\ e.reports = d.reports /\ e.crowdsourcers = d.crowdsourcers
<1> DEFINE first == {CHOOSE p \in S : TRUE : S \in {MostStaked(d, m)} \ {{}}}
           f == [k \in DOMAIN d.payouts |->
                   IF k[1] = m THEN [d.payouts[k] EXCEPT !.tentative = k[2] \in first] ELSE d.payouts[k]]
<1>1. UpdateTentativeWinningPayout(d, m) = [d EXCEPT !.payouts = f]
  BY DEF UpdateTentativeWinningPayout
<1> HIDE DEF first
<1>2. /\ DOMAIN d.payouts \in SUBSET (Market \X Payout)
      /\ \A k \in DOMAIN d.payouts : d.payouts[k] \in PayoutRow
  BY TablesElim, RowsElim
<1>3. \A k \in DOMAIN d.payouts : [d.payouts[k] EXCEPT !.tentative = k[2] \in first] \in PayoutRow
  <2> TAKE k \in DOMAIN d.payouts
  <2>1. PICK b \in BOOLEAN : b = (k[2] \in first)
    <3>1. (k[2] \in first) \in BOOLEAN
      OBVIOUS
    <3> QED
      BY <3>1, Zenon
  <2>2. PICK row \in PayoutRow : row = d.payouts[k]
    BY <1>2
  <2>3. [row EXCEPT !.tentative = b] \in PayoutRow
    BY <2>2 DEF PayoutRow
  <2> QED
    BY <2>1, <2>2, <2>3
<1>4. f \in [DOMAIN d.payouts -> PayoutRow]
  BY <1>2, <1>3
<1>5. f \in Rows(Market \X Payout, PayoutRow)
  BY <1>2, <1>4, RowsIntro
<1> HIDE DEF f
<1> QED
  BY <1>1, <1>5, PayoutsSet

\* A handler that changes crowdsourcers one by one.
LEMMA CrowdsourcersSet ==
  ASSUME NEW d \in Tables, NEW f \in [DOMAIN d.crowdsourcers -> CrowdsourcerRow],
         \A c \in DOMAIN d.crowdsourcers : f[c].staked = d.crowdsourcers[c].staked
  PROVE  LET e == [d EXCEPT !.crowdsourcers = f]
         IN  /\ e \in Tables /\ KeepsAll(d, e) /\ e.states = d.states /\ e.markets = d.markets
             /\ e.reports = d.reports /\ e.crowdsourcers = f /\ e.payouts = d.payouts
<1>1. DOMAIN d.crowdsourcers \in SUBSET Crowdsourcer
  BY TablesElim, RowsElim
<1>2. f \in Rows(Crowdsourcer, CrowdsourcerRow)
  BY <1>1, RowsIntro
<1>3. LET e == [d EXCEPT !.crowdsourcers = f]
      IN  /\ e \in Tables /\ e.markets = d.markets /\ e.states = d.states /\ e.windows = d.windows
          /\ e.reports = d.reports /\ e.crowdsourcers = f
          /\ e.payouts = d.payouts /\ e.forked = d.forked
  BY <1>2, SetCrowdsourcers
<1> QED
  BY <1>3 DEF KeepsAll, KeepsMarkets, KeepsReports, KeepsStakes, KeepsWindows

LEMMA CrowdsourcerRows ==
  ASSUME NEW d \in Tables, NEW c \in DOMAIN d.crowdsourcers
  PROVE  d.crowdsourcers[c] \in CrowdsourcerRow
BY TablesElim, RowsElim

LEMMA MarketRows ==
  ASSUME NEW d \in Tables, NEW m \in DOMAIN d.markets
  PROVE  d.markets[m] \in MarketRow /\ m \in Market
BY TablesElim, RowsElim
-----------------------------------------------------------------------------
(* The passing of time. *)

NewWindows(d, now) ==
  [w \in DOMAIN d.windows |->
     IF w \in Expired(d, now) THEN "PAST" ELSE IF w \in Opened(d, now) THEN "CURRENT" ELSE d.windows[w]]

Settled(d, now) ==
  [c \in DOMAIN d.crowdsourcers |->
     IF d.crowdsourcers[c].completed = None /\ d.crowdsourcers[c].feeWindow \in Expired(d, now)
     THEN [d.crowdsourcers[c] EXCEPT !.completed = 0] ELSE d.crowdsourcers[c]]

LEMMA WindowsUpdated ==
  ASSUME NEW d \in Tables, NEW now
  PROVE  LET e == UpdateActiveFeeWindows(d, now)
         IN  /\ e \in Tables /\ e.windows = NewWindows(d, now) /\ DOMAIN e.windows = DOMAIN d.windows
             /\ e.markets = d.markets /\ e.states = d.states /\ e.reports = d.reports
             /\ e.crowdsourcers = d.crowdsourcers /\ e.payouts = d.payouts /\ e.forked = d.forked
<1> DEFINE f == NewWindows(d, now)
<1>1. DOMAIN d.windows \in SUBSET Window /\ d.windows \in [DOMAIN d.windows -> {"FUTURE", "CURRENT", "PAST"}]
  BY TablesElim, RowsElim
<1>2. f \in [DOMAIN d.windows -> {"FUTURE", "CURRENT", "PAST"}]
  BY <1>1 DEF NewWindows
<1>3. f \in Rows(Window, {"FUTURE", "CURRENT", "PAST"})
  BY <1>1, <1>2, RowsIntro
<1>4. UpdateActiveFeeWindows(d, now) = [d EXCEPT !.windows = f]
  BY DEF UpdateActiveFeeWindows, NewWindows
<1>5. DOMAIN f = DOMAIN d.windows
  BY DEF NewWindows
<1> HIDE DEF f
<1>6. LET e == [d EXCEPT !.windows = f]
      IN  /\ e \in Tables /\ e.markets = d.markets /\ e.states = d.states /\ e.windows = f
          /\ e.reports = d.reports /\ e.crowdsourcers = d.crowdsourcers
          /\ e.payouts = d.payouts /\ e.forked = d.forked
  BY <1>3, SetWindows
<1> QED
  BY <1>4, <1>5, <1>6 DEF f

LEMMA CrowdsourcersSettle ==
  ASSUME NEW d \in Tables, NEW expired
  PROVE  LET e == AdvanceIncompleteCrowdsourcers(d, expired)
         IN  /\ e \in Tables /\ KeepsAll(d, e) /\ e.states = d.states /\ e.markets = d.markets
             /\ e.reports = d.reports /\ e.payouts = d.payouts
             /\ e.crowdsourcers =
                  [c \in DOMAIN d.crowdsourcers |->
                     IF /\ d.crowdsourcers[c].completed = None
                        /\ d.crowdsourcers[c].feeWindow \in expired
                     THEN [d.crowdsourcers[c] EXCEPT !.completed = 0] ELSE d.crowdsourcers[c]]
<1> DEFINE f == [c \in DOMAIN d.crowdsourcers |->
                   IF d.crowdsourcers[c].completed = None /\ d.crowdsourcers[c].feeWindow \in expired
                   THEN [d.crowdsourcers[c] EXCEPT !.completed = 0] ELSE d.crowdsourcers[c]]
<1>1. \A c \in DOMAIN d.crowdsourcers : d.crowdsourcers[c] \in CrowdsourcerRow
  BY CrowdsourcerRows
<1>2. \A c \in DOMAIN d.crowdsourcers :
        LET row == [d.crowdsourcers[c] EXCEPT !.completed = 0]
        IN  row \in CrowdsourcerRow /\ row.staked = d.crowdsourcers[c].staked
  BY <1>1 DEF CrowdsourcerRow
<1>3. f \in [DOMAIN d.crowdsourcers -> CrowdsourcerRow]
  BY <1>1, <1>2
<1>4. \A c \in DOMAIN d.crowdsourcers : f[c].staked = d.crowdsourcers[c].staked
  BY <1>2
<1>5. AdvanceIncompleteCrowdsourcers(d, expired) = [d EXCEPT !.crowdsourcers = f]
  BY DEF AdvanceIncompleteCrowdsourcers
<1> HIDE DEF f
<1>6. LET e == [d EXCEPT !.crowdsourcers = f]
      IN  /\ e \in Tables /\ KeepsAll(d, e) /\ e.states = d.states /\ e.markets = d.markets
          /\ e.reports = d.reports /\ e.crowdsourcers = f /\ e.payouts = d.payouts
  BY <1>3, <1>4, CrowdsourcersSet
<1> QED
  BY <1>5, <1>6 DEF f

LEMMA AwaitFinalization ==
  ASSUME NEW d \in Tables, NEW expired
  PROVE  LET e == AdvanceMarketsToAwaitingFinalization(d, expired)
         IN  /\ e \in Tables /\ KeepsAll(d, e) /\ e.markets = d.markets
             /\ e.reports = d.reports /\ e.crowdsourcers = d.crowdsourcers
<1> DEFINE over == {m \in DOMAIN d.markets :
                      /\ d.markets[m].feeWindow \in expired
                      /\ d.markets[m].universe \notin d.forked
                      /\ d.markets[m].needsMigration # 1 /\ d.markets[m].forking # 1}
           e1 == UpdateMarketState(d, over, "AWAITING_FINALIZATION")
           f == [k \in DOMAIN e1.payouts |->
                   IF k[1] \in over THEN [e1.payouts[k] EXCEPT !.winning = d.payouts[k].tentative]
                   ELSE e1.payouts[k]]
<1>1. AdvanceMarketsToAwaitingFinalization(d, expired) = [e1 EXCEPT !.payouts = f]
  BY DEF AdvanceMarketsToAwaitingFinalization
<1> HIDE DEF over
<1>2. /\ e1 \in Tables /\ KeepsAll(d, e1) /\ e1.markets = d.markets /\ e1.payouts = d.payouts
      /\ e1.reports = d.reports /\ e1.crowdsourcers = d.crowdsourcers
  <2>1. "AWAITING_FINALIZATION" \in ReportingState
    BY DEF ReportingState
  <2> QED
    BY <2>1, StatesUpdated
<1> HIDE DEF e1
<1>3. /\ DOMAIN d.payouts \in SUBSET (Market \X Payout)
      /\ \A k \in DOMAIN d.payouts : d.payouts[k] \in PayoutRow
  BY TablesElim, RowsElim
<1>4. \A k \in DOMAIN d.payouts :
        [d.payouts[k] EXCEPT !.winning = d.payouts[k].tentative] \in PayoutRow
  BY <1>3 DEF PayoutRow
<1>5. f \in [DOMAIN d.payouts -> PayoutRow]
  BY <1>2, <1>3, <1>4
<1>6. f \in Rows(Market \X Payout, PayoutRow)
  BY <1>3, <1>5, RowsIntro
<1> HIDE DEF f
<1>7. LET e == [e1 EXCEPT !.payouts = f]
      IN  /\ e \in Tables /\ KeepsAll(e1, e) /\ e.markets = e1.markets
          /\ e.reports = e1.reports /\ e.crowdsourcers = e1.crowdsourcers
  BY <1>2, <1>6, PayoutsSet
<1> QED
  BY <1>1, <1>2, <1>7, KeepsTwice

LEMMA OpenDispute ==
  ASSUME NEW d \in Tables, NEW opened, IsFiniteSet(DOMAIN d.windows)
  PROVE  LET e == AdvanceMarketsToCrowdsourcingDispute(d, opened)
         IN  /\ e \in Tables /\ KeepsAll(d, e) /\ e.markets = d.markets
             /\ e.reports = d.reports /\ e.crowdsourcers = d.crowdsourcers
             /\ e.payouts = d.payouts
<1> DEFINE disputed == {m \in DOMAIN d.markets :
                          /\ d.markets[m].feeWindow \in opened
                          /\ StateOf(d, m) = "AWAITING_NEXT_WINDOW"
                          /\ d.markets[m].universe \notin d.forked}
           more(m) == [i \in 1..Cardinality(Current(d, d.markets[m].universe)) |->
                         "CROWDSOURCING_DISPUTE"]
           f == [m \in Market |-> IF m \in disputed THEN d.states[m] \o more(m) ELSE d.states[m]]
<1>1. AdvanceMarketsToCrowdsourcingDispute(d, opened) = [d EXCEPT !.states = f]
  BY DEF AdvanceMarketsToCrowdsourcingDispute
<1> HIDE DEF disputed
<1>2. \A m \in Market : more(m) \in Seq(ReportingState)
  <2> TAKE m \in Market
  <2>1. Current(d, d.markets[m].universe) \in SUBSET DOMAIN d.windows
    BY DEF Current
  <2>2. IsFiniteSet(Current(d, d.markets[m].universe))
    BY <2>1, FS_Subset
  <2>3. PICK n \in Nat : n = Cardinality(Current(d, d.markets[m].universe))
    BY <2>2, FS_CardinalityType
  <2>4. [i \in 1..n |-> "CROWDSOURCING_DISPUTE"] \in Seq(ReportingState)
    BY DEF ReportingState
  <2> QED
    BY <2>3, <2>4
<1> HIDE DEF more
<1>3. d.states \in [Market -> Seq(ReportingState)]
  BY TablesElim
<1>4. \A m \in Market : d.states[m] \o more(m) \in Seq(ReportingState)
  BY <1>2, <1>3
<1>5. f \in [Market -> Seq(ReportingState)]
  BY <1>3, <1>4
<1> HIDE DEF f
<1>6. LET e == [d EXCEPT !.states = f]
      IN  /\ e \in Tables /\ e.markets = d.markets /\ e.states = f /\ e.windows = d.windows
          /\ e.reports = d.reports /\ e.crowdsourcers = d.crowdsourcers
          /\ e.payouts = d.payouts /\ e.forked = d.forked
  BY <1>5, SetStates
<1> QED
  BY <1>1, <1>6 DEF KeepsAll, KeepsMarkets, KeepsReports, KeepsStakes, KeepsWindows

LEMMA FeeWindowsAdvance ==
  ASSUME NEW d \in Tables, NEW now, IsFiniteSet(DOMAIN d.windows)
  PROVE  LET e == AdvanceFeeWindowActive(d, now)
         IN  /\ e \in Tables /\ e.windows = NewWindows(d, now) /\ e.markets = d.markets
             /\ e.reports = d.reports /\ e.crowdsourcers = Settled(d, now)
             /\ e.forked = d.forked /\ KeepsStakes(d, e)
<1> DEFINE d1 == UpdateActiveFeeWindows(d, now)
           d2 == AdvanceIncompleteCrowdsourcers(d1, Expired(d, now))
           d3 == AdvanceMarketsToAwaitingFinalization(d2, Expired(d, now))
           d4 == AdvanceMarketsToCrowdsourcingDispute(d3, Opened(d, now))
<1>1. /\ d1 \in Tables /\ d1.windows = NewWindows(d, now) /\ DOMAIN d1.windows = DOMAIN d.windows
      /\ d1.markets = d.markets /\ d1.states = d.states /\ d1.reports = d.reports
      /\ d1.crowdsourcers = d.crowdsourcers /\ d1.payouts = d.payouts /\ d1.forked = d.forked
  BY WindowsUpdated
<1>2. AdvanceFeeWindowActive(d, now) = d4
  BY DEF AdvanceFeeWindowActive
<1> HIDE DEF d1
<1>3. /\ d2 \in Tables /\ KeepsAll(d1, d2) /\ d2.markets = d1.markets /\ d2.reports = d1.reports
      /\ d2.crowdsourcers = Settled(d, now)
  BY <1>1, CrowdsourcersSettle DEF Settled
<1> HIDE DEF d2
<1>4. /\ d3 \in Tables /\ KeepsAll(d2, d3) /\ d3.markets = d2.markets /\ d3.reports = d2.reports
      /\ d3.crowdsourcers = d2.crowdsourcers
  BY <1>3, AwaitFinalization
<1> HIDE DEF d3
<1>5. d3.windows = d1.windows
  BY <1>3, <1>4 DEF KeepsAll, KeepsWindows
<1>6. /\ d4 \in Tables /\ KeepsAll(d3, d4) /\ d4.markets = d3.markets /\ d4.reports = d3.reports
      /\ d4.crowdsourcers = d3.crowdsourcers
  BY <1>1, <1>4, <1>5, OpenDispute
<1> HIDE DEF d4
<1>7. KeepsAll(d1, d4)
  BY <1>3, <1>4, <1>6, KeepsTwice
<1>8. d4.windows = d1.windows /\ d4.forked = d1.forked /\ KeepsStakes(d, d4)
  BY <1>1, <1>7 DEF KeepsAll, KeepsWindows, KeepsMarkets, KeepsStakes
<1> QED
  BY <1>1, <1>2, <1>3, <1>4, <1>6, <1>8

LEMMA TimeAdvances ==
  ASSUME NEW d \in Tables, NEW now, IsFiniteSet(DOMAIN d.windows)
  PROVE  LET e == AdvanceTime(d, now)
         IN  /\ e \in Tables /\ e.windows = NewWindows(d, now) /\ e.markets = d.markets
             /\ e.reports = d.reports /\ e.crowdsourcers = Settled(d, now)
             /\ e.forked = d.forked /\ KeepsStakes(d, e)
<1> DEFINE d1 == AdvanceMarketReachingEndTime(d, now)
           d2 == AdvanceMarketMissingDesignatedReport(d1, now)
<1>1. /\ d1 \in Tables /\ KeepsAll(d, d1) /\ d1.markets = d.markets
      /\ d1.reports = d.reports /\ d1.crowdsourcers = d.crowdsourcers
  <2>1. "DESIGNATED_REPORTING" \in ReportingState
    BY DEF ReportingState
  <2> QED
    BY <2>1, StatesUpdated DEF AdvanceMarketReachingEndTime
<1> HIDE DEF d1
<1>2. /\ d2 \in Tables /\ KeepsAll(d1, d2) /\ d2.markets = d1.markets
      /\ d2.reports = d1.reports /\ d2.crowdsourcers = d1.crowdsourcers
  <2>1. "OPEN_REPORTING" \in ReportingState
    BY DEF ReportingState
  <2> QED
    BY <1>1, <2>1, StatesUpdated DEF AdvanceMarketMissingDesignatedReport
<1> HIDE DEF d2
<1>3. d2.windows = d.windows /\ d2.forked = d.forked
  BY <1>1, <1>2 DEF KeepsAll, KeepsWindows, KeepsMarkets
<1>4. NewWindows(d2, now) = NewWindows(d, now) /\ Settled(d2, now) = Settled(d, now)
  BY <1>1, <1>2, <1>3 DEF NewWindows, Settled, Expired, Opened
<1>5. LET e == AdvanceFeeWindowActive(d2, now)
      IN  /\ e \in Tables /\ e.windows = NewWindows(d2, now) /\ e.markets = d2.markets
          /\ e.reports = d2.reports /\ e.crowdsourcers = Settled(d2, now)
          /\ e.forked = d2.forked /\ KeepsStakes(d2, e)
  BY <1>2, <1>3, FeeWindowsAdvance
<1>6. AdvanceTime(d, now) = AdvanceFeeWindowActive(d2, now)
  BY DEF AdvanceTime, d1, d2
<1> QED
  BY <1>1, <1>2, <1>3, <1>4, <1>5, <1>6 DEF KeepsStakes
-----------------------------------------------------------------------------
(* What the log processors and their removals do to the tables. *)

KeepsRest(d, e) == KeepsReports(d, e) /\ KeepsStakes(d, e) /\ KeepsWindows(d, e)

LEMMA MarketsSet ==
  ASSUME NEW d \in Tables, NEW f \in Rows(Market, MarketRow)
  PROVE  LET e == [d EXCEPT !.markets = f]
         IN  /\ e \in Tables /\ KeepsRest(d, e) /\ e.markets = f /\ e.states = d.states
             /\ e.reports = d.reports /\ e.crowdsourcers = d.crowdsourcers
             /\ e.payouts = d.payouts /\ e.forked = d.forked
<1>1. LET e == [d EXCEPT !.markets = f]
      IN  /\ e \in Tables /\ e.markets = f /\ e.states = d.states /\ e.windows = d.windows
          /\ e.reports = d.reports /\ e.crowdsourcers = d.crowdsourcers
          /\ e.payouts = d.payouts /\ e.forked = d.forked
  BY SetMarkets
<1> QED
  BY <1>1 DEF KeepsRest, KeepsReports, KeepsStakes, KeepsWindows

LEMMA StatesSet ==
  ASSUME NEW d \in Tables, NEW m \in Market, NEW s \in Seq(ReportingState)
  PROVE  LET e == [d EXCEPT !.states[m] = s]
         IN  /\ e \in Tables /\ e.markets = d.markets /\ e.windows = d.windows
             /\ e.reports = d.reports /\ e.crowdsourcers = d.crowdsourcers
             /\ e.payouts = d.payouts /\ e.forked = d.forked
<1> DEFINE f == [d.states EXCEPT ![m] = s]
<1>1. f \in [Market -> Seq(ReportingState)]
  BY TablesElim
<1>2. [d EXCEPT !.states[m] = s] = [d EXCEPT !.states = f]
  OBVIOUS
<1> HIDE DEF f
<1> QED
  BY <1>1, <1>2, SetStates

NewMarket == [universe |-> Genesis, feeWindow |-> None, forking |-> 0,
              needsMigration |-> 0, needsDisavowal |-> 0, disputeRounds |-> None]

\* A new market is of the universe Genesis and owes nothing to a fork.
LEMMA MarketCreates ==
  ASSUME MarketAssumption, NEW d \in Tables, NEW m \in Market
  PROVE  LET e == MarketCreated(d, m)
         IN  /\ e \in Tables /\ KeepsRest(d, e) /\ e.forked = d.forked
             /\ DOMAIN e.markets = DOMAIN d.markets \cup {m} /\ e.markets[m] = NewMarket
             /\ \A x \in DOMAIN d.markets : x # m => e.markets[x] = d.markets[x]
<1>1. NewMarket \in MarketRow
  BY DEF NewMarket, MarketRow, MarketAssumption
<1> DEFINE f == With(d.markets, m, NewMarket)
           d1 == [d EXCEPT !.markets = f]
<1>2. d.markets \in Rows(Market, MarketRow)
  BY TablesElim
<1>3. /\ f \in Rows(Market, MarketRow) /\ DOMAIN f = DOMAIN d.markets \cup {m} /\ f[m] = NewMarket
      /\ \A x \in DOMAIN d.markets : x # m => f[x] = d.markets[x]
  <2>1. f \in Rows(Market, MarketRow)
    BY <1>1, <1>2, RowAdded
  <2> QED
    BY <2>1 DEF With
<1>4. MarketCreated(d, m) = UpdateMarketState(d1, {m}, "PRE_REPORTING")
  BY DEF MarketCreated, NewMarket
<1> HIDE DEF f
<1>5. /\ d1 \in Tables /\ KeepsRest(d, d1) /\ d1.markets = f /\ d1.forked = d.forked
  BY <1>3, MarketsSet
<1> HIDE DEF d1
<1>6. "PRE_REPORTING" \in ReportingState
  BY DEF ReportingState
<1>7. LET e == UpdateMarketState(d1, {m}, "PRE_REPORTING")
      IN  e \in Tables /\ KeepsAll(d1, e) /\ e.markets = d1.markets
  BY <1>5, <1>6, StatesUpdated
<1>8. LET e == UpdateMarketState(d1, {m}, "PRE_REPORTING")
      IN  e.forked = d1.forked /\ KeepsRest(d, e)
  BY <1>5, <1>7 DEF KeepsAll, KeepsRest, KeepsMarkets, KeepsReports, KeepsStakes, KeepsWindows
<1> QED
  BY <1>3, <1>4, <1>5, <1>7, <1>8

LEMMA MarketUncreates ==
  ASSUME NEW d \in Tables, NEW m \in Market
  PROVE  LET e == MarketCreatedRemoval(d, m)
         IN  /\ e \in Tables /\ KeepsRest(d, e) /\ e.forked = d.forked
             /\ DOMAIN e.markets = DOMAIN d.markets \ {m}
             /\ \A x \in DOMAIN d.markets : x # m => e.markets[x] = d.markets[x]
<1> DEFINE f == Without(d.markets, m)
           d1 == [d EXCEPT !.markets = f]
<1>1. d.markets \in Rows(Market, MarketRow)
  BY TablesElim
<1>2. /\ f \in Rows(Market, MarketRow) /\ DOMAIN f = DOMAIN d.markets \ {m}
      /\ \A x \in DOMAIN d.markets : x # m => f[x] = d.markets[x]
  <2>1. f \in Rows(Market, MarketRow)
    BY <1>1, RowDropped
  <2> QED
    BY <2>1 DEF Without
<1>3. MarketCreatedRemoval(d, m) = [d1 EXCEPT !.states[m] = <<>>]
  BY DEF MarketCreatedRemoval
<1> HIDE DEF f
<1>4. /\ d1 \in Tables /\ KeepsRest(d, d1) /\ d1.markets = f /\ d1.forked = d.forked
  BY <1>2, MarketsSet
<1> HIDE DEF d1
<1>5. LET e == [d1 EXCEPT !.states[m] = <<>>]
      IN  /\ e \in Tables /\ e.markets = d1.markets /\ e.windows = d1.windows
          /\ e.reports = d1.reports /\ e.crowdsourcers = d1.crowdsourcers
          /\ e.payouts = d1.payouts /\ e.forked = d1.forked
  <2>1. <<>> \in Seq(ReportingState)
    OBVIOUS
  <2> QED
    BY <1>4, <2>1, StatesSet
<1>6. KeepsRest(d, MarketCreatedRemoval(d, m))
  BY <1>3, <1>4, <1>5 DEF KeepsRest, KeepsReports, KeepsStakes, KeepsWindows
<1> QED
  BY <1>2, <1>3, <1>4, <1>5, <1>6

\* The second advance changes no window that the block's time has advanced.
LEMMA WindowCreates ==
  ASSUME NEW d \in Tables, NEW w \in Window, NEW now, IsFiniteSet(DOMAIN d.windows)
  PROVE  LET e == FeeWindowCreated(d, w, now)
             opened == [d EXCEPT !.windows = With(@, w, "FUTURE")]
         IN  /\ e \in Tables /\ e.markets = d.markets /\ e.forked = d.forked
             /\ KeepsReports(d, e) /\ KeepsStakes(d, e)
             /\ opened.windows = With(d.windows, w, "FUTURE")
             /\ e.windows = NewWindows(opened, now)
<1> DEFINE f == With(d.windows, w, "FUTURE")
           d1 == [d EXCEPT !.windows = f]
<1>1. d.windows \in Rows(Window, {"FUTURE", "CURRENT", "PAST"})
  BY TablesElim
<1>2. f \in Rows(Window, {"FUTURE", "CURRENT", "PAST"}) /\ DOMAIN f = DOMAIN d.windows \cup {w}
  <2>1. "FUTURE" \in {"FUTURE", "CURRENT", "PAST"}
    OBVIOUS
  <2>2. f \in Rows(Window, {"FUTURE", "CURRENT", "PAST"})
    BY <1>1, <2>1, RowAdded
  <2> QED
    BY <2>2 DEF With
<1>3. FeeWindowCreated(d, w, now) = AdvanceFeeWindowActive(d1, now)
  BY DEF FeeWindowCreated
<1> HIDE DEF f
<1>4. /\ d1 \in Tables /\ d1.markets = d.markets /\ d1.states = d.states /\ d1.windows = f
      /\ d1.reports = d.reports /\ d1.crowdsourcers = d.crowdsourcers
      /\ d1.payouts = d.payouts /\ d1.forked = d.forked
  BY <1>2, SetWindows
<1>5. IsFiniteSet(DOMAIN d1.windows)
  BY <1>2, <1>4, FS_AddElement
<1> HIDE DEF d1
<1>6. LET e == AdvanceFeeWindowActive(d1, now)
      IN  /\ e \in Tables /\ e.windows = NewWindows(d1, now) /\ e.markets = d1.markets
          /\ e.reports = d1.reports /\ e.crowdsourcers = Settled(d1, now)
          /\ e.forked = d1.forked /\ KeepsStakes(d1, e)
  BY <1>4, <1>5, FeeWindowsAdvance
<1>7. LET e == AdvanceFeeWindowActive(d1, now)
      IN  KeepsReports(d, e) /\ KeepsStakes(d, e)
  BY <1>4, <1>6 DEF KeepsReports, KeepsStakes
<1> QED
  BY <1>3, <1>4, <1>6, <1>7 DEF d1, f

LEMMA WindowUncreates ==
  ASSUME NEW d \in Tables, NEW w
  PROVE  LET e == FeeWindowCreatedRemoval(d, w)
         IN  /\ e \in Tables /\ KeepsMarkets(d, e) /\ KeepsReports(d, e) /\ KeepsStakes(d, e)
             /\ DOMAIN e.windows = DOMAIN d.windows \ {w}
             /\ \A x \in DOMAIN d.windows : x # w => e.windows[x] = d.windows[x]
<1> DEFINE f == Without(d.windows, w)
           d1 == [d EXCEPT !.windows = f]
<1>1. d.windows \in Rows(Window, {"FUTURE", "CURRENT", "PAST"})
  BY TablesElim
<1>2. /\ f \in Rows(Window, {"FUTURE", "CURRENT", "PAST"}) /\ DOMAIN f = DOMAIN d.windows \ {w}
      /\ \A x \in DOMAIN d.windows : x # w => f[x] = d.windows[x]
  <2>1. f \in Rows(Window, {"FUTURE", "CURRENT", "PAST"})
    BY <1>1, RowDropped
  <2> QED
    BY <2>1 DEF Without
<1>3. FeeWindowCreatedRemoval(d, w) = d1
  BY DEF FeeWindowCreatedRemoval
<1> HIDE DEF f
<1>4. /\ d1 \in Tables /\ d1.markets = d.markets /\ d1.states = d.states /\ d1.windows = f
      /\ d1.reports = d.reports /\ d1.crowdsourcers = d.crowdsourcers
      /\ d1.payouts = d.payouts /\ d1.forked = d.forked
  BY <1>2, SetWindows
<1> QED
  BY <1>2, <1>3, <1>4 DEF KeepsMarkets, KeepsReports, KeepsStakes

LEMMA ReportsSet ==
  ASSUME NEW d \in Tables, NEW f \in Rows(Market, ReportRow)
  PROVE  LET e == [d EXCEPT !.reports = f]
         IN  /\ e \in Tables /\ KeepsMarkets(d, e) /\ KeepsStakes(d, e) /\ KeepsWindows(d, e)
             /\ e.reports = f /\ e.markets = d.markets /\ e.crowdsourcers = d.crowdsourcers
<1>1. LET e == [d EXCEPT !.reports = f]
      IN  /\ e \in Tables /\ e.markets = d.markets /\ e.states = d.states /\ e.windows = d.windows
          /\ e.reports = f /\ e.crowdsourcers = d.crowdsourcers
          /\ e.payouts = d.payouts /\ e.forked = d.forked
  BY SetReports
<1> QED
  BY <1>1 DEF KeepsMarkets, KeepsStakes, KeepsWindows

LEMMA ReportSubmits ==
  ASSUME MarketAssumption, NEW d \in Tables, NEW m \in DOMAIN d.markets, NEW p \in Payout,
         NEW now \in Nat, IsFiniteSet(DOMAIN d.crowdsourcers)
  PROVE  LET e == InitialReportSubmitted(d, m, p, now)
         IN  /\ e \in Tables /\ KeepsMarkets(d, e) /\ KeepsStakes(d, e) /\ KeepsWindows(d, e)
             /\ DOMAIN e.reports = DOMAIN d.reports \cup {m}
<1> DEFINE universe == d.markets[m].universe
           state == IF universe \in d.forked THEN "AWAITING_FORK_MIGRATION" ELSE "AWAITING_NEXT_WINDOW"
           d1 == UpdateMarketState(d, {m}, state)
           d2 == InsertPayout(d1, m, p, TRUE)
           f == With(d2.reports, m, [payout |-> p, disavowed |-> 0])
           d3 == [d2 EXCEPT !.reports = f]
           d4 == UpdateMarketFeeWindow(d3, universe, m, now, TRUE)
           d5 == UpdateDisputeRound(d4, m)
<1>1. m \in Market /\ universe \in Universe
  BY MarketRows DEF MarketRow
<1>2. InitialReportSubmitted(d, m, p, now) = d5
  BY DEF InitialReportSubmitted
<1> HIDE DEF universe
<1>3. state \in ReportingState
  BY DEF ReportingState
<1> HIDE DEF state
<1>4. d1 \in Tables /\ KeepsAll(d, d1) /\ d1.crowdsourcers = d.crowdsourcers /\ d1.markets = d.markets
  BY <1>3, StatesUpdated
<1> HIDE DEF d1
<1>5. /\ d2 \in Tables /\ KeepsAll(d1, d2) /\ d2.crowdsourcers = d1.crowdsourcers
      /\ d2.markets = d1.markets
  BY <1>1, <1>4, PayoutInserted
<1> HIDE DEF d2
<1>6. f \in Rows(Market, ReportRow) /\ DOMAIN f = DOMAIN d2.reports \cup {m}
  <2>1. [payout |-> p, disavowed |-> 0] \in ReportRow /\ d2.reports \in Rows(Market, ReportRow)
    BY <1>5, TablesElim DEF ReportRow
  <2>2. f \in Rows(Market, ReportRow)
    BY <1>1, <2>1, RowAdded
  <2> QED
    BY <2>2 DEF With
<1> HIDE DEF f
<1>7. /\ d3 \in Tables /\ KeepsMarkets(d2, d3) /\ KeepsStakes(d2, d3) /\ KeepsWindows(d2, d3)
      /\ d3.reports = f /\ d3.markets = d2.markets /\ d3.crowdsourcers = d2.crowdsourcers
  BY <1>5, <1>6, ReportsSet
<1> HIDE DEF d3
<1>8. m \in DOMAIN d3.markets
  BY <1>4, <1>5, <1>7
<1>9. d4 \in Tables /\ KeepsAll(d3, d4)
  BY <1>1, <1>7, <1>8, FeeWindowUpdated
<1> HIDE DEF d4
<1>10. m \in DOMAIN d4.markets /\ IsFiniteSet(DOMAIN d4.crowdsourcers)
  BY <1>4, <1>5, <1>7, <1>8, <1>9 DEF KeepsAll, KeepsMarkets, KeepsStakes
<1>11. d5 \in Tables /\ KeepsAll(d4, d5)
  BY <1>9, <1>10, RoundUpdated
<1> HIDE DEF d5
<1>12. KeepsAll(d, d2) /\ KeepsAll(d3, d5)
  BY <1>4, <1>5, <1>9, <1>11, KeepsTwice
<1>13. DOMAIN d5.reports = DOMAIN d.reports \cup {m}
  BY <1>6, <1>7, <1>12 DEF KeepsAll, KeepsReports
<1>14. KeepsMarkets(d, d5)
  <2>1. KeepsMarkets(d, d2) /\ KeepsMarkets(d3, d5)
    BY <1>12 DEF KeepsAll
  <2> QED
    BY <1>7, <2>1 DEF KeepsMarkets
<1>15. KeepsStakes(d, d5) /\ KeepsWindows(d, d5)
  BY <1>7, <1>12 DEF KeepsAll, KeepsStakes, KeepsWindows
<1> QED
  BY <1>2, <1>11, <1>13, <1>14, <1>15

LEMMA ReportUnsubmits ==
  ASSUME MarketAssumption, NEW d \in Tables, NEW m \in DOMAIN d.markets, NEW now \in Nat
  PROVE  LET e == InitialReportSubmittedRemoval(d, m, now)
         IN  /\ e \in Tables /\ KeepsMarkets(d, e) /\ KeepsStakes(d, e) /\ KeepsWindows(d, e)
             /\ DOMAIN e.reports = DOMAIN d.reports \ {m}
<1> DEFINE universe == d.markets[m].universe
           d1 == RollbackMarketState(d, m)
           f == Without(d1.reports, m)
           d2 == [d1 EXCEPT !.reports = f]
           d3 == UpdateMarketFeeWindow(d2, universe, m, now, FALSE)
<1>1. m \in Market /\ universe \in Universe
  BY MarketRows DEF MarketRow
<1>2. InitialReportSubmittedRemoval(d, m, now) = d3
  BY DEF InitialReportSubmittedRemoval
<1> HIDE DEF universe
<1>3. d1 \in Tables /\ KeepsAll(d, d1) /\ d1.markets = d.markets
  BY <1>1, StateRolledBack
<1> HIDE DEF d1
<1>4. f \in Rows(Market, ReportRow) /\ DOMAIN f = DOMAIN d1.reports \ {m}
  <2>1. d1.reports \in Rows(Market, ReportRow)
    BY <1>3, TablesElim
  <2>2. f \in Rows(Market, ReportRow)
    BY <2>1, RowDropped
  <2> QED
    BY <2>2 DEF Without
<1> HIDE DEF f
<1>5. /\ d2 \in Tables /\ KeepsMarkets(d1, d2) /\ KeepsStakes(d1, d2) /\ KeepsWindows(d1, d2)
      /\ d2.reports = f /\ d2.markets = d1.markets /\ d2.crowdsourcers = d1.crowdsourcers
  BY <1>3, <1>4, ReportsSet
<1> HIDE DEF d2
<1>6. m \in DOMAIN d2.markets
  BY <1>3, <1>5
<1>7. d3 \in Tables /\ KeepsAll(d2, d3)
  BY <1>1, <1>5, <1>6, FeeWindowUpdated
<1> HIDE DEF d3
<1>8. DOMAIN d3.reports = DOMAIN d.reports \ {m}
  BY <1>3, <1>4, <1>5, <1>7 DEF KeepsAll, KeepsReports
<1>9. KeepsMarkets(d, d3) /\ KeepsStakes(d, d3) /\ KeepsWindows(d, d3)
  <2>1. KeepsMarkets(d, d1) /\ KeepsMarkets(d2, d3)
    BY <1>3, <1>7 DEF KeepsAll
  <2>2. KeepsMarkets(d, d3)
    BY <1>5, <2>1 DEF KeepsMarkets
  <2> QED
    BY <1>3, <1>5, <1>7, <2>2 DEF KeepsAll, KeepsStakes, KeepsWindows
<1> QED
  BY <1>2, <1>7, <1>8, <1>9
-----------------------------------------------------------------------------
KeepsRows(d, e) == KeepsMarkets(d, e) /\ KeepsReports(d, e) /\ KeepsWindows(d, e)

LEMMA StakesSet ==
  ASSUME NEW d \in Tables, NEW f \in Rows(Crowdsourcer, CrowdsourcerRow)
  PROVE  LET e == [d EXCEPT !.crowdsourcers = f]
         IN  /\ e \in Tables /\ KeepsRows(d, e) /\ e.crowdsourcers = f /\ e.markets = d.markets
             /\ e.states = d.states
<1>1. LET e == [d EXCEPT !.crowdsourcers = f]
      IN  /\ e \in Tables /\ e.markets = d.markets /\ e.states = d.states /\ e.windows = d.windows
          /\ e.reports = d.reports /\ e.crowdsourcers = f
          /\ e.payouts = d.payouts /\ e.forked = d.forked
  BY SetCrowdsourcers
<1> QED
  BY <1>1 DEF KeepsRows, KeepsMarkets, KeepsReports, KeepsWindows

LEMMA CrowdsourcerCreates ==
  ASSUME MarketAssumption, NEW d \in Tables, NEW c \in Crowdsourcer, NEW w \in Window
  PROVE  LET e == DisputeCrowdsourcerCreated(d, c, w)
         IN  /\ e \in Tables /\ KeepsRows(d, e)
             /\ DOMAIN e.crowdsourcers = DOMAIN d.crowdsourcers \cup {c}
             /\ e.crowdsourcers[c].staked = 0
             /\ \A x \in DOMAIN d.crowdsourcers :
                  x # c => e.crowdsourcers[x].staked = d.crowdsourcers[x].staked
<1> DEFINE row == [feeWindow |-> w, completed |-> None, disavowed |-> 0, staked |-> 0]
           d1 == InsertPayout(d, MarketOf[c], PayoutOf[c], FALSE)
           f == With(d1.crowdsourcers, c, row)
<1>1. MarketOf[c] \in Market /\ PayoutOf[c] \in Payout
  BY DEF MarketAssumption
<1>2. DisputeCrowdsourcerCreated(d, c, w) = [d1 EXCEPT !.crowdsourcers = f]
  BY DEF DisputeCrowdsourcerCreated
<1>3. d1 \in Tables /\ KeepsAll(d, d1) /\ d1.crowdsourcers = d.crowdsourcers
  BY <1>1, PayoutInserted
<1> HIDE DEF d1
<1>4. row \in CrowdsourcerRow /\ row.staked = 0
  BY DEF CrowdsourcerRow, Window
<1> HIDE DEF row
<1>5. /\ f \in Rows(Crowdsourcer, CrowdsourcerRow) /\ DOMAIN f = DOMAIN d1.crowdsourcers \cup {c}
      /\ f[c] = row /\ \A x \in DOMAIN d1.crowdsourcers : x # c => f[x] = d1.crowdsourcers[x]
  <2>1. d1.crowdsourcers \in Rows(Crowdsourcer, CrowdsourcerRow)
    BY <1>3, TablesElim
  <2>2. f \in Rows(Crowdsourcer, CrowdsourcerRow)
    BY <1>4, <2>1, RowAdded
  <2> QED
    BY <2>2 DEF With
<1> HIDE DEF f
<1>6. LET e == [d1 EXCEPT !.crowdsourcers = f]
      IN  e \in Tables /\ KeepsRows(d1, e) /\ e.crowdsourcers = f
  BY <1>3, <1>5, StakesSet
<1>7. KeepsRows(d, [d1 EXCEPT !.crowdsourcers = f])
  BY <1>3, <1>6 DEF KeepsAll, KeepsRows, KeepsMarkets, KeepsReports, KeepsWindows
<1> QED
  BY <1>2, <1>3, <1>4, <1>5, <1>6, <1>7

LEMMA CrowdsourcerUncreates ==
  ASSUME NEW d \in Tables, NEW c
  PROVE  LET e == DisputeCrowdsourcerCreatedRemoval(d, c)
         IN  /\ e \in Tables /\ KeepsRows(d, e)
             /\ DOMAIN e.crowdsourcers = DOMAIN d.crowdsourcers \ {c}
             /\ \A x \in DOMAIN d.crowdsourcers :
                  x # c => e.crowdsourcers[x].staked = d.crowdsourcers[x].staked
<1> DEFINE f == Without(d.crowdsourcers, c)
<1>1. DisputeCrowdsourcerCreatedRemoval(d, c) = [d EXCEPT !.crowdsourcers = f]
  BY DEF DisputeCrowdsourcerCreatedRemoval
<1>2. /\ f \in Rows(Crowdsourcer, CrowdsourcerRow) /\ DOMAIN f = DOMAIN d.crowdsourcers \ {c}
      /\ \A x \in DOMAIN d.crowdsourcers : x # c => f[x] = d.crowdsourcers[x]
  <2>1. d.crowdsourcers \in Rows(Crowdsourcer, CrowdsourcerRow)
    BY TablesElim
  <2>2. f \in Rows(Crowdsourcer, CrowdsourcerRow)
    BY <2>1, RowDropped
  <2> QED
    BY <2>2 DEF Without
<1> HIDE DEF f
<1> QED
  BY <1>1, <1>2, StakesSet

\* Contributions and their removals: n is what they add to the stake.
LEMMA StakeChanges ==
  ASSUME NEW d \in Tables, NEW c \in DOMAIN d.crowdsourcers, NEW n \in Int,
         d.crowdsourcers[c].staked + n >= 0
  PROVE  LET e == [d EXCEPT !.crowdsourcers[c].staked = @ + n]
         IN  /\ e \in Tables /\ KeepsRows(d, e)
             /\ DOMAIN e.crowdsourcers = DOMAIN d.crowdsourcers
             /\ e.crowdsourcers[c].staked = d.crowdsourcers[c].staked + n
             /\ \A x \in DOMAIN d.crowdsourcers :
                  x # c => e.crowdsourcers[x].staked = d.crowdsourcers[x].staked
<1> DEFINE row == [d.crowdsourcers[c] EXCEPT !.staked = @ + n]
           f == [d.crowdsourcers EXCEPT ![c] = row]
<1>1. PICK r \in CrowdsourcerRow : r = d.crowdsourcers[c]
  BY CrowdsourcerRows
<1>2. PICK k \in Nat : k = r.staked + n
  BY <1>1 DEF CrowdsourcerRow
<1>3. row = [r EXCEPT !.staked = k]
  BY <1>1, <1>2
<1>4. [r EXCEPT !.staked = k] \in CrowdsourcerRow /\ [r EXCEPT !.staked = k].staked = k
  BY <1>2 DEF CrowdsourcerRow
<1>5. row \in CrowdsourcerRow /\ row.staked = d.crowdsourcers[c].staked + n
  BY <1>1, <1>2, <1>3, <1>4
<1>6. [d EXCEPT !.crowdsourcers[c].staked = @ + n] = [d EXCEPT !.crowdsourcers = f]
  OBVIOUS
<1> HIDE DEF row
<1>7. d.crowdsourcers \in Rows(Crowdsourcer, CrowdsourcerRow)
  BY TablesElim
<1>8. /\ f \in Rows(Crowdsourcer, CrowdsourcerRow) /\ DOMAIN f = DOMAIN d.crowdsourcers
      /\ f[c] = row /\ \A x \in DOMAIN d.crowdsourcers : x # c => f[x] = d.crowdsourcers[x]
  BY <1>5, <1>7, RowChanged
<1> HIDE DEF f
<1> QED
  BY <1>5, <1>6, <1>8, StakesSet

LEMMA Contributes ==
  ASSUME NEW d \in Tables, NEW c \in DOMAIN d.crowdsourcers, NEW n \in Nat
  PROVE  LET e == DisputeCrowdsourcerContribution(d, c, n)
         IN  /\ e \in Tables /\ KeepsRows(d, e)
             /\ DOMAIN e.crowdsourcers = DOMAIN d.crowdsourcers
             /\ e.crowdsourcers[c].staked = d.crowdsourcers[c].staked + n
             /\ \A x \in DOMAIN d.crowdsourcers :
                  x # c => e.crowdsourcers[x].staked = d.crowdsourcers[x].staked
<1>1. d.crowdsourcers[c].staked \in Nat
  BY CrowdsourcerRows DEF CrowdsourcerRow
<1>2. d.crowdsourcers[c].staked + n >= 0 /\ n \in Int
  BY <1>1
<1> QED
  BY <1>2, StakeChanges DEF DisputeCrowdsourcerContribution

LEMMA Uncontributes ==
  ASSUME NEW d \in Tables, NEW c \in DOMAIN d.crowdsourcers, NEW n \in Nat,
         d.crowdsourcers[c].staked = n
  PROVE  LET e == DisputeCrowdsourcerContributionRemoval(d, c, n)
         IN  /\ e \in Tables /\ KeepsRows(d, e)
             /\ DOMAIN e.crowdsourcers = DOMAIN d.crowdsourcers
             /\ e.crowdsourcers[c].staked = 0
             /\ \A x \in DOMAIN d.crowdsourcers :
                  x # c => e.crowdsourcers[x].staked = d.crowdsourcers[x].staked
<1>1. PICK k \in Int : k = 0 - n
  OBVIOUS
<1>2. d.crowdsourcers[c].staked + k >= 0 /\ d.crowdsourcers[c].staked + k = 0
  BY <1>1
<1>3. DisputeCrowdsourcerContributionRemoval(d, c, n) = [d EXCEPT !.crowdsourcers[c].staked = @ + k]
  <2>1. d.crowdsourcers[c].staked - n = d.crowdsourcers[c].staked + k
    BY <1>1
  <2> QED
    BY <2>1 DEF DisputeCrowdsourcerContributionRemoval
<1> QED
  BY <1>2, <1>3, StakeChanges

LEMMA CompletionSet ==
  ASSUME NEW d \in Tables, NEW c \in DOMAIN d.crowdsourcers, NEW s \in {0, 1, None}
  PROVE  LET e == [d EXCEPT !.crowdsourcers[c].completed = s]
         IN  /\ e \in Tables /\ KeepsAll(d, e) /\ e.states = d.states /\ e.markets = d.markets
<1> DEFINE row == [d.crowdsourcers[c] EXCEPT !.completed = s]
           f == [d.crowdsourcers EXCEPT ![c] = row]
<1>1. row \in CrowdsourcerRow /\ row.staked = d.crowdsourcers[c].staked
  BY CrowdsourcerRows DEF CrowdsourcerRow
<1>2. [d EXCEPT !.crowdsourcers[c].completed = s] = [d EXCEPT !.crowdsourcers = f]
  OBVIOUS
<1> HIDE DEF row
<1>3. d.crowdsourcers \in [DOMAIN d.crowdsourcers -> CrowdsourcerRow]
  BY TablesElim, RowsElim
<1>4. /\ f \in [DOMAIN d.crowdsourcers -> CrowdsourcerRow]
      /\ \A x \in DOMAIN d.crowdsourcers : f[x].staked = d.crowdsourcers[x].staked
  BY <1>1, <1>3
<1> HIDE DEF f
<1> QED
  BY <1>2, <1>4, CrowdsourcersSet

LEMMA RowDisavowed ==
  ASSUME NEW r \in CrowdsourcerRow, NEW n \in Int
  PROVE  LET q == Disavowed(r, n)
         IN  q \in CrowdsourcerRow /\ q.staked = r.staked
<1>1. PICK k \in Int : k = r.disavowed + n
  BY DEF CrowdsourcerRow
<1>2. [r EXCEPT !.disavowed = k] \in CrowdsourcerRow /\ [r EXCEPT !.disavowed = k].staked = r.staked
  BY DEF CrowdsourcerRow
<1> QED
  BY <1>1, <1>2 DEF Disavowed

LEMMA RowMoves ==
  ASSUME NEW r \in CrowdsourcerRow, NEW s \in {0, 1, None}, NEW n \in Int
  PROVE  LET q == Disavowed([r EXCEPT !.completed = s], n)
         IN  q \in CrowdsourcerRow /\ q.staked = r.staked
<1>1. [r EXCEPT !.completed = s] \in CrowdsourcerRow
  BY DEF CrowdsourcerRow
<1>2. [r EXCEPT !.completed = s].staked = r.staked
  BY DEF CrowdsourcerRow
<1> QED
  BY <1>1, <1>2, RowDisavowed

LEMMA Disavows ==
  ASSUME NEW d \in Tables, NEW m, NEW n \in Int
  PROVE  LET e == Disavow(d, m, n)
         IN  e \in Tables /\ KeepsAll(d, e) /\ e.states = d.states /\ e.markets = d.markets
<1> DEFINE f == [c \in DOMAIN d.crowdsourcers |->
                   IF MarketOf[c] = m THEN Disavowed(d.crowdsourcers[c], n)
                   ELSE d.crowdsourcers[c]]
<1>1. \A c \in DOMAIN d.crowdsourcers :
        LET row == Disavowed(d.crowdsourcers[c], n)
        IN  /\ d.crowdsourcers[c] \in CrowdsourcerRow
            /\ row \in CrowdsourcerRow /\ row.staked = d.crowdsourcers[c].staked
  BY CrowdsourcerRows, RowDisavowed
<1>2. /\ f \in [DOMAIN d.crowdsourcers -> CrowdsourcerRow]
      /\ \A c \in DOMAIN d.crowdsourcers : f[c].staked = d.crowdsourcers[c].staked
  BY <1>1
<1>3. Disavow(d, m, n) = [d EXCEPT !.crowdsourcers = f]
  BY DEF Disavow
<1> HIDE DEF f
<1> QED
  BY <1>2, <1>3, CrowdsourcersSet

LEMMA IncompleteFail ==
  ASSUME NEW d \in Tables, NEW m
  PROVE  LET e == UpdateIncompleteCrowdsourcers(d, m)
         IN  e \in Tables /\ KeepsAll(d, e) /\ e.states = d.states /\ e.markets = d.markets
<1> DEFINE f == [c \in DOMAIN d.crowdsourcers |->
                   IF MarketOf[c] = m /\ d.crowdsourcers[c].completed = None
                   THEN Disavowed([d.crowdsourcers[c] EXCEPT !.completed = 0], 1)
                   ELSE d.crowdsourcers[c]]
<1>1. \A c \in DOMAIN d.crowdsourcers :
        LET row == Disavowed([d.crowdsourcers[c] EXCEPT !.completed = 0], 1)
        IN  /\ d.crowdsourcers[c] \in CrowdsourcerRow
            /\ row \in CrowdsourcerRow /\ row.staked = d.crowdsourcers[c].staked
  <2>1. 0 \in {0, 1, None} /\ 1 \in Int
    OBVIOUS
  <2> QED
    BY <2>1, CrowdsourcerRows, RowMoves
<1>2. /\ f \in [DOMAIN d.crowdsourcers -> CrowdsourcerRow]
      /\ \A c \in DOMAIN d.crowdsourcers : f[c].staked = d.crowdsourcers[c].staked
  BY <1>1
<1>3. UpdateIncompleteCrowdsourcers(d, m) = [d EXCEPT !.crowdsourcers = f]
  BY DEF UpdateIncompleteCrowdsourcers
<1> HIDE DEF f
<1> QED
  BY <1>2, <1>3, CrowdsourcersSet

LEMMA IncompleteReopen ==
  ASSUME NEW d \in Tables, NEW m
  PROVE  LET e == RollbackIncompleteCrowdsourcers(d, m)
         IN  e \in Tables /\ KeepsAll(d, e) /\ e.states = d.states /\ e.markets = d.markets
<1> DEFINE f == [c \in DOMAIN d.crowdsourcers |->
                   IF MarketOf[c] = m /\ d.crowdsourcers[c].completed = 0
                   THEN Disavowed([d.crowdsourcers[c] EXCEPT !.completed = None], -1)
                   ELSE d.crowdsourcers[c]]
<1>1. \A c \in DOMAIN d.crowdsourcers :
        LET row == Disavowed([d.crowdsourcers[c] EXCEPT !.completed = None], -1)
        IN  /\ d.crowdsourcers[c] \in CrowdsourcerRow
            /\ row \in CrowdsourcerRow /\ row.staked = d.crowdsourcers[c].staked
  <2>1. None \in {0, 1, None} /\ -1 \in Int
    OBVIOUS
  <2> QED
    BY <2>1, CrowdsourcerRows, RowMoves
<1>2. /\ f \in [DOMAIN d.crowdsourcers -> CrowdsourcerRow]
      /\ \A c \in DOMAIN d.crowdsourcers : f[c].staked = d.crowdsourcers[c].staked
  BY <1>1
<1>3. RollbackIncompleteCrowdsourcers(d, m) = [d EXCEPT !.crowdsourcers = f]
  BY DEF RollbackIncompleteCrowdsourcers
<1> HIDE DEF f
<1> QED
  BY <1>2, <1>3, CrowdsourcersSet

LEMMA CompletionForgotten ==
  ASSUME NEW d \in Tables, NEW c
  PROVE  LET e == RollbackCrowdsourcerCompletion(d, c)
         IN  e \in Tables /\ KeepsAll(d, e) /\ e.states = d.states /\ e.markets = d.markets
<1> DEFINE f == [x \in DOMAIN d.crowdsourcers |->
                   IF MarketOf[x] = MarketOf[c] /\ d.crowdsourcers[x].feeWindow = d.crowdsourcers[c].feeWindow
                   THEN [d.crowdsourcers[x] EXCEPT !.completed = None] ELSE d.crowdsourcers[x]]
<1>1. \A x \in DOMAIN d.crowdsourcers :
        LET row == [d.crowdsourcers[x] EXCEPT !.completed = None]
        IN  /\ d.crowdsourcers[x] \in CrowdsourcerRow
            /\ row \in CrowdsourcerRow /\ row.staked = d.crowdsourcers[x].staked
  BY CrowdsourcerRows DEF CrowdsourcerRow
<1>2. /\ f \in [DOMAIN d.crowdsourcers -> CrowdsourcerRow]
      /\ \A x \in DOMAIN d.crowdsourcers : f[x].staked = d.crowdsourcers[x].staked
  BY <1>1
<1>3. RollbackCrowdsourcerCompletion(d, c) = [d EXCEPT !.crowdsourcers = f]
  BY DEF RollbackCrowdsourcerCompletion
<1> HIDE DEF f
<1> QED
  BY <1>2, <1>3, CrowdsourcersSet

LEMMA CrowdsourcerCompletes ==
  ASSUME MarketAssumption, NEW d \in Tables, NEW c \in DOMAIN d.crowdsourcers, NEW now \in Nat,
         MarketOf[c] \in DOMAIN d.markets, IsFiniteSet(DOMAIN d.crowdsourcers)
  PROVE  LET e == DisputeCrowdsourcerCompleted(d, c, now)
         IN  e \in Tables /\ KeepsAll(d, e)
<1> DEFINE m == MarketOf[c]
           d1 == [d EXCEPT !.crowdsourcers[c].completed = 1]
           d2 == UpdateMarketState(d1, {m}, "AWAITING_NEXT_WINDOW")
           d3 == UpdateDisputeRound(d2, m)
           d4 == UpdateMarketFeeWindow(d3, d.markets[m].universe, m, now, TRUE)
           d5 == UpdateIncompleteCrowdsourcers(d4, m)
           d6 == UpdateTentativeWinningPayout(d5, m)
<1>1. DisputeCrowdsourcerCompleted(d, c, now) = d6
  BY DEF DisputeCrowdsourcerCompleted
<1>2. m \in DOMAIN d.markets /\ d.markets[m].universe \in Universe
  BY MarketRows DEF MarketRow
<1> HIDE DEF m
<1>3. d1 \in Tables /\ KeepsAll(d, d1)
  <2>1. 1 \in {0, 1, None}
    OBVIOUS
  <2> QED
    BY <2>1, CompletionSet
<1> HIDE DEF d1
<1>4. "AWAITING_NEXT_WINDOW" \in ReportingState
  BY DEF ReportingState
<1>5. d2 \in Tables /\ KeepsAll(d1, d2)
  BY <1>3, <1>4, StatesUpdated
<1> HIDE DEF d2
<1>6. m \in DOMAIN d2.markets /\ IsFiniteSet(DOMAIN d2.crowdsourcers)
  BY <1>2, <1>3, <1>5 DEF KeepsAll, KeepsMarkets, KeepsStakes
<1>7. d3 \in Tables /\ KeepsAll(d2, d3)
  BY <1>5, <1>6, RoundUpdated
<1> HIDE DEF d3
<1>8. m \in DOMAIN d3.markets
  BY <1>6, <1>7 DEF KeepsAll, KeepsMarkets
<1>9. d4 \in Tables /\ KeepsAll(d3, d4)
  BY <1>2, <1>7, <1>8, FeeWindowUpdated
<1> HIDE DEF d4
<1>10. d5 \in Tables /\ KeepsAll(d4, d5)
  BY <1>9, IncompleteFail
<1> HIDE DEF d5
<1>11. d6 \in Tables /\ KeepsAll(d5, d6)
  BY <1>10, TentativeUpdated
<1> HIDE DEF d6
<1>12. KeepsAll(d, d2) /\ KeepsAll(d2, d4) /\ KeepsAll(d4, d6)
  BY <1>3, <1>5, <1>7, <1>9, <1>10, <1>11, KeepsTwice
<1>13. KeepsAll(d, d6)
  <2>1. KeepsAll(d, d4)
    BY <1>12, KeepsTwice
  <2> QED
    BY <1>12, <2>1, KeepsTwice
<1> QED
  BY <1>1, <1>11, <1>13

LEMMA CrowdsourcerUncompletes ==
  ASSUME MarketAssumption, NEW d \in Tables, NEW c \in DOMAIN d.crowdsourcers, NEW now \in Nat,
         MarketOf[c] \in DOMAIN d.markets, IsFiniteSet(DOMAIN d.crowdsourcers)
  PROVE  LET e == DisputeCrowdsourcerCompletedRemoval(d, c, now)
         IN  e \in Tables /\ KeepsAll(d, e)
<1> DEFINE m == MarketOf[c]
           d1 == RollbackCrowdsourcerCompletion(d, c)
           d2 == RollbackMarketState(d1, m)
           d3 == UpdateDisputeRound(d2, m)
           d4 == UpdateMarketFeeWindow(d3, d.markets[m].universe, m, now, FALSE)
           d5 == RollbackIncompleteCrowdsourcers(d4, m)
           d6 == UpdateTentativeWinningPayout(d5, m)
<1>1. DisputeCrowdsourcerCompletedRemoval(d, c, now) = d6
  BY DEF DisputeCrowdsourcerCompletedRemoval
<1>2. m \in DOMAIN d.markets /\ d.markets[m].universe \in Universe /\ m \in Market
  BY MarketRows DEF MarketRow
<1> HIDE DEF m
<1>3. d1 \in Tables /\ KeepsAll(d, d1)
  BY CompletionForgotten
<1> HIDE DEF d1
<1>5. d2 \in Tables /\ KeepsAll(d1, d2)
  BY <1>2, <1>3, StateRolledBack
<1> HIDE DEF d2
<1>6. m \in DOMAIN d2.markets /\ IsFiniteSet(DOMAIN d2.crowdsourcers)
  BY <1>2, <1>3, <1>5 DEF KeepsAll, KeepsMarkets, KeepsStakes
<1>7. d3 \in Tables /\ KeepsAll(d2, d3)
  BY <1>5, <1>6, RoundUpdated
<1> HIDE DEF d3
<1>8. m \in DOMAIN d3.markets
  BY <1>6, <1>7 DEF KeepsAll, KeepsMarkets
<1>9. d4 \in Tables /\ KeepsAll(d3, d4)
  BY <1>2, <1>7, <1>8, FeeWindowUpdated
<1> HIDE DEF d4
<1>10. d5 \in Tables /\ KeepsAll(d4, d5)
  BY <1>9, IncompleteReopen
<1> HIDE DEF d5
<1>11. d6 \in Tables /\ KeepsAll(d5, d6)
  BY <1>10, TentativeUpdated
<1> HIDE DEF d6
<1>12. KeepsAll(d, d2) /\ KeepsAll(d2, d4) /\ KeepsAll(d4, d6)
  BY <1>3, <1>5, <1>7, <1>9, <1>10, <1>11, KeepsTwice
<1>13. KeepsAll(d, d6)
  <2>1. KeepsAll(d, d4)
    BY <1>12, KeepsTwice
  <2> QED
    BY <1>12, <2>1, KeepsTwice
<1> QED
  BY <1>1, <1>11, <1>13
-----------------------------------------------------------------------------
(* Finalization, fork and migration move the flags of the fork. *)

LEMMA MarketChanged ==
  ASSUME NEW d \in Tables, NEW m \in DOMAIN d.markets, NEW row \in MarketRow
  PROVE  LET e == [d EXCEPT !.markets = [d.markets EXCEPT ![m] = row]]
         IN  /\ e \in Tables /\ KeepsRest(d, e) /\ e.forked = d.forked /\ e.states = d.states
             /\ e.reports = d.reports /\ e.crowdsourcers = d.crowdsourcers
             /\ DOMAIN e.markets = DOMAIN d.markets /\ e.markets[m] = row
             /\ \A x \in DOMAIN d.markets : x # m => e.markets[x] = d.markets[x]
<1> DEFINE f == [d.markets EXCEPT ![m] = row]
<1>1. d.markets \in Rows(Market, MarketRow)
  BY TablesElim
<1>2. /\ f \in Rows(Market, MarketRow) /\ DOMAIN f = DOMAIN d.markets /\ f[m] = row
      /\ \A x \in DOMAIN d.markets : x # m => f[x] = d.markets[x]
  BY <1>1, RowChanged
<1> HIDE DEF f
<1>3. LET e == [d EXCEPT !.markets = f]
      IN  /\ e \in Tables /\ KeepsRest(d, e) /\ e.markets = f /\ e.states = d.states
          /\ e.reports = d.reports /\ e.crowdsourcers = d.crowdsourcers
          /\ e.payouts = d.payouts /\ e.forked = d.forked
  BY <1>2, MarketsSet
<1> QED
  BY <1>2, <1>3 DEF f

LEMMA RowOwes ==
  ASSUME NEW r \in MarketRow, NEW i \in Int, NEW j \in Int
  PROVE  LET q == Owing(r, i, j)
         IN  /\ q \in MarketRow /\ q.universe = r.universe /\ q.forking = r.forking
             /\ q.needsMigration = r.needsMigration + i /\ q.needsDisavowal = r.needsDisavowal + j
<1>1. PICK k \in Int : k = r.needsMigration + i
  BY DEF MarketRow
<1>2. PICK n \in Int : n = r.needsDisavowal + j
  BY DEF MarketRow
<1>3. PICK p \in MarketRow : p = [r EXCEPT !.needsMigration = k]
  <2>1. [r EXCEPT !.needsMigration = k] \in MarketRow
    BY DEF MarketRow
  <2> QED
    BY <2>1
<1>4. /\ p.universe = r.universe /\ p.forking = r.forking /\ p.needsMigration = k
      /\ p.needsDisavowal = r.needsDisavowal
  BY <1>3 DEF MarketRow
<1>5. LET q == [p EXCEPT !.needsDisavowal = n]
      IN  /\ q \in MarketRow /\ q.universe = p.universe /\ q.forking = p.forking
          /\ q.needsMigration = p.needsMigration /\ q.needsDisavowal = n
  BY DEF MarketRow
<1>6. Owing(r, i, j) = [p EXCEPT !.needsDisavowal = n]
  BY <1>1, <1>2, <1>3, <1>4 DEF Owing
<1> QED
  BY <1>1, <1>2, <1>4, <1>5, <1>6

LEMMA OthersCount ==
  ASSUME NEW d \in Tables, NEW u, NEW m, NEW i \in Int, NEW j \in Int
  PROVE  LET e == CountOthers(d, u, m, i, j)
         IN  /\ e \in Tables /\ KeepsRest(d, e) /\ e.forked = d.forked /\ e.states = d.states
             /\ e.reports = d.reports /\ e.crowdsourcers = d.crowdsourcers
             /\ DOMAIN e.markets = DOMAIN d.markets
             /\ \A x \in DOMAIN d.markets :
                  e.markets[x] = IF x # m /\ d.markets[x].universe = u
                                 THEN Owing(d.markets[x], i, j) ELSE d.markets[x]
<1> DEFINE f == [x \in DOMAIN d.markets |->
                   IF x # m /\ d.markets[x].universe = u
                   THEN Owing(d.markets[x], i, j) ELSE d.markets[x]]
<1>1. CountOthers(d, u, m, i, j) = [d EXCEPT !.markets = f]
  BY DEF CountOthers
<1>2. /\ DOMAIN d.markets \in SUBSET Market
      /\ \A x \in DOMAIN d.markets : d.markets[x] \in MarketRow /\ Owing(d.markets[x], i, j) \in MarketRow
  BY MarketRows, RowOwes
<1>3. f \in [DOMAIN d.markets -> MarketRow]
  BY <1>2
<1>4. f \in Rows(Market, MarketRow)
  BY <1>2, <1>3, RowsIntro
<1>5. /\ DOMAIN f = DOMAIN d.markets
      /\ \A x \in DOMAIN d.markets :
           f[x] = IF x # m /\ d.markets[x].universe = u THEN Owing(d.markets[x], i, j) ELSE d.markets[x]
  OBVIOUS
<1> HIDE DEF f
<1>6. LET e == [d EXCEPT !.markets = f]
      IN  /\ e \in Tables /\ KeepsRest(d, e) /\ e.markets = f /\ e.states = d.states
          /\ e.reports = d.reports /\ e.crowdsourcers = d.crowdsourcers
          /\ e.payouts = d.payouts /\ e.forked = d.forked
  BY <1>4, MarketsSet
<1> QED
  BY <1>1, <1>5, <1>6

\* The flags of the fork a row has.
Owes(row, u, forking, migration, disavowal) ==
  /\ row.universe = u /\ row.forking = forking
  /\ row.needsMigration = migration /\ row.needsDisavowal = disavowal

LEMMA MarketFinalizes ==
  ASSUME NEW d \in Tables, NEW m \in DOMAIN d.markets
  PROVE  LET e == MarketFinalized(d, m)
         IN  /\ e \in Tables /\ KeepsRest(d, e) /\ e.forked = d.forked
             /\ DOMAIN e.markets = DOMAIN d.markets
             /\ \A x \in DOMAIN d.markets :
                  e.markets[x] = IF /\ d.markets[m].forking = 1 /\ x # m
                                    /\ d.markets[x].universe = d.markets[m].universe
                                 THEN Owing(d.markets[x], 1, 0) ELSE d.markets[x]
<1> DEFINE d1 == UpdateMarketState(d, {m}, "FINALIZED")
           u == d.markets[m].universe
           d2 == CountOthers(d1, u, m, 1, 0)
<1>1. /\ d1 \in Tables /\ KeepsAll(d, d1) /\ d1.markets = d.markets /\ d1.reports = d.reports
      /\ d1.crowdsourcers = d.crowdsourcers
  <2>1. "FINALIZED" \in ReportingState
    BY DEF ReportingState
  <2> QED
    BY <2>1, StatesUpdated
<1>2. d1.forked = d.forked /\ d1.windows = d.windows /\ KeepsRest(d, d1)
  BY <1>1 DEF KeepsAll, KeepsMarkets, KeepsWindows, KeepsRest
<1>3. MarketFinalized(d, m) = IF d.markets[m].forking = 1 THEN d2 ELSE d1
  BY DEF MarketFinalized
<1> HIDE DEF d1, u
<1>4. /\ d2 \in Tables /\ KeepsRest(d1, d2) /\ d2.forked = d1.forked
      /\ DOMAIN d2.markets = DOMAIN d1.markets
      /\ \A x \in DOMAIN d1.markets :
           d2.markets[x] = IF x # m /\ d1.markets[x].universe = u
                           THEN Owing(d1.markets[x], 1, 0) ELSE d1.markets[x]
  BY <1>1, OthersCount
<1> HIDE DEF d2
<1>5. KeepsRest(d, d2)
  BY <1>2, <1>4 DEF KeepsRest, KeepsReports, KeepsStakes, KeepsWindows
<1> QED
  BY <1>1, <1>2, <1>3, <1>4, <1>5 DEF u

LEMMA MarketUnfinalizes ==
  ASSUME NEW d \in Tables, NEW m \in DOMAIN d.markets
  PROVE  LET e == MarketFinalizedRemoval(d, m)
         IN  /\ e \in Tables /\ KeepsRest(d, e) /\ e.forked = d.forked
             /\ DOMAIN e.markets = DOMAIN d.markets
             /\ \A x \in DOMAIN d.markets :
                  e.markets[x] = IF d.markets[x].universe = d.markets[m].universe
                                 THEN [d.markets[x] EXCEPT !.needsMigration = 0] ELSE d.markets[x]
<1> DEFINE d1 == RollbackMarketState(d, m)
           u == d.markets[m].universe
           f == [x \in DOMAIN d1.markets |->
                   IF d1.markets[x].universe = u
                   THEN [d1.markets[x] EXCEPT !.needsMigration = 0] ELSE d1.markets[x]]
<1>1. /\ d1 \in Tables /\ KeepsAll(d, d1) /\ d1.markets = d.markets /\ d1.reports = d.reports
      /\ d1.crowdsourcers = d.crowdsourcers
  BY MarketRows, StateRolledBack
<1>2. d1.forked = d.forked /\ d1.windows = d.windows /\ KeepsRest(d, d1)
  BY <1>1 DEF KeepsAll, KeepsMarkets, KeepsWindows, KeepsRest
<1>3. MarketFinalizedRemoval(d, m) = [d1 EXCEPT !.markets = f]
  BY DEF MarketFinalizedRemoval
<1> HIDE DEF d1, u
<1>4. /\ DOMAIN d1.markets \in SUBSET Market
      /\ \A x \in DOMAIN d1.markets :
           d1.markets[x] \in MarketRow /\ [d1.markets[x] EXCEPT !.needsMigration = 0] \in MarketRow
  BY <1>1, MarketRows DEF MarketRow
<1>5. f \in [DOMAIN d1.markets -> MarketRow]
  BY <1>4
<1>6. f \in Rows(Market, MarketRow)
  BY <1>4, <1>5, RowsIntro
<1>7. /\ DOMAIN f = DOMAIN d1.markets
      /\ \A x \in DOMAIN d1.markets :
           f[x] = IF d1.markets[x].universe = u
                  THEN [d1.markets[x] EXCEPT !.needsMigration = 0] ELSE d1.markets[x]
  OBVIOUS
<1> HIDE DEF f
<1>8. LET e == [d1 EXCEPT !.markets = f]
      IN  /\ e \in Tables /\ KeepsRest(d1, e) /\ e.markets = f /\ e.states = d1.states
          /\ e.reports = d1.reports /\ e.crowdsourcers = d1.crowdsourcers
          /\ e.payouts = d1.payouts /\ e.forked = d1.forked
  BY <1>1, <1>6, MarketsSet
<1>9. KeepsRest(d, [d1 EXCEPT !.markets = f])
  BY <1>2, <1>8 DEF KeepsRest, KeepsReports, KeepsStakes, KeepsWindows
<1> QED
  BY <1>1, <1>2, <1>3, <1>7, <1>8, <1>9 DEF u

LEMMA NonforkingUncomplete ==
  ASSUME NEW d \in Tables, NEW u, NEW m
  PROVE  LET e == UncompleteNonforkingCrowdsourcers(d, u, m)
         IN  e \in Tables /\ KeepsAll(d, e)
<1> DEFINE others == MarketsIn(d, u) \ {m}
           f == [c \in DOMAIN d.crowdsourcers |->
                   IF MarketOf[c] \in others THEN [d.crowdsourcers[c] EXCEPT !.completed = 0]
                   ELSE d.crowdsourcers[c]]
           rounds(x) == IF x \in DOMAIN d.reports THEN 0 ELSE None
           g == [x \in DOMAIN d.markets |->
                   IF x \in others THEN [d.markets[x] EXCEPT !.disputeRounds = rounds(x)]
                   ELSE d.markets[x]]
           d1 == [d EXCEPT !.crowdsourcers = f]
<1>1. UncompleteNonforkingCrowdsourcers(d, u, m) = [d1 EXCEPT !.markets = g]
  BY DEF UncompleteNonforkingCrowdsourcers
<1> HIDE DEF others
<1>2. \A c \in DOMAIN d.crowdsourcers :
        LET row == [d.crowdsourcers[c] EXCEPT !.completed = 0]
        IN  /\ d.crowdsourcers[c] \in CrowdsourcerRow
            /\ row \in CrowdsourcerRow /\ row.staked = d.crowdsourcers[c].staked
  BY CrowdsourcerRows DEF CrowdsourcerRow
<1>3. /\ f \in [DOMAIN d.crowdsourcers -> CrowdsourcerRow]
      /\ \A c \in DOMAIN d.crowdsourcers : f[c].staked = d.crowdsourcers[c].staked
  BY <1>2
<1> HIDE DEF f
<1>4. d1 \in Tables /\ KeepsAll(d, d1) /\ d1.markets = d.markets
  BY <1>3, CrowdsourcersSet
<1> HIDE DEF d1
<1>5. \A x : rounds(x) \in Nat \cup {None}
  OBVIOUS
<1> HIDE DEF rounds
<1>6. \A x \in DOMAIN d.markets :
        LET row == [d.markets[x] EXCEPT !.disputeRounds = rounds(x)]
        IN  /\ d.markets[x] \in MarketRow /\ row \in MarketRow
            /\ row.universe = d.markets[x].universe /\ row.forking = d.markets[x].forking
            /\ row.needsMigration = d.markets[x].needsMigration
            /\ row.needsDisavowal = d.markets[x].needsDisavowal
  BY <1>5, MarketRows DEF MarketRow
<1>7. /\ g \in [DOMAIN d.markets -> MarketRow] /\ DOMAIN g = DOMAIN d.markets
      /\ \A x \in DOMAIN d.markets :
           /\ g[x].universe = d.markets[x].universe /\ g[x].forking = d.markets[x].forking
           /\ g[x].needsMigration = d.markets[x].needsMigration
           /\ g[x].needsDisavowal = d.markets[x].needsDisavowal
  BY <1>6
<1> HIDE DEF g
<1>8. g \in Rows(Market, MarketRow)
  BY <1>7, RowsIntro, TablesElim, RowsElim
<1>9. LET e == [d1 EXCEPT !.markets = g]
      IN  /\ e \in Tables /\ KeepsRest(d1, e) /\ e.markets = g /\ e.forked = d1.forked
  BY <1>4, <1>8, MarketsSet
<1>10. KeepsAll(d, [d1 EXCEPT !.markets = g])
  BY <1>4, <1>7, <1>9 DEF KeepsAll, KeepsRest, KeepsMarkets, KeepsReports, KeepsStakes, KeepsWindows
<1> QED
  BY <1>1, <1>9, <1>10

LEMMA PayoutsRevert ==
  ASSUME NEW d \in Tables, NEW S
  PROVE  LET e == RevertPayouts(d, S)
         IN  /\ e \in Tables /\ KeepsAll(d, e) /\ e.states = d.states /\ e.markets = d.markets
             /\ e.reports = d.reports /\ e.crowdsourcers = d.crowdsourcers
<1> DEFINE f == [k \in DOMAIN d.payouts |->
                   IF k[1] \in S THEN [winning |-> FALSE, tentative |-> TRUE] ELSE d.payouts[k]]
<1>1. RevertPayouts(d, S) = [d EXCEPT !.payouts = f]
  BY DEF RevertPayouts
<1>2. [winning |-> FALSE, tentative |-> TRUE] \in PayoutRow
  BY DEF PayoutRow
<1>3. /\ DOMAIN d.payouts \in SUBSET (Market \X Payout)
      /\ \A k \in DOMAIN d.payouts : d.payouts[k] \in PayoutRow
  BY TablesElim, RowsElim
<1>4. f \in [DOMAIN d.payouts -> PayoutRow]
  BY <1>2, <1>3
<1>5. f \in Rows(Market \X Payout, PayoutRow)
  BY <1>3, <1>4, RowsIntro
<1> HIDE DEF f
<1> QED
  BY <1>1, <1>5, PayoutsSet

LEMMA ForkingSet ==
  ASSUME NEW d \in Tables, NEW m \in DOMAIN d.markets, NEW b \in {0, 1}
  PROVE  LET e == [d EXCEPT !.markets[m].forking = b]
         IN  /\ e \in Tables /\ KeepsRest(d, e) /\ e.forked = d.forked /\ e.states = d.states
             /\ e.reports = d.reports /\ e.crowdsourcers = d.crowdsourcers
             /\ DOMAIN e.markets = DOMAIN d.markets
             /\ Owes(e.markets[m], d.markets[m].universe, b,
                     d.markets[m].needsMigration, d.markets[m].needsDisavowal)
             /\ \A x \in DOMAIN d.markets : x # m => e.markets[x] = d.markets[x]
<1> DEFINE row == [d.markets[m] EXCEPT !.forking = b]
<1>1. row \in MarketRow
  BY MarketRows DEF MarketRow
<1>2. Owes(row, d.markets[m].universe, b, d.markets[m].needsMigration, d.markets[m].needsDisavowal)
  BY MarketRows DEF MarketRow, Owes
<1>3. [d EXCEPT !.markets[m].forking = b] = [d EXCEPT !.markets = [d.markets EXCEPT ![m] = row]]
  OBVIOUS
<1> HIDE DEF row
<1> DEFINE e == [d EXCEPT !.markets = [d.markets EXCEPT ![m] = row]]
<1>4. /\ e \in Tables /\ KeepsRest(d, e) /\ e.forked = d.forked /\ e.states = d.states
      /\ e.reports = d.reports /\ e.crowdsourcers = d.crowdsourcers
      /\ DOMAIN e.markets = DOMAIN d.markets /\ e.markets[m] = row
      /\ \A x \in DOMAIN d.markets : x # m => e.markets[x] = d.markets[x]
  BY <1>1, MarketChanged
<1> HIDE DEF e
<1>5. [d EXCEPT !.markets[m].forking = b] = e
  BY <1>3 DEF e
<1> QED
  BY <1>2, <1>4, <1>5

LEMMA UniverseForks ==
  ASSUME NEW d \in Tables, NEW u \in Universe, NEW m \in DOMAIN d.markets
  PROVE  LET e == UniverseForked(d, u, m)
         IN  /\ e \in Tables /\ KeepsRest(d, e) /\ e.forked = d.forked \cup {u}
             /\ DOMAIN e.markets = DOMAIN d.markets
             /\ \A x \in DOMAIN d.markets :
                  LET row == d.markets[x]
                      n == IF x # m /\ row.universe = u THEN 1 ELSE 0
                  IN  Owes(e.markets[x], row.universe, IF x = m THEN 1 ELSE row.forking,
                           row.needsMigration, row.needsDisavowal + n)
<1> DEFINE d0 == [d EXCEPT !.markets[m].forking = 1]
           d1 == UpdateMarketState(d0, {m}, "FORKING")
           d2 == CountOthers(d1, u, m, 0, 1)
           d3 == [d2 EXCEPT !.forked = @ \cup {u}]
           reverted == {x \in MarketsIn(d3, u) : StateOf(d3, x) \in
                          {"AWAITING_FINALIZATION", "CROWDSOURCING_DISPUTE", "AWAITING_NEXT_WINDOW"}}
           d4 == UpdateMarketState(d3, reverted, "AWAITING_FORK_MIGRATION")
           d5 == RevertPayouts(d4, reverted)
           d6 == UncompleteNonforkingCrowdsourcers(d5, u, m)
<1>1. UniverseForked(d, u, m) = d6
  BY DEF UniverseForked
<1> HIDE DEF reverted
<1>2. 0 \in Int /\ 1 \in Int /\ 1 \in {0, 1}
  OBVIOUS
<1>3. "FORKING" \in ReportingState /\ "AWAITING_FORK_MIGRATION" \in ReportingState
  BY DEF ReportingState
<1>4. /\ d0 \in Tables /\ KeepsRest(d, d0) /\ d0.forked = d.forked
      /\ DOMAIN d0.markets = DOMAIN d.markets
      /\ Owes(d0.markets[m], d.markets[m].universe, 1,
              d.markets[m].needsMigration, d.markets[m].needsDisavowal)
      /\ \A x \in DOMAIN d.markets : x # m => d0.markets[x] = d.markets[x]
  BY <1>2, ForkingSet
<1> HIDE DEF d0
<1>5. d1 \in Tables /\ KeepsAll(d0, d1) /\ d1.markets = d0.markets
  BY <1>3, <1>4, StatesUpdated
<1> HIDE DEF d1
<1>6. /\ d2 \in Tables /\ KeepsRest(d1, d2) /\ d2.forked = d1.forked
      /\ DOMAIN d2.markets = DOMAIN d1.markets
      /\ \A x \in DOMAIN d1.markets :
           d2.markets[x] = IF x # m /\ d1.markets[x].universe = u
                           THEN Owing(d1.markets[x], 0, 1) ELSE d1.markets[x]
  BY <1>2, <1>5, OthersCount
<1> HIDE DEF d2
<1>7. /\ d3 \in Tables /\ d3.markets = d2.markets /\ d3.windows = d2.windows
      /\ d3.reports = d2.reports /\ d3.crowdsourcers = d2.crowdsourcers
      /\ d3.forked = d2.forked \cup {u}
  <2>1. d2.forked \cup {u} \in SUBSET Universe
    BY <1>6, TablesElim
  <2> QED
    BY <1>6, <2>1, SetForked
<1> HIDE DEF d3
<1>8. d4 \in Tables /\ KeepsAll(d3, d4)
  BY <1>3, <1>7, StatesUpdated
<1> HIDE DEF d4
<1>9. d5 \in Tables /\ KeepsAll(d4, d5)
  BY <1>8, PayoutsRevert
<1> HIDE DEF d5
<1>10. d6 \in Tables /\ KeepsAll(d5, d6)
  BY <1>9, NonforkingUncomplete
<1> HIDE DEF d6
<1>11. KeepsAll(d3, d6)
  <2>1. KeepsAll(d3, d5)
    BY <1>8, <1>9, KeepsTwice
  <2> QED
    BY <1>10, <2>1, KeepsTwice
<1>12. d6.forked = d.forked \cup {u} /\ DOMAIN d6.markets = DOMAIN d.markets
  BY <1>4, <1>5, <1>6, <1>7, <1>11 DEF KeepsAll, KeepsMarkets
<1>13. KeepsRest(d, d6)
  BY <1>4, <1>5, <1>6, <1>7, <1>11 DEF KeepsAll, KeepsRest, KeepsReports, KeepsStakes, KeepsWindows
<1>14. ASSUME NEW x \in DOMAIN d.markets
       PROVE  LET row == d.markets[x]
                  n == IF x # m /\ row.universe = u THEN 1 ELSE 0
              IN  Owes(d6.markets[x], row.universe, IF x = m THEN 1 ELSE row.forking,
                       row.needsMigration, row.needsDisavowal + n)
  <2>1. Owes(d6.markets[x], d2.markets[x].universe, d2.markets[x].forking,
             d2.markets[x].needsMigration, d2.markets[x].needsDisavowal)
    BY <1>4, <1>5, <1>6, <1>7, <1>11 DEF KeepsAll, KeepsMarkets, Owes
  <2>2. d.markets[x].needsDisavowal \in Int /\ d.markets[x].needsMigration \in Int
    BY MarketRows DEF MarketRow
  <2>3. CASE x = m
    <3>1. d2.markets[x] = d0.markets[m]
      BY <1>4, <1>5, <1>6, <2>3
    <3>2. d.markets[x].needsDisavowal + 0 = d.markets[x].needsDisavowal
      BY <2>2
    <3> QED
      BY <1>4, <2>1, <2>3, <3>1, <3>2 DEF Owes
  <2>4. CASE x # m /\ d.markets[x].universe = u
    <3>1. d2.markets[x] = Owing(d.markets[x], 0, 1)
      BY <1>4, <1>5, <1>6, <2>4
    <3>2. LET q == Owing(d.markets[x], 0, 1)
              r == d.markets[x]
          IN  /\ q.universe = r.universe /\ q.forking = r.forking
              /\ q.needsMigration = r.needsMigration + 0 /\ q.needsDisavowal = r.needsDisavowal + 1
      BY <1>2, MarketRows, RowOwes
    <3>3. d.markets[x].needsMigration + 0 = d.markets[x].needsMigration
      BY <2>2
    <3> QED
      BY <2>1, <2>4, <3>1, <3>2, <3>3 DEF Owes
  <2>5. CASE x # m /\ d.markets[x].universe # u
    <3>1. d2.markets[x] = d.markets[x]
      BY <1>4, <1>5, <1>6, <2>5
    <3>2. d.markets[x].needsDisavowal + 0 = d.markets[x].needsDisavowal
      BY <2>2
    <3> QED
      BY <2>1, <2>5, <3>1, <3>2 DEF Owes
  <2> QED
    BY <2>3, <2>4, <2>5
<1> QED
  BY <1>1, <1>10, <1>12, <1>13, <1>14

LEMMA UniverseUnforks ==
  ASSUME NEW d \in Tables, NEW u \in Universe, NEW m \in DOMAIN d.markets
  PROVE  LET e == UniverseForkedRemoval(d, u, m)
         IN  /\ e \in Tables /\ KeepsRest(d, e) /\ e.forked = d.forked \ {u}
             /\ DOMAIN e.markets = DOMAIN d.markets
             /\ \A x \in DOMAIN d.markets :
                  LET row == d.markets[x]
                      n == IF x # m /\ row.universe = u THEN 1 ELSE 0
                  IN  Owes(e.markets[x], row.universe, IF x = m THEN 0 ELSE row.forking,
                           row.needsMigration, row.needsDisavowal - n)
<1> DEFINE d1 == [d EXCEPT !.markets[m].forking = 0]
           d2 == CountOthers(d1, u, m, 0, -1)
           d3 == [d2 EXCEPT !.forked = @ \ {u}]
<1>1. UniverseForkedRemoval(d, u, m) = d3
  BY DEF UniverseForkedRemoval
<1>2. PICK k \in Int : k = -1
  OBVIOUS
<1>3. d2 = CountOthers(d1, u, m, 0, k) /\ 0 \in Int /\ 0 \in {0, 1}
  BY <1>2
<1>4. /\ d1 \in Tables /\ KeepsRest(d, d1) /\ d1.forked = d.forked
      /\ DOMAIN d1.markets = DOMAIN d.markets
      /\ Owes(d1.markets[m], d.markets[m].universe, 0,
              d.markets[m].needsMigration, d.markets[m].needsDisavowal)
      /\ \A x \in DOMAIN d.markets : x # m => d1.markets[x] = d.markets[x]
  BY <1>3, ForkingSet
<1> HIDE DEF d1, d2
<1>5. /\ d2 \in Tables /\ KeepsRest(d1, d2) /\ d2.forked = d1.forked
      /\ DOMAIN d2.markets = DOMAIN d1.markets
      /\ \A x \in DOMAIN d1.markets :
           d2.markets[x] = IF x # m /\ d1.markets[x].universe = u
                           THEN Owing(d1.markets[x], 0, k) ELSE d1.markets[x]
  BY <1>3, <1>4, OthersCount
<1>6. /\ d3 \in Tables /\ d3.markets = d2.markets /\ d3.windows = d2.windows
      /\ d3.reports = d2.reports /\ d3.crowdsourcers = d2.crowdsourcers
      /\ d3.forked = d2.forked \ {u}
  <2>1. d2.forked \ {u} \in SUBSET Universe
    BY <1>5, TablesElim
  <2> QED
    BY <1>5, <2>1, SetForked
<1> HIDE DEF d3
<1>7. KeepsRest(d, d3)
  BY <1>4, <1>5, <1>6 DEF KeepsRest, KeepsReports, KeepsStakes, KeepsWindows
<1>8. ASSUME NEW x \in DOMAIN d.markets
      PROVE  LET row == d.markets[x]
                 n == IF x # m /\ row.universe = u THEN 1 ELSE 0
             IN  Owes(d3.markets[x], row.universe, IF x = m THEN 0 ELSE row.forking,
                      row.needsMigration, row.needsDisavowal - n)
  <2>1. d.markets[x].needsDisavowal \in Int /\ d.markets[x].needsMigration \in Int
    BY MarketRows DEF MarketRow
  <2>2. CASE x = m
    <3>1. d3.markets[x] = d1.markets[m]
      BY <1>4, <1>5, <1>6, <2>2
    <3>2. d.markets[x].needsDisavowal - 0 = d.markets[x].needsDisavowal
      BY <2>1
    <3> QED
      BY <1>4, <2>2, <3>1, <3>2
  <2>3. CASE x # m /\ d.markets[x].universe = u
    <3>1. d3.markets[x] = Owing(d.markets[x], 0, k)
      BY <1>4, <1>5, <1>6, <2>3
    <3>2. LET q == Owing(d.markets[x], 0, k)
              r == d.markets[x]
          IN  /\ q.universe = r.universe /\ q.forking = r.forking
              /\ q.needsMigration = r.needsMigration + 0 /\ q.needsDisavowal = r.needsDisavowal + k
      BY <1>3, MarketRows, RowOwes
    <3>3. /\ d.markets[x].needsMigration + 0 = d.markets[x].needsMigration
          /\ d.markets[x].needsDisavowal + k = d.markets[x].needsDisavowal - 1
      BY <1>2, <2>1
    <3> QED
      BY <2>3, <3>1, <3>2, <3>3 DEF Owes
  <2>4. CASE x # m /\ d.markets[x].universe # u
    <3>1. d3.markets[x] = d.markets[x]
      BY <1>4, <1>5, <1>6, <2>4
    <3>2. d.markets[x].needsDisavowal - 0 = d.markets[x].needsDisavowal
      BY <2>1
    <3> QED
      BY <2>4, <3>1, <3>2 DEF Owes
  <2> QED
    BY <2>2, <2>3, <2>4
<1> QED
  BY <1>1, <1>4, <1>5, <1>6, <1>7, <1>8

\* A market's row after MarketMigrated, and after its removal.
LEMMA RowMigrates ==
  ASSUME NEW r \in MarketRow, NEW u \in Universe, NEW n \in Int
  PROVE  LET q == [r EXCEPT !.universe = u, !.needsMigration = @ + n, !.needsDisavowal = @ + n]
         IN  /\ q \in MarketRow
             /\ Owes(q, u, r.forking, r.needsMigration + n, r.needsDisavowal + n)
<1>1. PICK k \in Int : k = r.needsMigration + n
  BY DEF MarketRow
<1>2. PICK l \in Int : l = r.needsDisavowal + n
  BY DEF MarketRow
<1>3. PICK p \in MarketRow : p = [r EXCEPT !.universe = u]
  <2>1. [r EXCEPT !.universe = u] \in MarketRow
    BY DEF MarketRow
  <2> QED
    BY <2>1
<1>4. /\ p.universe = u /\ p.forking = r.forking /\ p.needsMigration = r.needsMigration
      /\ p.needsDisavowal = r.needsDisavowal
  BY <1>3 DEF MarketRow
<1>5. PICK o \in MarketRow : o = [p EXCEPT !.needsMigration = k]
  <2>1. [p EXCEPT !.needsMigration = k] \in MarketRow
    BY DEF MarketRow
  <2> QED
    BY <2>1
<1>6. /\ o.universe = u /\ o.forking = r.forking /\ o.needsMigration = k
      /\ o.needsDisavowal = r.needsDisavowal
  BY <1>4, <1>5 DEF MarketRow
<1>7. LET q == [o EXCEPT !.needsDisavowal = l]
      IN  /\ q \in MarketRow /\ q.universe = o.universe /\ q.forking = o.forking
          /\ q.needsMigration = o.needsMigration /\ q.needsDisavowal = l
  BY DEF MarketRow
<1>8. [r EXCEPT !.universe = u, !.needsMigration = @ + n, !.needsDisavowal = @ + n]
      = [o EXCEPT !.needsDisavowal = l]
  BY <1>1, <1>2, <1>3, <1>4, <1>5, <1>6
<1> QED
  BY <1>1, <1>2, <1>6, <1>7, <1>8 DEF Owes

LEMMA MarketMigrates ==
  ASSUME MarketAssumption, NEW d \in Tables, NEW m \in DOMAIN d.markets, NEW now \in Nat
  PROVE  LET e == MarketMigrated(d, m, now)
             row == d.markets[m]
         IN  /\ e \in Tables /\ KeepsRest(d, e) /\ e.forked = d.forked
             /\ DOMAIN e.markets = DOMAIN d.markets
             /\ Owes(e.markets[m], Child, row.forking, row.needsMigration - 1, row.needsDisavowal - 1)
             /\ \A x \in DOMAIN d.markets : x # m => e.markets[x] = d.markets[x]
<1> DEFINE next == IF d.markets[m].feeWindow # None THEN "AWAITING_NEXT_WINDOW" ELSE "OPEN_REPORTING"
           S == IF StateOf(d, m) = "AWAITING_FORK_MIGRATION" THEN {m} ELSE {}
           d1 == UpdateMarketState(d, S, next)
           d2 == UpdateMarketFeeWindow(d1, Child, m, now, TRUE)
           row == [d2.markets[m] EXCEPT !.universe = Child, !.needsMigration = @ - 1,
                                        !.needsDisavowal = @ - 1]
           d3 == [d2 EXCEPT !.markets = [d2.markets EXCEPT ![m] = row]]
           d4 == Disavow(d3, m, 1)
<1>0. MarketMigrated(d, m, now) =
      Disavow([d2 EXCEPT !.markets[m].universe = Child, !.markets[m].needsMigration = @ - 1,
                         !.markets[m].needsDisavowal = @ - 1], m, 1)
  BY DEF MarketMigrated
<1>2. next \in ReportingState
  BY DEF ReportingState
<1> HIDE DEF next, S
<1>3. d1 \in Tables /\ KeepsAll(d, d1) /\ d1.markets = d.markets
  BY <1>2, StatesUpdated
<1> HIDE DEF d1
<1>4. Child \in Universe /\ 1 \in Int
  BY DEF MarketAssumption
<1>5. m \in DOMAIN d1.markets
  BY <1>3
<1>6. d2 \in Tables /\ KeepsAll(d1, d2)
  BY <1>3, <1>4, <1>5, FeeWindowUpdated
<1>7. \A x \in DOMAIN d1.markets : x # m => d2.markets[x] = d1.markets[x]
  BY <1>3 DEF Tables, UpdateMarketFeeWindow
<1> HIDE DEF d2
<1>1. MarketMigrated(d, m, now) = d4
  <2>1. [d2 EXCEPT !.markets[m].universe = Child, !.markets[m].needsMigration = @ - 1,
                   !.markets[m].needsDisavowal = @ - 1] = d3
    <3>1. PICK f : f = d2.markets
      OBVIOUS
    <3>2. [f EXCEPT ![m].universe = Child, ![m].needsMigration = @ - 1, ![m].needsDisavowal = @ - 1]
            = [f EXCEPT ![m] = [f[m] EXCEPT !.universe = Child, !.needsMigration = @ - 1,
                                            !.needsDisavowal = @ - 1]]
      OBVIOUS
    <3>3. [d2 EXCEPT !.markets[m].universe = Child, !.markets[m].needsMigration = @ - 1,
                     !.markets[m].needsDisavowal = @ - 1]
            = [d2 EXCEPT !.markets = [f EXCEPT ![m].universe = Child, ![m].needsMigration = @ - 1,
                                               ![m].needsDisavowal = @ - 1]]
      BY <3>1
    <3> QED
      BY <3>1, <3>2, <3>3
  <2> QED
    BY <1>0, <2>1
<1>8. \A x \in DOMAIN d.markets : x # m => d2.markets[x] = d.markets[x]
  BY <1>3, <1>7
<1>9. m \in DOMAIN d2.markets /\ d2.markets[m] \in MarketRow
  BY <1>5, <1>6, MarketRows DEF KeepsAll, KeepsMarkets
<1>10. row \in MarketRow /\ Owes(row, Child, d2.markets[m].forking, d2.markets[m].needsMigration - 1,
                                 d2.markets[m].needsDisavowal - 1)
  <2>1. PICK r \in MarketRow : r = d2.markets[m]
    BY <1>9
  <2>2. PICK n \in Int : n = -1
    OBVIOUS
  <2>3. LET q == [r EXCEPT !.universe = Child, !.needsMigration = @ + n, !.needsDisavowal = @ + n]
        IN  /\ q \in MarketRow
            /\ Owes(q, Child, r.forking, r.needsMigration + n, r.needsDisavowal + n)
    BY <1>4, RowMigrates
  <2>4. r.needsMigration - 1 = r.needsMigration + n /\ r.needsDisavowal - 1 = r.needsDisavowal + n
    BY <2>2 DEF MarketRow
  <2>5. row = [r EXCEPT !.universe = Child, !.needsMigration = @ + n, !.needsDisavowal = @ + n]
    BY <2>1, <2>4
  <2> QED
    BY <2>1, <2>3, <2>4, <2>5
<1> HIDE DEF row
<1>11. /\ d3 \in Tables /\ KeepsRest(d2, d3) /\ d3.forked = d2.forked
       /\ DOMAIN d3.markets = DOMAIN d2.markets /\ d3.markets[m] = row
       /\ \A x \in DOMAIN d2.markets : x # m => d3.markets[x] = d2.markets[x]
  <2>1. d2 \in Tables /\ m \in DOMAIN d2.markets /\ row \in MarketRow
    BY <1>6, <1>9, <1>10
  <2> QED
    BY <2>1, MarketChanged
<1> HIDE DEF d3
<1>12. d4 \in Tables /\ KeepsAll(d3, d4) /\ d4.markets = d3.markets
  BY <1>4, <1>11, Disavows
<1> HIDE DEF d4
<1>13. /\ DOMAIN d4.markets = DOMAIN d.markets /\ d4.forked = d.forked
       /\ d2.markets[m].forking = d.markets[m].forking
       /\ d2.markets[m].needsMigration = d.markets[m].needsMigration
       /\ d2.markets[m].needsDisavowal = d.markets[m].needsDisavowal
  BY <1>3, <1>6, <1>11, <1>12 DEF KeepsAll, KeepsMarkets
<1>14. KeepsRest(d, d4)
  BY <1>3, <1>6, <1>11, <1>12 DEF KeepsAll, KeepsRest, KeepsReports, KeepsStakes, KeepsWindows
<1>15. \A x \in DOMAIN d.markets : x # m => d4.markets[x] = d.markets[x]
  BY <1>8, <1>11, <1>12, <1>13
<1> QED
  BY <1>1, <1>10, <1>11, <1>12, <1>13, <1>14, <1>15

LEMMA MarketUnmigrates ==
  ASSUME MarketAssumption, NEW d \in Tables, NEW m \in DOMAIN d.markets
  PROVE  LET e == MarketMigratedRemoval(d, m)
             row == d.markets[m]
         IN  /\ e \in Tables /\ KeepsRest(d, e) /\ e.forked = d.forked
             /\ DOMAIN e.markets = DOMAIN d.markets
             /\ Owes(e.markets[m], Genesis, row.forking, row.needsMigration + 1, row.needsDisavowal + 1)
             /\ \A x \in DOMAIN d.markets : x # m => e.markets[x] = d.markets[x]
<1> DEFINE d2 == RollbackMarketState(d, m)
           row == [d2.markets[m] EXCEPT !.universe = Genesis, !.needsMigration = @ + 1,
                                        !.needsDisavowal = @ + 1]
           d3 == [d2 EXCEPT !.markets = [d2.markets EXCEPT ![m] = row]]
           d4 == Disavow(d3, m, -1)
<1>0. MarketMigratedRemoval(d, m) =
      Disavow([d2 EXCEPT !.markets[m].universe = Genesis, !.markets[m].needsMigration = @ + 1,
                         !.markets[m].needsDisavowal = @ + 1], m, -1)
  BY DEF MarketMigratedRemoval
<1>2. d2 \in Tables /\ KeepsAll(d, d2) /\ d2.markets = d.markets
  BY MarketRows, StateRolledBack
<1> HIDE DEF d2
<1>1. MarketMigratedRemoval(d, m) = d4
  <2>1. [d2 EXCEPT !.markets[m].universe = Genesis, !.markets[m].needsMigration = @ + 1,
                   !.markets[m].needsDisavowal = @ + 1] = d3
    <3>1. PICK f : f = d2.markets
      OBVIOUS
    <3>2. [f EXCEPT ![m].universe = Genesis, ![m].needsMigration = @ + 1, ![m].needsDisavowal = @ + 1]
            = [f EXCEPT ![m] = [f[m] EXCEPT !.universe = Genesis, !.needsMigration = @ + 1,
                                            !.needsDisavowal = @ + 1]]
      OBVIOUS
    <3>3. [d2 EXCEPT !.markets[m].universe = Genesis, !.markets[m].needsMigration = @ + 1,
                     !.markets[m].needsDisavowal = @ + 1]
            = [d2 EXCEPT !.markets = [f EXCEPT ![m].universe = Genesis, ![m].needsMigration = @ + 1,
                                               ![m].needsDisavowal = @ + 1]]
      BY <3>1
    <3> QED
      BY <3>1, <3>2, <3>3
  <2> QED
    BY <1>0, <2>1
<1>3. Genesis \in Universe /\ 1 \in Int /\ -1 \in Int
  BY DEF MarketAssumption
<1>4. m \in DOMAIN d2.markets /\ d2.markets[m] \in MarketRow
  BY <1>2, MarketRows
<1>5. row \in MarketRow /\ Owes(row, Genesis, d2.markets[m].forking, d2.markets[m].needsMigration + 1,
                                d2.markets[m].needsDisavowal + 1)
  BY <1>3, <1>4, RowMigrates
<1> HIDE DEF row
<1>6. /\ d3 \in Tables /\ KeepsRest(d2, d3) /\ d3.forked = d2.forked
      /\ DOMAIN d3.markets = DOMAIN d2.markets /\ d3.markets[m] = row
      /\ \A x \in DOMAIN d2.markets : x # m => d3.markets[x] = d2.markets[x]
  <2>1. d2 \in Tables /\ m \in DOMAIN d2.markets /\ row \in MarketRow
    BY <1>2, <1>4, <1>5
  <2> QED
    BY <2>1, MarketChanged
<1> HIDE DEF d3
<1>7. d4 \in Tables /\ KeepsAll(d3, d4) /\ d4.markets = d3.markets
  BY <1>3, <1>6, Disavows
<1> HIDE DEF d4
<1>8. d4.forked = d.forked /\ KeepsRest(d, d4)
  BY <1>2, <1>6, <1>7
     DEF KeepsAll, KeepsMarkets, KeepsRest, KeepsReports, KeepsStakes, KeepsWindows
<1> QED
  BY <1>1, <1>2, <1>5, <1>6, <1>7, <1>8

\* n is what the log adds to the debt of a disavowal, k to the disavowals.
DisavowalCounted(d, m, n, k) == Disavow([d EXCEPT !.markets[m].needsDisavowal = @ + n], m, k)

LEMMA DisavowalCounts ==
  ASSUME NEW d \in Tables, NEW m \in DOMAIN d.markets, NEW n \in Int, NEW k \in Int
  PROVE  LET e == DisavowalCounted(d, m, n, k)
             row == d.markets[m]
         IN  /\ e \in Tables /\ KeepsRest(d, e) /\ e.forked = d.forked
             /\ DOMAIN e.markets = DOMAIN d.markets
             /\ Owes(e.markets[m], row.universe, row.forking, row.needsMigration, row.needsDisavowal + n)
             /\ \A x \in DOMAIN d.markets : x # m => e.markets[x] = d.markets[x]
<1> DEFINE row == [d.markets[m] EXCEPT !.needsDisavowal = @ + n]
           d1 == [d EXCEPT !.markets = [d.markets EXCEPT ![m] = row]]
           d2 == Disavow(d1, m, k)
<1>1. /\ row \in MarketRow
      /\ Owes(row, d.markets[m].universe, d.markets[m].forking, d.markets[m].needsMigration,
              d.markets[m].needsDisavowal + n)
  <2>1. PICK r \in MarketRow : r = d.markets[m]
    BY MarketRows
  <2>2. PICK l \in Int : l = r.needsDisavowal + n
    BY DEF MarketRow
  <2>3. /\ [r EXCEPT !.needsDisavowal = l] \in MarketRow
        /\ Owes([r EXCEPT !.needsDisavowal = l], r.universe, r.forking, r.needsMigration, l)
    BY DEF MarketRow, Owes
  <2> QED
    BY <2>1, <2>2, <2>3
<1>2. [d EXCEPT !.markets[m].needsDisavowal = @ + n] = d1
  OBVIOUS
<1> HIDE DEF row
<1>3. /\ d1 \in Tables /\ KeepsRest(d, d1) /\ d1.forked = d.forked
      /\ DOMAIN d1.markets = DOMAIN d.markets /\ d1.markets[m] = row
      /\ \A x \in DOMAIN d.markets : x # m => d1.markets[x] = d.markets[x]
  BY <1>1, MarketChanged
<1> HIDE DEF d1
<1>4. d2 \in Tables /\ KeepsAll(d1, d2) /\ d2.markets = d1.markets
  BY <1>3, Disavows
<1>5. d2 = DisavowalCounted(d, m, n, k)
  BY <1>2 DEF DisavowalCounted
<1> HIDE DEF d2
<1>6. d2.forked = d.forked /\ KeepsRest(d, d2)
  BY <1>3, <1>4
     DEF KeepsAll, KeepsMarkets, KeepsRest, KeepsReports, KeepsStakes, KeepsWindows
<1> QED
  BY <1>1, <1>3, <1>4, <1>5, <1>6

LEMMA ParticipantDisavows ==
  ASSUME NEW d \in Tables, NEW x \in DOMAIN d.reports \cup DOMAIN d.crowdsourcers, NEW b \in {0, 1}
  PROVE  LET e == ReportingParticipantDisavowed(d, x, b)
         IN  e \in Tables /\ KeepsAll(d, e)
<1>1. CASE x \in DOMAIN d.reports
  <2> DEFINE row == [d.reports[x] EXCEPT !.disavowed = b]
             f == [d.reports EXCEPT ![x] = row]
  <2>1. d.reports \in Rows(Market, ReportRow) /\ d.reports[x] \in ReportRow
    BY <1>1, TablesElim, RowsElim
  <2>2. row \in ReportRow
    BY <2>1 DEF ReportRow
  <2>3. ReportingParticipantDisavowed(d, x, b) = [d EXCEPT !.reports = f]
    BY <1>1 DEF ReportingParticipantDisavowed
  <2> HIDE DEF row
  <2>4. f \in Rows(Market, ReportRow) /\ DOMAIN f = DOMAIN d.reports
    BY <1>1, <2>1, <2>2, RowChanged
  <2> HIDE DEF f
  <2>5. LET e == [d EXCEPT !.reports = f]
        IN  /\ e \in Tables /\ KeepsMarkets(d, e) /\ KeepsStakes(d, e) /\ KeepsWindows(d, e)
            /\ e.reports = f
    BY <2>4, ReportsSet
  <2>6. KeepsReports(d, [d EXCEPT !.reports = f])
    BY <2>4, <2>5 DEF KeepsReports
  <2> QED
    BY <2>3, <2>5, <2>6 DEF KeepsAll
<1>2. CASE x \notin DOMAIN d.reports
  <2> DEFINE row == [d.crowdsourcers[x] EXCEPT !.disavowed = b]
             f == [d.crowdsourcers EXCEPT ![x] = row]
  <2>1. x \in DOMAIN d.crowdsourcers
    BY <1>2
  <2>2. row \in CrowdsourcerRow /\ row.staked = d.crowdsourcers[x].staked
    <3>1. PICK r \in CrowdsourcerRow : r = d.crowdsourcers[x]
      BY <2>1, CrowdsourcerRows
    <3>2. PICK k \in Int : k = b
      OBVIOUS
    <3>3. [r EXCEPT !.disavowed = k] \in CrowdsourcerRow /\ [r EXCEPT !.disavowed = k].staked = r.staked
      BY DEF CrowdsourcerRow
    <3> QED
      BY <3>1, <3>2, <3>3
  <2>3. ReportingParticipantDisavowed(d, x, b) = [d EXCEPT !.crowdsourcers = f]
    BY <1>2 DEF ReportingParticipantDisavowed
  <2> HIDE DEF row
  <2>4. d.crowdsourcers \in [DOMAIN d.crowdsourcers -> CrowdsourcerRow]
    BY TablesElim, RowsElim
  <2>5. /\ f \in [DOMAIN d.crowdsourcers -> CrowdsourcerRow]
        /\ \A c \in DOMAIN d.crowdsourcers : f[c].staked = d.crowdsourcers[c].staked
    BY <2>2, <2>4
  <2> HIDE DEF f
  <2> QED
    BY <2>3, <2>5, CrowdsourcersSet
<1> QED
  BY <1>1, <1>2
=============================================================================
