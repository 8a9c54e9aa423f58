---------------------------- MODULE StatesProofs -----------------------------
(***************************************************************************)
(* The reporting states are a stack: every log that moves a market pushes  *)
(* one, and taking the block back pops it.  Proved here of MarketReporting *)
(* for every value of its constants: a log processor finds the state it    *)
(* asserts when its block is taken back, unless a block whose time had     *)
(* moved the tables, or a fork, was taken back before.                     *)
(***************************************************************************)
EXTENDS RoundsProofs

Waiting == "AWAITING_NEXT_WINDOW"
Tops(q, state) == q # <<>> /\ q[Len(q)] = state

-----------------------------------------------------------------------------
(* What the handlers do to the states and the fee windows of the markets. *)

Stays(d, e, m) ==
  /\ e.states[m] = d.states[m]
  /\ m \in DOMAIN d.markets =>
       /\ m \in DOMAIN e.markets
       /\ e.markets[m].feeWindow = d.markets[m].feeWindow
       /\ e.markets[m].universe = d.markets[m].universe
AllStay(d, e)       == \A m \in Market : Stays(d, e, m)
OthersStay(d, e, m) == \A x \in Market : x # m => Stays(d, e, x)
Pushes(d, e, m, state) == OthersStay(d, e, m) /\ e.states[m] = Append(d.states[m], state)
Pops(d, e, m) ==
  OthersStay(d, e, m) /\ e.states[m] = SubSeq(d.states[m], 1, Len(d.states[m]) - 1)

LEMMA SameRowsStay ==
  ASSUME NEW d, NEW e, e.states = d.states, e.markets = d.markets
  PROVE  AllStay(d, e)
BY DEF AllStay, Stays

LEMMA OthersStayOn ==
  ASSUME NEW d, NEW e, NEW f, NEW m
  PROVE  /\ AllStay(d, e) /\ AllStay(e, f) => AllStay(d, f)
         /\ OthersStay(d, e, m) /\ OthersStay(e, f, m) => OthersStay(d, f, m)
         /\ AllStay(d, e) => OthersStay(d, e, m)
BY DEF AllStay, OthersStay, Stays

\* updateMarketState, rollbackMarketState, updateMarketFeeWindow, updateDisputeRound.
LEMMA StatePushed ==
  ASSUME NEW d \in Tables, NEW m \in Market, NEW s \in ReportingState
  PROVE  Pushes(d, UpdateMarketState(d, {m}, s), m, s)
<1> DEFINE e == UpdateMarketState(d, {m}, s)
<1>1. /\ e.markets = d.markets
      /\ \A x \in Market : e.states[x] = IF x \in {m} THEN Append(d.states[x], s) ELSE d.states[x]
  BY StatesUpdated
<1> HIDE DEF e
<1>2. Pushes(d, e, m, s)
  BY <1>1 DEF Pushes, OthersStay, Stays
<1> QED
  BY <1>2 DEF e

LEMMA StatePopped ==
  ASSUME NEW d \in Tables, NEW m \in Market
  PROVE  Pops(d, RollbackMarketState(d, m), m)
<1> DEFINE e == RollbackMarketState(d, m)
<1>1. e.markets = d.markets /\ e.states = [d.states EXCEPT ![m] = SubSeq(@, 1, Len(@) - 1)]
  BY StateRolledBack
<1>2. d.states \in [Market -> Seq(ReportingState)]
  BY TablesElim
<1> HIDE DEF e
<1>3. Pops(d, e, m)
  BY <1>1, <1>2 DEF Pops, OthersStay, Stays
<1> QED
  BY <1>3 DEF e

NextWindow(u, now) == WindowAt(u, now + Duration)
FiledNext(d, e, u, m, now) == e = UpdateMarketFeeWindow(d, u, m, now, TRUE)
Refiles(d, e, m) ==
  /\ e \in Tables /\ KeepsAll(d, e) /\ OthersStay(d, e, m) /\ e.states = d.states
  /\ e.crowdsourcers = d.crowdsourcers

LEMMA FeeWindowMoves ==
  ASSUME MarketAssumption, NEW d \in Tables, NEW u \in Universe, NEW m \in DOMAIN d.markets,
         NEW now \in Nat, NEW next \in BOOLEAN
  PROVE  Refiles(d, UpdateMarketFeeWindow(d, u, m, now, next), m)
<1> DEFINE e == UpdateMarketFeeWindow(d, u, m, now, next)
<1>1. /\ e \in Tables /\ KeepsAll(d, e) /\ e.states = d.states
      /\ e.crowdsourcers = d.crowdsourcers
      /\ \A x \in DOMAIN d.markets : x # m => e.markets[x] = d.markets[x]
  BY FeeWindowUpdated
<1> HIDE DEF e
<1>2. OthersStay(d, e, m)
  BY <1>1 DEF OthersStay, Stays, KeepsAll, KeepsMarkets
<1> QED
  BY <1>1, <1>2 DEF e, Refiles

LEMMA NextWindowFiled ==
  ASSUME NEW d \in Tables, NEW u, NEW m \in DOMAIN d.markets, NEW now,
         NEW e, FiledNext(d, e, u, m, now)
  PROVE  e.markets[m].feeWindow = NextWindow(u, now)
<1> DEFINE w == NextWindow(u, now)
<1>1. e.markets = [d.markets EXCEPT ![m].feeWindow = w]
  BY DEF FiledNext, UpdateMarketFeeWindow, NextWindow, Tables
<1>2. PICK row \in MarketRow : row = d.markets[m]
  BY MarketRows
<1> HIDE DEF w
<1>3. e.markets[m] = [row EXCEPT !.feeWindow = w]
  BY <1>1, <1>2
<1>4. [row EXCEPT !.feeWindow = w].feeWindow = w
  BY <1>2 DEF MarketRow
<1> QED
  BY <1>3, <1>4 DEF w

LEMMA RoundsStay ==
  ASSUME NEW d \in Tables, NEW m \in DOMAIN d.markets, IsFiniteSet(DOMAIN d.crowdsourcers)
  PROVE  LET e == UpdateDisputeRound(d, m)
         IN  e \in Tables /\ KeepsAll(d, e) /\ AllStay(d, e)
<1> DEFINE e == UpdateDisputeRound(d, m)
           n == Cardinality({c \in CrowdsourcersOf(d, m) : d.crowdsourcers[c].completed = 1})
<1>1. /\ e \in Tables /\ KeepsAll(d, e) /\ e.states = d.states
      /\ e.markets = [d.markets EXCEPT ![m].disputeRounds = n]
  BY RoundUpdated
<1> HIDE DEF e, n
<1>2. \A x \in DOMAIN d.markets : e.markets[x].feeWindow = d.markets[x].feeWindow
  <2> SUFFICES ASSUME NEW x \in DOMAIN d.markets
               PROVE  e.markets[x].feeWindow = d.markets[x].feeWindow
    OBVIOUS
  <2>1. PICK row \in MarketRow : row = d.markets[x]
    BY MarketRows
  <2>2. e.markets[x] = IF x = m THEN [row EXCEPT !.disputeRounds = n] ELSE row
    BY <1>1, <2>1
  <2>3. [row EXCEPT !.disputeRounds = n].feeWindow = row.feeWindow
    BY <2>1 DEF MarketRow
  <2> QED
    BY <2>1, <2>2, <2>3
<1> QED
  BY <1>1, <1>2 DEF e, AllStay, Stays, KeepsAll, KeepsMarkets

\* A log that starts a round: the state it pushes, and the window of the round.
Restarts(d, e, m, state, w) ==
  /\ Pushes(d, e, m, state) /\ m \in DOMAIN e.markets /\ e.markets[m].feeWindow = w

LEMMA ReportRestarts ==
  ASSUME MarketAssumption, NEW d \in Tables, NEW m \in DOMAIN d.markets, NEW p \in Payout,
         NEW now \in Nat, IsFiniteSet(DOMAIN d.crowdsourcers)
  PROVE  LET u == d.markets[m].universe
             state == IF u \in d.forked THEN "AWAITING_FORK_MIGRATION" ELSE Waiting
         IN  Restarts(d, InitialReportSubmitted(d, m, p, now), m, state, NextWindow(u, now))
<1> DEFINE u == d.markets[m].universe
           state == IF u \in d.forked THEN "AWAITING_FORK_MIGRATION" ELSE "AWAITING_NEXT_WINDOW"
           d1 == UpdateMarketState(d, {m}, state)
           d2 == InsertPayout(d1, m, p, TRUE)
           f == With(d2.reports, m, [payout |-> p, disavowed |-> 0])
           d3 == [d2 EXCEPT !.reports = f]
           d4 == UpdateMarketFeeWindow(d3, u, m, now, TRUE)
           d5 == UpdateDisputeRound(d4, m)
<1>1. m \in Market /\ u \in Universe /\ state \in ReportingState
  BY MarketRows DEF MarketRow, ReportingState
<1>2. InitialReportSubmitted(d, m, p, now) = d5
  BY DEF InitialReportSubmitted
<1> HIDE DEF u, state
<1>3. d1 \in Tables /\ KeepsAll(d, d1) /\ Pushes(d, d1, m, state)
  BY <1>1, StatesUpdated, StatePushed
<1> HIDE DEF d1
<1>4. d2 \in Tables /\ KeepsAll(d1, d2) /\ d2.states = d1.states /\ d2.markets = d1.markets
  <2>1. PICK yes \in BOOLEAN : yes = TRUE
    OBVIOUS
  <2>2. /\ InsertPayout(d1, m, p, yes) \in Tables /\ KeepsAll(d1, InsertPayout(d1, m, p, yes))
        /\ InsertPayout(d1, m, p, yes).states = d1.states
        /\ InsertPayout(d1, m, p, yes).markets = d1.markets
    BY <1>1, <1>3, PayoutInserted
  <2> QED
    BY <2>1, <2>2
<1> HIDE DEF d2
<1>5. f \in Rows(Market, ReportRow)
  <2>1. [payout |-> p, disavowed |-> 0] \in ReportRow /\ d2.reports \in Rows(Market, ReportRow)
    BY <1>4, TablesElim DEF ReportRow
  <2> QED
    BY <1>1, <2>1, RowAdded
<1> HIDE DEF f
<1>6. /\ d3 \in Tables /\ d3.markets = d2.markets /\ d3.states = d2.states
      /\ d3.crowdsourcers = d2.crowdsourcers
  BY <1>4, <1>5, SetReports
<1> HIDE DEF d3
<1>7. m \in DOMAIN d3.markets /\ IsFiniteSet(DOMAIN d3.crowdsourcers)
  BY <1>3, <1>4, <1>6 DEF KeepsAll, KeepsMarkets, KeepsStakes
<1>8. Refiles(d3, d4, m) /\ d4.markets[m].feeWindow = NextWindow(u, now)
  <2>1. Refiles(d3, d4, m)
    BY <1>1, <1>6, <1>7, FeeWindowMoves
  <2>2. d4.markets[m].feeWindow = NextWindow(u, now)
    <3>1. d3 \in Tables /\ m \in DOMAIN d3.markets /\ FiledNext(d3, d4, u, m, now)
      BY <1>6, <1>7 DEF FiledNext
    <3> HIDE DEF d4
    <3> QED
      BY <3>1, NextWindowFiled
  <2> QED
    BY <2>1, <2>2
<1> HIDE DEF d4
<1>9. m \in DOMAIN d4.markets /\ d4 \in Tables /\ IsFiniteSet(DOMAIN d4.crowdsourcers)
  BY <1>7, <1>8 DEF Refiles, KeepsAll, KeepsMarkets
<1>10. AllStay(d4, d5)
  BY <1>9, RoundsStay
<1> HIDE DEF d5
<1>11. OthersStay(d, d5, m)
  <2>1. OthersStay(d1, d3, m) /\ OthersStay(d, d1, m)
    BY <1>3, <1>4, <1>6 DEF OthersStay, Stays, Pushes
  <2> QED
    BY <1>8, <1>10, <2>1, OthersStayOn DEF Refiles
<1>12. d5.states[m] = Append(d.states[m], state)
  BY <1>1, <1>3, <1>4, <1>6, <1>8, <1>10 DEF AllStay, Stays, Pushes, Refiles
<1>13. m \in DOMAIN d5.markets /\ d5.markets[m].feeWindow = NextWindow(u, now)
  BY <1>1, <1>8, <1>9, <1>10 DEF AllStay, Stays
<1> QED
  BY <1>2, <1>11, <1>12, <1>13 DEF Restarts, Pushes, u, state, Waiting

LEMMA ReportPops ==
  ASSUME MarketAssumption, NEW d \in Tables, NEW m \in DOMAIN d.markets, NEW now \in Nat
  PROVE  Pops(d, InitialReportSubmittedRemoval(d, m, now), m)
<1> DEFINE u == d.markets[m].universe
           d1 == RollbackMarketState(d, m)
           f == Without(d1.reports, m)
           d2 == [d1 EXCEPT !.reports = f]
           d3 == UpdateMarketFeeWindow(d2, u, m, now, FALSE)
<1>1. m \in Market /\ u \in Universe
  BY MarketRows DEF MarketRow
<1>2. InitialReportSubmittedRemoval(d, m, now) = d3
  BY DEF InitialReportSubmittedRemoval
<1> HIDE DEF u
<1>3. d1 \in Tables /\ d1.markets = d.markets /\ Pops(d, d1, m)
  BY <1>1, StateRolledBack, StatePopped
<1> HIDE DEF d1
<1>4. f \in Rows(Market, ReportRow)
  <2>1. d1.reports \in Rows(Market, ReportRow)
    BY <1>3, TablesElim
  <2> QED
    BY <2>1, RowDropped
<1> HIDE DEF f
<1>5. d2 \in Tables /\ d2.markets = d1.markets /\ d2.states = d1.states
  BY <1>3, <1>4, SetReports
<1> HIDE DEF d2
<1>6. Refiles(d2, d3, m)
  BY <1>1, <1>3, <1>5, FeeWindowMoves
<1> HIDE DEF d3
<1>7. OthersStay(d1, d2, m)
  BY <1>5 DEF OthersStay, Stays
<1>8. OthersStay(d, d3, m)
  BY <1>3, <1>6, <1>7, OthersStayOn DEF Pops, Refiles
<1> QED
  BY <1>2, <1>3, <1>5, <1>6, <1>8 DEF Pops, Refiles
LEMMA CompletionRestarts ==
  ASSUME MarketAssumption, NEW d \in Tables, NEW c \in DOMAIN d.crowdsourcers, NEW now \in Nat,
         MarketOf[c] \in DOMAIN d.markets, IsFiniteSet(DOMAIN d.crowdsourcers)
  PROVE  LET m == MarketOf[c]
         IN  Restarts(d, DisputeCrowdsourcerCompleted(d, c, now), m, Waiting,
                      NextWindow(d.markets[m].universe, now))
<1> DEFINE m == MarketOf[c]
           u == d.markets[m].universe
           d1 == [d EXCEPT !.crowdsourcers[c].completed = 1]
           d2 == UpdateMarketState(d1, {m}, "AWAITING_NEXT_WINDOW")
           d3 == UpdateDisputeRound(d2, m)
           d4 == UpdateMarketFeeWindow(d3, u, m, now, TRUE)
           d5 == UpdateIncompleteCrowdsourcers(d4, m)
           d6 == UpdateTentativeWinningPayout(d5, m)
<1>1. DisputeCrowdsourcerCompleted(d, c, now) = d6
  BY DEF DisputeCrowdsourcerCompleted
<1>2. m \in DOMAIN d.markets /\ u \in Universe /\ m \in Market
  BY MarketRows DEF MarketRow
<1> HIDE DEF m, u
<1>3. d1 \in Tables /\ KeepsAll(d, d1) /\ d1.states = d.states /\ d1.markets = d.markets
  <2>1. 1 \in {0, 1, None}
    OBVIOUS
  <2> QED
    BY <2>1, CompletionSet
<1> HIDE DEF d1
<1>4. d2 \in Tables /\ KeepsAll(d1, d2) /\ Pushes(d1, d2, m, Waiting)
  <2>1. "AWAITING_NEXT_WINDOW" \in ReportingState
    BY DEF ReportingState
  <2> QED
    BY <1>2, <1>3, <2>1, StatesUpdated, StatePushed DEF Waiting
<1> HIDE DEF d2
<1>5. m \in DOMAIN d2.markets /\ IsFiniteSet(DOMAIN d2.crowdsourcers)
  BY <1>2, <1>3, <1>4 DEF KeepsAll, KeepsMarkets, KeepsStakes
<1>6. d3 \in Tables /\ KeepsAll(d2, d3) /\ AllStay(d2, d3)
  BY <1>4, <1>5, RoundsStay
<1> HIDE DEF d3
<1>7. m \in DOMAIN d3.markets
  BY <1>5, <1>6 DEF KeepsAll, KeepsMarkets
<1>8. Refiles(d3, d4, m)
  BY <1>2, <1>6, <1>7, FeeWindowMoves
<1>9. d4.markets[m].feeWindow = NextWindow(u, now)
  <2>1. d3 \in Tables /\ m \in DOMAIN d3.markets /\ FiledNext(d3, d4, u, m, now)
    BY <1>6, <1>7 DEF FiledNext
  <2> HIDE DEF d4
  <2> QED
    BY <2>1, NextWindowFiled
<1> HIDE DEF d4
<1>10. d5 \in Tables /\ d5.states = d4.states /\ d5.markets = d4.markets
  BY <1>8, IncompleteFail DEF Refiles
<1> HIDE DEF d5
<1>11. d6.states = d5.states /\ d6.markets = d5.markets
  BY <1>10, TentativeUpdated
<1> HIDE DEF d6
<1>12. OthersStay(d, d6, m)
  <2>1. OthersStay(d, d1, m) /\ OthersStay(d4, d5, m) /\ OthersStay(d5, d6, m)
    BY <1>3, <1>10, <1>11 DEF OthersStay, Stays
  <2>2. OthersStay(d, d3, m)
    BY <1>4, <1>6, <2>1, OthersStayOn DEF Pushes
  <2>3. OthersStay(d, d4, m)
    BY <1>8, <2>2, OthersStayOn DEF Refiles
  <2> QED
    BY <2>1, <2>3, OthersStayOn
<1>13. d6.states[m] = Append(d.states[m], Waiting)
  BY <1>2, <1>3, <1>4, <1>6, <1>8, <1>10, <1>11 DEF AllStay, Stays, Pushes, Refiles
<1>14. m \in DOMAIN d6.markets /\ d6.markets[m].feeWindow = NextWindow(u, now)
  BY <1>7, <1>8, <1>9, <1>10, <1>11 DEF Refiles, KeepsAll, KeepsMarkets
<1> QED
  BY <1>1, <1>12, <1>13, <1>14 DEF Restarts, Pushes, u, m

LEMMA CompletionPops ==
  ASSUME MarketAssumption, NEW d \in Tables, NEW c \in DOMAIN d.crowdsourcers, NEW now \in Nat,
         MarketOf[c] \in DOMAIN d.markets, IsFiniteSet(DOMAIN d.crowdsourcers)
  PROVE  Pops(d, DisputeCrowdsourcerCompletedRemoval(d, c, now), MarketOf[c])
<1> DEFINE m == MarketOf[c]
           u == d.markets[m].universe
           d1 == RollbackCrowdsourcerCompletion(d, c)
           d2 == RollbackMarketState(d1, m)
           d3 == UpdateDisputeRound(d2, m)
           d4 == UpdateMarketFeeWindow(d3, u, m, now, FALSE)
           d5 == RollbackIncompleteCrowdsourcers(d4, m)
           d6 == UpdateTentativeWinningPayout(d5, m)
<1>1. DisputeCrowdsourcerCompletedRemoval(d, c, now) = d6
  BY DEF DisputeCrowdsourcerCompletedRemoval
<1>2. m \in DOMAIN d.markets /\ u \in Universe /\ m \in Market
  BY MarketRows DEF MarketRow
<1> HIDE DEF m, u
<1>3. d1 \in Tables /\ KeepsAll(d, d1) /\ d1.states = d.states /\ d1.markets = d.markets
  BY CompletionForgotten
<1> HIDE DEF d1
<1>4. d2 \in Tables /\ KeepsAll(d1, d2) /\ Pops(d1, d2, m)
  BY <1>2, <1>3, StateRolledBack, StatePopped
<1> HIDE DEF d2
<1>5. m \in DOMAIN d2.markets /\ IsFiniteSet(DOMAIN d2.crowdsourcers)
  BY <1>2, <1>3, <1>4 DEF KeepsAll, KeepsMarkets, KeepsStakes
<1>6. d3 \in Tables /\ KeepsAll(d2, d3) /\ AllStay(d2, d3)
  BY <1>4, <1>5, RoundsStay
<1> HIDE DEF d3
<1>7. m \in DOMAIN d3.markets
  BY <1>5, <1>6 DEF KeepsAll, KeepsMarkets
<1>8. Refiles(d3, d4, m)
  BY <1>2, <1>6, <1>7, FeeWindowMoves
<1> HIDE DEF d4
<1>10. d5 \in Tables /\ d5.states = d4.states /\ d5.markets = d4.markets
  BY <1>8, IncompleteReopen DEF Refiles
<1> HIDE DEF d5
<1>11. d6.states = d5.states /\ d6.markets = d5.markets
  BY <1>10, TentativeUpdated
<1> HIDE DEF d6
<1>12. OthersStay(d, d6, m)
  <2>1. OthersStay(d, d1, m) /\ OthersStay(d4, d5, m) /\ OthersStay(d5, d6, m)
    BY <1>3, <1>10, <1>11 DEF OthersStay, Stays
  <2>2. OthersStay(d, d3, m)
    BY <1>4, <1>6, <2>1, OthersStayOn DEF Pops
  <2>3. OthersStay(d, d4, m)
    BY <1>8, <2>2, OthersStayOn DEF Refiles
  <2> QED
    BY <2>1, <2>3, OthersStayOn
<1>13. d6.states[m] = SubSeq(d.states[m], 1, Len(d.states[m]) - 1)
  BY <1>2, <1>3, <1>4, <1>6, <1>8, <1>10, <1>11 DEF AllStay, Stays, Pops, Refiles
<1> QED
  BY <1>1, <1>12, <1>13 DEF Pops, m

LEMMA CreationPushes ==
  ASSUME MarketAssumption, NEW d \in Tables, NEW m \in Market
  PROVE  LET e == MarketCreated(d, m)
         IN  /\ Pushes(d, e, m, "PRE_REPORTING") /\ e.windows = d.windows
             /\ m \in DOMAIN e.markets /\ e.markets[m].feeWindow = None
<1> DEFINE e == MarketCreated(d, m)
<1>1. /\ DOMAIN e.markets = DOMAIN d.markets \cup {m} /\ e.markets[m] = NewMarket
      /\ \A x \in DOMAIN d.markets : x # m => e.markets[x] = d.markets[x]
      /\ e.windows = d.windows
  BY MarketCreates DEF KeepsRest, KeepsWindows
<1>2. e.states = [x \in Market |-> IF x \in {m} THEN Append(d.states[x], "PRE_REPORTING")
                                                ELSE d.states[x]]
  BY DEF MarketCreated, UpdateMarketState, Tables
<1> HIDE DEF e
<1>3. Pushes(d, e, m, "PRE_REPORTING")
  BY <1>1, <1>2 DEF Pushes, OthersStay, Stays
<1>4. e.markets[m].feeWindow = None
  BY <1>1 DEF NewMarket
<1> QED
  BY <1>1, <1>3, <1>4 DEF e

LEMMA CreationRemovalStays ==
  ASSUME NEW d \in Tables, NEW m \in Market
  PROVE  OthersStay(d, MarketCreatedRemoval(d, m), m)
<1> DEFINE e == MarketCreatedRemoval(d, m)
<1>1. /\ DOMAIN e.markets = DOMAIN d.markets \ {m}
      /\ \A x \in DOMAIN d.markets : x # m => e.markets[x] = d.markets[x]
  BY MarketUncreates
<1>2. d.states \in [Market -> Seq(ReportingState)]
  BY TablesElim
<1>3. e.states = [d.states EXCEPT ![m] = <<>>]
  BY DEF MarketCreatedRemoval, Tables
<1> HIDE DEF e
<1>4. OthersStay(d, e, m)
  BY <1>1, <1>2, <1>3 DEF OthersStay, Stays
<1> QED
  BY <1>4 DEF e

LEMMA CountingStays ==
  ASSUME NEW d \in Tables, NEW u, NEW m, NEW i \in Int, NEW j \in Int
  PROVE  AllStay(d, CountOthers(d, u, m, i, j))
<1> DEFINE e == CountOthers(d, u, m, i, j)
<1>1. /\ e.states = d.states /\ DOMAIN e.markets = DOMAIN d.markets
      /\ \A x \in DOMAIN d.markets :
           e.markets[x] = IF x # m /\ d.markets[x].universe = u
                          THEN Owing(d.markets[x], i, j) ELSE d.markets[x]
  BY OthersCount
<1> HIDE DEF e
<1>2. ASSUME NEW x \in DOMAIN d.markets
      PROVE  /\ Owing(d.markets[x], i, j).universe = d.markets[x].universe
             /\ Owing(d.markets[x], i, j).feeWindow = d.markets[x].feeWindow
  <2>1. PICK r \in MarketRow : r = d.markets[x]
    BY MarketRows
  <2>2. Owing(r, i, j).universe = r.universe /\ Owing(r, i, j).feeWindow = r.feeWindow
    BY DEF Owing, MarketRow
  <2> QED
    BY <2>1, <2>2
<1>3. AllStay(d, e)
  BY <1>1, <1>2 DEF AllStay, Stays
<1> QED
  BY <1>3 DEF e

LEMMA FinalizationPushes ==
  ASSUME NEW d \in Tables, NEW m \in DOMAIN d.markets
  PROVE  Pushes(d, MarketFinalized(d, m), m, "FINALIZED")
<1> DEFINE e == MarketFinalized(d, m)
           f == UpdateMarketState(d, {m}, "FINALIZED")
           u == d.markets[m].universe
<1>1. m \in Market /\ "FINALIZED" \in ReportingState /\ 0 \in Int /\ 1 \in Int
  BY MarketRows DEF ReportingState
<1>2. f \in Tables /\ Pushes(d, f, m, "FINALIZED")
  BY <1>1, StatesUpdated, StatePushed
<1>3. e = f \/ e = CountOthers(f, u, m, 1, 0)
  BY DEF MarketFinalized
<1> HIDE DEF e, f, u
<1>4. AllStay(f, e)
  BY <1>1, <1>2, <1>3, CountingStays, SameRowsStay
<1>5. Pushes(d, e, m, "FINALIZED")
  <2>1. OthersStay(f, e, m) /\ e.states[m] = f.states[m]
    BY <1>1, <1>4 DEF AllStay, OthersStay, Stays
  <2> QED
    BY <1>2, <2>1, OthersStayOn DEF Pushes
<1> QED
  BY <1>5 DEF e

LEMMA FinalizationPops ==
  ASSUME NEW d \in Tables, NEW m \in DOMAIN d.markets
  PROVE  Pops(d, MarketFinalizedRemoval(d, m), m)
<1> DEFINE e == MarketFinalizedRemoval(d, m)
           f == RollbackMarketState(d, m)
<1>1. f \in Tables /\ f.markets = d.markets /\ Pops(d, f, m)
  BY MarketRows, StateRolledBack, StatePopped
<1>2. /\ DOMAIN e.markets = DOMAIN d.markets
      /\ \A x \in DOMAIN d.markets :
           e.markets[x] = IF d.markets[x].universe = d.markets[m].universe
                          THEN [d.markets[x] EXCEPT !.needsMigration = 0] ELSE d.markets[x]
  BY MarketUnfinalizes
<1> HIDE DEF f
<1>3. e.states = f.states
  BY <1>1 DEF MarketFinalizedRemoval, f, Tables
<1> HIDE DEF e
<1>4. \A x \in DOMAIN d.markets : /\ e.markets[x].universe = d.markets[x].universe
                                  /\ e.markets[x].feeWindow = d.markets[x].feeWindow
  <2> SUFFICES ASSUME NEW x \in DOMAIN d.markets
               PROVE  /\ e.markets[x].universe = d.markets[x].universe
                      /\ e.markets[x].feeWindow = d.markets[x].feeWindow
    OBVIOUS
  <2>1. PICK r \in MarketRow : r = d.markets[x]
    BY MarketRows
  <2>2. /\ [r EXCEPT !.needsMigration = 0].universe = r.universe
        /\ [r EXCEPT !.needsMigration = 0].feeWindow = r.feeWindow
    BY DEF MarketRow
  <2> QED
    BY <1>2, <2>1, <2>2
<1>5. Pops(d, e, m)
  BY <1>1, <1>2, <1>3, <1>4 DEF Pops, OthersStay, Stays
<1> QED
  BY <1>5 DEF e

LEMMA DisavowalStays ==
  ASSUME NEW d \in Tables, NEW m \in DOMAIN d.markets, NEW n \in Int, NEW k \in Int
  PROVE  AllStay(d, DisavowalCounted(d, m, n, k))
<1> DEFINE row == [d.markets[m] EXCEPT !.needsDisavowal = @ + n]
           x == [d EXCEPT !.markets[m].needsDisavowal = @ + n]
           e == DisavowalCounted(d, m, n, k)
<1>1. x = [d EXCEPT !.markets = [d.markets EXCEPT ![m] = row]]
  OBVIOUS
<1>2. d.markets[m] \in MarketRow
  BY MarketRows
<1>3. /\ row \in MarketRow /\ row.universe = d.markets[m].universe
      /\ row.feeWindow = d.markets[m].feeWindow
  BY <1>2 DEF MarketRow
<1>4. /\ x \in Tables /\ x.states = d.states /\ DOMAIN x.markets = DOMAIN d.markets
      /\ x.markets[m] = row /\ \A y \in DOMAIN d.markets : y # m => x.markets[y] = d.markets[y]
  BY <1>1, <1>3, MarketChanged
<1>5. e = Disavow(x, m, k)
  BY DEF DisavowalCounted
<1> HIDE DEF x, row, e
<1>6. e.states = x.states /\ e.markets = x.markets
  BY <1>4, <1>5, Disavows
<1>7. AllStay(d, e)
  BY <1>3, <1>4, <1>6 DEF AllStay, Stays
<1> QED
  BY <1>7 DEF e

LEMMA ParticipantStays ==
  ASSUME NEW d \in Tables, NEW x, NEW b
  PROVE  AllStay(d, ReportingParticipantDisavowed(d, x, b))
<1> DEFINE e == ReportingParticipantDisavowed(d, x, b)
<1>1. e.states = d.states /\ e.markets = d.markets
  BY DEF ReportingParticipantDisavowed, Tables
<1> HIDE DEF e
<1>2. AllStay(d, e)
  BY <1>1, SameRowsStay
<1> QED
  BY <1>2 DEF e

LEMMA CrowdsourcerStays ==
  ASSUME NEW d \in Tables, NEW c, NEW w, NEW n, MarketOf[c] \in Market, PayoutOf[c] \in Payout
  PROVE  /\ AllStay(d, DisputeCrowdsourcerCreated(d, c, w))
         /\ AllStay(d, DisputeCrowdsourcerCreatedRemoval(d, c))
         /\ AllStay(d, DisputeCrowdsourcerContribution(d, c, n))
         /\ AllStay(d, DisputeCrowdsourcerContributionRemoval(d, c, n))
<1>1. AllStay(d, DisputeCrowdsourcerCreated(d, c, w))
  <2> DEFINE k == InsertPayout(d, MarketOf[c], PayoutOf[c], FALSE)
             e == DisputeCrowdsourcerCreated(d, c, w)
  <2>1. k \in Tables /\ k.states = d.states /\ k.markets = d.markets
    BY PayoutInserted
  <2>2. e.states = k.states /\ e.markets = k.markets
    <3> HIDE DEF k
    <3> QED
      BY <2>1 DEF DisputeCrowdsourcerCreated, k, Tables
  <2> HIDE DEF e, k
  <2>3. AllStay(d, e)
    BY <2>1, <2>2, SameRowsStay
  <2> QED
    BY <2>3 DEF e
<1>2. AllStay(d, DisputeCrowdsourcerCreatedRemoval(d, c))
  <2> DEFINE e == DisputeCrowdsourcerCreatedRemoval(d, c)
  <2>1. e.states = d.states /\ e.markets = d.markets
    BY DEF DisputeCrowdsourcerCreatedRemoval, Tables
  <2> HIDE DEF e
  <2>2. AllStay(d, e)
    BY <2>1, SameRowsStay
  <2> QED
    BY <2>2 DEF e
<1>3. AllStay(d, DisputeCrowdsourcerContribution(d, c, n))
  <2> DEFINE e == DisputeCrowdsourcerContribution(d, c, n)
  <2>1. e.states = d.states /\ e.markets = d.markets
    BY DEF DisputeCrowdsourcerContribution, Tables
  <2> HIDE DEF e
  <2>2. AllStay(d, e)
    BY <2>1, SameRowsStay
  <2> QED
    BY <2>2 DEF e
<1>4. AllStay(d, DisputeCrowdsourcerContributionRemoval(d, c, n))
  <2> DEFINE e == DisputeCrowdsourcerContributionRemoval(d, c, n)
  <2>1. e.states = d.states /\ e.markets = d.markets
    BY DEF DisputeCrowdsourcerContributionRemoval, Tables
  <2> HIDE DEF e
  <2>2. AllStay(d, e)
    BY <2>1, SameRowsStay
  <2> QED
    BY <2>2 DEF e
<1> QED
  BY <1>1, <1>2, <1>3, <1>4

LEMMA WindowRemovalStays ==
  ASSUME NEW d \in Tables, NEW w
  PROVE  AllStay(d, FeeWindowCreatedRemoval(d, w))
<1> DEFINE e == FeeWindowCreatedRemoval(d, w)
<1>1. e.states = d.states /\ e.markets = d.markets
  BY DEF FeeWindowCreatedRemoval, Tables
<1> HIDE DEF e
<1>2. AllStay(d, e)
  BY <1>1, SameRowsStay
<1> QED
  BY <1>2 DEF e

\* A market the fork of its universe finds in no round.
Calm(q) == /\ q # <<>> /\ ~Tops(q, Waiting)
           /\ ~Tops(q, "AWAITING_FINALIZATION") /\ ~Tops(q, "CROWDSOURCING_DISPUTE")

LEMMA SeqTops ==
  ASSUME NEW q \in Seq(ReportingState), NEW a \in ReportingState, NEW k \in Nat
  PROVE  /\ Append(q, a) # <<>> /\ \A s : Tops(Append(q, a), s) <=> s = a
         /\ k > 0 => /\ q \o [i \in 1..k |-> a] # <<>>
                     /\ \A s : Tops(q \o [i \in 1..k |-> a], s) <=> s = a
         /\ k = 0 => q \o [i \in 1..k |-> a] = q
<1> DEFINE r == [i \in 1..k |-> a]
<1>1. Append(q, a) # <<>> /\ \A s : Tops(Append(q, a), s) <=> s = a
  BY DEF Tops
<1>2. r \in Seq(ReportingState) /\ Len(r) = k /\ \A i \in 1..k : r[i] = a
  OBVIOUS
<1> HIDE DEF r
<1>0. /\ q \o r \in Seq(ReportingState) /\ Len(q \o r) = Len(q) + Len(r)
      /\ \A i \in 1..Len(q) + Len(r) : (q \o r)[i] = IF i <= Len(q) THEN q[i] ELSE r[i - Len(q)]
  BY <1>2, ConcatProperties
<1>3. PICK t \in Seq(ReportingState) : t = q \o r
  BY <1>0
<1>4. Len(t) = Len(q) + k /\ \A i \in 1..Len(t) : t[i] = IF i <= Len(q) THEN q[i] ELSE r[i - Len(q)]
  BY <1>0, <1>2, <1>3
<1>5. ASSUME k > 0 PROVE t # <<>> /\ \A s : Tops(t, s) <=> s = a
  <2>1. t[Len(t)] = a
    BY <1>2, <1>4, <1>5
  <2>2. t # <<>>
    BY <1>4, <1>5
  <2> QED
    BY <2>1, <2>2 DEF Tops
<1>6. ASSUME k = 0 PROVE t = q
  BY <1>4, <1>6
<1> QED
  BY <1>1, <1>3, <1>5, <1>6 DEF r

LEMMA ForkReverts ==
  ASSUME NEW d \in Tables, NEW u \in Universe, NEW m \in DOMAIN d.markets, NEW x \in DOMAIN d.markets
  PROVE  LET e == UniverseForked(d, u, m)
         IN  /\ d.markets[x].universe = u => ~Tops(e.states[x], Waiting)
             /\ x # m /\ Calm(d.states[x]) => e.states[x] = d.states[x]
             /\ d.states[x] # <<>> => e.states[x] # <<>>
<1> DEFINE d0 == [d EXCEPT !.markets[m].forking = 1]
           d1 == UpdateMarketState(d0, {m}, "FORKING")
           d2 == CountOthers(d1, u, m, 0, 1)
           d3 == [d2 EXCEPT !.forked = @ \cup {u}]
           reverted == {y \in MarketsIn(d3, u) : StateOf(d3, y) \in
                          {"AWAITING_FINALIZATION", "CROWDSOURCING_DISPUTE", "AWAITING_NEXT_WINDOW"}}
           d4 == UpdateMarketState(d3, reverted, "AWAITING_FORK_MIGRATION")
           d5 == RevertPayouts(d4, reverted)
           d6 == UncompleteNonforkingCrowdsourcers(d5, u, m)
<1>1. UniverseForked(d, u, m) = d6
  BY DEF UniverseForked
<1>2. 0 \in Int /\ 1 \in Int /\ 1 \in {0, 1} /\ x \in Market /\ m \in Market
  BY MarketRows
<1>3. "FORKING" \in ReportingState /\ "AWAITING_FORK_MIGRATION" \in ReportingState
  BY DEF ReportingState
<1>4. /\ d0 \in Tables /\ d0.states = d.states /\ DOMAIN d0.markets = DOMAIN d.markets
      /\ d0.markets[m].universe = d.markets[m].universe
      /\ \A y \in DOMAIN d.markets : y # m => d0.markets[y] = d.markets[y]
  BY <1>2, ForkingSet DEF Owes
<1> HIDE DEF d0
<1>5. /\ d1 \in Tables /\ d1.markets = d0.markets
      /\ d1.states[x] = IF x \in {m} THEN Append(d0.states[x], "FORKING") ELSE d0.states[x]
  BY <1>2, <1>3, <1>4, StatesUpdated
<1> HIDE DEF d1
<1>6. d2 \in Tables /\ d2.states = d1.states
  BY <1>2, <1>5, OthersCount
<1>7. /\ DOMAIN d2.markets = DOMAIN d1.markets
      /\ \A y \in DOMAIN d1.markets :
           d2.markets[y] = IF y # m /\ d1.markets[y].universe = u
                           THEN Owing(d1.markets[y], 0, 1) ELSE d1.markets[y]
  BY <1>2, <1>5, OthersCount
<1> HIDE DEF d2
<1>8. d3 \in Tables /\ d3.markets = d2.markets /\ d3.states = d2.states
  <2>1. d2.forked \cup {u} \in SUBSET Universe
    BY <1>6, TablesElim
  <2> QED
    BY <1>6, <2>1, SetForked
<1> HIDE DEF d3
<1>9. x \in DOMAIN d3.markets /\ d3.markets[x].universe = d.markets[x].universe
  <2>1. x \in DOMAIN d1.markets
    BY <1>4, <1>5
  <2>2. d1.markets[x] \in MarketRow
    BY <1>5, <2>1, MarketRows
  <2>3. Owing(d1.markets[x], 0, 1).universe = d1.markets[x].universe
    BY <1>2, <2>2, RowOwes
  <2> QED
    BY <1>4, <1>5, <1>7, <1>8, <2>1, <2>3
<1>10. d4 \in Tables
       /\ d4.states[x] = IF x \in reverted THEN Append(d3.states[x], "AWAITING_FORK_MIGRATION")
                         ELSE d3.states[x]
  <2> HIDE DEF reverted
  <2> QED
    BY <1>2, <1>3, <1>8, StatesUpdated
<1>11. d.states[x] \in Seq(ReportingState) /\ d3.states[x] \in Seq(ReportingState)
  BY <1>2, <1>8, TablesElim
<1>12. x \in reverted <=>
         /\ d.markets[x].universe = u
         /\ d3.states[x][Len(d3.states[x])] \in
              {"AWAITING_FINALIZATION", "CROWDSOURCING_DISPUTE", "AWAITING_NEXT_WINDOW"}
  BY <1>9 DEF MarketsIn, StateOf, Final
<1> HIDE DEF reverted, d4
<1>13. d5 \in Tables /\ d5.states = d4.states
  BY <1>10, PayoutsRevert
<1> HIDE DEF d5
<1>14. d6.states = d5.states
  BY <1>13 DEF UncompleteNonforkingCrowdsourcers, Tables
<1> HIDE DEF d6
<1>15. d.markets[x].universe = u => ~Tops(d6.states[x], Waiting)
  <2>1. PICK q \in Seq(ReportingState) : q = d3.states[x]
    BY <1>11
  <2>2. ~Tops(Append(q, "AWAITING_FORK_MIGRATION"), Waiting)
    BY <1>3 DEF Tops, Waiting
  <2> QED
    BY <1>10, <1>12, <1>13, <1>14, <2>1, <2>2 DEF Tops, Waiting
<1>16. x # m /\ Calm(d.states[x]) => d6.states[x] = d.states[x]
  <2>1. x # m => d3.states[x] = d.states[x]
    BY <1>4, <1>5, <1>6, <1>8
  <2> QED
    BY <1>10, <1>12, <1>13, <1>14, <2>1 DEF Calm, Tops, Waiting
<1>17. d.states[x] # <<>> => d6.states[x] # <<>>
  <2>1. ASSUME NEW q \in Seq(ReportingState), NEW a \in ReportingState
        PROVE  Append(q, a) # <<>>
    BY SeqTops, 0 \in Nat
  <2>2. d0.states[x] = d.states[x] /\ d3.states[x] = d1.states[x] /\ d6.states[x] = d4.states[x]
    BY <1>4, <1>6, <1>8, <1>13, <1>14
  <2>3. d.states[x] # <<>> => d3.states[x] # <<>>
    BY <1>2, <1>3, <1>4, <1>5, <2>1, <2>2, TablesElim
  <2>4. d3.states[x] # <<>> => d4.states[x] # <<>>
    BY <1>3, <1>10, <1>11, <2>1
  <2> QED
    BY <2>2, <2>3, <2>4
<1> QED
  BY <1>1, <1>15, <1>16, <1>17

\* What a migration may do to the states of the market.
Carried(new, old) ==
  /\ new = old \/ \E state \in ReportingState : new = Append(old, state)
  /\ old # <<>> /\ ~Tops(old, "AWAITING_FORK_MIGRATION") => new = old
Carries(d, e, m, now) ==
  /\ OthersStay(d, e, m) /\ Carried(e.states[m], d.states[m]) /\ m \in DOMAIN e.markets
  /\ e.markets[m].feeWindow = NextWindow(Child, now)

LEMMA MigrationCarries ==
  ASSUME MarketAssumption, NEW d \in Tables, NEW m \in DOMAIN d.markets, NEW now \in Nat
  PROVE  Carries(d, MarketMigrated(d, m, now), m, now)
<1> DEFINE next == IF d.markets[m].feeWindow # None THEN "AWAITING_NEXT_WINDOW" ELSE "OPEN_REPORTING"
           S == IF StateOf(d, m) = "AWAITING_FORK_MIGRATION" THEN {m} ELSE {}
           d1 == UpdateMarketState(d, S, next)
           d2 == UpdateMarketFeeWindow(d1, Child, m, now, TRUE)
           d3 == [d2 EXCEPT !.markets[m].universe = Child, !.markets[m].needsMigration = @ - 1,
                            !.markets[m].needsDisavowal = @ - 1]
           e == MarketMigrated(d, m, now)
<1>1. e = Disavow(d3, m, 1)
  BY DEF MarketMigrated
<1>2. next \in ReportingState /\ m \in Market
  BY MarketRows DEF ReportingState
<1>3. S \in SUBSET {m} /\ (~(StateOf(d, m) = "AWAITING_FORK_MIGRATION") => S = {})
  OBVIOUS
<1> HIDE DEF next, S
<1>4. /\ d1 \in Tables /\ d1.markets = d.markets
      /\ \A y \in Market : d1.states[y] = IF y \in S THEN Append(d.states[y], next) ELSE d.states[y]
  BY <1>2, StatesUpdated
<1> HIDE DEF d1
<1>5. Child \in Universe /\ m \in DOMAIN d1.markets /\ d1 \in Tables
  BY <1>4 DEF MarketAssumption
<1>6. Refiles(d1, d2, m)
  BY <1>5, FeeWindowMoves
<1>7. FiledNext(d1, d2, Child, m, now)
  BY DEF FiledNext
<1> HIDE DEF d2
<1>8. d2.markets[m].feeWindow = NextWindow(Child, now)
  BY <1>5, <1>7, NextWindowFiled
<1>9. PICK f : f = d2.markets
  OBVIOUS
<1> DEFINE row == [f[m] EXCEPT !.universe = Child, !.needsMigration = @ - 1, !.needsDisavowal = @ - 1]
<1>10. d3 = [d2 EXCEPT !.markets = [d2.markets EXCEPT ![m] = row]]
  <2>1. [f EXCEPT ![m].universe = Child, ![m].needsMigration = @ - 1, ![m].needsDisavowal = @ - 1]
          = [f EXCEPT ![m] = row]
    OBVIOUS
  <2>2. d3 = [d2 EXCEPT !.markets = [f EXCEPT ![m].universe = Child, ![m].needsMigration = @ - 1,
                                              ![m].needsDisavowal = @ - 1]]
    BY <1>9
  <2> QED
    BY <1>9, <2>1, <2>2
<1>11. d2 \in Tables /\ m \in DOMAIN d2.markets /\ f[m] \in MarketRow
  BY <1>5, <1>6, <1>9, MarketRows DEF Refiles, KeepsAll, KeepsMarkets
<1>12. row \in MarketRow /\ row.feeWindow = f[m].feeWindow
  <2>1. PICK r \in MarketRow : r = f[m]
    BY <1>11
  <2>2. PICK i \in Int, j \in Int : i = r.needsMigration - 1 /\ j = r.needsDisavowal - 1
    BY DEF MarketRow
  <2>3. row = [r EXCEPT !.universe = Child, !.needsMigration = i, !.needsDisavowal = j]
    BY <2>1, <2>2
  <2>4. [r EXCEPT !.universe = Child, !.needsMigration = i, !.needsDisavowal = j] \in MarketRow
    BY <1>5 DEF MarketRow
  <2>5. [r EXCEPT !.universe = Child, !.needsMigration = i, !.needsDisavowal = j].feeWindow
          = r.feeWindow
    BY DEF MarketRow
  <2> QED
    BY <2>1, <2>3, <2>4, <2>5
<1> HIDE DEF row
<1>13. /\ d3 \in Tables /\ d3.states = d2.states /\ DOMAIN d3.markets = DOMAIN d2.markets
       /\ d3.markets[m] = row /\ \A y \in DOMAIN d2.markets : y # m => d3.markets[y] = d2.markets[y]
  <2>1. d2 \in Tables /\ m \in DOMAIN d2.markets /\ row \in MarketRow
    BY <1>11, <1>12
  <2> HIDE DEF d3
  <2> QED
    BY <1>10, <2>1, MarketChanged
<1> HIDE DEF d3, e
<1>14. e.states = d3.states /\ e.markets = d3.markets
  BY <1>1, <1>13, Disavows
<1>15. OthersStay(d, e, m)
  <2>1. OthersStay(d, d1, m)
    BY <1>3, <1>4 DEF OthersStay, Stays
  <2>2. OthersStay(d2, e, m)
    BY <1>13, <1>14 DEF OthersStay, Stays
  <2> QED
    BY <1>6, <2>1, <2>2, OthersStayOn DEF Refiles
<1>16. Carried(e.states[m], d.states[m])
  <2>1. e.states[m] = d1.states[m]
    BY <1>6, <1>13, <1>14 DEF Refiles
  <2> QED
    BY <1>2, <1>3, <1>4, <2>1 DEF Carried, Tops, StateOf, Final
<1>17. m \in DOMAIN e.markets /\ e.markets[m].feeWindow = NextWindow(Child, now)
  BY <1>8, <1>9, <1>11, <1>12, <1>13, <1>14
<1>18. Carries(d, e, m, now)
  BY <1>15, <1>16, <1>17 DEF Carries
<1> QED
  BY <1>18 DEF e

LEMMA MigrationPops ==
  ASSUME MarketAssumption, NEW d \in Tables, NEW m \in DOMAIN d.markets
  PROVE  Pops(d, MarketMigratedRemoval(d, m), m)
<1> DEFINE d2 == RollbackMarketState(d, m)
           row == [d2.markets[m] EXCEPT !.universe = Genesis, !.needsMigration = @ + 1,
                                        !.needsDisavowal = @ + 1]
           d3 == [d2 EXCEPT !.markets = [d2.markets EXCEPT ![m] = row]]
           e == Disavow(d3, m, -1)
<1>1. MarketMigratedRemoval(d, m) = e
  <2>1. PICK g : g = RollbackMarketState(d, m)
    OBVIOUS
  <2>2. PICK f : f = g.markets
    OBVIOUS
  <2>3. [f EXCEPT ![m].universe = Genesis, ![m].needsMigration = @ + 1, ![m].needsDisavowal = @ + 1]
          = [f EXCEPT ![m] = [f[m] EXCEPT !.universe = Genesis, !.needsMigration = @ + 1,
                                          !.needsDisavowal = @ + 1]]
    OBVIOUS
  <2>4. [g EXCEPT !.markets[m].universe = Genesis, !.markets[m].needsMigration = @ + 1,
                  !.markets[m].needsDisavowal = @ + 1] = d3
    BY <2>1, <2>2, <2>3
  <2> QED
    BY <2>1, <2>4 DEF MarketMigratedRemoval
<1>2. d2 \in Tables /\ d2.markets = d.markets /\ Pops(d, d2, m)
  BY MarketRows, StateRolledBack, StatePopped
<1> HIDE DEF d2
<1>3. Genesis \in Universe /\ 1 \in Int /\ -1 \in Int
  BY DEF MarketAssumption
<1>4. m \in DOMAIN d2.markets /\ d2.markets[m] \in MarketRow
  BY <1>2, MarketRows
<1>5. row \in MarketRow
  BY <1>3, <1>4, RowMigrates
<1> HIDE DEF row
<1>6. /\ d3 \in Tables /\ d3.states = d2.states /\ DOMAIN d3.markets = DOMAIN d2.markets
      /\ \A y \in DOMAIN d2.markets : y # m => d3.markets[y] = d2.markets[y]
  BY <1>2, <1>4, <1>5, MarketChanged
<1> HIDE DEF d3
<1>7. e.states = d3.states /\ e.markets = d3.markets
  BY <1>3, <1>6, Disavows
<1> HIDE DEF e
<1>8. Pops(d, e, m)
  <2>1. OthersStay(d2, e, m)
    BY <1>6, <1>7 DEF OthersStay, Stays
  <2> QED
    BY <1>2, <1>6, <1>7, <2>1, OthersStayOn DEF Pops
<1> QED
  BY <1>1, <1>8

-----------------------------------------------------------------------------
(* What the passing of time does to the states. *)

Over(row, expired, forked) ==
  /\ row.feeWindow \in expired /\ row.universe \notin forked
  /\ row.needsMigration # 1 /\ row.forking # 1

LEMMA AwaitingStates ==
  ASSUME NEW d \in Tables, NEW expired, NEW m \in DOMAIN d.markets
  PROVE  LET e == AdvanceMarketsToAwaitingFinalization(d, expired)
         IN  e.states[m] = IF Over(d.markets[m], expired, d.forked)
                           THEN Append(d.states[m], "AWAITING_FINALIZATION") ELSE d.states[m]
<1> DEFINE over == {x \in DOMAIN d.markets :
                      /\ d.markets[x].feeWindow \in expired
                      /\ d.markets[x].universe \notin d.forked
                      /\ d.markets[x].needsMigration # 1 /\ d.markets[x].forking # 1}
           f == UpdateMarketState(d, over, "AWAITING_FINALIZATION")
           e == AdvanceMarketsToAwaitingFinalization(d, expired)
<1>1. m \in over <=> Over(d.markets[m], expired, d.forked)
  BY DEF Over
<1>2. m \in Market /\ "AWAITING_FINALIZATION" \in ReportingState
  BY MarketRows DEF ReportingState
<1>3. /\ f \in Tables
      /\ f.states[m] = IF m \in over THEN Append(d.states[m], "AWAITING_FINALIZATION") ELSE d.states[m]
  <2> HIDE DEF over
  <2> QED
    BY <1>2, StatesUpdated
<1>4. e.states = f.states
  <2>1. e = [f EXCEPT !.payouts =
               [k \in DOMAIN f.payouts |->
                  IF k[1] \in over THEN [f.payouts[k] EXCEPT !.winning = d.payouts[k].tentative]
                  ELSE f.payouts[k]]]
    BY DEF AdvanceMarketsToAwaitingFinalization
  <2> HIDE DEF e, f, over
  <2> QED
    BY <1>3, <2>1 DEF Tables
<1> HIDE DEF e, f, over
<1>5. e.states[m] = IF Over(d.markets[m], expired, d.forked)
                    THEN Append(d.states[m], "AWAITING_FINALIZATION") ELSE d.states[m]
  BY <1>1, <1>3, <1>4
<1> QED
  BY <1>5 DEF e

\* What the states q become when the market's fee window begins.
Opens(q, new, opened, forked, current) ==
  \E k \in Nat :
    /\ current => k > 0
    /\ new = IF opened /\ ~forked /\ q[Len(q)] = Waiting
             THEN q \o [i \in 1..k |-> "CROWDSOURCING_DISPUTE"] ELSE q

LEMMA DisputeStates ==
  ASSUME NEW d \in Tables, NEW opened, NEW m \in DOMAIN d.markets, IsFiniteSet(DOMAIN d.windows)
  PROVE  LET e   == AdvanceMarketsToCrowdsourcingDispute(d, opened)
             row == d.markets[m]
         IN  Opens(d.states[m], e.states[m], row.feeWindow \in opened, row.universe \in d.forked,
                   Current(d, row.universe) # {})
<1> DEFINE S == Current(d, d.markets[m].universe)
           e == AdvanceMarketsToCrowdsourcingDispute(d, opened)
<1>1. IsFiniteSet(S)
  <2>1. S \in SUBSET DOMAIN d.windows
    BY DEF Current
  <2> QED
    BY <2>1, FS_Subset
<1>2. PICK k \in Nat : k = Cardinality(S)
  BY <1>1, FS_CardinalityType
<1>3. S # {} => k > 0
  BY <1>1, <1>2, FS_EmptySet
<1>4. e.states[m] = IF /\ d.markets[m].feeWindow \in opened
                       /\ d.states[m][Len(d.states[m])] = Waiting
                       /\ d.markets[m].universe \notin d.forked
                    THEN d.states[m] \o [i \in 1..Cardinality(S) |-> "CROWDSOURCING_DISPUTE"]
                    ELSE d.states[m]
  <2>1. m \in Market
    BY MarketRows
  <2> QED
    BY <2>1 DEF AdvanceMarketsToCrowdsourcingDispute, StateOf, Final, Waiting, Tables
<1> HIDE DEF S, e
<1>5. e.states[m] = IF /\ d.markets[m].feeWindow \in opened /\ d.markets[m].universe \notin d.forked
                       /\ d.states[m][Len(d.states[m])] = Waiting
                    THEN d.states[m] \o [i \in 1..k |-> "CROWDSOURCING_DISPUTE"] ELSE d.states[m]
  BY <1>2, <1>4
<1>6. Opens(d.states[m], e.states[m], d.markets[m].feeWindow \in opened,
            d.markets[m].universe \in d.forked, S # {})
  BY <1>3, <1>5 DEF Opens
<1> QED
  BY <1>6 DEF S, e

Beyond(q) == q # <<>> /\ ~Tops(q, Waiting)

\* What the fee windows' ends and beginnings leave of the states of market m.
Ages(d, e, now, m) ==
  LET w    == d.markets[m].feeWindow
      over == Over(d.markets[m], Expired(d, now), d.forked)
  IN  /\ w \notin Expired(d, now) /\ (w \notin Opened(d, now) \/ Beyond(d.states[m])) =>
           e.states[m] = d.states[m]
      /\ \A state : Tops(e.states[m], state) =>
           \/ Tops(d.states[m], state)
           \/ state = "AWAITING_FINALIZATION" /\ over
           \/ state = "CROWDSOURCING_DISPUTE" /\ w \in Opened(d, now)
      /\ Tops(e.states[m], Waiting) =>
           ~over /\ ~(w \in Opened(d, now) /\ d.markets[m].universe \notin d.forked
                        /\ w[1] = d.markets[m].universe)
      /\ d.states[m] # <<>> => e.states[m] # <<>>

LEMMA ExpiredIsNotOpened ==
  ASSUME MarketAssumption, NEW d \in Tables, NEW now \in Nat, NEW w
  PROVE  /\ w \in Expired(d, now) => w \notin Opened(d, now)
         /\ w \in Opened(d, now) => w \in DOMAIN d.windows /\ NewWindows(d, now)[w] = "CURRENT"
<1>1. ASSUME w \in DOMAIN d.windows PROVE EndOf(w) \in Nat
  BY <1>1, WindowRows, BoundsOfWindow
<1>2. w \in Expired(d, now) => w \notin Opened(d, now)
  BY <1>1 DEF Expired, Opened
<1> QED
  BY <1>2 DEF Opened, NewWindows

\* One market's states q when its fee window ends (q3) and then when it begins (q4).
Turns(q, q3, q4, over, opened, forked, current) ==
  /\ q3 = IF over THEN Append(q, "AWAITING_FINALIZATION") ELSE q
  /\ Opens(q3, q4, opened, forked, current)
Turned(q, q4, over, opened, forked, current) ==
  /\ ~over /\ (~opened \/ Beyond(q)) => q4 = q
  /\ \A state : Tops(q4, state) =>
       \/ Tops(q, state)
       \/ state = "AWAITING_FINALIZATION" /\ over
       \/ state = "CROWDSOURCING_DISPUTE" /\ opened
  /\ Tops(q4, Waiting) => ~over /\ ~(opened /\ ~forked /\ current)
  /\ q # <<>> => q4 # <<>>

LEMMA StatesTurn ==
  ASSUME NEW q \in Seq(ReportingState), NEW q3, NEW q4, NEW over, NEW opened, NEW forked,
         NEW current, over => ~opened, Turns(q, q3, q4, over, opened, forked, current)
  PROVE  Turned(q, q4, over, opened, forked, current)
<1>1. /\ "AWAITING_FINALIZATION" \in ReportingState /\ "CROWDSOURCING_DISPUTE" \in ReportingState
      /\ Waiting # "AWAITING_FINALIZATION" /\ Waiting # "CROWDSOURCING_DISPUTE"
  BY DEF ReportingState, Waiting
<1>2. CASE over
  <2>1. q3 = Append(q, "AWAITING_FINALIZATION") /\ q4 = q3
    BY <1>2 DEF Turns, Opens
  <2>2. q4 # <<>> /\ \A s : Tops(q4, s) <=> s = "AWAITING_FINALIZATION"
    <3>1. LET r == Append(q, "AWAITING_FINALIZATION")
          IN  r # <<>> /\ \A s : Tops(r, s) <=> s = "AWAITING_FINALIZATION"
      BY <1>1, SeqTops
    <3> QED
      BY <2>1, <3>1
  <2> QED
    BY <1>1, <1>2, <2>2 DEF Turned
<1>3. CASE ~over
  <2>1. q3 = q
    BY <1>3 DEF Turns
  <2>2. PICK k \in Nat :
          /\ current => k > 0
          /\ q4 = IF opened /\ ~forked /\ q[Len(q)] = Waiting
                  THEN q \o [i \in 1..k |-> "CROWDSOURCING_DISPUTE"] ELSE q
    BY <2>1 DEF Turns, Opens
  <2>3. CASE opened /\ ~forked /\ q[Len(q)] = Waiting
    <3>1. q4 = q \o [i \in 1..k |-> "CROWDSOURCING_DISPUTE"]
      BY <2>2, <2>3
    <3>2. /\ k > 0 => q4 # <<>> /\ \A s : Tops(q4, s) <=> s = "CROWDSOURCING_DISPUTE"
          /\ k = 0 => q4 = q
      <4>1. LET r == q \o [i \in 1..k |-> "CROWDSOURCING_DISPUTE"]
            IN  /\ k > 0 => /\ r # <<>>
                            /\ \A s : Tops(r, s) <=> s = "CROWDSOURCING_DISPUTE"
                /\ k = 0 => r = q
        BY <1>1, SeqTops, SMTT(20)
      <4> QED
        BY <3>1, <4>1
    <3>3. ~Beyond(q)
      BY <2>3 DEF Beyond, Tops
    <3>4. CASE k > 0
      BY <1>1, <1>3, <2>3, <3>2, <3>3, <3>4 DEF Turned
    <3>5. CASE k = 0
      BY <1>3, <2>2, <2>3, <3>2, <3>3, <3>5 DEF Turned
    <3> QED
      BY <3>4, <3>5
  <2>4. CASE ~(opened /\ ~forked /\ q[Len(q)] = Waiting)
    <3>1. q4 = q
      BY <2>2, <2>4
    <3>2. Tops(q, Waiting) => q[Len(q)] = Waiting
      BY DEF Tops
    <3> QED
      BY <1>3, <2>4, <3>1, <3>2 DEF Turned
  <2> QED
    BY <2>3, <2>4
<1> QED
  BY <1>2, <1>3

LEMMA FeeWindowsAge ==
  ASSUME MarketAssumption, NEW d \in Tables, NEW now \in Nat, IsFiniteSet(DOMAIN d.windows),
         NEW m \in DOMAIN d.markets
  PROVE  Ages(d, AdvanceFeeWindowActive(d, now), now, m)
<1> DEFINE d1 == UpdateActiveFeeWindows(d, now)
           d2 == AdvanceIncompleteCrowdsourcers(d1, Expired(d, now))
           d3 == AdvanceMarketsToAwaitingFinalization(d2, Expired(d, now))
           d4 == AdvanceMarketsToCrowdsourcingDispute(d3, Opened(d, now))
<1>1. /\ d1 \in Tables /\ d1.windows = NewWindows(d, now) /\ DOMAIN d1.windows = DOMAIN d.windows
      /\ d1.markets = d.markets /\ d1.states = d.states /\ d1.forked = d.forked
  BY WindowsUpdated
<1>2. AdvanceFeeWindowActive(d, now) = d4
  BY DEF AdvanceFeeWindowActive
<1> HIDE DEF d1
<1>3. d2 \in Tables /\ KeepsAll(d1, d2) /\ d2.markets = d1.markets /\ d2.states = d1.states
  BY <1>1, CrowdsourcersSettle
<1> HIDE DEF d2
<1>4. d3 \in Tables /\ KeepsAll(d2, d3) /\ d3.markets = d2.markets
  BY <1>3, AwaitFinalization
<1>5. /\ d2.markets = d.markets /\ d2.states = d.states /\ d2.forked = d.forked
      /\ d3.markets = d.markets /\ d3.forked = d.forked /\ d3.windows = NewWindows(d, now)
  BY <1>1, <1>3, <1>4 DEF KeepsAll, KeepsMarkets, KeepsWindows
<1> DEFINE row == d.markets[m]
           w == row.feeWindow
           over == Over(row, Expired(d, now), d.forked)
           current == Current(d3, row.universe) # {}
<1>6. d3.states[m] = IF over THEN Append(d.states[m], "AWAITING_FINALIZATION") ELSE d.states[m]
  <2>1. m \in DOMAIN d2.markets
    BY <1>5
  <2>2. d3.states[m] = IF Over(d2.markets[m], Expired(d, now), d2.forked)
                       THEN Append(d2.states[m], "AWAITING_FINALIZATION") ELSE d2.states[m]
    BY <1>3, <2>1, AwaitingStates
  <2> QED
    BY <1>5, <2>2
<1> HIDE DEF d3
<1>7. Opens(d3.states[m], d4.states[m], w \in Opened(d, now), row.universe \in d.forked, current)
  <2>1. m \in DOMAIN d3.markets /\ IsFiniteSet(DOMAIN d3.windows)
    BY <1>1, <1>5
  <2>2. Opens(d3.states[m], d4.states[m], d3.markets[m].feeWindow \in Opened(d, now),
              d3.markets[m].universe \in d3.forked, Current(d3, d3.markets[m].universe) # {})
    BY <1>4, <2>1, DisputeStates
  <2> QED
    BY <1>5, <2>2
<1> HIDE DEF d4
<1>8. Turns(d.states[m], d3.states[m], d4.states[m], over, w \in Opened(d, now),
            row.universe \in d.forked, current)
  BY <1>6, <1>7 DEF Turns
<1>9. d.states[m] \in Seq(ReportingState)
  <2>1. d.states \in [Market -> Seq(ReportingState)] /\ m \in Market
    BY TablesElim, MarketRows
  <2> QED
    BY <2>1
<1>10. over => w \in Expired(d, now)
  BY DEF Over
<1>11. w \in Expired(d, now) => w \notin Opened(d, now)
  BY ExpiredIsNotOpened
<1>12. w \in Opened(d, now) /\ w[1] = row.universe => current
  BY <1>1, <1>5, ExpiredIsNotOpened DEF Current
<1>13. Turned(d.states[m], d4.states[m], over, w \in Opened(d, now), row.universe \in d.forked, current)
  BY <1>8, <1>9, <1>10, <1>11, StatesTurn
<1> QED
  BY <1>2, <1>10, <1>12, <1>13 DEF Ages, Turned

\* What the passing of time leaves of the states of market m.
Passes(d, e, now, m) ==
  LET w    == d.markets[m].feeWindow
      over == Over(d.markets[m], Expired(d, now), d.forked)
  IN  /\ \A state : Tops(e.states[m], state) =>
           \/ Tops(d.states[m], state)
           \/ state \in {"DESIGNATED_REPORTING", "OPEN_REPORTING"}
           \/ state = "AWAITING_FINALIZATION" /\ over
           \/ state = "CROWDSOURCING_DISPUTE" /\ w \in Opened(d, now)
      /\ Tops(e.states[m], Waiting) =>
           ~over /\ ~(w \in Opened(d, now) /\ d.markets[m].universe \notin d.forked
                        /\ w[1] = d.markets[m].universe)
      /\ d.states[m] # <<>> => e.states[m] # <<>>

LEMMA TimePasses ==
  ASSUME MarketAssumption, NEW d \in Tables, NEW now \in Nat, IsFiniteSet(DOMAIN d.windows),
         NEW m \in DOMAIN d.markets
  PROVE  Passes(d, AdvanceTime(d, now), now, m)
<1> DEFINE d1 == AdvanceMarketReachingEndTime(d, now)
           d2 == AdvanceMarketMissingDesignatedReport(d1, now)
           e  == AdvanceFeeWindowActive(d2, now)
<1>1. /\ "DESIGNATED_REPORTING" \in ReportingState /\ "OPEN_REPORTING" \in ReportingState
      /\ m \in Market
  BY MarketRows DEF ReportingState
<1>2. /\ d1 \in Tables /\ KeepsAll(d, d1) /\ d1.markets = d.markets
      /\ \/ d1.states[m] = d.states[m]
         \/ d1.states[m] = Append(d.states[m], "DESIGNATED_REPORTING")
  <2> DEFINE S == {x \in DOMAIN d.markets : StateOf(d, x) = "PRE_REPORTING" /\ EndTime[x] < now}
  <2>1. d1 = UpdateMarketState(d, S, "DESIGNATED_REPORTING")
    BY DEF AdvanceMarketReachingEndTime
  <2> HIDE DEF d1, S
  <2>2. LET f == UpdateMarketState(d, S, "DESIGNATED_REPORTING")
        IN  /\ f \in Tables /\ KeepsAll(d, f) /\ f.markets = d.markets
            /\ f.states[m] = IF m \in S THEN Append(d.states[m], "DESIGNATED_REPORTING") ELSE d.states[m]
    BY <1>1, StatesUpdated
  <2> QED
    BY <2>1, <2>2
<1> HIDE DEF d1
<1>3. /\ d2 \in Tables /\ KeepsAll(d1, d2) /\ d2.markets = d1.markets
      /\ \/ d2.states[m] = d1.states[m]
         \/ d2.states[m] = Append(d1.states[m], "OPEN_REPORTING")
  <2> DEFINE S == {x \in DOMAIN d1.markets :
                     StateOf(d1, x) = "DESIGNATED_REPORTING" /\ EndTime[x] < now - DesignatedDuration}
  <2>1. d2 = UpdateMarketState(d1, S, "OPEN_REPORTING")
    BY DEF AdvanceMarketMissingDesignatedReport
  <2> HIDE DEF d2, S
  <2>2. LET f == UpdateMarketState(d1, S, "OPEN_REPORTING")
        IN  /\ f \in Tables /\ KeepsAll(d1, f) /\ f.markets = d1.markets
            /\ f.states[m] = IF m \in S THEN Append(d1.states[m], "OPEN_REPORTING") ELSE d1.states[m]
    BY <1>1, <1>2, StatesUpdated
  <2> QED
    BY <2>1, <2>2
<1>4. AdvanceTime(d, now) = e
  BY DEF AdvanceTime, d1, d2
<1> HIDE DEF d2
<1>5. d2.windows = d.windows /\ d2.forked = d.forked /\ d2.markets = d.markets
  BY <1>2, <1>3 DEF KeepsAll, KeepsWindows, KeepsMarkets
<1>6. Ages(d2, e, now, m)
  BY <1>3, <1>5, FeeWindowsAge
<1> HIDE DEF e
<1>7. /\ \A state : Tops(d2.states[m], state) =>
           Tops(d.states[m], state) \/ state \in {"DESIGNATED_REPORTING", "OPEN_REPORTING"}
      /\ d.states[m] # <<>> => d2.states[m] # <<>>
  <2>1. PICK q \in Seq(ReportingState) : q = d.states[m]
    BY <1>1, TablesElim
  <2>2. PICK q1 \in Seq(ReportingState) : q1 = d1.states[m]
    BY <1>1, <1>2, TablesElim
  <2>3. PICK q2 : q2 = d2.states[m]
    OBVIOUS
  <2>4. LET r == Append(q, "DESIGNATED_REPORTING")
        IN  r # <<>> /\ \A s : Tops(r, s) <=> s = "DESIGNATED_REPORTING"
    BY <1>1, <2>1, SeqTops
  <2>5. LET r == Append(q1, "OPEN_REPORTING")
        IN  r # <<>> /\ \A s : Tops(r, s) <=> s = "OPEN_REPORTING"
    BY <1>1, <2>2, SeqTops
  <2>6. q1 = q \/ q1 = Append(q, "DESIGNATED_REPORTING")
    BY <1>2, <2>1, <2>2
  <2>7. q2 = q1 \/ q2 = Append(q1, "OPEN_REPORTING")
    BY <1>3, <2>2, <2>3
  <2>8. /\ \A state : Tops(q1, state) => Tops(q, state) \/ state = "DESIGNATED_REPORTING"
        /\ q # <<>> => q1 # <<>>
    BY <2>4, <2>6
  <2>9. /\ \A state : Tops(q2, state) => Tops(q1, state) \/ state = "OPEN_REPORTING"
        /\ q1 # <<>> => q2 # <<>>
    BY <2>5, <2>7
  <2> QED
    BY <2>1, <2>3, <2>8, <2>9
<1>8. Expired(d2, now) = Expired(d, now) /\ Opened(d2, now) = Opened(d, now)
  BY <1>5 DEF Expired, Opened
<1>9. Passes(d, e, now, m)
  BY <1>5, <1>6, <1>7, <1>8 DEF Ages, Passes
<1> QED
  BY <1>4, <1>9

\* A new fee window moves no market it finds: the others are as old as they
\* look, and the new one begins later or is nobody's.
LEMMA OpeningStays ==
  ASSUME MarketAssumption, NEW d \in Tables, NEW w \in Window, NEW now \in Nat,
         IsFiniteSet(DOMAIN d.windows), \A v \in DOMAIN d.windows : RightAt(d.windows[v], v, now),
         w \notin DOMAIN d.windows, now <= EndOf(w)
  PROVE  LET e == FeeWindowCreated(d, w, now)
         IN  /\ e.markets = d.markets
             /\ \A v \in DOMAIN d.windows : v \in DOMAIN e.windows /\ e.windows[v] = d.windows[v]
             /\ \A m \in DOMAIN d.markets :
                  d.markets[m].feeWindow # w \/ Beyond(d.states[m]) => e.states[m] = d.states[m]
<1> DEFINE f == With(d.windows, w, "FUTURE")
           d1 == [d EXCEPT !.windows = f]
           e == AdvanceFeeWindowActive(d1, now)
<1>1. d.windows \in Rows(Window, {"FUTURE", "CURRENT", "PAST"})
  BY TablesElim
<1>2. f \in Rows(Window, {"FUTURE", "CURRENT", "PAST"})
  <2>1. "FUTURE" \in {"FUTURE", "CURRENT", "PAST"}
    OBVIOUS
  <2> QED
    BY <1>1, <2>1, RowAdded
<1>3. /\ DOMAIN f = DOMAIN d.windows \cup {w} /\ f[w] = "FUTURE"
      /\ \A v \in DOMAIN d.windows : f[v] = d.windows[v]
  BY DEF With
<1>4. FeeWindowCreated(d, w, now) = e
  BY DEF FeeWindowCreated
<1> HIDE DEF f
<1>5. d1 \in Tables /\ d1.windows = f /\ d1.markets = d.markets /\ d1.states = d.states
  BY <1>2, SetWindows
<1>6. IsFiniteSet(DOMAIN d1.windows)
  BY <1>3, <1>5, FS_AddElement
<1> HIDE DEF d1
<1>7. e.markets = d.markets /\ e.windows = NewWindows(d1, now)
  BY <1>5, <1>6, FeeWindowsAdvance
<1>8. \A m \in DOMAIN d.markets : Ages(d1, e, now, m)
  BY <1>5, <1>6, FeeWindowsAge
<1> HIDE DEF e
<1>9. ASSUME NEW v \in DOMAIN d.windows
      PROVE  v \notin Expired(d1, now) /\ v \notin Opened(d1, now)
  <2>1. RightAt(d.windows[v], v, now) /\ d1.windows[v] = d.windows[v] /\ EndOf(v) \in Nat
    BY <1>3, <1>5, WindowRows, BoundsOfWindow
  <2> QED
    BY <2>1 DEF Expired, Opened, RightAt
<1>10. w \notin Expired(d1, now)
  BY BoundsOfWindow DEF Expired
<1>11. \A v \in DOMAIN d.windows : v \in DOMAIN e.windows /\ e.windows[v] = d.windows[v]
  BY <1>3, <1>5, <1>7, <1>9 DEF NewWindows
<1>12. ASSUME NEW m \in DOMAIN d.markets, d.markets[m].feeWindow # w \/ Beyond(d.states[m])
       PROVE  e.states[m] = d.states[m]
  <2>1. d.markets[m].feeWindow \notin Expired(d1, now)
    BY <1>3, <1>5, <1>9, <1>10 DEF Expired
  <2>2. d.markets[m].feeWindow \notin Opened(d1, now) \/ Beyond(d.states[m])
    BY <1>3, <1>5, <1>9, <1>12 DEF Opened
  <2> QED
    BY <1>5, <1>8, <2>1, <2>2 DEF Ages
<1> QED
  BY <1>4, <1>7, <1>11, <1>12

-----------------------------------------------------------------------------
(* The states of a market pile up with the logs of the chain: a log that    *)
(* moves the market put the latest of its states on those it had found.     *)

Reports(log, m)   == log.kind = "InitialReportSubmitted" /\ log.market = m
Completes(log, m) == log.kind = "DisputeCrowdsourcerCompleted" /\ MarketOf[log.crowdsourcer] = m
Moves(log, m) == \/ StartsRound(log, m) \/ log = MarketLog("MarketFinalized", m)
                 \/ log = MarketLog("MarketCreated", m) \/ log.kind = "UniverseForked"

\* What the log left of the states old that it found.
Pushed(new, old, log, forked, m) ==
  /\ ~Moves(log, m) => new = old
  /\ Completes(log, m) => new = Append(old, Waiting) /\ Beyond(old)
  /\ log = MarketLog("MarketFinalized", m) => new = Append(old, "FINALIZED") /\ Beyond(old)
  /\ log = MarketLog("MarketMigrated", m) =>
       /\ Beyond(old)
       /\ new = old \/ \E state \in ReportingState : new = Append(old, state)
  /\ Reports(log, m) => forked \/ new = Append(old, Waiting)

\* With all, also the markets not yet reported, as long as no report was taken
\* back: the removal of a report leaves the market a fee window.
Minded(s, m, all) ==
  ReportedIn(s, m) \/ (all /\ Was(s, "MarketCreated", m) /\ ~Was(s, "MarketMigrated", m))
Topped(states, s, b, all) ==
  \A m \in Market : Minded(Append(s, b), m, all) =>
    Pushed(states[m], b.before.states[m], b.log, ForkedIn(s), m)
Layers(states, s, all) ==
  /\ s # <<>> => Topped(states, SubSeq(s, 1, Len(s) - 1), s[Len(s)], all)
  /\ \A i \in 1..Len(s) - 1 :
       ~s[i + 1].moved => Topped(s[i + 1].before.states, SubSeq(s, 1, i - 1), s[i], all)

\* A market that waits for the window of its round is filed under it.
Rests(d, s, m) == LET w == RoundIn(s, m)
                  IN  /\ d.markets[m].feeWindow = w /\ w \in DOMAIN d.windows
                      /\ d.windows[w] = "FUTURE" /\ d.markets[m].universe \notin d.forked
Fresh(d, s, m) ==
  /\ ~Tops(d.states[m], Waiting) /\ ~Tops(d.states[m], "AWAITING_FORK_MIGRATION")
  /\ ~ForkedIn(s) => d.markets[m].feeWindow = None /\ Calm(d.states[m])
Place(d, s, m, all) ==
  m \in DOMAIN d.markets =>
    /\ all \/ ReportedIn(s, m) => d.states[m] # <<>>
    /\ ReportedIn(s, m) /\ Tops(d.states[m], Waiting) => Rests(d, s, m)
    /\ all /\ ~ReportedIn(s, m) => Fresh(d, s, m)
Places(d, s, all) == \A m \in Market : Place(d, s, m, all)
Stand(d, s, all)  == Layers(d.states, s, all) /\ Places(d, s, all)
FinalsReported(s) ==
  \A i \in 1..Len(s), m \in Market :
    s[i].log = MarketLog("MarketFinalized", m) => ReportedIn(SubSeq(s, 1, i - 1), m)

SInv ==
  /\ FinalsReported(chain) /\ db.forked \subseteq {Genesis} /\ HaltsOnlyOnUndoneTime
  /\ unwound \cap {"time", "UniverseForked"} = {} => Stand(db, chain, FALSE)
  /\ unwound \cap {"time", "UniverseForked", "InitialReportSubmitted"} = {} => Stand(db, chain, TRUE)

LEMMA NotMoved ==
  ASSUME NEW s \in Seq(Block), NEW b \in Block, NEW m \in Market, ~Moves(b.log, m)
  PROVE  LET t == Append(s, b)
         IN  /\ ReportedIn(t, m) <=> ReportedIn(s, m)
             /\ ForkedIn(t) <=> ForkedIn(s)
             /\ \A all : Minded(t, m, all) <=> Minded(s, m, all)
<1> DEFINE t == Append(s, b)
<1>1. ~StartsRound(b.log, m) /\ b.log # MarketLog("MarketCreated", m) /\ b.log.kind # "UniverseForked"
  BY DEF Moves
<1>2. ~(b.log.kind = "InitialReportSubmitted" /\ b.log.market = m)
      /\ b.log # MarketLog("MarketMigrated", m)
  BY <1>1 DEF StartsRound, MarketLog
<1>3. ReportedIn(t, m) <=> ReportedIn(s, m)
  BY <1>2, ReportedAppended
<1>4. /\ Was(t, "MarketCreated", m) <=> Was(s, "MarketCreated", m)
      /\ Was(t, "MarketMigrated", m) <=> Was(s, "MarketMigrated", m)
  BY <1>1, <1>2, Grows
<1>5. ForkedIn(t) <=> ForkedIn(s)
  <2>1. \A x \in Market : b.log # MarketLog("UniverseForked", x)
    BY <1>1 DEF MarketLog
  <2>2. \A x \in Market : Was(t, "UniverseForked", x) <=> Was(s, "UniverseForked", x)
    BY <2>1, Grows
  <2> QED
    BY <2>2 DEF ForkedIn
<1> HIDE DEF t
<1>6. \A all : Minded(t, m, all) <=> Minded(s, m, all)
  BY <1>3, <1>4 DEF Minded
<1> QED
  BY <1>3, <1>5, <1>6 DEF t

\* What the place of a market is told by stays, also when a block is taken back.
HoldsWindow(d, e, w) ==
  w \in DOMAIN d.windows => w \in DOMAIN e.windows /\ e.windows[w] = d.windows[w]

LEMMA PlaceStays ==
  ASSUME NEW s, NEW t, NEW d, NEW e, NEW m, NEW all,
         ReportedIn(t, m) <=> ReportedIn(s, m), ForkedIn(t) <=> ForkedIn(s),
         ReportedIn(s, m) => RoundIn(t, m) = RoundIn(s, m) /\ HoldsWindow(d, e, RoundIn(s, m)),
         Stays(d, e, m), m \in DOMAIN e.markets => m \in DOMAIN d.markets, e.forked = d.forked,
         Place(d, s, m, all)
  PROVE  Place(e, t, m, all)
<1> SUFFICES ASSUME m \in DOMAIN e.markets
             PROVE  /\ all \/ ReportedIn(t, m) => e.states[m] # <<>>
                    /\ ReportedIn(t, m) /\ Tops(e.states[m], Waiting) => Rests(e, t, m)
                    /\ all /\ ~ReportedIn(t, m) => Fresh(e, t, m)
  BY DEF Place
<1>1. /\ m \in DOMAIN d.markets /\ e.states[m] = d.states[m]
      /\ e.markets[m].feeWindow = d.markets[m].feeWindow
      /\ e.markets[m].universe = d.markets[m].universe
  BY DEF Stays
<1>2. all \/ ReportedIn(t, m) => e.states[m] # <<>>
  BY <1>1 DEF Place
<1>3. ASSUME ReportedIn(t, m), Tops(e.states[m], Waiting) PROVE Rests(e, t, m)
  <2>1. Rests(d, s, m)
    BY <1>1, <1>3 DEF Place
  <2> QED
    BY <1>1, <1>3, <2>1 DEF Rests, HoldsWindow
<1>4. ASSUME all, ~ReportedIn(t, m) PROVE Fresh(e, t, m)
  <2>1. Fresh(d, s, m)
    BY <1>1, <1>4 DEF Place
  <2> QED
    BY <1>1, <2>1 DEF Fresh
<1> QED
  BY <1>2, <1>3, <1>4

LEMMA PlaceOnAdded ==
  ASSUME NEW s \in Seq(Block), NEW b \in Block, Sane(s), NEW m \in Market, ~Moves(b.log, m),
         NEW d, NEW e, NEW all, Stays(d, e, m), m \in DOMAIN e.markets => m \in DOMAIN d.markets,
         e.forked = d.forked
  PROVE  /\ /\ ReportedIn(s, m) => HoldsWindow(d, e, RoundIn(s, m))
            /\ Place(d, s, m, all)
            => Place(e, Append(s, b), m, all)
         /\ /\ ReportedIn(s, m) => HoldsWindow(d, e, RoundIn(s, m))
            /\ Place(d, Append(s, b), m, all)
            => Place(e, s, m, all)
<1> DEFINE t == Append(s, b)
<1>1. (ReportedIn(t, m) <=> ReportedIn(s, m)) /\ (ForkedIn(t) <=> ForkedIn(s))
  BY NotMoved
<1>2. ReportedIn(s, m) => RoundIn(t, m) = RoundIn(s, m)
  <2>1. ASSUME ReportedIn(s, m) PROVE RoundIn(t, m) = RoundIn(s, m)
    <3>1. LatestStart(s, Latest(s, m), m)
      BY <2>1, LatestOfReported
    <3>2. ~StartsRound(b.log, m)
      BY DEF Moves
    <3> QED
      BY <3>1, <3>2, RoundKeepsOn
  <2> QED
    BY <2>1
<1> HIDE DEF t
<1>3. ASSUME ReportedIn(s, m) => HoldsWindow(d, e, RoundIn(s, m)), Place(d, s, m, all)
      PROVE  Place(e, t, m, all)
  BY <1>1, <1>2, <1>3, PlaceStays
<1>4. ASSUME ReportedIn(s, m) => HoldsWindow(d, e, RoundIn(s, m)), Place(d, t, m, all)
      PROVE  Place(e, s, m, all)
  BY <1>1, <1>2, <1>4, PlaceStays
<1> QED
  BY <1>3, <1>4 DEF t

\* The time a block comes with ends and begins windows, but a market still
\* waits only if the window it is filed under is to come.
LEMMA FoundWaits ==
  ASSUME MarketAssumption, RunAssumption, IInv, NEW t \in Times, db.forked \subseteq {Genesis},
         NEW all, Places(db, chain, all)
  PROVE  Places(AdvanceTime(db, t), chain, all)
<1> DEFINE found == AdvanceTime(db, t)
<1>1. db \in Tables /\ Sane(chain) /\ Follows(db, chain) /\ t \in Nat
  BY WholeChain DEF IInv, RunAssumption
<1>2. IsFiniteSet(DOMAIN db.windows)
  BY <1>1 DEF Follows, WindowsFollow
<1>3. found.markets = db.markets /\ found.forked = db.forked /\ found.windows = NewWindows(db, t)
  BY <1>1, <1>2, TimeAdvances
<1>4. \A m \in DOMAIN db.markets : Passes(db, found, t, m)
  BY <1>1, <1>2, TimePasses
<1> HIDE DEF found
<1>5. SUFFICES ASSUME NEW m \in Market, m \in DOMAIN db.markets
               PROVE  /\ all \/ ReportedIn(chain, m) => found.states[m] # <<>>
                      /\ ReportedIn(chain, m) /\ Tops(found.states[m], Waiting) => Rests(found, chain, m)
                      /\ all /\ ~ReportedIn(chain, m) => Fresh(found, chain, m)
  BY <1>3 DEF Places, Place, found
<1> DEFINE w    == db.markets[m].feeWindow
           over == Over(db.markets[m], Expired(db, t), db.forked)
<1>6. /\ \A state : Tops(found.states[m], state) =>
           \/ Tops(db.states[m], state)
           \/ state \in {"DESIGNATED_REPORTING", "OPEN_REPORTING"}
           \/ state = "AWAITING_FINALIZATION" /\ over
           \/ state = "CROWDSOURCING_DISPUTE" /\ w \in Opened(db, t)
      /\ Tops(found.states[m], Waiting) =>
           ~over /\ ~(w \in Opened(db, t) /\ db.markets[m].universe \notin db.forked
                        /\ w[1] = db.markets[m].universe)
      /\ db.states[m] # <<>> => found.states[m] # <<>>
  BY <1>4, <1>5 DEF Passes
<1>7. Place(db, chain, m, all)
  BY DEF Places
<1>8. all \/ ReportedIn(chain, m) => found.states[m] # <<>>
  BY <1>5, <1>6, <1>7 DEF Place
<1>9. Tops(found.states[m], Waiting) => Tops(db.states[m], Waiting)
  BY <1>6 DEF Waiting
<1>10. ASSUME ReportedIn(chain, m), Tops(found.states[m], Waiting)
       PROVE  Rests(found, chain, m)
  <2>1. Rests(db, chain, m)
    BY <1>5, <1>7, <1>9, <1>10 DEF Place
  <2>2. /\ w = RoundIn(chain, m) /\ w \in DOMAIN db.windows /\ db.windows[w] = "FUTURE"
        /\ db.markets[m].universe \notin db.forked
    BY <2>1 DEF Rests
  <2>3. /\ db.markets[m].universe = HomeIn(chain, m) /\ db.markets[m].forking = ForkerIn(chain, m)
        /\ db.markets[m].needsMigration = MigrationIn(chain, m)
        /\ Genesis \in db.forked <=> ForkedIn(chain)
    BY <1>1, <1>5 DEF Follows, FlagsFollow, Owes
  <2>4. Genesis \in db.forked => Was(chain, "MarketMigrated", m)
    BY <2>2, <2>3 DEF HomeIn
  <2>5. Was(chain, "UniverseForked", m) => ~Was(chain, "MarketMigrated", m) /\ ForkedIn(chain)
    BY <1>1 DEF Sane, SaneMarket, ForkedIn
  <2>6. db.markets[m].forking # 1
    BY <2>3, <2>4, <2>5 DEF ForkerIn
  <2>7. db.markets[m].needsMigration # 1
    BY <2>3, <2>4 DEF MigrationIn, DecidedIn, ForkedIn
  <2>8. w \notin Expired(db, t)
    BY <1>6, <1>10, <2>2, <2>6, <2>7 DEF Over
  <2>9. w[1] = db.markets[m].universe
    BY <2>2, <2>3 DEF RoundIn, WindowAt
  <2>10. w \notin Opened(db, t)
    BY <1>6, <1>10, <2>2, <2>9
  <2>11. w \in DOMAIN found.windows /\ found.windows[w] = "FUTURE"
    BY <1>3, <2>2, <2>8, <2>10 DEF NewWindows
  <2> QED
    BY <1>3, <2>2, <2>11 DEF Rests
<1>11. ASSUME all, ~ReportedIn(chain, m) PROVE Fresh(found, chain, m)
  <2>1. Fresh(db, chain, m)
    BY <1>5, <1>7, <1>11 DEF Place
  <2>2. ~Tops(found.states[m], Waiting) /\ ~Tops(found.states[m], "AWAITING_FORK_MIGRATION")
    BY <1>6, <1>9, <2>1, SMTT(20) DEF Fresh
  <2>3. ASSUME ~ForkedIn(chain) PROVE found.markets[m].feeWindow = None /\ Calm(found.states[m])
    <3>1. w = None /\ Calm(db.states[m])
      BY <2>1, <2>3 DEF Fresh
    <3>2. None \notin DOMAIN db.windows
      BY <1>1, WindowRows DEF MarketAssumption, Window
    <3>3. ~over /\ w \notin Opened(db, t)
      BY <3>1, <3>2 DEF Over, Expired, Opened
    <3> QED
      BY <1>3, <1>6, <2>2, <3>1, <3>3 DEF Calm
  <2> QED
    BY <2>2, <2>3 DEF Fresh
<1> QED
  BY <1>8, <1>10, <1>11

LEMMA LayersAdded ==
  ASSUME NEW s \in Seq(Block), NEW b \in Block, NEW d, NEW states, NEW all,
         Layers(d.states, s, all), ~b.moved => b.before = d, Topped(states, s, b, all)
  PROVE  Layers(states, Append(s, b), all)
<1>1. PICK t \in Seq(Block) : t = Append(s, b)
  BY Appended
<1>2. Len(t) = Len(s) + 1 /\ t[Len(s) + 1] = b /\ \A i \in 1..Len(s) : t[i] = s[i]
  BY <1>1, Appended
<1>3. Len(s) \in Nat
  OBVIOUS
<1>4. \A n \in 0..Len(s) : SubSeq(t, 1, n) = SubSeq(s, 1, n)
  BY <1>1, PrefixOfAppended
<1>5. SubSeq(t, 1, Len(t) - 1) = s
  <2>1. SubSeq(t, 1, Len(s)) = SubSeq(s, 1, Len(s))
    BY <1>3, <1>4
  <2>2. Len(t) - 1 = Len(s)
    BY <1>2, <1>3
  <2> QED
    BY <2>1, <2>2, WholePrefix
<1>6. Topped(states, SubSeq(t, 1, Len(t) - 1), t[Len(t)], all)
  BY <1>2, <1>5
<1>7. ASSUME NEW i \in 1..Len(t) - 1, ~t[i + 1].moved
      PROVE  Topped(t[i + 1].before.states, SubSeq(t, 1, i - 1), t[i], all)
  <2>1. i \in 1..Len(s) /\ i - 1 \in 0..Len(s)
    BY <1>2, <1>3
  <2>2. t[i] = s[i] /\ SubSeq(t, 1, i - 1) = SubSeq(s, 1, i - 1)
    BY <1>2, <1>4, <2>1
  <2>3. CASE i = Len(s)
    <3>1. t[i + 1] = b /\ s # <<>>
      BY <1>2, <2>1, <2>3
    <3>2. Topped(d.states, SubSeq(s, 1, Len(s) - 1), s[Len(s)], all)
      BY <3>1 DEF Layers
    <3> QED
      BY <1>7, <2>2, <2>3, <3>1, <3>2
  <2>4. CASE i < Len(s)
    <3>1. i \in 1..Len(s) - 1 /\ t[i + 1] = s[i + 1]
      BY <1>2, <1>3, <2>1, <2>4
    <3> QED
      BY <1>7, <2>2, <3>1 DEF Layers
  <2> QED
    BY <1>3, <2>1, <2>3, <2>4
<1> QED
  BY <1>1, <1>6, <1>7 DEF Layers

LEMMA LayersRetracted ==
  ASSUME NEW s \in Seq(Block), NEW b \in Block, NEW states, NEW all,
         Layers(states, Append(s, b), all)
  PROVE  /\ Topped(states, s, b, all)
         /\ ~b.moved => \A new :
              (\A m \in Market : Minded(s, m, all) => new[m] = b.before.states[m])
                => Layers(new, s, all)
<1>1. PICK t \in Seq(Block) : t = Append(s, b)
  BY Appended
<1>2. Len(t) = Len(s) + 1 /\ t[Len(s) + 1] = b /\ \A i \in 1..Len(s) : t[i] = s[i]
  BY <1>1, Appended
<1>3. Len(s) \in Nat
  OBVIOUS
<1>4. \A n \in 0..Len(s) : SubSeq(t, 1, n) = SubSeq(s, 1, n)
  BY <1>1, PrefixOfAppended
<1>5. Topped(states, s, b, all)
  <2>1. t # <<>>
    BY <1>2, <1>3
  <2>2. Topped(states, SubSeq(t, 1, Len(t) - 1), t[Len(t)], all)
    BY <1>1, <2>1 DEF Layers
  <2>3. SubSeq(t, 1, Len(s)) = s
    BY <1>3, <1>4, WholePrefix
  <2>4. Len(t) - 1 = Len(s) /\ t[Len(t)] = b
    BY <1>2, <1>3
  <2> QED
    BY <2>2, <2>3, <2>4
<1>6. \A i \in 1..Len(s) : ~t[i + 1].moved =>
        Topped(t[i + 1].before.states, SubSeq(t, 1, i - 1), t[i], all)
  BY <1>1, <1>2, <1>3 DEF Layers
<1>7. ASSUME ~b.moved, NEW new,
             \A m \in Market : Minded(s, m, all) => new[m] = b.before.states[m]
      PROVE  Layers(new, s, all)
  <2>1. ASSUME s # <<>> PROVE Topped(new, SubSeq(s, 1, Len(s) - 1), s[Len(s)], all)
    <3>1. Len(s) \in 1..Len(s) /\ Len(s) - 1 \in 0..Len(s)
      BY <2>1, <1>3
    <3>2. Topped(t[Len(s) + 1].before.states, SubSeq(t, 1, Len(s) - 1), t[Len(s)], all)
      BY <1>2, <1>6, <1>7, <3>1
    <3>3. Topped(b.before.states, SubSeq(s, 1, Len(s) - 1), s[Len(s)], all)
      BY <1>2, <1>4, <3>1, <3>2
    <3>4. Append(SubSeq(s, 1, Len(s) - 1), s[Len(s)]) = s
      BY <2>1
    <3> QED
      BY <1>7, <3>3, <3>4 DEF Topped
  <2>2. ASSUME NEW i \in 1..Len(s) - 1, ~s[i + 1].moved
        PROVE  Topped(s[i + 1].before.states, SubSeq(s, 1, i - 1), s[i], all)
    <3>1. i \in 1..Len(s) /\ i + 1 \in 1..Len(s) /\ i - 1 \in 0..Len(s)
      BY <1>3
    <3> QED
      BY <1>2, <1>4, <1>6, <2>2, <3>1
  <2> QED
    BY <2>1, <2>2 DEF Layers
<1> QED
  BY <1>5, <1>7

LEMMA FinalsAdded ==
  ASSUME NEW s \in Seq(Block), NEW b \in Block
  PROVE  FinalsReported(Append(s, b)) <=>
           /\ FinalsReported(s)
           /\ \A m \in Market : b.log = MarketLog("MarketFinalized", m) => ReportedIn(s, m)
<1>1. PICK t \in Seq(Block) : t = Append(s, b)
  BY Appended
<1>2. Len(t) = Len(s) + 1 /\ t[Len(s) + 1] = b /\ \A i \in 1..Len(s) : t[i] = s[i]
  BY <1>1, Appended
<1>3. Len(s) \in Nat
  OBVIOUS
<1>4. \A i \in 1..Len(s) : SubSeq(t, 1, i - 1) = SubSeq(s, 1, i - 1)
  <2>1. \A i \in 1..Len(s) : i - 1 \in 0..Len(s)
    BY <1>3
  <2> QED
    BY <1>1, <2>1, PrefixOfAppended
<1>5. SubSeq(t, 1, (Len(s) + 1) - 1) = s
  <2>1. Len(s) \in 0..Len(s) /\ (Len(s) + 1) - 1 = Len(s)
    BY <1>3
  <2>2. SubSeq(t, 1, Len(s)) = SubSeq(s, 1, Len(s))
    BY <1>1, <2>1, PrefixOfAppended
  <2> QED
    BY <2>1, <2>2, WholePrefix
<1>6. 1..Len(t) = 1..Len(s) \cup {Len(s) + 1}
  BY <1>2, <1>3
<1> QED
  BY <1>1, <1>2, <1>4, <1>5, <1>6 DEF FinalsReported

-----------------------------------------------------------------------------
(* What a step has to do for one market, added and taken back. *)

Lands(d, e, s, b, m, all) ==
  /\ Minded(Append(s, b), m, all) => Pushed(e.states[m], d.states[m], b.log, ForkedIn(s), m)
  /\ Place(e, Append(s, b), m, all)
Leaves(e, s, b, m, all) ==
  /\ Minded(s, m, all) => e.states[m] = b.before.states[m]
  /\ Place(e, s, m, all)

LEMMA OtherLands ==
  ASSUME NEW s \in Seq(Block), NEW b \in Block, Sane(s), NEW m \in Market, ~Moves(b.log, m),
         NEW d, NEW e, NEW all, Stays(d, e, m), m \in DOMAIN e.markets => m \in DOMAIN d.markets,
         e.forked = d.forked, \A w : HoldsWindow(d, e, w), Place(d, s, m, all)
  PROVE  Lands(d, e, s, b, m, all)
<1>1. Place(e, Append(s, b), m, all)
  BY PlaceOnAdded
<1>2. e.states[m] = d.states[m]
  BY DEF Stays
<1>3. /\ ~Completes(b.log, m) /\ ~Reports(b.log, m) /\ b.log # MarketLog("MarketFinalized", m)
      /\ b.log # MarketLog("MarketMigrated", m)
  BY DEF Moves, StartsRound, Completes, Reports, MarketLog
<1> QED
  BY <1>1, <1>2, <1>3 DEF Lands, Pushed

LEMMA OtherLeaves ==
  ASSUME NEW s \in Seq(Block), NEW b \in Block, Sane(s), NEW m \in Market, ~Moves(b.log, m),
         NEW d, NEW e, NEW all, Stays(d, e, m), m \in DOMAIN e.markets => m \in DOMAIN d.markets,
         e.forked = d.forked, ReportedIn(s, m) => HoldsWindow(d, e, RoundIn(s, m)),
         Topped(d.states, s, b, all), Place(d, Append(s, b), m, all)
  PROVE  Leaves(e, s, b, m, all)
<1>1. Place(e, s, m, all)
  BY PlaceOnAdded
<1>2. e.states[m] = d.states[m]
  BY DEF Stays
<1>3. Minded(s, m, all) => Minded(Append(s, b), m, all)
  BY NotMoved
<1>4. Minded(s, m, all) => d.states[m] = b.before.states[m]
  BY <1>3 DEF Topped, Pushed
<1> QED
  BY <1>1, <1>2, <1>4 DEF Leaves

LEMMA StandMeans ==
  ASSUME SInv, "time" \notin unwound, "UniverseForked" \notin unwound
  PROVE  /\ Stand(db, chain, FALSE)
         /\ "InitialReportSubmitted" \notin unwound => Stand(db, chain, TRUE)
BY DEF SInv

\* Until the fork is taken back the tables know which blocks they have seen.
\* Whatever holds of one market, or of every market, before a block's log does after it.
MarketLands(t, log, e, m) ==
  "time" \notin unwound => \A all \in BOOLEAN :
    Place(AdvanceTime(db, t), chain, m, all) =>
      Lands(AdvanceTime(db, t), e, chain, Added(t, log), m, all)
EveryMarketLands(t, log, e) ==
  "time" \notin unwound => \A all \in BOOLEAN, m \in Market :
    Places(AdvanceTime(db, t), chain, all) =>
      Lands(AdvanceTime(db, t), e, chain, Added(t, log), m, all)

LEMMA StatesAdded ==
  ASSUME MarketAssumption, RunAssumption, IInv, SInv, NEW t \in Times, NEW log \in Logs, Mining(t),
         NEW e, Extend(t, log, e), e.forked \subseteq {Genesis},
         \A m \in Market : log = MarketLog("MarketFinalized", m) => ReportedIn(chain, m),
         EveryMarketLands(t, log, e)
  PROVE  SInv'
<1> DEFINE found == AdvanceTime(db, t)
           b == Added(t, log)
<1>1. chain' = Append(chain, b) /\ db' = e /\ halted' = halted /\ unwound' = unwound
  BY DEF Extend, Added
<1>2. chain \in Seq(Block) /\ b \in Block /\ b.log = log /\ b.before = found /\ (~b.moved => found = db)
  <2>1. b.before = found
    BY DEF Added
  <2> QED
    BY <2>1, AddedBlock DEF IInv
<1> HIDE DEF b
<1>3. FinalsReported(chain')
  BY <1>1, <1>2, FinalsAdded DEF SInv
<1>4. ~halted'
  BY <1>1 DEF Mining
<1>5. ASSUME NEW all \in BOOLEAN, "time" \notin unwound, Stand(db, chain, all)
      PROVE  Stand(e, Append(chain, b), all)
  <2>1. Layers(db.states, chain, all) /\ Places(db, chain, all) /\ db.forked \subseteq {Genesis}
    BY <1>5 DEF Stand, SInv
  <2>2. Places(found, chain, all)
    BY <2>1, FoundWaits
  <2>3. \A m \in Market : Lands(found, e, chain, b, m, all)
    BY <1>5, <2>2 DEF b, EveryMarketLands
  <2> HIDE DEF found
  <2>4. Topped(e.states, chain, b, all) /\ Places(e, Append(chain, b), all)
    BY <1>2, <2>3 DEF Lands, Topped, Places
  <2>5. Layers(e.states, Append(chain, b), all)
    BY <1>2, <2>1, <2>4, LayersAdded
  <2> QED
    BY <2>4, <2>5 DEF Stand
<1>6. unwound' \cap {"time", "UniverseForked"} = {} => Stand(db', chain', FALSE)
  BY <1>1, <1>5 DEF SInv
<1>7. unwound' \cap {"time", "UniverseForked", "InitialReportSubmitted"} = {} => Stand(db', chain', TRUE)
  BY <1>1, <1>5 DEF SInv
<1>8. HaltsOnlyOnUndoneTime'
  BY <1>4 DEF HaltsOnlyOnUndoneTime
<1> QED
  BY <1>1, <1>3, <1>6, <1>7, <1>8 DEF SInv

\* What a removal finds.
Finds(s, b, all) == Topped(db.states, s, b, all) /\ Places(db, Append(s, b), all)
\* Whatever held of one market, or of every market, before the last block's log does again
\* once the log is removed.
MarketLeaves(log, e, m) ==
  LET s == SubSeq(chain, 1, Len(chain) - 1)
      b == Final(chain)
  IN  \A all \in BOOLEAN : (all => log.kind # "InitialReportSubmitted") /\ Finds(s, b, all)
        => Leaves(e, s, b, m, all)
EveryMarketLeaves(e) ==
  LET s == SubSeq(chain, 1, Len(chain) - 1)
      b == Final(chain)
  IN  \A all \in BOOLEAN, m \in Market :
        /\ b.log.kind # "UniverseForked" /\ (all => b.log.kind # "InitialReportSubmitted")
        /\ Finds(s, b, all)
        => Leaves(e, s, b, m, all)
MovesOnly(log, m)   == \A x \in Market : x # m => ~Moves(log, x)
NoneNewBut(d, e, m) == \A x : x # m /\ x \in DOMAIN e.markets => x \in DOMAIN d.markets

LEMMA StatesRetracted ==
  ASSUME MarketAssumption, IInv, SInv, chain # <<>>, ~halted, NEW e, Retract(e), e.forked \subseteq {Genesis},
         EveryMarketLeaves(e)
  PROVE  SInv'
<1> DEFINE s == SubSeq(chain, 1, Len(chain) - 1)
           b == Final(chain)
<1>1. /\ chain' = s /\ db' = e /\ halted' = halted /\ unwound \subseteq unwound'
      /\ b.log.kind \in unwound' /\ (b.moved => "time" \in unwound')
  BY DEF Retract
<1>2. s \in Seq(Block) /\ b \in Block /\ chain = Append(s, b)
  BY LastBlock
<1>3. \A all \in BOOLEAN, m \in Market :
        /\ b.log.kind # "UniverseForked" /\ (all => b.log.kind # "InitialReportSubmitted")
        /\ Finds(s, b, all)
        => Leaves(e, s, b, m, all)
  BY DEF EveryMarketLeaves
<1> HIDE DEF s, b
<1>4. FinalsReported(chain')
  BY <1>1, <1>2, FinalsAdded DEF SInv
<1>5. ASSUME NEW all \in BOOLEAN, ~b.moved, b.log.kind # "UniverseForked",
             all => b.log.kind # "InitialReportSubmitted", Stand(db, chain, all)
      PROVE  Stand(e, s, all)
  <2>1. Layers(db.states, Append(s, b), all) /\ Places(db, Append(s, b), all)
    BY <1>2, <1>5 DEF Stand
  <2>2. Topped(db.states, s, b, all)
    BY <1>2, <2>1, LayersRetracted
  <2>3. \A m \in Market : Leaves(e, s, b, m, all)
    BY <1>3, <1>5, <2>1, <2>2 DEF Finds
  <2>4. Places(e, s, all) /\ \A m \in Market : Minded(s, m, all) => e.states[m] = b.before.states[m]
    BY <2>3 DEF Leaves, Places
  <2>5. Layers(e.states, s, all)
    BY <1>2, <1>5, <2>1, <2>4, LayersRetracted
  <2> QED
    BY <2>4, <2>5 DEF Stand
<1>6. ASSUME unwound' \cap {"time", "UniverseForked"} = {} PROVE Stand(e, s, FALSE)
  <2>1. ~b.moved /\ b.log.kind # "UniverseForked" /\ unwound \cap {"time", "UniverseForked"} = {}
    BY <1>1, <1>6
  <2> QED
    BY <1>5, <2>1 DEF SInv
<1>7. ASSUME unwound' \cap {"time", "UniverseForked", "InitialReportSubmitted"} = {}
      PROVE  Stand(e, s, TRUE)
  <2>1. /\ ~b.moved /\ b.log.kind # "UniverseForked" /\ b.log.kind # "InitialReportSubmitted"
        /\ unwound \cap {"time", "UniverseForked", "InitialReportSubmitted"} = {}
    BY <1>1, <1>7
  <2> QED
    BY <1>5, <2>1 DEF SInv
<1>8. HaltsOnlyOnUndoneTime'
  BY <1>1 DEF HaltsOnlyOnUndoneTime
<1> QED
  BY <1>1, <1>4, <1>6, <1>7, <1>8 DEF SInv

\* A processor that throws leaves the tables and the chain as they are.
LEMMA StatesThrow ==
  ASSUME SInv, Throw,
         \/ "time" \in unwound \/ "UniverseForked" \in unwound
         \/ Forking # {} /\ Final(chain).log.kind \in {"InitialReportSubmitted", "MarketMigrated"}
  PROVE  SInv'
<1>1. UNCHANGED <<chain, db, unwound>>
  BY DEF Throw
<1>2. HaltsOnlyOnUndoneTime'
  <2>1. Forking' = Forking
    BY <1>1 DEF Forking, Has
  <2>2. Undone({"time", "UniverseForked"})' <=> Undone({"time", "UniverseForked"})
    BY <1>1 DEF Undone
  <2>3. "time" \in unwound \/ "UniverseForked" \in unwound => Undone({"time", "UniverseForked"})
    BY DEF Undone
  <2> QED
    BY <1>1, <2>1, <2>2, <2>3 DEF HaltsOnlyOnUndoneTime
<1> QED
  BY <1>1, <1>2 DEF SInv

-----------------------------------------------------------------------------
(* A step that moves no market, or one. *)

Holds(d, e) == e.forked = d.forked /\ \A w : HoldsWindow(d, e, w)

LEMMA KeepsHolds ==
  ASSUME NEW d, NEW e, e.forked = d.forked, KeepsWindows(d, e)
  PROVE  Holds(d, e)
BY DEF Holds, HoldsWindow, KeepsWindows

LEMMA FoundRows ==
  ASSUME IInv, NEW t
  PROVE  LET found == AdvanceTime(db, t)
         IN  found.markets = db.markets /\ found.forked = db.forked
<1>1. db \in Tables /\ IsFiniteSet(DOMAIN db.windows)
  BY DEF IInv, Follows, WindowsFollow
<1> QED
  BY <1>1, TimeAdvances

LEMMA QuietLands ==
  ASSUME MarketAssumption, RunAssumption, IInv, SInv, NEW t \in Times, NEW log \in Logs, Mining(t),
         \A x \in Market : ~Moves(log, x), NEW e, Extend(t, log, e),
         LET found == AdvanceTime(db, t)
         IN  /\ "time" \notin unwound => AllStay(found, e)
             /\ e.forked = found.forked
             /\ "time" \notin unwound => \A w : HoldsWindow(found, e, w)
             /\ \A x : x \in DOMAIN e.markets => x \in DOMAIN found.markets
  PROVE  SInv'
<1> DEFINE found == AdvanceTime(db, t)
           b == Added(t, log)
<1>1. found.forked = db.forked
  BY FoundRows
<1>2. e.forked \subseteq {Genesis}
  BY <1>1 DEF SInv
<1>3. b \in Block /\ b.log = log /\ chain \in Seq(Block) /\ Sane(chain)
  BY AddedBlock, WholeChain DEF IInv
<1>4. /\ "time" \notin unwound => AllStay(found, e) /\ \A w : HoldsWindow(found, e, w)
      /\ e.forked = found.forked
      /\ \A x : x \in DOMAIN e.markets => x \in DOMAIN found.markets
  OBVIOUS
<1>5. \A x \in Market : log # MarketLog("MarketFinalized", x)
  BY DEF Moves
<1> HIDE DEF found, b
<1>6. ASSUME NEW all \in BOOLEAN, NEW m \in Market, "time" \notin unwound, Places(found, chain, all)
      PROVE  Lands(found, e, chain, b, m, all)
  <2>1. Place(found, chain, m, all) /\ Stays(found, e, m) /\ ~Moves(b.log, m)
    BY <1>3, <1>4, <1>6 DEF Places, AllStay
  <2> QED
    BY <1>3, <1>4, <1>6, <2>1, OtherLands
<1>7. EveryMarketLands(t, log, e)
  BY <1>6 DEF found, b, EveryMarketLands
<1> QED
  BY <1>2, <1>5, <1>7, StatesAdded

LEMMA MoveLands ==
  ASSUME MarketAssumption, RunAssumption, IInv, SInv, NEW t \in Times, NEW log \in Logs, Mining(t),
         NEW m \in Market, MovesOnly(log, m), NEW e, Extend(t, log, e),
         log = MarketLog("MarketFinalized", m) => ReportedIn(chain, m),
         OthersStay(AdvanceTime(db, t), e, m), Holds(AdvanceTime(db, t), e),
         NoneNewBut(AdvanceTime(db, t), e, m), MarketLands(t, log, e, m)
  PROVE  SInv'
<1> DEFINE found == AdvanceTime(db, t)
           b == Added(t, log)
<1>1. found.forked = db.forked
  BY FoundRows
<1>2. e.forked \subseteq {Genesis}
  BY <1>1 DEF SInv, Holds
<1>3. b \in Block /\ b.log = log /\ chain \in Seq(Block) /\ Sane(chain)
  BY AddedBlock, WholeChain DEF IInv
<1>4. /\ OthersStay(found, e, m) /\ Holds(found, e)
      /\ \A x : x # m /\ x \in DOMAIN e.markets => x \in DOMAIN found.markets
      /\ "time" \notin unwound => \A all \in BOOLEAN :
           Place(found, chain, m, all) => Lands(found, e, chain, b, m, all)
  BY DEF NoneNewBut, MarketLands
<1>5. \A x \in Market : log = MarketLog("MarketFinalized", x) => ReportedIn(chain, x)
  BY DEF Moves, MovesOnly
<1> HIDE DEF found, b
<1>6. ASSUME NEW all \in BOOLEAN, NEW x \in Market, "time" \notin unwound, Places(found, chain, all)
      PROVE  Lands(found, e, chain, b, x, all)
  <2>1. Place(found, chain, x, all)
    BY <1>6 DEF Places
  <2>2. CASE x = m
    BY <1>4, <1>6, <2>1, <2>2
  <2>3. CASE x # m
    <3>1. Stays(found, e, x) /\ ~Moves(b.log, x)
      BY <1>3, <1>4, <2>3 DEF OthersStay, MovesOnly
    <3> QED
      BY <1>3, <1>4, <1>6, <2>1, <2>3, <3>1, OtherLands DEF Holds
  <2> QED
    BY <2>2, <2>3
<1>7. EveryMarketLands(t, log, e)
  BY <1>6 DEF found, b, EveryMarketLands
<1> QED
  BY <1>2, <1>5, <1>7, StatesAdded

LEMMA QuietLeaves ==
  ASSUME MarketAssumption, RunAssumption, IInv, RInv, SInv, NEW log, Removing(log),
         \A x \in Market : ~Moves(log, x), NEW e, Retract(e), AllStay(db, e), e.forked = db.forked,
         \A x : x \in DOMAIN e.markets => x \in DOMAIN db.markets,
         LET s == SubSeq(chain, 1, Len(chain) - 1)
         IN  \A x \in Market : ReportedIn(s, x) => HoldsWindow(db, e, RoundIn(s, x))
  PROVE  SInv'
<1> DEFINE s == SubSeq(chain, 1, Len(chain) - 1)
           b == Final(chain)
<1>1. s \in Seq(Block) /\ b \in Block /\ b.log = log /\ Sane(s) /\ chain # <<>>
  BY Undoing
<1>2. \A x \in Market : ReportedIn(s, x) => HoldsWindow(db, e, RoundIn(s, x))
  OBVIOUS
<1>3. ~halted /\ e.forked \subseteq {Genesis}
  BY DEF Removing, SInv
<1> HIDE DEF s, b
<1>4. ASSUME NEW all \in BOOLEAN, NEW m \in Market, Finds(s, b, all)
      PROVE  Leaves(e, s, b, m, all)
  <2>1. Place(db, Append(s, b), m, all) /\ Stays(db, e, m) /\ ~Moves(b.log, m) /\ Topped(db.states, s, b, all)
    BY <1>1, <1>4 DEF Finds, Places, AllStay
  <2> QED
    BY <1>1, <1>2, <2>1, OtherLeaves
<1>5. EveryMarketLeaves(e)
  BY <1>4 DEF s, b, EveryMarketLeaves
<1> QED
  BY <1>1, <1>3, <1>5, StatesRetracted DEF s, b

LEMMA MoveLeaves ==
  ASSUME MarketAssumption, RunAssumption, IInv, RInv, SInv, NEW log, Removing(log),
         NEW m \in Market, MovesOnly(log, m), NEW e, Retract(e),
         OthersStay(db, e, m), Holds(db, e),
         NoneNewBut(db, e, m), MarketLeaves(log, e, m)
  PROVE  SInv'
<1> DEFINE s == SubSeq(chain, 1, Len(chain) - 1)
           b == Final(chain)
<1>1. s \in Seq(Block) /\ b \in Block /\ b.log = log /\ Sane(s) /\ chain # <<>>
  BY Undoing
<1>2. \A all \in BOOLEAN : (all => log.kind # "InitialReportSubmitted") /\ Finds(s, b, all)
        => Leaves(e, s, b, m, all)
  BY DEF MarketLeaves
<1>3. ~halted /\ e.forked \subseteq {Genesis}
  BY DEF Removing, SInv, Holds
<1> HIDE DEF s, b
<1>4. ASSUME NEW all \in BOOLEAN, NEW x \in Market, Finds(s, b, all),
             all => log.kind # "InitialReportSubmitted"
      PROVE  Leaves(e, s, b, x, all)
  <2>1. CASE x = m
    BY <1>2, <1>4, <2>1
  <2>2. CASE x # m
    <3>1. Place(db, Append(s, b), x, all) /\ Stays(db, e, x) /\ ~Moves(b.log, x) /\ Topped(db.states, s, b, all)
      BY <1>1, <1>4, <2>2 DEF Finds, Places, OthersStay, MovesOnly
    <3> QED
      BY <1>1, <2>2, <3>1, OtherLeaves DEF Holds, NoneNewBut
  <2> QED
    BY <2>1, <2>2
<1>5. EveryMarketLeaves(e)
  BY <1>1, <1>4 DEF s, b, EveryMarketLeaves
<1> QED
  BY <1>1, <1>3, <1>5, StatesRetracted DEF s, b

Unmoved(d, e) == AllStay(d, e) /\ Holds(d, e) /\ DOMAIN e.markets = DOMAIN d.markets

LEMMA KeptIsUnmoved ==
  ASSUME NEW d, NEW e, KeepsMarkets(d, e), KeepsWindows(d, e), AllStay(d, e)
  PROVE  Unmoved(d, e)
BY KeepsHolds DEF Unmoved, KeepsMarkets

LEMMA UnmovedLands ==
  ASSUME MarketAssumption, RunAssumption, IInv, SInv, NEW t \in Times, NEW log \in Logs, Mining(t),
         \A x \in Market : ~Moves(log, x), NEW e, Extend(t, log, e), Unmoved(AdvanceTime(db, t), e)
  PROVE  SInv'
<1> DEFINE found == AdvanceTime(db, t)
<1>1. /\ AllStay(found, e) /\ e.forked = found.forked
      /\ \A w : HoldsWindow(found, e, w)
      /\ \A x : x \in DOMAIN e.markets => x \in DOMAIN found.markets
  BY DEF Unmoved, Holds
<1> QED
  BY <1>1, QuietLands

LEMMA UnmovedLeaves ==
  ASSUME MarketAssumption, RunAssumption, IInv, RInv, SInv, NEW log, Removing(log),
         \A x \in Market : ~Moves(log, x), NEW e, Retract(e), Unmoved(db, e)
  PROVE  SInv'
<1>1. /\ AllStay(db, e) /\ e.forked = db.forked
      /\ \A w : HoldsWindow(db, e, w)
      /\ \A x : x \in DOMAIN e.markets => x \in DOMAIN db.markets
  BY DEF Unmoved, Holds
<1> QED
  BY <1>1, QuietLeaves

LEMMA NothingUnmoved == \A d : Unmoved(d, d)
<1> SUFFICES ASSUME NEW d PROVE Unmoved(d, d)
  OBVIOUS
<1>1. AllStay(d, d)
  BY SameRowsStay
<1> QED
  BY <1>1 DEF Unmoved, Holds, HoldsWindow

LEMMA NoLogStands ==
  ASSUME MarketAssumption, RunAssumption, IInv, RInv, SInv, NEW t \in Times, AddBlock(t)
  PROVE  SInv'
<1> DEFINE log == NoLog
           e == AdvanceTime(db, t)
<1>1. log \in Logs /\ Mining(t) /\ Extend(t, log, e)
  BY LogsAreLogs DEF AddBlock
<1>2. \A x \in Market : ~Moves(log, x)
  BY DEF Moves, StartsRound, NoLog, MarketLog
<1> HIDE DEF log, e
<1>3. Unmoved(AdvanceTime(db, t), e)
  BY NothingUnmoved DEF e
<1> QED
  BY <1>1, <1>2, <1>3, UnmovedLands

LEMMA NoLogUnstands ==
  ASSUME MarketAssumption, RunAssumption, IInv, RInv, SInv, RemoveBlock
  PROVE  SInv'
<1> DEFINE log == NoLog
<1>1. Removing(log) /\ Retract(db)
  BY DEF RemoveBlock
<1>2. \A x \in Market : ~Moves(log, x)
  BY DEF Moves, StartsRound, NoLog, MarketLog
<1> HIDE DEF log
<1>3. Unmoved(db, db)
  BY NothingUnmoved
<1> QED
  BY <1>1, <1>2, <1>3, UnmovedLeaves

LEMMA ContributionStands ==
  ASSUME MarketAssumption, RunAssumption, IInv, RInv, SInv, NEW t \in Times, NEW c \in Crowdsourcer,
         AddDisputeCrowdsourcerContribution(t, c)
  PROVE  SInv'
<1> DEFINE found == AdvanceTime(db, t)
           log == CrowdLog("DisputeCrowdsourcerContribution", c)
           e == DisputeCrowdsourcerContribution(found, c, Size[c])
<1>1. /\ found \in Tables
      /\ \A x \in Crowdsourcer :
           x \in DOMAIN found.crowdsourcers <=> Did(chain, "DisputeCrowdsourcerCreated", x)
  BY FoundTables
<1>2. log \in Logs
  BY LogsAreLogs DEF Kinds, CrowdKinds
<1>3. /\ Mining(t) /\ Extend(t, log, e) /\ MarketOf[c] \in Market /\ IsOpen(chain, c)
  BY Disputed, OpenSeen DEF AddDisputeCrowdsourcerContribution
<1>4. \A x \in Market : ~Moves(log, x)
  BY DEF Moves, StartsRound, CrowdLog, MarketLog
<1> HIDE DEF found
<1>5. c \in DOMAIN found.crowdsourcers /\ Size[c] \in Nat /\ PayoutOf[c] \in Payout
  <2>1. Did(chain, "DisputeCrowdsourcerCreated", c)
    BY <1>3 DEF IsOpen, Did, In
  <2> QED
    BY <1>1, <2>1 DEF MarketAssumption
<1>6. KeepsRows(found, e)
  BY <1>1, <1>5, Contributes
<1>7. AllStay(found, e)
  BY <1>1, <1>3, <1>5, CrowdsourcerStays
<1> HIDE DEF log, e
<1>8. Unmoved(AdvanceTime(db, t), e)
  BY <1>6, <1>7, KeptIsUnmoved DEF KeepsRows, found
<1> QED
  BY <1>2, <1>3, <1>4, <1>8, UnmovedLands

LEMMA ContributionUnstands ==
  ASSUME MarketAssumption, RunAssumption, IInv, RInv, SInv, NEW c \in Crowdsourcer,
         RemoveDisputeCrowdsourcerContribution(c)
  PROVE  SInv'
<1> DEFINE s == SubSeq(chain, 1, Len(chain) - 1)
           b == Final(chain)
           log == CrowdLog("DisputeCrowdsourcerContribution", c)
           e == DisputeCrowdsourcerContributionRemoval(db, c, Size[c])
<1>1. Removing(log) /\ Retract(e)
  BY DEF RemoveDisputeCrowdsourcerContribution
<1>2. /\ s \in Seq(Block) /\ b \in Block /\ b.log = log /\ Follows(db, Append(s, b))
      /\ LegalAfter(s, log) /\ db \in Tables
      /\ \A x \in Crowdsourcer :
           Did(s, "DisputeCrowdsourcerCreated", x) => x \in DOMAIN db.crowdsourcers
  BY <1>1, Undoing
<1> HIDE DEF s, b
<1>3. \A x \in Market : ~Moves(log, x)
  BY DEF Moves, StartsRound, CrowdLog, MarketLog
<1>4. c \in DOMAIN db.crowdsourcers /\ Size[c] \in Nat
      /\ MarketOf[c] \in Market /\ PayoutOf[c] \in Payout
  <2>1. Did(s, "DisputeCrowdsourcerCreated", c)
    BY <1>2 DEF LegalAfter
  <2> QED
    BY <1>2, <2>1 DEF MarketAssumption
<1>5. db.crowdsourcers[c].staked = Size[c]
  <2>1. Did(Append(s, b), "DisputeCrowdsourcerContribution", c)
    BY <1>2, Grows
  <2> QED
    BY <1>2, <1>4, <2>1 DEF Follows, StakesFollow
<1>6. KeepsRows(db, e)
  BY <1>2, <1>4, <1>5, Uncontributes
<1>7. AllStay(db, e)
  BY <1>2, <1>4, CrowdsourcerStays
<1> HIDE DEF log, e
<1>8. Unmoved(db, e)
  BY <1>6, <1>7, KeptIsUnmoved DEF KeepsRows
<1> QED
  BY <1>1, <1>3, <1>8, UnmovedLeaves

LEMMA MarketDisavowedStands ==
  ASSUME MarketAssumption, RunAssumption, IInv, RInv, SInv, NEW t \in Times, NEW m \in Market,
         AddMarketParticipantsDisavowed(t, m)
  PROVE  SInv'
<1> DEFINE found == AdvanceTime(db, t)
           log == MarketLog("MarketParticipantsDisavowed", m)
           e == MarketParticipantsDisavowed(found, m)
<1>1. /\ found \in Tables
      /\ \A x \in Market : x \in DOMAIN found.markets <=> Was(chain, "MarketCreated", x)
  BY FoundTables
<1>2. log \in Logs
  BY LogsAreLogs DEF Kinds
<1>3. Mining(t) /\ Extend(t, log, e) /\ Created(m)
  BY DEF AddMarketParticipantsDisavowed
<1>4. \A x \in Market : ~Moves(log, x)
  BY DEF Moves, StartsRound, MarketLog
<1> HIDE DEF found
<1>5. m \in DOMAIN found.markets
  BY <1>1, <1>3, Seen
<1>6. PICK n \in Int : n = -1
  OBVIOUS
<1>7. e = DisavowalCounted(found, m, n, 1)
  <2>1. \A i \in Int : i - 1 = i + n
    BY <1>6
  <2>2. found.markets[m] \in MarketRow
    BY <1>1, <1>5, MarketRows
  <2>3. found.markets[m].needsDisavowal - 1 = found.markets[m].needsDisavowal + n
    BY <2>1, <2>2 DEF MarketRow
  <2> QED
    BY <2>3 DEF MarketParticipantsDisavowed, DisavowalCounted
<1>8. KeepsRest(found, e) /\ e.forked = found.forked /\ DOMAIN e.markets = DOMAIN found.markets
  BY <1>1, <1>5, <1>7, DisavowalCounts
<1>9. AllStay(found, e)
  <2>1. AllStay(found, DisavowalCounted(found, m, n, 1))
    BY <1>1, <1>5, DisavowalStays
  <2> QED
    BY <1>7, <2>1
<1> HIDE DEF log, e
<1>10. Unmoved(AdvanceTime(db, t), e)
  BY <1>8, <1>9, KeepsHolds DEF KeepsRest, Unmoved, found
<1> QED
  BY <1>2, <1>3, <1>4, <1>10, UnmovedLands

LEMMA MarketDisavowedUnstands ==
  ASSUME MarketAssumption, RunAssumption, IInv, RInv, SInv, NEW m \in Market,
         RemoveMarketParticipantsDisavowed(m)
  PROVE  SInv'
<1> DEFINE s == SubSeq(chain, 1, Len(chain) - 1)
           log == MarketLog("MarketParticipantsDisavowed", m)
           e == MarketParticipantsDisavowedRemoval(db, m)
<1>1. Removing(log) /\ Retract(e)
  BY DEF RemoveMarketParticipantsDisavowed
<1>2. /\ LegalAfter(s, log) /\ db \in Tables
      /\ \A x \in Market : Was(s, "MarketCreated", x) => x \in DOMAIN db.markets
  BY <1>1, Undoing
<1> HIDE DEF s
<1>3. \A x \in Market : ~Moves(log, x)
  BY DEF Moves, StartsRound, MarketLog
<1>4. m \in DOMAIN db.markets
  BY <1>2 DEF LegalAfter
<1>5. PICK k \in Int, n \in Int : k = -1 /\ n = 1
  OBVIOUS
<1>6. e = DisavowalCounted(db, m, n, k)
  BY <1>5 DEF MarketParticipantsDisavowedRemoval, DisavowalCounted
<1>7. KeepsRest(db, e) /\ e.forked = db.forked /\ DOMAIN e.markets = DOMAIN db.markets
  BY <1>2, <1>4, <1>6, DisavowalCounts
<1>8. AllStay(db, e)
  <2>1. AllStay(db, DisavowalCounted(db, m, n, k))
    BY <1>2, <1>4, DisavowalStays
  <2> QED
    BY <1>6, <2>1
<1> HIDE DEF log, e
<1>9. Unmoved(db, e)
  BY <1>7, <1>8, KeepsHolds DEF KeepsRest, Unmoved
<1> QED
  BY <1>1, <1>3, <1>9, UnmovedLeaves

LEMMA ParticipantDisavowedStands ==
  ASSUME MarketAssumption, RunAssumption, IInv, RInv, SInv, NEW t \in Times,
         NEW x \in Market \cup Crowdsourcer, AddReportingParticipantDisavowed(t, x)
  PROVE  SInv'
<1> DEFINE found == AdvanceTime(db, t)
           log == ParticipantLog(x)
           e == ReportingParticipantDisavowed(found, x, 1)
<1>1. found \in Tables /\ Follows(found, chain)
  BY FoundTables
<1>2. log \in Logs
  BY LogsAreLogs
<1>3. /\ Mining(t) /\ Extend(t, log, e) /\ Forking # {}
      /\ (x \in Forking \/ (x \in Crowdsourcer /\ Completed(x)))
  BY DEF AddReportingParticipantDisavowed
<1>4. \A y \in Market : ~Moves(log, y)
  BY DEF Moves, StartsRound, MarketLog, ParticipantLog
<1> HIDE DEF found
<1>5. x \in DOMAIN found.reports \cup DOMAIN found.crowdsourcers
  <2>1. \/ x \in Market /\ Was(chain, "UniverseForked", x)
        \/ x \in Crowdsourcer /\ Did(chain, "DisputeCrowdsourcerCompleted", x)
    BY <1>3, Seen
  <2>2. chain \in Seq(Block) /\ Sane(chain)
    BY WholeChain DEF IInv
  <2> QED
    BY <1>1, <2>1, <2>2, ParticipantHasRow
<1>6. KeepsAll(found, e)
  BY <1>1, <1>5, ParticipantDisavows
<1>7. AllStay(found, e)
  BY <1>1, ParticipantStays
<1> HIDE DEF log, e
<1>8. Unmoved(AdvanceTime(db, t), e)
  BY <1>6, <1>7, KeptIsUnmoved DEF KeepsAll, found
<1> QED
  BY <1>2, <1>3, <1>4, <1>8, UnmovedLands

LEMMA ParticipantDisavowedUnstands ==
  ASSUME MarketAssumption, RunAssumption, IInv, RInv, SInv, NEW x \in Market \cup Crowdsourcer,
         RemoveReportingParticipantDisavowed(x)
  PROVE  SInv'
<1> DEFINE s == SubSeq(chain, 1, Len(chain) - 1)
           b == Final(chain)
           log == ParticipantLog(x)
           e == ReportingParticipantDisavowed(db, x, 0)
<1>1. Removing(log) /\ Retract(e)
  BY DEF RemoveReportingParticipantDisavowed
<1>2. /\ s \in Seq(Block) /\ b \in Block /\ chain = Append(s, b) /\ Follows(db, chain)
      /\ LegalAfter(s, log) /\ db \in Tables
  BY <1>1, Undoing
<1> HIDE DEF s, b
<1>3. \A y \in Market : ~Moves(log, y)
  BY DEF Moves, StartsRound, MarketLog, ParticipantLog
<1>4. x \in DOMAIN db.reports \cup DOMAIN db.crowdsourcers
  <2>1. \/ x \in Market /\ Was(s, "UniverseForked", x)
        \/ x \in Crowdsourcer /\ Did(s, "DisputeCrowdsourcerCompleted", x)
    BY <1>2 DEF LegalAfter
  <2>2. \/ x \in Market /\ Was(chain, "UniverseForked", x)
        \/ x \in Crowdsourcer /\ Did(chain, "DisputeCrowdsourcerCompleted", x)
    BY <1>2, <2>1, Grows
  <2>3. chain \in Seq(Block) /\ Sane(chain)
    BY WholeChain DEF IInv
  <2> QED
    BY <1>2, <2>2, <2>3, ParticipantHasRow
<1>5. KeepsAll(db, e)
  BY <1>2, <1>4, ParticipantDisavows
<1>6. AllStay(db, e)
  BY <1>2, ParticipantStays
<1> HIDE DEF log, e
<1>7. Unmoved(db, e)
  BY <1>5, <1>6, KeptIsUnmoved DEF KeepsAll
<1> QED
  BY <1>1, <1>3, <1>7, UnmovedLeaves

-----------------------------------------------------------------------------
(* The window of a round, as a log finds it. *)

LEMMA RoundFound ==
  ASSUME MarketAssumption, RunAssumption, IInv, RInv, NEW t \in Times,
         NEW m \in Market, ReportedIn(chain, m)
  PROVE  LET found == AdvanceTime(db, t)
             w == RoundIn(chain, m)
         IN  /\ w \in Window /\ w[1] = HomeIn(chain, m) /\ Present(chain, w)
             /\ w \in DOMAIN found.windows /\ t \in Nat
             /\ Mining(t) /\ "time" \notin unwound => RightAt(found.windows[w], w, t)
<1> DEFINE found == AdvanceTime(db, t)
           w == RoundIn(chain, m)
<1>1. Follows(found, chain) /\ chain \in Seq(Block) /\ Sane(chain) /\ t \in Nat
  BY FoundTables, WholeChain DEF IInv
<1>2. w \in Window
  BY <1>1, RoundIsWindow
<1>3. w[1] = HomeIn(chain, m)
  BY DEF RoundIn, WindowAt
<1>4. Present(chain, w)
  <2>1. Len(chain) \in 0..Len(chain) /\ SubSeq(chain, 1, Len(chain)) = chain
    <3>1. Len(chain) \in Nat
      BY <1>1
    <3> QED
      BY <1>1, <3>1, WholePrefix
  <2>2. RoundsPresent(chain)
    BY <2>1 DEF RInv, Rounds
  <2> QED
    BY <2>2 DEF RoundsPresent
<1> HIDE DEF w
<1>5. w \in DOMAIN found.windows
  BY <1>1, <1>2, <1>4 DEF Follows, WindowsFollow, Present
<1>6. Mining(t) /\ "time" \notin unwound => RightAt(found.windows[w], w, t)
  BY <1>5, FoundRight
<1> QED
  BY <1>1, <1>2, <1>3, <1>4, <1>5, <1>6 DEF w

\* A window holds the time it is named after, and the next one comes after it.
LEMMA WindowHolds ==
  ASSUME MarketAssumption, NEW u, NEW t \in Nat
  PROVE  /\ t <= EndOf(WindowAt(u, t)) /\ t < StartOf(NextWindow(u, t))
         /\ t <= EndOf(NextWindow(u, t))
<1>1. PICK d \in Nat \ {0} : d = Duration
  BY DEF MarketAssumption
<1>2. PICK n \in Nat : n = t \div d
  BY <1>1
<1>3. t < (n + 1) * d
  BY <1>1, <1>2
<1>4. (t + d) \div d = n + 1
  BY <1>1, <1>2
<1>5. EndOf(WindowAt(u, t)) = (n + 1) * d /\ StartOf(NextWindow(u, t)) = (n + 1) * d
  BY <1>1, <1>2, <1>4 DEF EndOf, StartOf, WindowAt, NextWindow
<1>6. PICK k \in Nat : k = (n + 1) * d
  <2>1. (n + 1) * d \in Nat
    BY <1>1, <1>2
  <2> QED
    BY <2>1
<1>7. EndOf(NextWindow(u, t)) = k + d
  <2>1. (n + 1 + 1) * d = (n + 1) * d + d
    BY <1>1, <1>2
  <2> QED
    BY <1>1, <1>2, <1>4, <1>6, <2>1 DEF EndOf, WindowAt, NextWindow
<1> QED
  BY <1>1, <1>3, <1>5, <1>6, <1>7

LEMMA CrowdsourcerCreatedStands ==
  ASSUME MarketAssumption, RunAssumption, IInv, RInv, SInv, NEW t \in Times, NEW c \in Crowdsourcer,
         AddDisputeCrowdsourcerCreated(t, c)
  PROVE  SInv'
<1> DEFINE found == AdvanceTime(db, t)
           m == MarketOf[c]
           log == CrowdLog("DisputeCrowdsourcerCreated", c)
           e(w) == DisputeCrowdsourcerCreated(found, c, w)
<1>1. found \in Tables /\ t \in Nat
  BY FoundTables
<1>2. log \in Logs
  BY LogsAreLogs DEF CrowdKinds
<1>3. /\ Disputable(t, c) /\ (Current(found, HomeOf(m)) = {} => Throw)
      /\ \/ Current(found, HomeOf(m)) = {}
         \/ \E w \in Current(found, HomeOf(m)) : Extend(t, log, e(w))
  BY DEF AddDisputeCrowdsourcerCreated
<1>4. Mining(t) /\ m \in Market /\ Reported(m) /\ ReportedIn(chain, m) /\ InRound(m, t)
  BY <1>3, Disputed DEF Disputable
<1>5. \A x \in Market : ~Moves(log, x)
  BY DEF Moves, StartsRound, CrowdLog, MarketLog
<1>6. ASSUME Current(found, HomeOf(m)) = {} PROVE SInv'
  <2>1. ASSUME "time" \notin unwound PROVE FALSE
    <3> DEFINE w == RoundIn(chain, m)
    <3>1. w \in Window /\ w[1] = HomeIn(chain, m) /\ w \in DOMAIN found.windows /\ RightAt(found.windows[w], w, t)
      BY <1>4, <2>1, RoundFound
    <3>2. StartOf(w) < t /\ t < EndOf(w)
      BY <1>4, RoundSeen DEF InRound
    <3> HIDE DEF w
    <3>3. found.windows[w] = "CURRENT"
      BY <3>1, <3>2 DEF RightAt
    <3>4. w \in Current(found, HomeOf(m))
      BY <3>1, <3>3, HomeSeen DEF Current
    <3> QED
      BY <1>6, <3>4
  <2> QED
    BY <1>3, <1>6, <2>1, StatesThrow
<1>7. ASSUME NEW w \in Current(found, HomeOf(m)), Extend(t, log, e(w)) PROVE SInv'
  <2>1. w \in Window /\ PayoutOf[c] \in Payout
    BY <1>1, WindowRows DEF Current, MarketAssumption
  <2>2. PICK f : f = e(w)
    OBVIOUS
  <2>3. KeepsRows(found, f)
    BY <1>1, <2>1, <2>2, CrowdsourcerCreates
  <2>4. AllStay(found, f)
    BY <1>1, <1>4, <2>1, <2>2, CrowdsourcerStays
  <2>5. Unmoved(found, f)
    BY <2>3, <2>4, KeptIsUnmoved DEF KeepsRows
  <2>6. Extend(t, log, f)
    BY <1>7, <2>2
  <2> HIDE DEF log
  <2> QED
    BY <1>2, <1>4, <1>5, <2>5, <2>6, UnmovedLands
<1> QED
  BY <1>3, <1>6, <1>7

LEMMA CrowdsourcerCreatedUnstands ==
  ASSUME MarketAssumption, RunAssumption, IInv, RInv, SInv, NEW c \in Crowdsourcer,
         RemoveDisputeCrowdsourcerCreated(c)
  PROVE  SInv'
<1> DEFINE log == CrowdLog("DisputeCrowdsourcerCreated", c)
           e == DisputeCrowdsourcerCreatedRemoval(db, c)
<1>1. Removing(log) /\ Retract(e) /\ db \in Tables
  BY DEF RemoveDisputeCrowdsourcerCreated, IInv
<1>2. \A x \in Market : ~Moves(log, x)
  BY DEF Moves, StartsRound, CrowdLog, MarketLog
<1>3. KeepsRows(db, e)
  BY <1>1, CrowdsourcerUncreates
<1>4. MarketOf[c] \in Market /\ PayoutOf[c] \in Payout
  BY DEF MarketAssumption
<1>5. AllStay(db, e)
  BY <1>1, <1>4, CrowdsourcerStays
<1> HIDE DEF log, e
<1>6. Unmoved(db, e)
  BY <1>3, <1>5, KeptIsUnmoved DEF KeepsRows
<1> QED
  BY <1>1, <1>2, <1>6, UnmovedLeaves

LEMMA FeeWindowCreatedUnstands ==
  ASSUME MarketAssumption, RunAssumption, IInv, RInv, SInv, NEW w \in Windows, RemoveFeeWindowCreated(w)
  PROVE  SInv'
<1> DEFINE s == SubSeq(chain, 1, Len(chain) - 1)
           log == WindowLog(w)
           e == FeeWindowCreatedRemoval(db, w)
<1>1. Removing(log) /\ Retract(e)
  BY DEF RemoveFeeWindowCreated
<1>2. /\ s \in Seq(Block) /\ Sane(s) /\ LegalAfter(s, log) /\ db \in Tables /\ Rounds(s)
  BY <1>1, Undoing
<1>3. \A x \in Market : ~Moves(log, x)
  BY DEF Moves, StartsRound, WindowLog, MarketLog
<1>4. /\ KeepsMarkets(db, e)
      /\ \A v \in DOMAIN db.windows : v # w => v \in DOMAIN e.windows /\ e.windows[v] = db.windows[v]
  BY <1>2, WindowUncreates
<1>5. AllStay(db, e)
  BY <1>2, WindowRemovalStays
<1> HIDE DEF s
<1>6. ~Present(s, w)
  <2>1. w \in Window
    BY DEF RunAssumption, Window
  <2>2. log # NoLog
    BY DEF WindowLog, NoLog
  <2> QED
    BY <1>2, <2>1, <2>2 DEF LegalAfter, Present
<1>7. \A x \in Market : ReportedIn(s, x) => HoldsWindow(db, e, RoundIn(s, x))
  <2>1. Len(s) \in 0..Len(s) /\ SubSeq(s, 1, Len(s)) = s
    <3>1. Len(s) \in Nat
      BY <1>2
    <3> QED
      BY <1>2, <3>1, WholePrefix
  <2>2. RoundsPresent(s)
    BY <1>2, <2>1 DEF Rounds
  <2>3. \A x \in Market : ReportedIn(s, x) => RoundIn(s, x) # w
    BY <1>6, <2>2 DEF RoundsPresent
  <2> QED
    BY <1>4, <2>3 DEF HoldsWindow
<1> HIDE DEF log, e
<1>8. e.forked = db.forked /\ \A x : x \in DOMAIN e.markets => x \in DOMAIN db.markets
  BY <1>4 DEF KeepsMarkets
<1> QED
  BY <1>1, <1>3, <1>5, <1>7, <1>8, QuietLeaves DEF s

LEMMA FeeWindowCreatedStands ==
  ASSUME MarketAssumption, RunAssumption, IInv, RInv, SInv, NEW t \in Times, NEW w \in Windows,
         AddFeeWindowCreated(t, w)
  PROVE  SInv'
<1> DEFINE found == AdvanceTime(db, t)
           log == WindowLog(w)
           b == Added(t, log)
           e == FeeWindowCreated(found, w, t)
<1>1. /\ found \in Tables /\ Follows(found, chain) /\ t \in Nat
      /\ chain \in Seq(Block) /\ Sane(chain)
      /\ \A x \in Market : x \in DOMAIN found.markets <=> Was(chain, "MarketCreated", x)
  BY FoundTables, WholeChain DEF IInv
<1>2. log \in Logs /\ w \in Window
  BY LogsAreLogs DEF RunAssumption, Window
<1>3. /\ Mining(t) /\ Extend(t, log, e) /\ ~Present(chain, w)
      /\ w \in {WindowAt(w[1], t), WindowAt(w[1], t + Duration)}
  BY ExistsSeen DEF AddFeeWindowCreated
<1>4. \A x \in Market : ~Moves(log, x)
  BY DEF Moves, StartsRound, WindowLog, MarketLog
<1>5. IsFiniteSet(DOMAIN found.windows) /\ w \notin DOMAIN found.windows
  BY <1>1, <1>2, <1>3 DEF Follows, WindowsFollow, Present
<1>6. found.forked = db.forked
  BY FoundRows
<1>7. b \in Block /\ b.log = log
  BY <1>2, AddedBlock
<1> HIDE DEF found, b
<1>8. e.markets = found.markets /\ e.forked = found.forked
  <2> DEFINE opened == [found EXCEPT !.windows = With(@, w, "FUTURE")]
  <2>1. /\ e \in Tables /\ e.markets = found.markets /\ e.forked = found.forked
        /\ KeepsReports(found, e) /\ KeepsStakes(found, e)
        /\ opened.windows = With(found.windows, w, "FUTURE")
        /\ e.windows = NewWindows(opened, t)
    <3>1. found \in Tables /\ w \in Window /\ IsFiniteSet(DOMAIN found.windows)
      BY <1>1, <1>2, <1>5
    <3> QED
      BY <3>1, WindowCreates
  <2> QED
    BY <2>1
<1>9. t <= EndOf(w)
  BY <1>1, <1>3, WindowHolds DEF NextWindow
<1>10. ASSUME "time" \notin unwound, NEW all \in BOOLEAN, NEW m \in Market, Places(found, chain, all)
       PROVE  Lands(found, e, chain, b, m, all)
  <2>1. \A v \in DOMAIN found.windows : RightAt(found.windows[v], v, t)
    BY <1>3, <1>10, FoundRight DEF found
  <2>2. /\ \A v \in DOMAIN found.windows : v \in DOMAIN e.windows /\ e.windows[v] = found.windows[v]
        /\ \A x \in DOMAIN found.markets :
             found.markets[x].feeWindow # w \/ Beyond(found.states[x]) => e.states[x] = found.states[x]
    BY <1>1, <1>2, <1>5, <1>9, <2>1, OpeningStays
  <2>3. Place(found, chain, m, all)
    BY <1>10 DEF Places
  <2>4. CASE m \in DOMAIN found.markets /\ (ReportedIn(chain, m) \/ all)
    <3>1. found.markets[m].feeWindow # w \/ Beyond(found.states[m])
      BY <1>5, <2>3, <2>4 DEF Place, Rests, Fresh, Beyond
    <3>2. Stays(found, e, m)
      BY <1>8, <2>2, <2>4, <3>1 DEF Stays
    <3>3. \A v : HoldsWindow(found, e, v)
      BY <2>2 DEF HoldsWindow
    <3>4. m \in DOMAIN e.markets => m \in DOMAIN found.markets
      BY <1>8
    <3>5. ~Moves(b.log, m)
      BY <1>4, <1>7
    <3> QED
      BY <1>1, <1>7, <1>8, <2>3, <3>2, <3>3, <3>4, <3>5, OtherLands
  <2>5. CASE m \notin DOMAIN found.markets \/ (~ReportedIn(chain, m) /\ ~all)
    <3>1. ~Moves(b.log, m)
      BY <1>4, <1>7
    <3>2. /\ ReportedIn(Append(chain, b), m) <=> ReportedIn(chain, m)
          /\ Minded(Append(chain, b), m, all) <=> Minded(chain, m, all)
      BY <1>1, <1>7, <3>1, NotMoved
    <3>3. ReportedIn(chain, m) => Was(chain, "MarketCreated", m)
      BY <1>1 DEF Sane, SaneMarket
    <3>4. ~Minded(chain, m, all)
      BY <1>1, <2>5, <3>3 DEF Minded
    <3>5. Place(e, Append(chain, b), m, all)
      BY <1>8, <2>5, <3>2 DEF Place
    <3> QED
      BY <3>2, <3>4, <3>5 DEF Lands
  <2> QED
    BY <2>4, <2>5
<1> HIDE DEF log, e
<1>11. EveryMarketLands(t, log, e)
  BY <1>10 DEF found, b, EveryMarketLands
<1>12. /\ \A m \in Market : log = MarketLog("MarketFinalized", m) => ReportedIn(chain, m)
       /\ e.forked \subseteq {Genesis}
  BY <1>4, <1>6, <1>8 DEF Moves, SInv
<1> QED
  BY <1>2, <1>3, <1>11, <1>12, StatesAdded

-----------------------------------------------------------------------------
(* The logs that move one market. *)

\* The window of the round that a log begins is to come.
LEMMA WindowToCome ==
  ASSUME MarketAssumption, RunAssumption, IInv, NEW t \in Times, Mining(t), "time" \notin unwound,
         NEW u \in Universe, Present(chain, NextWindow(u, t))
  PROVE  LET found == AdvanceTime(db, t)
             w == NextWindow(u, t)
         IN  w \in DOMAIN found.windows /\ found.windows[w] = "FUTURE"
<1> DEFINE found == AdvanceTime(db, t)
           w == NextWindow(u, t)
<1>1. found \in Tables /\ Follows(found, chain) /\ t \in Nat
  BY FoundTables
<1>2. t + Duration \in Nat
  BY <1>1 DEF MarketAssumption
<1>3. w \in Window
  BY <1>2, WindowIsWindow DEF NextWindow
<1>4. t < StartOf(w) /\ t <= EndOf(w)
  BY <1>1, WindowHolds
<1> HIDE DEF w
<1>5. w \in DOMAIN found.windows
  BY <1>1, <1>3 DEF Follows, WindowsFollow, Present, w
<1>6. RightAt(found.windows[w], w, t)
  BY <1>5, FoundRight
<1> HIDE DEF found
<1>7. found.windows[w] \in {"FUTURE", "CURRENT", "PAST"}
  BY <1>1, <1>5, WindowRows
<1>8. PICK a \in Nat, z \in Nat : a = StartOf(w) /\ z = EndOf(w)
  BY <1>3, BoundsOfWindow
<1>9. ~(StartOf(w) < t) /\ ~(EndOf(w) < t)
  BY <1>1, <1>4, <1>8
<1>10. found.windows[w] = "FUTURE"
  BY <1>6, <1>7, <1>9 DEF RightAt
<1> QED
  BY <1>5, <1>10 DEF w, found

LEMMA RoundRests ==
  ASSUME MarketAssumption, RunAssumption, IInv, NEW t \in Times, NEW log \in Logs, Mining(t),
         "time" \notin unwound, NEW m \in Market, StartsRound(log, m), NEW u \in Universe,
         u = HomeIn(Append(chain, Added(t, log)), m), Present(chain, NextWindow(u, t)),
         NEW e, KeepsWindows(AdvanceTime(db, t), e),
         e.markets[m].feeWindow = NextWindow(u, t), e.markets[m].universe \notin e.forked
  PROVE  Rests(e, Append(chain, Added(t, log)), m)
<1> DEFINE found == AdvanceTime(db, t)
           b == Added(t, log)
           w == NextWindow(u, t)
<1>1. b \in Block /\ b.log = log /\ b.time = t /\ chain \in Seq(Block)
  BY AddedBlock DEF IInv
<1>2. w \in DOMAIN found.windows /\ found.windows[w] = "FUTURE"
  BY WindowToCome
<1> HIDE DEF b, found
<1>3. RoundIn(Append(chain, b), m) = WindowAt(HomeIn(Append(chain, b), m), t + Duration)
  BY <1>1, RoundBegins
<1>4. RoundIn(Append(chain, b), m) = w
  BY <1>3 DEF b, NextWindow
<1>5. e.windows = found.windows
  BY DEF KeepsWindows, found
<1> HIDE DEF w
<1>6. e.markets[m].feeWindow = w
  BY DEF w
<1>7. Rests(e, Append(chain, b), m)
  BY <1>2, <1>4, <1>5, <1>6 DEF Rests
<1> QED
  BY <1>7 DEF b

\* What is known of the flags of a market that a log finds.
LEMMA FoundFlags ==
  ASSUME MarketAssumption, RunAssumption, IInv, SInv, NEW t \in Times, NEW m \in Market,
         Was(chain, "MarketCreated", m)
  PROVE  LET found == AdvanceTime(db, t)
         IN  /\ m \in DOMAIN found.markets /\ found.markets[m].universe = HomeIn(chain, m)
             /\ HomeIn(chain, m) \in Universe /\ found.forked \subseteq {Genesis}
             /\ Genesis \in found.forked <=> ForkedIn(chain)
             /\ found.states[m] \in Seq(ReportingState)
<1> DEFINE found == AdvanceTime(db, t)
<1>1. /\ found \in Tables /\ Follows(found, chain)
      /\ \A x \in Market : x \in DOMAIN found.markets <=> Was(chain, "MarketCreated", x)
  BY FoundTables
<1>2. found.forked \subseteq {Genesis}
  BY FoundRows DEF SInv
<1> HIDE DEF found
<1>3. m \in DOMAIN found.markets
  BY <1>1
<1>4. found.markets[m].universe = HomeIn(chain, m) /\ (Genesis \in found.forked <=> ForkedIn(chain))
  BY <1>1, <1>3 DEF Follows, FlagsFollow, Owes
<1>5. found.states[m] \in Seq(ReportingState)
  BY <1>1, TablesElim
<1>6. HomeIn(chain, m) \in Universe
  BY DEF HomeIn, MarketAssumption
<1> QED
  BY <1>2, <1>3, <1>4, <1>5, <1>6 DEF found

LEMMA AppendTops ==
  ASSUME NEW q \in Seq(ReportingState), NEW a \in ReportingState
  PROVE  /\ Append(q, a) # <<>> /\ \A x : Tops(Append(q, a), x) <=> x = a
         /\ SubSeq(Append(q, a), 1, Len(Append(q, a)) - 1) = q
<1>1. Append(q, a) # <<>> /\ \A x : Tops(Append(q, a), x) <=> x = a
  BY DEF Tops
<1>2. Len(Append(q, a)) - 1 = Len(q)
  OBVIOUS
<1>3. SubSeq(Append(q, a), 1, Len(q)) = q
  OBVIOUS
<1> QED
  BY <1>1, <1>2, <1>3

\* The same of the stack of states of a market.
LEMMA PushTops ==
  ASSUME NEW d, NEW e, NEW m, NEW a \in ReportingState, d.states[m] \in Seq(ReportingState),
         e.states[m] = Append(d.states[m], a)
  PROVE  e.states[m] # <<>> /\ \A x : Tops(e.states[m], x) <=> x = a
<1>1. PICK q \in Seq(ReportingState) : q = d.states[m]
  OBVIOUS
<1>2. Append(q, a) # <<>> /\ \A x : Tops(Append(q, a), x) <=> x = a
  BY <1>1, AppendTops
<1> QED
  BY <1>1, <1>2

LEMMA CanRollBackTop ==
  ASSUME NEW d, NEW m, NEW state
  PROVE  CanRollBack(d, m, state) <=> Tops(d.states[m], state)
BY DEF CanRollBack, Tops, StateOf, Final

LEMMA FindsLast ==
  ASSUME MarketAssumption, IInv, RInv, SInv, NEW log, Removing(log),
         "time" \notin unwound, "UniverseForked" \notin unwound,
         NEW all \in BOOLEAN, all => "InitialReportSubmitted" \notin unwound
  PROVE  Finds(SubSeq(chain, 1, Len(chain) - 1), Final(chain), all)
<1> DEFINE s == SubSeq(chain, 1, Len(chain) - 1)
           b == Final(chain)
<1>1. s \in Seq(Block) /\ b \in Block /\ chain = Append(s, b)
  BY Undoing
<1>2. Stand(db, chain, all)
  BY StandMeans
<1> HIDE DEF s, b
<1>3. Layers(db.states, Append(s, b), all) /\ Places(db, Append(s, b), all)
  BY <1>1, <1>2 DEF Stand
<1>4. Finds(s, b, all)
  BY <1>1, <1>3, LayersRetracted DEF Finds
<1> QED
  BY <1>4 DEF s, b

LEMMA MarketCreatedStands ==
  ASSUME MarketAssumption, RunAssumption, IInv, RInv, SInv, NEW t \in Times, NEW m \in Market,
         AddMarketCreated(t, m)
  PROVE  SInv'
<1> DEFINE found == AdvanceTime(db, t)
           log == MarketLog("MarketCreated", m)
           b == Added(t, log)
           e == MarketCreated(found, m)
<1>1. found \in Tables /\ chain \in Seq(Block) /\ Sane(chain)
  BY FoundTables, WholeChain DEF IInv
<1>2. log \in Logs
  BY LogsAreLogs DEF Kinds
<1>3. Mining(t) /\ Extend(t, log, e) /\ ~Was(chain, "MarketCreated", m)
  BY Seen DEF AddMarketCreated
<1>4. b \in Block /\ b.log = log
  BY <1>2, AddedBlock
<1>5. /\ MovesOnly(log, m)
      /\ Moves(log, m) /\ ~Completes(log, m) /\ ~Reports(log, m)
      /\ log # MarketLog("MarketFinalized", m) /\ log # MarketLog("MarketMigrated", m)
  BY DEF Moves, StartsRound, MarketLog, Completes, Reports, MovesOnly
<1> HIDE DEF found, b
<1>6. /\ KeepsRest(found, e) /\ e.forked = found.forked
      /\ DOMAIN e.markets = DOMAIN found.markets \cup {m}
  BY <1>1, MarketCreates
<1>7. /\ Pushes(found, e, m, "PRE_REPORTING") /\ m \in DOMAIN e.markets
      /\ e.markets[m].feeWindow = None
  BY <1>1, CreationPushes
<1>8. found.states[m] \in Seq(ReportingState)
  BY <1>1, TablesElim
<1> HIDE DEF e
<1>9. /\ e.states[m] # <<>>
      /\ \A state : Tops(e.states[m], state) <=> state = "PRE_REPORTING"
  <2>1. "PRE_REPORTING" \in ReportingState /\ e.states[m] = Append(found.states[m], "PRE_REPORTING")
    BY <1>7 DEF ReportingState, Pushes
  <2> QED
    BY <1>8, <2>1, PushTops
<1>10. ASSUME NEW all \in BOOLEAN PROVE Lands(found, e, chain, b, m, all)
  <2>1. Pushed(e.states[m], found.states[m], b.log, ForkedIn(chain), m)
    BY <1>4, <1>5 DEF Pushed
  <2>2. ~ReportedIn(Append(chain, b), m)
    <3>1. ~ReportedIn(chain, m)
      BY <1>1, <1>3 DEF Sane, SaneMarket
    <3>2. ~(b.log.kind = "InitialReportSubmitted" /\ b.log.market = m)
      BY <1>4, <1>5 DEF Reports
    <3> QED
      BY <1>1, <1>4, <3>1, <3>2, ReportedAppended
  <2>3. Fresh(e, Append(chain, b), m)
    BY <1>7, <1>9 DEF Fresh, Calm, Waiting
  <2>4. Place(e, Append(chain, b), m, all)
    BY <1>9, <2>2, <2>3 DEF Place
  <2> QED
    BY <2>1, <2>4 DEF Lands
<1>11. Holds(found, e) /\ OthersStay(found, e, m)
       /\ NoneNewBut(found, e, m)
  BY <1>6, <1>7, KeepsHolds DEF KeepsRest, Pushes, NoneNewBut
<1>12. log = MarketLog("MarketFinalized", m) => ReportedIn(chain, m)
  BY <1>5
<1> HIDE DEF log
<1>13. MarketLands(t, log, e, m)
  BY <1>10 DEF found, b, MarketLands
<1> QED
  BY <1>2, <1>3, <1>5, <1>11, <1>12, <1>13, MoveLands DEF found

LEMMA MarketCreatedUnstands ==
  ASSUME MarketAssumption, RunAssumption, IInv, RInv, SInv, NEW m \in Market, RemoveMarketCreated(m)
  PROVE  SInv'
<1> DEFINE s == SubSeq(chain, 1, Len(chain) - 1)
           b == Final(chain)
           log == MarketLog("MarketCreated", m)
           e == MarketCreatedRemoval(db, m)
<1>1. Removing(log) /\ Retract(e)
  BY DEF RemoveMarketCreated
<1>2. s \in Seq(Block) /\ Sane(s) /\ LegalAfter(s, log) /\ db \in Tables
  BY <1>1, Undoing
<1>3. MovesOnly(log, m)
  BY DEF Moves, StartsRound, MarketLog, MovesOnly
<1>4. /\ KeepsRest(db, e) /\ e.forked = db.forked /\ DOMAIN e.markets = DOMAIN db.markets \ {m}
  BY <1>2, MarketUncreates
<1>5. OthersStay(db, e, m)
  BY <1>2, CreationRemovalStays
<1> HIDE DEF s, b
<1>6. \A all : Leaves(e, s, b, m, all)
  <2>1. log # NoLog
    BY DEF MarketLog, NoLog
  <2>2. ~Was(s, "MarketCreated", m)
    BY <1>2, <2>1 DEF LegalAfter, Was
  <2>3. ~ReportedIn(s, m)
    BY <1>2, <2>2 DEF Sane, SaneMarket
  <2>4. \A all : Place(e, s, m, all)
    BY <1>4 DEF Place
  <2> QED
    BY <2>2, <2>3, <2>4 DEF Leaves, Minded
<1> HIDE DEF log, e
<1>7. Holds(db, e) /\ NoneNewBut(db, e, m)
  BY <1>4, KeepsHolds DEF KeepsRest, NoneNewBut
<1>8. MarketLeaves(log, e, m)
  BY <1>6 DEF s, b, MarketLeaves
<1>9. Removing(log) /\ Retract(e)
  BY <1>1
<1> QED
  BY <1>3, <1>5, <1>7, <1>8, <1>9, MoveLeaves

LEMMA ReportStands ==
  ASSUME MarketAssumption, RunAssumption, IInv, RInv, SInv, NEW t \in Times, NEW m \in Market,
         NEW p \in Payout, AddInitialReportSubmitted(t, m, p)
  PROVE  SInv'
<1> DEFINE found == AdvanceTime(db, t)
           log == ReportLog(m, p)
           b == Added(t, log)
           e == InitialReportSubmitted(found, m, p, t)
           u == found.markets[m].universe
           state == IF u \in found.forked THEN "AWAITING_FORK_MIGRATION" ELSE Waiting
<1>1. /\ found \in Tables /\ Follows(found, chain) /\ t \in Nat /\ chain \in Seq(Block)
  BY FoundTables DEF IInv
<1>2. log \in Logs
  BY LogsAreLogs
<1>3. /\ Mining(t) /\ Extend(t, log, e) /\ Was(chain, "MarketCreated", m)
      /\ Present(chain, NextWindow(HomeIn(chain, m), t))
  BY Seen, HomeSeen, ExistsSeen DEF AddInitialReportSubmitted, NextWindowExists, NextWindow
<1>4. b \in Block /\ b.log = log
  BY <1>2, AddedBlock
<1>5. /\ MovesOnly(log, m)
      /\ Moves(log, m) /\ StartsRound(log, m) /\ ~Completes(log, m) /\ Reports(log, m)
      /\ log # MarketLog("MarketFinalized", m) /\ log # MarketLog("MarketMigrated", m)
  BY DEF Moves, StartsRound, MarketLog, Completes, Reports, ReportLog, MovesOnly
<1>6. /\ m \in DOMAIN found.markets /\ u = HomeIn(chain, m) /\ u \in Universe
      /\ found.forked \subseteq {Genesis} /\ (Genesis \in found.forked <=> ForkedIn(chain))
      /\ found.states[m] \in Seq(ReportingState)
  BY <1>3, FoundFlags
<1>7. IsFiniteSet(DOMAIN found.crowdsourcers)
  BY <1>1 DEF Follows, StakesFollow
<1> HIDE DEF found, b
<1>8. Restarts(found, e, m, state, NextWindow(u, t))
  BY <1>1, <1>6, <1>7, ReportRestarts
<1>9. KeepsMarkets(found, e) /\ KeepsWindows(found, e)
  BY <1>1, <1>6, <1>7, ReportSubmits
<1> HIDE DEF e, state, u
<1>10. state \in ReportingState /\ (state = Waiting <=> u \notin found.forked)
  BY DEF state, ReportingState, Waiting
<1>11. /\ e.states[m] # <<>> /\ e.states[m] = Append(found.states[m], state)
       /\ \A x : Tops(e.states[m], x) <=> x = state
  <2>1. e.states[m] = Append(found.states[m], state)
    BY <1>8 DEF Restarts, Pushes
  <2>2. e.states[m] # <<>> /\ \A x : Tops(e.states[m], x) <=> x = state
    BY <1>6, <1>10, <2>1, PushTops
  <2> QED
    BY <2>1, <2>2
<1>12. HomeIn(Append(chain, b), m) = u
  <2>1. Was(Append(chain, b), "MarketMigrated", m) <=> Was(chain, "MarketMigrated", m)
    BY <1>1, <1>4, <1>5, Grows
  <2> QED
    BY <1>6, <2>1 DEF HomeIn
<1>13. ReportedIn(Append(chain, b), m)
  BY <1>1, <1>4, <1>5, ReportedAppended DEF Reports
<1>14. e.markets[m].universe = u /\ e.forked = found.forked
  BY <1>6, <1>9 DEF KeepsMarkets, u
<1> HIDE DEF log
<1>15. ASSUME NEW all \in BOOLEAN, "time" \notin unwound PROVE Lands(found, e, chain, b, m, all)
  <2>1. ForkedIn(chain) \/ e.states[m] = Append(found.states[m], Waiting)
    BY <1>6, <1>10, <1>11
  <2>2. Pushed(e.states[m], found.states[m], b.log, ForkedIn(chain), m)
    BY <1>4, <1>5, <2>1 DEF Pushed
  <2>3. ASSUME u \notin found.forked PROVE Rests(e, Append(chain, b), m)
    <3>1. KeepsWindows(AdvanceTime(db, t), e)
      BY <1>9 DEF found
    <3>2. u = HomeIn(Append(chain, Added(t, log)), m) /\ u \in Universe /\ Present(chain, NextWindow(u, t))
      BY <1>3, <1>6, <1>12 DEF b
    <3>3. e.markets[m].feeWindow = NextWindow(u, t) /\ e.markets[m].universe \notin e.forked
      BY <1>8, <1>14, <2>3 DEF Restarts
    <3>4. Rests(e, Append(chain, Added(t, log)), m)
      BY <1>2, <1>3, <1>5, <1>15, <3>1, <3>2, <3>3, RoundRests
    <3> QED
      BY <3>4 DEF b
  <2>4. Place(e, Append(chain, b), m, all)
    BY <1>10, <1>11, <1>13, <2>3 DEF Place
  <2> QED
    BY <2>2, <2>4 DEF Lands
<1>16. Holds(found, e) /\ OthersStay(found, e, m)
       /\ NoneNewBut(found, e, m)
  BY <1>8, <1>9, KeepsHolds DEF KeepsMarkets, Restarts, Pushes, NoneNewBut
<1>17. log = MarketLog("MarketFinalized", m) => ReportedIn(chain, m)
  BY <1>5
<1>18. MarketLands(t, log, e, m)
  BY <1>15 DEF found, b, MarketLands
<1> QED
  BY <1>2, <1>3, <1>5, <1>16, <1>17, <1>18, MoveLands DEF found

LEMMA ReportUnstands ==
  ASSUME MarketAssumption, RunAssumption, IInv, RInv, SInv, NEW m \in Market, NEW p \in Payout,
         RemoveInitialReportSubmitted(m, p)
  PROVE  SInv'
<1> DEFINE s == SubSeq(chain, 1, Len(chain) - 1)
           b == Final(chain)
           log == ReportLog(m, p)
           e == InitialReportSubmittedRemoval(db, m, head)
<1>1. /\ Removing(log) /\ (CanUndoReport(db, m) => Retract(e)) /\ (~CanUndoReport(db, m) => Throw)
  BY DEF RemoveInitialReportSubmitted
<1>2. /\ s \in Seq(Block) /\ b \in Block /\ chain = Append(s, b) /\ b.log = log
      /\ LegalAfter(s, log) /\ db \in Tables /\ head \in Nat
      /\ \A x \in Market : Was(s, "MarketCreated", x) => x \in DOMAIN db.markets
  BY <1>1, Undoing
<1>3. /\ MovesOnly(log, m)
      /\ Reports(log, m) /\ log.kind = "InitialReportSubmitted"
  BY DEF Moves, StartsRound, MarketLog, Reports, ReportLog, MovesOnly
<1>4. b.before.states[m] \in Seq(ReportingState)
  <2>1. b.before \in Tables
    BY <1>2 DEF Block
  <2> QED
    BY <2>1, TablesElim
<1>5. Was(s, "MarketCreated", m) /\ ~ReportedIn(s, m)
  BY <1>2 DEF LegalAfter
<1>6. ASSUME ~CanUndoReport(db, m) PROVE SInv'
  <2>1. ASSUME "time" \notin unwound, "UniverseForked" \notin unwound PROVE Forking # {}
    <3>1. Finds(s, b, FALSE)
      BY <1>1, <2>1, FindsLast
    <3> HIDE DEF s, b
    <3>2. ReportedIn(Append(s, b), m)
      BY <1>2, <1>3, ReportedAppended DEF Reports
    <3>3. Pushed(db.states[m], b.before.states[m], b.log, ForkedIn(s), m)
      BY <3>1, <3>2, SMTT(20) DEF Finds, Topped, Minded
    <3>4. ForkedIn(s) \/ db.states[m] = Append(b.before.states[m], Waiting)
      BY <1>2, <1>3, <3>3 DEF Pushed
    <3>5. ~Tops(db.states[m], Waiting)
      BY <1>6, CanRollBackTop DEF CanUndoReport, Waiting
    <3>6. Tops(Append(b.before.states[m], Waiting), Waiting)
      <4>1. Waiting \in ReportingState
        BY DEF Waiting, ReportingState
      <4> QED
        BY <1>4, <4>1, AppendTops
    <3>7. ForkedIn(s)
      BY <3>4, <3>5, <3>6
    <3>8. ForkedIn(chain)
      BY <1>2, <3>7, Grows
    <3> QED
      BY <3>8, Seen
  <2>2. Throw /\ Final(chain).log.kind = "InitialReportSubmitted"
    BY <1>1, <1>2, <1>3, <1>6
  <2> QED
    BY <2>1, <2>2, StatesThrow
<1>7. ASSUME CanUndoReport(db, m) PROVE SInv'
  <2>1. m \in DOMAIN db.markets
    BY <1>2, <1>5
  <2>2. Pops(db, e, m)
    BY <1>2, <2>1, ReportPops
  <2>3. KeepsMarkets(db, e) /\ KeepsWindows(db, e)
    BY <1>2, <2>1, ReportUnsubmits
  <2> HIDE DEF s, b, e
  <2>4. Leaves(e, s, b, m, FALSE)
    BY <1>5 DEF Leaves, Minded, Place
  <2>5. Holds(db, e) /\ OthersStay(db, e, m)
        /\ NoneNewBut(db, e, m)
    BY <2>2, <2>3, KeepsHolds DEF KeepsMarkets, Pops, NoneNewBut
  <2> HIDE DEF log
  <2>6. MarketLeaves(log, e, m)
    BY <1>3, <2>4 DEF s, b, MarketLeaves
  <2>7. Retract(e) /\ Removing(log)
    BY <1>1, <1>7
  <2> QED
    BY <1>3, <2>5, <2>6, <2>7, MoveLeaves
<1> QED
  BY <1>6, <1>7

-----------------------------------------------------------------------------
(* Completions, finalizations, migrations and the fork. *)

\* A market whose round is under way, or over, does not wait for it any more.
LEMMA RoundRuns ==
  ASSUME MarketAssumption, RunAssumption, IInv, RInv, NEW t \in Times, Mining(t),
         "time" \notin unwound, NEW m \in Market, ReportedIn(chain, m),
         InRound(m, t) \/ RoundOver(m, t), m \in DOMAIN AdvanceTime(db, t).markets,
         NEW all, Place(AdvanceTime(db, t), chain, m, all)
  PROVE  Beyond(AdvanceTime(db, t).states[m])
<1> DEFINE found == AdvanceTime(db, t)
           w == RoundIn(chain, m)
<1>1. w \in Window /\ t \in Nat /\ RightAt(found.windows[w], w, t)
  BY RoundFound
<1>2. Reported(m)
  BY Seen
<1>3. (StartOf(w) < t /\ t < EndOf(w)) \/ t > EndOf(w)
  BY <1>2, RoundSeen DEF InRound, RoundOver
<1>4. StartOf(w) \in Nat /\ EndOf(w) \in Nat
  BY <1>1, BoundsOfWindow
<1> HIDE DEF w, found
<1>5. found.windows[w] # "FUTURE"
  BY <1>1, <1>3, <1>4 DEF RightAt
<1>6. ~Rests(found, chain, m)
  BY <1>5 DEF Rests, w
<1>7. Place(found, chain, m, all) /\ m \in DOMAIN found.markets
  BY DEF found
<1>8. Beyond(found.states[m])
  BY <1>6, <1>7 DEF Place, Beyond
<1> QED
  BY <1>8 DEF found

\* A market is out of the forked universe when its contract is.
LEMMA OutOfTheFork ==
  ASSUME MarketAssumption, RunAssumption, IInv, SInv, NEW t \in Times, NEW m \in Market,
         Was(chain, "MarketCreated", m)
  PROVE  AdvanceTime(db, t).markets[m].universe \in AdvanceTime(db, t).forked <=> InForked(m)
<1> DEFINE found == AdvanceTime(db, t)
<1>1. /\ found.markets[m].universe = HomeIn(chain, m) /\ found.forked \subseteq {Genesis}
      /\ (Genesis \in found.forked <=> ForkedIn(chain))
  BY FoundFlags
<1> HIDE DEF found
<1>2. found.markets[m].universe \in found.forked <=> InForked(m)
  BY <1>1, Seen DEF InForked, HomeIn, MarketAssumption
<1> QED
  BY <1>2 DEF found

LEMMA CompletedStands ==
  ASSUME MarketAssumption, RunAssumption, IInv, RInv, SInv, NEW t \in Times, NEW c \in Crowdsourcer,
         AddDisputeCrowdsourcerCompleted(t, c)
  PROVE  SInv'
<1> DEFINE found == AdvanceTime(db, t)
           m == MarketOf[c]
           log == CrowdLog("DisputeCrowdsourcerCompleted", c)
           b == Added(t, log)
           e == DisputeCrowdsourcerCompleted(found, c, t)
           u == found.markets[m].universe
<1>1. /\ found \in Tables /\ Follows(found, chain) /\ t \in Nat /\ chain \in Seq(Block) /\ Sane(chain)
  BY FoundTables, WholeChain DEF IInv
<1>2. log \in Logs
  BY LogsAreLogs DEF CrowdKinds
<1>3. /\ Disputable(t, c) /\ Extend(t, log, e) /\ ThisRound("DisputeCrowdsourcerContribution", c)
      /\ Present(chain, NextWindow(HomeIn(chain, m), t))
  BY HomeSeen, ExistsSeen DEF AddDisputeCrowdsourcerCompleted, NextWindowExists, NextWindow
<1>4. /\ Mining(t) /\ m \in Market /\ Reported(m) /\ ReportedIn(chain, m) /\ InRound(m, t)
      /\ ~InForked(m)
  BY <1>3, Disputed DEF Disputable
<1>5. b \in Block /\ b.log = log
  BY <1>2, AddedBlock
<1>6. /\ MovesOnly(log, m)
      /\ StartsRound(log, m) /\ Completes(log, m) /\ ~Reports(log, m)
      /\ log # MarketLog("MarketFinalized", m) /\ log # MarketLog("MarketMigrated", m)
  BY DEF Moves, StartsRound, MarketLog, Completes, Reports, CrowdLog, MovesOnly
<1>7. Was(chain, "MarketCreated", m)
  BY <1>1, <1>4 DEF Sane, SaneMarket
<1>8. /\ m \in DOMAIN found.markets /\ u = HomeIn(chain, m) /\ u \in Universe
      /\ found.states[m] \in Seq(ReportingState)
  BY <1>4, <1>7, FoundFlags
<1>9. u \notin found.forked
  BY <1>4, <1>7, OutOfTheFork
<1>10. c \in DOMAIN found.crowdsourcers /\ IsFiniteSet(DOMAIN found.crowdsourcers)
  <2>1. Did(chain, "DisputeCrowdsourcerContribution", c)
    BY <1>3, <1>4, RoundIsOnChain
  <2>2. Did(chain, "DisputeCrowdsourcerCreated", c)
    BY <1>1, <2>1 DEF Sane, SaneCrowdsourcer
  <2> QED
    BY <1>1, <2>2 DEF Follows, StakesFollow
<1> HIDE DEF found, b
<1>11. Restarts(found, e, m, Waiting, NextWindow(u, t))
  BY <1>1, <1>8, <1>10, CompletionRestarts
<1>12. KeepsMarkets(found, e) /\ KeepsWindows(found, e)
  BY <1>1, <1>8, <1>10, CrowdsourcerCompletes DEF KeepsAll
<1> HIDE DEF e, u, m
<1>13. /\ e.states[m] # <<>> /\ e.states[m] = Append(found.states[m], Waiting)
       /\ \A x : Tops(e.states[m], x) <=> x = Waiting
  <2>1. e.states[m] = Append(found.states[m], Waiting)
    BY <1>11 DEF Restarts, Pushes
  <2>2. Waiting \in ReportingState
    BY DEF Waiting, ReportingState
  <2>3. e.states[m] # <<>> /\ \A x : Tops(e.states[m], x) <=> x = Waiting
    BY <1>8, <2>1, <2>2, PushTops
  <2> QED
    BY <2>1, <2>3
<1>14. HomeIn(Append(chain, b), m) = u
  <2>1. Was(Append(chain, b), "MarketMigrated", m) <=> Was(chain, "MarketMigrated", m)
    BY <1>1, <1>5, <1>6, Grows
  <2> QED
    BY <1>8, <2>1 DEF HomeIn
<1>15. ReportedIn(Append(chain, b), m)
  BY <1>1, <1>4, <1>5, Grows
<1>16. e.markets[m].universe = u /\ e.forked = found.forked
  BY <1>8, <1>12 DEF KeepsMarkets, u
<1> HIDE DEF log
<1>17. ASSUME NEW all \in BOOLEAN, "time" \notin unwound, Place(found, chain, m, all)
       PROVE  Lands(found, e, chain, b, m, all)
  <2>1. Beyond(found.states[m])
    BY <1>1, <1>4, <1>8, <1>17, RoundRuns DEF found
  <2>2. Pushed(e.states[m], found.states[m], b.log, ForkedIn(chain), m)
    BY <1>5, <1>6, <1>13, <2>1 DEF Pushed, Moves
  <2>3. Rests(e, Append(chain, b), m)
    <3>1. KeepsWindows(AdvanceTime(db, t), e)
      BY <1>12 DEF found
    <3>2. u = HomeIn(Append(chain, Added(t, log)), m) /\ u \in Universe /\ Present(chain, NextWindow(u, t))
      BY <1>3, <1>8, <1>14 DEF b, m
    <3>3. e.markets[m].feeWindow = NextWindow(u, t) /\ e.markets[m].universe \notin e.forked
      BY <1>9, <1>11, <1>16 DEF Restarts
    <3>4. Rests(e, Append(chain, Added(t, log)), m)
      BY <1>2, <1>4, <1>6, <1>17, <3>1, <3>2, <3>3, RoundRests
    <3> QED
      BY <3>4 DEF b
  <2>4. Place(e, Append(chain, b), m, all)
    BY <1>13, <1>15, <2>3 DEF Place
  <2> QED
    BY <2>2, <2>4 DEF Lands
<1>18. Holds(found, e) /\ OthersStay(found, e, m)
       /\ NoneNewBut(found, e, m)
  BY <1>11, <1>12, KeepsHolds DEF KeepsMarkets, Restarts, Pushes, NoneNewBut
<1>19. Extend(t, log, e) /\ log \in Logs
  BY <1>2, <1>3
<1>20. MarketLands(t, log, e, m)
  BY <1>17 DEF found, b, MarketLands
<1> QED
  BY <1>4, <1>6, <1>18, <1>19, <1>20, MoveLands DEF found

LEMMA FinalizedStands ==
  ASSUME MarketAssumption, RunAssumption, IInv, RInv, SInv, NEW t \in Times, NEW m \in Market,
         AddMarketFinalized(t, m)
  PROVE  SInv'
<1> DEFINE found == AdvanceTime(db, t)
           log == MarketLog("MarketFinalized", m)
           b == Added(t, log)
           e == MarketFinalized(found, m)
<1>1. /\ found \in Tables /\ Follows(found, chain) /\ chain \in Seq(Block) /\ Sane(chain)
  BY FoundTables, WholeChain DEF IInv
<1>2. log \in Logs
  BY LogsAreLogs DEF Kinds
<1>3. /\ Mining(t) /\ Extend(t, log, e)
      /\ m \in Forking \/ (Reported(m) /\ RoundOver(m, t))
  BY DEF AddMarketFinalized
<1>4. ReportedIn(chain, m) /\ Was(chain, "MarketCreated", m)
  BY <1>1, <1>3, Seen DEF Sane, SaneMarket
<1>5. b \in Block /\ b.log = log
  BY <1>2, AddedBlock
<1>6. /\ MovesOnly(log, m)
      /\ ~Completes(log, m) /\ ~Reports(log, m) /\ Moves(log, m)
      /\ log # MarketLog("MarketMigrated", m)
  BY DEF Moves, StartsRound, MarketLog, Completes, Reports, MovesOnly
<1>7. m \in DOMAIN found.markets /\ found.states[m] \in Seq(ReportingState)
  BY <1>4, FoundFlags
<1>8. m \in Forking => found.markets[m].universe \in found.forked
  <2>1. m \in Forking => InForked(m)
    BY <1>1, Seen DEF Sane, SaneMarket, InForked
  <2> QED
    BY <1>4, <2>1, OutOfTheFork
<1> HIDE DEF found, b
<1>9. Pushes(found, e, m, "FINALIZED")
  BY <1>1, <1>7, FinalizationPushes
<1>10. KeepsRest(found, e) /\ e.forked = found.forked /\ DOMAIN e.markets = DOMAIN found.markets
  BY <1>1, <1>7, MarketFinalizes
<1> HIDE DEF e
<1>11. /\ e.states[m] # <<>> /\ e.states[m] = Append(found.states[m], "FINALIZED")
       /\ \A x : Tops(e.states[m], x) <=> x = "FINALIZED"
  <2>1. e.states[m] = Append(found.states[m], "FINALIZED")
    BY <1>9 DEF Pushes
  <2>2. "FINALIZED" \in ReportingState
    BY DEF ReportingState
  <2>3. e.states[m] # <<>> /\ \A x : Tops(e.states[m], x) <=> x = "FINALIZED"
    BY <1>7, <2>1, <2>2, PushTops
  <2> QED
    BY <2>1, <2>3
<1>12. ReportedIn(Append(chain, b), m)
  BY <1>1, <1>4, <1>5, Grows
<1>13. ASSUME NEW all \in BOOLEAN, "time" \notin unwound, Place(found, chain, m, all)
       PROVE  Lands(found, e, chain, b, m, all)
  <2>1. Beyond(found.states[m])
    <3>1. CASE m \in Forking
      <4>1. ~Rests(found, chain, m)
        BY <1>8, <3>1 DEF Rests
      <4> QED
        BY <1>4, <1>7, <1>13, <4>1 DEF Place, Beyond
    <3>2. CASE RoundOver(m, t)
      BY <1>3, <1>4, <1>7, <1>13, <3>2, RoundRuns DEF found
    <3> QED
      BY <1>3, <3>1, <3>2
  <2>2. Pushed(e.states[m], found.states[m], b.log, ForkedIn(chain), m)
    BY <1>5, <1>6, <1>11, <2>1 DEF Pushed
  <2>3. Place(e, Append(chain, b), m, all)
    BY <1>11, <1>12 DEF Place, Waiting
  <2> QED
    BY <2>2, <2>3 DEF Lands
<1>14. Holds(found, e) /\ OthersStay(found, e, m)
       /\ NoneNewBut(found, e, m)
  BY <1>9, <1>10, KeepsHolds DEF KeepsRest, Pushes, NoneNewBut
<1> HIDE DEF log
<1>15. MarketLands(t, log, e, m)
  BY <1>13 DEF found, b, MarketLands
<1>16. Extend(t, log, e) /\ log \in Logs /\ Mining(t)
  BY <1>2, <1>3
<1> QED
  BY <1>4, <1>6, <1>14, <1>15, <1>16, MoveLands DEF found

LEMMA FinalizedUnstands ==
  ASSUME MarketAssumption, RunAssumption, IInv, RInv, SInv, NEW m \in Market, RemoveMarketFinalized(m)
  PROVE  SInv'
<1> DEFINE s == SubSeq(chain, 1, Len(chain) - 1)
           b == Final(chain)
           log == MarketLog("MarketFinalized", m)
           e == MarketFinalizedRemoval(db, m)
<1>1. /\ Removing(log) /\ (CanUndoFinalization(db, m) => Retract(e))
      /\ (~CanUndoFinalization(db, m) => Throw)
  BY DEF RemoveMarketFinalized
<1>2. /\ s \in Seq(Block) /\ b \in Block /\ chain = Append(s, b) /\ b.log = log
      /\ LegalAfter(s, log) /\ db \in Tables
      /\ \A x \in Market : Was(s, "MarketCreated", x) => x \in DOMAIN db.markets
  BY <1>1, Undoing
<1>3. /\ MovesOnly(log, m)
  BY DEF Moves, StartsRound, MarketLog, MovesOnly
<1>4. b.before.states[m] \in Seq(ReportingState)
  <2>1. b.before \in Tables
    BY <1>2 DEF Block
  <2> QED
    BY <2>1, TablesElim
<1>5. m \in DOMAIN db.markets
  BY <1>2 DEF LegalAfter
<1>6. ReportedIn(s, m)
  <2> HIDE DEF s, b
  <2>1. FinalsReported(Append(s, b))
    BY <1>2 DEF SInv
  <2> QED
    BY <1>2, <2>1, FinalsAdded
<1> HIDE DEF s, b
<1>7. ASSUME NEW all, Finds(s, b, all)
      PROVE  db.states[m] = Append(b.before.states[m], "FINALIZED") /\ Beyond(b.before.states[m])
  <2>1. ReportedIn(Append(s, b), m)
    BY <1>2, <1>6, Grows
  <2>2. Pushed(db.states[m], b.before.states[m], b.log, ForkedIn(s), m)
    BY <1>7, <2>1 DEF Finds, Topped, Minded
  <2> QED
    BY <1>2, <2>2 DEF Pushed
<1>8. "FINALIZED" \in ReportingState
  BY DEF ReportingState
<1>9. ASSUME ~CanUndoFinalization(db, m) PROVE SInv'
  <2>1. ASSUME "time" \notin unwound, "UniverseForked" \notin unwound PROVE FALSE
    <3>1. Finds(s, b, FALSE)
      BY <1>1, <2>1, FindsLast DEF s, b
    <3>2. db.states[m] = Append(b.before.states[m], "FINALIZED")
      BY <1>7, <3>1
    <3>3. Tops(db.states[m], "FINALIZED")
      BY <1>4, <1>8, <3>2, AppendTops
    <3> QED
      BY <1>9, <3>3, CanRollBackTop DEF CanUndoFinalization
  <2>2. Throw
    BY <1>1, <1>9
  <2> QED
    BY <2>1, <2>2, StatesThrow
<1>10. ASSUME CanUndoFinalization(db, m) PROVE SInv'
  <2>1. Pops(db, e, m)
    BY <1>2, <1>5, FinalizationPops
  <2>2. KeepsRest(db, e) /\ e.forked = db.forked /\ DOMAIN e.markets = DOMAIN db.markets
    BY <1>2, <1>5, MarketUnfinalizes
  <2> HIDE DEF e
  <2>3. ASSUME NEW all \in BOOLEAN, Finds(s, b, all) PROVE Leaves(e, s, b, m, all)
    <3>1. db.states[m] = Append(b.before.states[m], "FINALIZED") /\ Beyond(b.before.states[m])
      BY <1>7, <2>3
    <3>2. PICK q \in Seq(ReportingState) : q = b.before.states[m]
      BY <1>4
    <3>3. SubSeq(Append(q, "FINALIZED"), 1, Len(Append(q, "FINALIZED")) - 1) = q
      BY <1>8, AppendTops
    <3>4. e.states[m] = q
      BY <2>1, <3>1, <3>2, <3>3 DEF Pops
    <3>5. Place(e, s, m, all)
      BY <1>6, <3>1, <3>2, <3>4 DEF Place, Beyond
    <3> QED
      BY <3>2, <3>4, <3>5 DEF Leaves
  <2>4. Holds(db, e) /\ OthersStay(db, e, m)
        /\ NoneNewBut(db, e, m)
    BY <2>1, <2>2, KeepsHolds DEF KeepsRest, Pops, NoneNewBut
  <2> HIDE DEF log
  <2>5. MarketLeaves(log, e, m)
    BY <2>3 DEF s, b, MarketLeaves
  <2>6. Retract(e) /\ Removing(log)
    BY <1>1, <1>10
  <2> QED
    BY <1>3, <2>4, <2>5, <2>6, MoveLeaves
<1> QED
  BY <1>9, <1>10

LEMMA CompletedUnstands ==
  ASSUME MarketAssumption, RunAssumption, IInv, RInv, SInv, NEW c \in Crowdsourcer,
         RemoveDisputeCrowdsourcerCompleted(c)
  PROVE  SInv'
<1> DEFINE s == SubSeq(chain, 1, Len(chain) - 1)
           b == Final(chain)
           m == MarketOf[c]
           log == CrowdLog("DisputeCrowdsourcerCompleted", c)
           e == DisputeCrowdsourcerCompletedRemoval(db, c, head)
<1>1. /\ Removing(log) /\ (CanUndoCompletion(db, c) => Retract(e))
      /\ (~CanUndoCompletion(db, c) => Throw)
  BY DEF RemoveDisputeCrowdsourcerCompleted
<1>2. /\ s \in Seq(Block) /\ b \in Block /\ chain = Append(s, b) /\ b.log = log /\ Sane(s)
      /\ LegalAfter(s, log) /\ db \in Tables /\ head \in Nat /\ Follows(db, Append(s, b))
      /\ \A x \in Market : Was(s, "MarketCreated", x) => x \in DOMAIN db.markets
      /\ \A x \in Crowdsourcer :
           Did(s, "DisputeCrowdsourcerCreated", x) => x \in DOMAIN db.crowdsourcers
  BY <1>1, Undoing
<1>3. m \in Market /\ MovesOnly(log, m)
  BY DEF Moves, StartsRound, MarketLog, CrowdLog, MarketAssumption, MovesOnly
<1>4. b.before.states[m] \in Seq(ReportingState)
  <2>1. b.before \in Tables
    BY <1>2 DEF Block
  <2> QED
    BY <1>3, <2>1, TablesElim
<1>5. /\ ReportedIn(s, m) /\ m \in DOMAIN db.markets /\ c \in DOMAIN db.crowdsourcers
      /\ IsFiniteSet(DOMAIN db.crowdsourcers)
  <2>1. Did(s, "DisputeCrowdsourcerContribution", c)
    BY <1>2 DEF LegalAfter
  <2>2. Did(s, "DisputeCrowdsourcerCreated", c) /\ ReportedIn(s, m)
    BY <1>2, <2>1 DEF Sane, SaneCrowdsourcer
  <2>3. Was(s, "MarketCreated", m)
    BY <1>2, <1>3, <2>2, SMTT(20) DEF Sane, SaneMarket
  <2> QED
    BY <1>2, <1>3, <2>2, <2>3 DEF Follows, StakesFollow
<1> HIDE DEF s, b
<1>6. ASSUME NEW all, Finds(s, b, all)
      PROVE  db.states[m] = Append(b.before.states[m], Waiting) /\ Beyond(b.before.states[m])
  <2>1. ReportedIn(Append(s, b), m)
    BY <1>2, <1>5, Grows
  <2>2. Pushed(db.states[m], b.before.states[m], b.log, ForkedIn(s), m)
    BY <1>3, <1>6, <2>1 DEF Finds, Topped, Minded
  <2>3. Completes(b.log, m)
    BY <1>2 DEF Completes, CrowdLog
  <2> QED
    BY <2>2, <2>3 DEF Pushed
<1>7. Waiting \in ReportingState
  BY DEF ReportingState, Waiting
<1>8. ASSUME ~CanUndoCompletion(db, c) PROVE SInv'
  <2>1. ASSUME "time" \notin unwound, "UniverseForked" \notin unwound PROVE FALSE
    <3>1. Finds(s, b, FALSE)
      BY <1>1, <2>1, FindsLast DEF s, b
    <3>2. db.states[m] = Append(b.before.states[m], Waiting)
      BY <1>6, <3>1
    <3>3. Tops(db.states[m], Waiting)
      BY <1>4, <1>7, <3>2, AppendTops
    <3> QED
      BY <1>8, <3>3, CanRollBackTop DEF CanUndoCompletion, Waiting
  <2>2. Throw
    BY <1>1, <1>8
  <2> QED
    BY <2>1, <2>2, StatesThrow
<1>9. ASSUME CanUndoCompletion(db, c) PROVE SInv'
  <2>1. Pops(db, e, m)
    BY <1>2, <1>5, CompletionPops
  <2>2. KeepsMarkets(db, e) /\ KeepsWindows(db, e)
    BY <1>2, <1>5, CrowdsourcerUncompletes DEF KeepsAll
  <2> HIDE DEF e, m
  <2>3. ASSUME NEW all \in BOOLEAN, Finds(s, b, all) PROVE Leaves(e, s, b, m, all)
    <3>1. db.states[m] = Append(b.before.states[m], Waiting) /\ Beyond(b.before.states[m])
      BY <1>6, <2>3
    <3>2. PICK q \in Seq(ReportingState) : q = b.before.states[m]
      BY <1>4
    <3>3. SubSeq(Append(q, Waiting), 1, Len(Append(q, Waiting)) - 1) = q
      BY <1>7, AppendTops
    <3>4. e.states[m] = q
      BY <2>1, <3>1, <3>2, <3>3 DEF Pops
    <3>5. Place(e, s, m, all)
      BY <1>5, <3>1, <3>2, <3>4 DEF Place, Beyond
    <3> QED
      BY <3>2, <3>4, <3>5 DEF Leaves
  <2>4. Holds(db, e) /\ OthersStay(db, e, m)
        /\ NoneNewBut(db, e, m)
    BY <2>1, <2>2, KeepsHolds DEF KeepsMarkets, Pops, NoneNewBut
  <2> HIDE DEF log
  <2>5. MarketLeaves(log, e, m)
    BY <2>3 DEF s, b, MarketLeaves
  <2>6. Retract(e) /\ Removing(log)
    BY <1>1, <1>9
  <2> QED
    BY <1>3, <2>4, <2>5, <2>6, MoveLeaves
<1> QED
  BY <1>8, <1>9

LEMMA MigratedStands ==
  ASSUME MarketAssumption, RunAssumption, IInv, RInv, SInv, NEW t \in Times, NEW m \in Market,
         AddMarketMigrated(t, m)
  PROVE  SInv'
<1> DEFINE found == AdvanceTime(db, t)
           log == MarketLog("MarketMigrated", m)
           b == Added(t, log)
           e == MarketMigrated(found, m, t)
<1>1. found \in Tables /\ chain \in Seq(Block) /\ t \in Nat
  BY FoundTables DEF IInv
<1>2. log \in Logs
  BY LogsAreLogs DEF Kinds
<1>3. /\ Mining(t) /\ Extend(t, log, e) /\ InForked(m) /\ Was(chain, "MarketCreated", m)
      /\ Present(chain, NextWindow(Child, t))
  BY Seen, ExistsSeen DEF AddMarketMigrated, InForked, NextWindow
<1>4. ForkedIn(chain)
  BY <1>3, Seen DEF InForked
<1>5. b \in Block /\ b.log = log
  BY <1>2, AddedBlock
<1>6. /\ MovesOnly(log, m)
      /\ StartsRound(log, m) /\ Moves(log, m) /\ ~Completes(log, m) /\ ~Reports(log, m)
      /\ log # MarketLog("MarketFinalized", m)
  BY DEF Moves, StartsRound, MarketLog, Completes, Reports, MovesOnly
<1>7. /\ m \in DOMAIN found.markets /\ found.states[m] \in Seq(ReportingState)
      /\ found.markets[m].universe \in found.forked /\ found.forked \subseteq {Genesis}
  BY <1>3, FoundFlags, OutOfTheFork
<1> HIDE DEF found, b
<1>8. Carries(found, e, m, t)
  BY <1>1, <1>7, MigrationCarries
<1>9. KeepsRest(found, e) /\ e.forked = found.forked /\ DOMAIN e.markets = DOMAIN found.markets
  BY <1>1, <1>7, MarketMigrates
<1>10. e.markets[m].universe = Child
  BY <1>1, <1>7, MarketMigrates DEF Owes
<1> HIDE DEF e
<1>11. HomeIn(Append(chain, b), m) = Child /\ ForkedIn(Append(chain, b))
  BY <1>1, <1>4, <1>5, Grows DEF HomeIn
<1>12. ReportedIn(Append(chain, b), m) <=> ReportedIn(chain, m)
  BY <1>1, <1>5, <1>6, ReportedAppended DEF Reports
<1>13. Was(Append(chain, b), "MarketMigrated", m)
  BY <1>1, <1>5, Grows
<1>14. found.states[m] # <<>> => e.states[m] # <<>>
  <2>1. PICK q \in Seq(ReportingState) : q = found.states[m]
    BY <1>7
  <2>2. \A state \in ReportingState : Append(q, state) # <<>>
    BY AppendTops
  <2> QED
    BY <1>8, <2>1, <2>2 DEF Carries, Carried
<1>15. Child \in Universe /\ Child \notin e.forked
  BY <1>7, <1>9 DEF MarketAssumption
<1>16. ASSUME NEW all \in BOOLEAN, "time" \notin unwound, Place(found, chain, m, all)
       PROVE  Lands(found, e, chain, b, m, all)
  <2>1. ReportedIn(chain, m) => Beyond(found.states[m])
    <3>1. ~Rests(found, chain, m)
      BY <1>7 DEF Rests
    <3> QED
      BY <1>7, <1>16, <3>1 DEF Place, Beyond
  <2>2. Minded(Append(chain, b), m, all) =>
          Pushed(e.states[m], found.states[m], b.log, ForkedIn(chain), m)
    BY <1>5, <1>6, <1>8, <1>12, <1>13, <2>1 DEF Pushed, Minded, Carries, Carried
  <2>3. Rests(e, Append(chain, b), m)
    <3>1. KeepsWindows(AdvanceTime(db, t), e)
      BY <1>9 DEF found, KeepsRest
    <3>2. PICK u \in Universe : u = Child
      BY <1>15
    <3>3. u = HomeIn(Append(chain, Added(t, log)), m) /\ Present(chain, NextWindow(u, t))
      BY <1>3, <1>11, <3>2 DEF b
    <3>4. e.markets[m].feeWindow = NextWindow(u, t) /\ e.markets[m].universe \notin e.forked
      BY <1>8, <1>10, <1>15, <3>2 DEF Carries
    <3>5. log \in Logs /\ Mining(t) /\ StartsRound(log, m)
      BY <1>2, <1>3, <1>6
    <3> HIDE DEF log
    <3>6. Rests(e, Append(chain, Added(t, log)), m)
      BY <1>16, <3>1, <3>3, <3>4, <3>5, RoundRests, SMTT(60)
    <3> QED
      BY <3>6 DEF b
  <2>4. ASSUME all, ~ReportedIn(chain, m) PROVE Fresh(e, Append(chain, b), m)
    <3>1. Fresh(found, chain, m) /\ found.states[m] # <<>>
      BY <1>7, <1>16, <2>4 DEF Place
    <3>2. e.states[m] = found.states[m]
      BY <1>8, <3>1 DEF Fresh, Carries, Carried
    <3> QED
      BY <1>11, <3>1, <3>2 DEF Fresh
  <2>5. all \/ ReportedIn(chain, m) => found.states[m] # <<>>
    BY <1>7, <1>16 DEF Place
  <2>6. Place(e, Append(chain, b), m, all)
    BY <1>12, <1>14, <2>3, <2>4, <2>5 DEF Place
  <2> QED
    BY <2>2, <2>6 DEF Lands
<1>17. Holds(found, e) /\ OthersStay(found, e, m)
       /\ NoneNewBut(found, e, m)
  BY <1>8, <1>9, KeepsHolds DEF KeepsRest, Carries, NoneNewBut
<1> HIDE DEF log
<1>18. MarketLands(t, log, e, m)
  BY <1>16 DEF found, b, MarketLands
<1>19. Extend(t, log, e) /\ log \in Logs /\ Mining(t)
  BY <1>2, <1>3
<1> QED
  BY <1>6, <1>17, <1>18, <1>19, MoveLands DEF found

LEMMA MigratedUnstands ==
  ASSUME MarketAssumption, RunAssumption, IInv, RInv, SInv, NEW m \in Market, RemoveMarketMigrated(m)
  PROVE  SInv'
<1> DEFINE s == SubSeq(chain, 1, Len(chain) - 1)
           b == Final(chain)
           log == MarketLog("MarketMigrated", m)
           e == MarketMigratedRemoval(db, m)
<1>1. /\ Removing(log) /\ (CanUndoMigration(db, m) => Retract(e))
      /\ (~CanUndoMigration(db, m) => Throw)
  BY DEF RemoveMarketMigrated
<1>2. /\ s \in Seq(Block) /\ b \in Block /\ chain = Append(s, b) /\ b.log = log
      /\ LegalAfter(s, log) /\ db \in Tables
      /\ \A x \in Market : Was(s, "MarketCreated", x) => x \in DOMAIN db.markets
  BY <1>1, Undoing
<1>3. /\ MovesOnly(log, m)
      /\ ~Reports(log, m)
  BY DEF Moves, StartsRound, MarketLog, Reports, MovesOnly
<1>4. b.before.states[m] \in Seq(ReportingState)
  <2>1. b.before \in Tables
    BY <1>2 DEF Block
  <2> QED
    BY <2>1, TablesElim
<1>5. m \in DOMAIN db.markets /\ DecidedIn(s)
  BY <1>2 DEF LegalAfter
<1> HIDE DEF s, b
<1>6. ReportedIn(Append(s, b), m) <=> ReportedIn(s, m)
  BY <1>2, <1>3, ReportedAppended DEF Reports
<1>7. ASSUME ~CanUndoMigration(db, m) PROVE SInv'
  <2>1. ForkedIn(s)
    BY <1>5 DEF DecidedIn, ForkedIn
  <2>2. ForkedIn(chain)
    BY <1>2, <2>1, Grows
  <2>3. Forking # {} /\ Throw
    BY <1>1, <1>7, <2>2, Seen
  <2>4. Final(chain).log.kind = "MarketMigrated"
    BY <1>2 DEF b, MarketLog
  <2> QED
    BY <2>3, <2>4, StatesThrow
<1>8. ASSUME CanUndoMigration(db, m) PROVE SInv'
  <2>1. Pops(db, e, m)
    BY <1>2, <1>5, MigrationPops
  <2>2. KeepsRest(db, e) /\ e.forked = db.forked /\ DOMAIN e.markets = DOMAIN db.markets
    BY <1>2, <1>5, MarketUnmigrates
  <2>3. Tops(db.states[m], Waiting)
    BY <1>8, CanRollBackTop DEF CanUndoMigration, Waiting
  <2> HIDE DEF e
  <2>4. ASSUME NEW all \in BOOLEAN, Finds(s, b, all) PROVE Leaves(e, s, b, m, all)
    <3>1. CASE ReportedIn(s, m)
      <4>1. Pushed(db.states[m], b.before.states[m], b.log, ForkedIn(s), m)
        BY <1>6, <2>4, <3>1, SMTT(20) DEF Finds, Topped, Minded
      <4>2. /\ Beyond(b.before.states[m])
            /\ \/ db.states[m] = b.before.states[m]
               \/ \E state \in ReportingState : db.states[m] = Append(b.before.states[m], state)
        BY <1>2, <4>1 DEF Pushed
      <4>3. PICK q \in Seq(ReportingState) : q = b.before.states[m]
        BY <1>4
      <4>4. PICK state \in ReportingState : db.states[m] = Append(q, state)
        BY <2>3, <4>2, <4>3 DEF Beyond
      <4>5. SubSeq(Append(q, state), 1, Len(Append(q, state)) - 1) = q
        BY AppendTops
      <4>6. e.states[m] = q
        BY <2>1, <4>4, <4>5 DEF Pops
      <4>7. Place(e, s, m, all)
        BY <3>1, <4>2, <4>3, <4>6 DEF Place, Beyond
      <4> QED
        BY <4>3, <4>6, <4>7 DEF Leaves
    <3>2. CASE ~ReportedIn(s, m) /\ all
      <4>1. Place(db, Append(s, b), m, all)
        BY <2>4 DEF Finds, Places
      <4>2. Fresh(db, Append(s, b), m)
        BY <1>5, <1>6, <3>2, <4>1 DEF Place
      <4> QED
        BY <2>3, <4>2 DEF Fresh
    <3>3. CASE ~ReportedIn(s, m) /\ ~all
      BY <3>3 DEF Leaves, Minded, Place
    <3> QED
      BY <3>1, <3>2, <3>3
  <2>5. Holds(db, e) /\ OthersStay(db, e, m)
        /\ NoneNewBut(db, e, m)
    BY <2>1, <2>2, KeepsHolds DEF KeepsRest, Pops, NoneNewBut
  <2> HIDE DEF log
  <2>6. MarketLeaves(log, e, m)
    BY <2>4 DEF s, b, MarketLeaves
  <2>7. Retract(e) /\ Removing(log)
    BY <1>1, <1>8
  <2> QED
    BY <1>3, <2>5, <2>6, <2>7, MoveLeaves
<1> QED
  BY <1>7, <1>8

LEMMA UniverseForkedStands ==
  ASSUME MarketAssumption, RunAssumption, IInv, RInv, SInv, NEW t \in Times, NEW m \in Market,
         AddUniverseForked(t, m)
  PROVE  SInv'
<1> DEFINE found == AdvanceTime(db, t)
           log == MarketLog("UniverseForked", m)
           b == Added(t, log)
           e == UniverseForked(found, Genesis, m)
<1>1. /\ found \in Tables /\ chain \in Seq(Block) /\ Sane(chain)
      /\ \A x \in Market : x \in DOMAIN found.markets <=> Was(chain, "MarketCreated", x)
  BY FoundTables, WholeChain DEF IInv
<1>2. log \in Logs
  BY LogsAreLogs DEF Kinds
<1>3. Mining(t) /\ Extend(t, log, e) /\ ~ForkedIn(chain)
  BY Seen DEF AddUniverseForked, ForkDue
<1>4. b \in Block /\ b.log = log
  BY <1>2, AddedBlock
<1>5. ReportedIn(chain, m)
  <2>1. chain # <<>> /\ m = MarketOf[Final(chain).log.crowdsourcer]
    BY DEF AddUniverseForked, ForkDue
  <2>2. PICK c \in Crowdsourcer : Final(chain).log = CrowdLog("DisputeCrowdsourcerCompleted", c)
    BY DEF AddUniverseForked, ForkDue, RunAssumption
  <2>3. m = MarketOf[c]
    BY <2>1, <2>2 DEF CrowdLog
  <2>4. PICK s \in Seq(Block) : chain = Append(s, Final(chain)) /\ Final(chain) \in Block
    BY <2>1, LastBlock
  <2>5. Did(chain, "DisputeCrowdsourcerCompleted", c)
    BY <2>2, <2>4, InAppended DEF Did
  <2> QED
    BY <1>1, <2>3, <2>5 DEF Sane, SaneCrowdsourcer
<1>6. ForkedIn(Append(chain, b))
  BY <1>1, <1>4, Grows DEF ForkedIn
<1>7. \A x : ReportedIn(Append(chain, b), x) <=> ReportedIn(chain, x)
  <2>1. log.kind # "InitialReportSubmitted"
    BY DEF MarketLog
  <2> QED
    BY <1>1, <1>4, <2>1, ReportedAppended
<1>8. m \in DOMAIN found.markets
  BY <1>1, <1>5 DEF Sane, SaneMarket
<1>9. \A x \in Market : ~Was(chain, "MarketMigrated", x)
  BY <1>1, <1>3 DEF Sane, SaneMarket, DecidedIn, ForkedIn
<1>10. Genesis \in Universe
  BY DEF MarketAssumption
<1>11. \A x \in Market : x \in DOMAIN found.markets => found.markets[x].universe = Genesis
  BY <1>1, <1>9, FoundFlags DEF HomeIn
<1>12. found.forked \subseteq {Genesis}
  BY <1>1, <1>5, FoundFlags DEF Sane, SaneMarket
<1> HIDE DEF found, b
<1>13. e.forked = found.forked \cup {Genesis} /\ DOMAIN e.markets = DOMAIN found.markets
  BY <1>1, <1>8, <1>10, UniverseForks
<1>14. \A x \in Market : x \in DOMAIN found.markets =>
         /\ ~Tops(e.states[x], Waiting)
         /\ x # m /\ Calm(found.states[x]) => e.states[x] = found.states[x]
         /\ found.states[x] # <<>> => e.states[x] # <<>>
  BY <1>1, <1>8, <1>10, <1>11, ForkReverts
<1> HIDE DEF e
<1>15. ASSUME NEW all \in BOOLEAN, NEW x \in Market, Places(found, chain, all)
       PROVE  Lands(found, e, chain, b, x, all)
  <2>1. Pushed(e.states[x], found.states[x], b.log, ForkedIn(chain), x)
    BY <1>4 DEF Pushed, Moves, Completes, Reports, MarketLog
  <2>2. ASSUME x \in DOMAIN e.markets PROVE Place(e, Append(chain, b), x, all)
    <3>1. Place(found, chain, x, all) /\ x \in DOMAIN found.markets
      BY <1>13, <1>15, <2>2 DEF Places
    <3>2. ~Tops(e.states[x], Waiting)
      BY <1>14, <3>1
    <3>3. all \/ ReportedIn(chain, x) => e.states[x] # <<>>
      BY <1>14, <3>1 DEF Place
    <3>4. ASSUME all, ~ReportedIn(chain, x) PROVE Fresh(e, Append(chain, b), x)
      <4>1. Fresh(found, chain, x) /\ x # m
        BY <1>5, <3>1, <3>4 DEF Place
      <4>2. e.states[x] = found.states[x]
        BY <1>3, <1>14, <3>1, <4>1 DEF Fresh
      <4> QED
        BY <1>6, <4>1, <4>2 DEF Fresh
    <3> QED
      BY <1>7, <3>2, <3>3, <3>4 DEF Place
  <2>3. Place(e, Append(chain, b), x, all)
    BY <2>2 DEF Place
  <2> QED
    BY <2>1, <2>3 DEF Lands
<1>16. \A x \in Market : log # MarketLog("MarketFinalized", x)
  BY DEF MarketLog
<1>17. e.forked \subseteq {Genesis}
  BY <1>12, <1>13
<1>18. Extend(t, log, e) /\ log \in Logs /\ Mining(t)
  BY <1>2, <1>3
<1> HIDE DEF log
<1>19. EveryMarketLands(t, log, e)
  BY <1>15 DEF found, b, EveryMarketLands
<1> QED
  BY <1>16, <1>17, <1>18, <1>19, StatesAdded

LEMMA UniverseForkedUnstands ==
  ASSUME MarketAssumption, RunAssumption, IInv, RInv, SInv, NEW m \in Market, RemoveUniverseForked(m)
  PROVE  SInv'
<1> DEFINE s == SubSeq(chain, 1, Len(chain) - 1)
           b == Final(chain)
           log == MarketLog("UniverseForked", m)
           e == UniverseForkedRemoval(db, Genesis, m)
<1>1. Removing(log)
  BY DEF RemoveUniverseForked
<1>2. /\ s \in Seq(Block) /\ b \in Block /\ chain = Append(s, b) /\ b.log = log
      /\ Sane(s) /\ LegalAfter(s, log) /\ db \in Tables /\ Follows(db, Append(s, b)) /\ chain # <<>>
      /\ \A x \in Market : Was(s, "MarketCreated", x) => x \in DOMAIN db.markets
  BY <1>1, Undoing
<1> HIDE DEF s, b
<1>3. LegalAfter(s, b.log)
  BY <1>2
<1>4. ForkingMarkets(db, Genesis) = {m}
  BY <1>2, <1>3, ForkFollows
<1>5. Retract(e) /\ ~halted
  BY <1>1, <1>4 DEF RemoveUniverseForked, Removing
<1>6. m \in DOMAIN db.markets /\ Genesis \in Universe
  <2>1. ReportedIn(s, m)
    BY <1>2 DEF LegalAfter
  <2> QED
    BY <1>2, <2>1 DEF Sane, SaneMarket, MarketAssumption
<1>7. e.forked = db.forked \ {Genesis}
  BY <1>2, <1>6, UniverseUnforks
<1>8. e.forked \subseteq {Genesis}
  BY <1>7 DEF SInv
<1> HIDE DEF e
<1>9. b.log.kind = "UniverseForked"
  BY <1>2 DEF MarketLog
<1>10. EveryMarketLeaves(e)
  BY <1>9 DEF EveryMarketLeaves, b
<1> QED
  BY <1>2, <1>5, <1>8, <1>10, StatesRetracted

-----------------------------------------------------------------------------
(* The invariant holds. *)

LEMMA StatesInit ==
  ASSUME MarketAssumption, RunAssumption, Init
  PROVE  SInv
<1>1. PICK s \in Seq(Block) : s = chain /\ s = <<>> /\ Len(s) = 0
  <2>1. chain = <<>>
    BY DEF Init
  <2>2. <<>> \in Seq(Block) /\ Len(<<>>) = 0
    OBVIOUS
  <2>3. PICK s \in Seq(Block) : s = <<>>
    BY <2>2
  <2>4. Len(s) = 0
    BY <2>3
  <2> QED
    BY <2>1, <2>3, <2>4
<1>2. DOMAIN db.markets = {} /\ db.forked = {}
  BY InitTables DEF Init
<1>3. ~halted
  BY DEF Init
<1>4. FinalsReported(s)
  BY <1>1 DEF FinalsReported
<1>5. \A all : Layers(db.states, s, all)
  BY <1>1 DEF Layers
<1>6. \A all : Places(db, s, all)
  BY <1>2 DEF Places, Place
<1>7. \A all : Stand(db, chain, all)
  BY <1>1, <1>5, <1>6 DEF Stand
<1> QED
  BY <1>1, <1>2, <1>3, <1>4, <1>7 DEF SInv, HaltsOnlyOnUndoneTime

LEMMA StatesStep ==
  ASSUME MarketAssumption, RunAssumption, IInv, RInv, SInv, [Next]_vars
  PROVE  SInv'
<1>1. ASSUME NEW t \in Times, AddLog(t) PROVE SInv'
  <2>1. CASE AddBlock(t)
    BY <2>1, NoLogStands
  <2>2. CASE \E m \in Market : \/ AddMarketCreated(t, m) \/ AddMarketFinalized(t, m)
                               \/ AddUniverseForked(t, m) \/ AddMarketMigrated(t, m)
                               \/ AddMarketParticipantsDisavowed(t, m)
                               \/ \E p \in Payout : AddInitialReportSubmitted(t, m, p)
    BY <2>2, MarketCreatedStands, FinalizedStands, UniverseForkedStands, MigratedStands,
       MarketDisavowedStands, ReportStands
  <2>3. CASE \E w \in Windows : AddFeeWindowCreated(t, w)
    BY <2>3, FeeWindowCreatedStands
  <2>4. CASE \E c \in Crowdsourcer : \/ AddDisputeCrowdsourcerCreated(t, c)
                                     \/ AddDisputeCrowdsourcerContribution(t, c)
                                     \/ AddDisputeCrowdsourcerCompleted(t, c)
    BY <2>4, CrowdsourcerCreatedStands, ContributionStands, CompletedStands
  <2>5. CASE \E x \in Market \cup Crowdsourcer : AddReportingParticipantDisavowed(t, x)
    BY <2>5, ParticipantDisavowedStands
  <2> QED
    BY <1>1, <2>1, <2>2, <2>3, <2>4, <2>5 DEF AddLog
<1>2. ASSUME RemoveLog PROVE SInv'
  <2>1. CASE RemoveBlock
    BY <2>1, NoLogUnstands
  <2>2. CASE \E m \in Market : \/ RemoveMarketCreated(m) \/ RemoveMarketFinalized(m)
                               \/ RemoveUniverseForked(m) \/ RemoveMarketMigrated(m)
                               \/ RemoveMarketParticipantsDisavowed(m)
                               \/ \E p \in Payout : RemoveInitialReportSubmitted(m, p)
    BY <2>2, MarketCreatedUnstands, FinalizedUnstands, UniverseForkedUnstands,
       MigratedUnstands, MarketDisavowedUnstands, ReportUnstands
  <2>3. CASE \E w \in Windows : RemoveFeeWindowCreated(w)
    BY <2>3, FeeWindowCreatedUnstands
  <2>4. CASE \E c \in Crowdsourcer : \/ RemoveDisputeCrowdsourcerCreated(c)
                                     \/ RemoveDisputeCrowdsourcerContribution(c)
                                     \/ RemoveDisputeCrowdsourcerCompleted(c)
    BY <2>4, CrowdsourcerCreatedUnstands, ContributionUnstands, CompletedUnstands
  <2>5. CASE \E x \in Market \cup Crowdsourcer : RemoveReportingParticipantDisavowed(x)
    BY <2>5, ParticipantDisavowedUnstands
  <2> QED
    BY <1>2, <2>1, <2>2, <2>3, <2>4, <2>5 DEF RemoveLog
<1>3. ASSUME UNCHANGED vars PROVE SInv'
  <2>1. /\ UNCHANGED chain /\ UNCHANGED db /\ UNCHANGED unwound /\ UNCHANGED halted
    BY <1>3 DEF vars
  <2>2. HaltsOnlyOnUndoneTime'
    BY <2>1 DEF SInv, HaltsOnlyOnUndoneTime, Undone, Forking, Has
  <2> QED
    BY <2>1, <2>2 DEF SInv
<1> QED
  BY <1>1, <1>2, <1>3 DEF Next

\* The stack of reporting states of a market follows the chain's logs: each
\* creation, report, completion, migration and finalization left its own state
\* on top of what its log had found there, a market that awaits the next window
\* is filed under a window that is yet to come, and one whose round is under way
\* or over is past awaiting it.  So it is of the reported markets until a block
\* whose time had moved the tables, or the fork, is taken back, and of the others
\* until an initial report is taken back as well.
THEOREM StatesAreStacked == Spec => []SInv
<1>1. Init => SInv
  BY StatesInit, MarketAssumption, RunAssumption
<1>2. IInv /\ RInv /\ SInv /\ [Next]_vars => SInv'
  BY StatesStep, MarketAssumption, RunAssumption
<1> QED
  BY <1>1, <1>2, TablesFollowTheChain, RoundsFollowTheChain, PTL DEF Spec

\* The log processors throw, which ends the process, only after a block whose
\* time had moved the tables, or the fork, was taken back, or at the removal of
\* an initial report or a migration while the universe is forked: rollbackMarket
\* State finds the state it asserts in every other removal, and a crowdsourcer
\* that is created finds the CURRENT fee window it is filed under.
THEOREM HaltsOnlyOnUndoneTimeHolds == Spec => []HaltsOnlyOnUndoneTime
<1>1. SInv => HaltsOnlyOnUndoneTime
  BY DEF SInv
<1> QED
  BY <1>1, StatesAreStacked, PTL
=============================================================================
