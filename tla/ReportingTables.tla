-------------------------- MODULE ReportingTables ---------------------------
(***************************************************************************)
(* The tables a market's life from creation to finalization is kept in,    *)
(* and what the log processors and the passing of time do to them, as      *)
(* functions from one content of the database to the next.  Every one of   *)
(* them runs inside the transaction of its block.                          *)
(*                                                                         *)
(* A database d is a record of tables.  A table with a key is a function   *)
(* from the keys of its rows; market_state is, for each market, the        *)
(* sequence of its states, the last one being what markets.marketStateId   *)
(* points at.                                                              *)
(***************************************************************************)
EXTENDS Integers, Sequences, FiniteSets, TLC

CONSTANTS
  Market, Payout, Crowdsourcer, Universe,
  Genesis, Child,      \* the universe of the markets, and the one they migrate to
  EndTime,             \* market -> end time
  MarketOf, PayoutOf,  \* crowdsourcer -> its market and its payout
  Size,                \* crowdsourcer -> stake that completes it
  InitialStake,        \* stake of an initial report
  Duration,            \* DISPUTE_ROUND_DURATION_SECONDS
  DesignatedDuration,  \* DESIGNATED_REPORTING_DURATION_SECONDS
  None                 \* null, and the address 0x0

ASSUME MarketAssumption ==
  /\ EndTime \in [Market -> Nat] /\ MarketOf \in [Crowdsourcer -> Market]
  /\ PayoutOf \in [Crowdsourcer -> Payout] /\ Size \in [Crowdsourcer -> Nat \ {0}]
  /\ InitialStake \in Nat \ {0} /\ Duration \in Nat \ {0} /\ DesignatedDuration \in Nat
  /\ {Genesis, Child} \subseteq Universe /\ Genesis # Child
  /\ None \notin {0, 1} /\ None \notin Universe \X Nat

ReportingState == {"PRE_REPORTING", "DESIGNATED_REPORTING", "OPEN_REPORTING",
                   "AWAITING_NEXT_WINDOW", "CROWDSOURCING_DISPUTE", "FORKING",
                   "AWAITING_FORK_MIGRATION", "AWAITING_FINALIZATION", "FINALIZED"}

\* Fee windows follow one another without a gap.
WindowAt(universe, time) == <<universe, time \div Duration>>
StartOf(w) == w[2] * Duration
EndOf(w)   == (w[2] + 1) * Duration

Final(s) == s[Len(s)]
StateOf(d, m) == Final(d.states[m])
With(f, key, row) == [x \in DOMAIN f \cup {key} |-> IF x = key THEN row ELSE f[x]]
Without(f, key) == [x \in DOMAIN f \ {key} |-> f[x]]

MarketsIn(d, universe) == {m \in DOMAIN d.markets : d.markets[m].universe = universe}
CrowdsourcersOf(d, m)  == {c \in DOMAIN d.crowdsourcers : MarketOf[c] = m}
Current(d, universe)   == {w \in DOMAIN d.windows : w[1] = universe /\ d.windows[w] = "CURRENT"}

EmptyTables ==
  [markets |-> <<>>, states |-> [m \in Market |-> <<>>], windows |-> <<>>,
   reports |-> <<>>, crowdsourcers |-> <<>>, payouts |-> <<>>, forked |-> {}]

MarketRow == [universe : Universe, feeWindow : (Universe \X Nat) \cup {None},
              forking : {0, 1}, needsMigration : Int, needsDisavowal : Int,
              disputeRounds : Nat \cup {None}]
CrowdsourcerRow == [feeWindow : Universe \X Nat, completed : {0, 1, None},
                    disavowed : Int, staked : Nat]

TablesOK(d) ==
  /\ DOMAIN d.markets \subseteq Market /\ \A m \in DOMAIN d.markets : d.markets[m] \in MarketRow
  /\ d.states \in [Market -> Seq(ReportingState)]
  /\ DOMAIN d.windows \subseteq Universe \X Nat
  /\ \A w \in DOMAIN d.windows : d.windows[w] \in {"FUTURE", "CURRENT", "PAST"}
  /\ DOMAIN d.reports \subseteq Market
  /\ \A m \in DOMAIN d.reports : d.reports[m] \in [payout : Payout, disavowed : {0, 1}]
  /\ DOMAIN d.crowdsourcers \subseteq Crowdsourcer
  /\ \A c \in DOMAIN d.crowdsourcers : d.crowdsourcers[c] \in CrowdsourcerRow
  /\ DOMAIN d.payouts \subseteq Market \X Payout
  /\ \A k \in DOMAIN d.payouts : d.payouts[k] \in [tentative : BOOLEAN, winning : BOOLEAN]
  /\ d.forked \subseteq Universe

(***************************************************************************)
(* database.ts                                                             *)
(***************************************************************************)
UpdateMarketState(d, markets, state) ==
  [d EXCEPT !.states =
     [m \in Market |-> IF m \in markets THEN Append(@[m], state) ELSE @[m]]]

\* Rolling back deletes the latest state if it is the expected one, or throws.
CanRollBack(d, m, expected) == d.states[m] # <<>> /\ StateOf(d, m) = expected
RollbackMarketState(d, m) ==
  [d EXCEPT !.states[m] = SubSeq(@, 1, Len(@) - 1)]

\* getFeeWindow: the row of fee_windows and the call of the chain that stands
\* in for a missing one name the same window.
UpdateMarketFeeWindow(d, universe, m, now, next) ==
  [d EXCEPT !.markets[m].feeWindow =
     WindowAt(universe, now + (IF next THEN Duration ELSE 0))]

UpdateDisputeRound(d, m) ==
  [d EXCEPT !.markets[m].disputeRounds =
     Cardinality({c \in CrowdsourcersOf(d, m) : d.crowdsourcers[c].completed = 1})]

InsertPayout(d, m, payout, tentative) ==
  IF <<m, payout>> \in DOMAIN d.payouts THEN d
  ELSE [d EXCEPT !.payouts =
          With(@, <<m, payout>>, [tentative |-> tentative, winning |-> FALSE])]

(***************************************************************************)
(* advanceTime (process-block.ts)                                          *)
(***************************************************************************)
AdvanceMarketReachingEndTime(d, now) ==
  UpdateMarketState(d, {m \in DOMAIN d.markets :
      StateOf(d, m) = "PRE_REPORTING" /\ EndTime[m] < now}, "DESIGNATED_REPORTING")

\* Mutant: takes every market, the reported ones too.
AdvanceAnyMarketToOpen(d, now) ==
  UpdateMarketState(d, {m \in DOMAIN d.markets :
      StateOf(d, m) # "OPEN_REPORTING" /\ EndTime[m] < now - DesignatedDuration}, "OPEN_REPORTING")

AdvanceMarketMissingDesignatedReport(d, now) ==
  UpdateMarketState(d, {m \in DOMAIN d.markets :
      StateOf(d, m) = "DESIGNATED_REPORTING" /\ EndTime[m] < now - DesignatedDuration},
    "OPEN_REPORTING")

\* Mutant: forgets that a completed crowdsourcer is not incomplete.
AdvanceEveryCrowdsourcer(d, expired) ==
  [d EXCEPT !.crowdsourcers = [c \in DOMAIN @ |->
     IF @[c].feeWindow \in expired THEN [@[c] EXCEPT !.completed = 0] ELSE @[c]]]

AdvanceIncompleteCrowdsourcers(d, expired) ==
  [d EXCEPT !.crowdsourcers = [c \in DOMAIN @ |->
     IF @[c].completed = None /\ @[c].feeWindow \in expired
     THEN [@[c] EXCEPT !.completed = 0] ELSE @[c]]]

AdvanceMarketsToAwaitingFinalization(d, expired) ==
  LET over == {m \in DOMAIN d.markets :
                 /\ d.markets[m].feeWindow \in expired
                 /\ d.markets[m].universe \notin d.forked
                 /\ d.markets[m].needsMigration # 1 /\ d.markets[m].forking # 1}
  IN [UpdateMarketState(d, over, "AWAITING_FINALIZATION") EXCEPT !.payouts =
        [k \in DOMAIN @ |->
           IF k[1] \in over THEN [@[k] EXCEPT !.winning = d.payouts[k].tentative] ELSE @[k]]]

\* The query joins the market with every CURRENT window of its universe, and
\* the market is advanced once for each.
AdvanceMarketsToCrowdsourcingDispute(d, opened) ==
  LET disputed == {m \in DOMAIN d.markets :
                     /\ d.markets[m].feeWindow \in opened
                     /\ StateOf(d, m) = "AWAITING_NEXT_WINDOW"
                     /\ d.markets[m].universe \notin d.forked}
  IN [d EXCEPT !.states = [m \in Market |->
        IF m \in disputed
        THEN @[m] \o [i \in 1..Cardinality(Current(d, d.markets[m].universe)) |->
                        "CROWDSOURCING_DISPUTE"]
        ELSE @[m]]]

\* Mutant: only a window that was seen current expires.
ExpiredCurrent(d, now) == {w \in DOMAIN d.windows : d.windows[w] = "CURRENT" /\ EndOf(w) < now}

Expired(d, now) == {w \in DOMAIN d.windows : d.windows[w] # "PAST" /\ EndOf(w) < now}
Opened(d, now)  == {w \in DOMAIN d.windows :
                      d.windows[w] # "CURRENT" /\ EndOf(w) > now /\ StartOf(w) < now}

UpdateActiveFeeWindows(d, now) ==
  [d EXCEPT !.windows = [w \in DOMAIN @ |->
     IF w \in Expired(d, now) THEN "PAST" ELSE IF w \in Opened(d, now) THEN "CURRENT" ELSE @[w]]]

AdvanceFeeWindowActive(d, now) ==
  LET expired  == Expired(d, now)
      settled  == AdvanceIncompleteCrowdsourcers(UpdateActiveFeeWindows(d, now), expired)
      awaiting == AdvanceMarketsToAwaitingFinalization(settled, expired)
  IN AdvanceMarketsToCrowdsourcingDispute(awaiting, Opened(d, now))

AdvanceTime(d, now) ==
  AdvanceFeeWindowActive(
    AdvanceMarketMissingDesignatedReport(AdvanceMarketReachingEndTime(d, now), now), now)

(***************************************************************************)
(* Markets, fee windows and initial reports.                               *)
(***************************************************************************)
\* The market's fee window is the one Market.getFeeWindow answers, the null address for a
\* market just created.  (The throw without a REP balance is left out: the bond is
\* transferred before the market's log.)
MarketCreated(d, m) ==
  UpdateMarketState(
    [d EXCEPT !.markets = With(@, m, [universe |-> Genesis, feeWindow |-> None, forking |-> 0,
                                      needsMigration |-> 0, needsDisavowal |-> 0,
                                      disputeRounds |-> None])],
    {m}, "PRE_REPORTING")

MarketCreatedRemoval(d, m) ==
  [d EXCEPT !.markets = Without(@, m), !.states[m] = <<>>]

FeeWindowCreated(d, w, now) ==
  AdvanceFeeWindowActive([d EXCEPT !.windows = With(@, w, "FUTURE")], now)

FeeWindowCreatedRemoval(d, w) == [d EXCEPT !.windows = Without(@, w)]

InitialReportSubmitted(d, m, payout, now) ==
  LET universe == d.markets[m].universe
      state    == IF universe \in d.forked THEN "AWAITING_FORK_MIGRATION"
                                           ELSE "AWAITING_NEXT_WINDOW"
      moved    == InsertPayout(UpdateMarketState(d, {m}, state), m, payout, TRUE)
      reported == [moved EXCEPT !.reports = With(@, m, [payout |-> payout, disavowed |-> 0])]
  IN UpdateDisputeRound(UpdateMarketFeeWindow(reported, universe, m, now, TRUE), m)

CanUndoReport(d, m) == CanRollBack(d, m, "AWAITING_NEXT_WINDOW")
InitialReportSubmittedRemoval(d, m, now) ==
  UpdateMarketFeeWindow([RollbackMarketState(d, m) EXCEPT !.reports = Without(@, m)],
                        d.markets[m].universe, m, now, FALSE)

(***************************************************************************)
(* crowdsourcer.ts                                                         *)
(***************************************************************************)
\* The union drops equal rows of payout and stake.
StakeOn(d, m, payout) ==
  LET rows == {<<PayoutOf[c], d.crowdsourcers[c].staked>> :
                 c \in {x \in CrowdsourcersOf(d, m) : d.crowdsourcers[x].completed = 1}}
              \cup (IF m \in DOMAIN d.reports THEN {<<d.reports[m].payout, InitialStake>>} ELSE {})
      stakes[S \in SUBSET {r \in rows : r[1] = payout}] ==
        IF S = {} THEN 0 ELSE LET r == CHOOSE r \in S : TRUE IN r[2] + stakes[S \ {r}]
  IN stakes[{r \in rows : r[1] = payout}]

MostStaked(d, m) ==
  {p \in Payout : /\ StakeOn(d, m, p) > 0
                  /\ \A q \in Payout : StakeOn(d, m, q) <= StakeOn(d, m, p)}

\* The first row of the sort by stake, if there is one.
UpdateTentativeWinningPayout(d, m) ==
  LET first == {CHOOSE p \in S : TRUE : S \in {MostStaked(d, m)} \ {{}}}
  IN [d EXCEPT !.payouts = [k \in DOMAIN @ |->
        IF k[1] = m THEN [@[k] EXCEPT !.tentative = k[2] \in first] ELSE @[k]]]

DisputeCrowdsourcerCreated(d, c, w) ==
  LET known == InsertPayout(d, MarketOf[c], PayoutOf[c], FALSE)
  IN [known EXCEPT !.crowdsourcers =
        With(@, c, [feeWindow |-> w, completed |-> None, disavowed |-> 0, staked |-> 0])]

DisputeCrowdsourcerCreatedRemoval(d, c) ==
  [d EXCEPT !.crowdsourcers = Without(@, c)]

\* Mutant: the contribution is deleted in disputes only.
ContributionNotTakenBack(d, c, amount) == d

DisputeCrowdsourcerContribution(d, c, amount) ==
  [d EXCEPT !.crowdsourcers[c].staked = @ + amount]

DisputeCrowdsourcerContributionRemoval(d, c, amount) ==
  [d EXCEPT !.crowdsourcers[c].staked = @ - amount]

Disavowed(row, n) == [row EXCEPT !.disavowed = @ + n]

UpdateIncompleteCrowdsourcers(d, m) ==
  [d EXCEPT !.crowdsourcers = [c \in DOMAIN @ |->
     IF MarketOf[c] = m /\ @[c].completed = None
     THEN Disavowed([@[c] EXCEPT !.completed = 0], 1) ELSE @[c]]]

RollbackIncompleteCrowdsourcers(d, m) ==
  [d EXCEPT !.crowdsourcers = [c \in DOMAIN @ |->
     IF MarketOf[c] = m /\ @[c].completed = 0
     THEN Disavowed([@[c] EXCEPT !.completed = None], -1) ELSE @[c]]]

\* Every crowdsourcer of the market's round forgets whether it was completed.
RollbackCrowdsourcerCompletion(d, c) ==
  [d EXCEPT !.crowdsourcers = [x \in DOMAIN @ |->
     IF MarketOf[x] = MarketOf[c] /\ @[x].feeWindow = @[c].feeWindow
     THEN [@[x] EXCEPT !.completed = None] ELSE @[x]]]

\* Mutant: counts the rounds before the crowdsourcer is completed.
CompletedCountedEarly(d, c, now) ==
  LET m       == MarketOf[c]
      moved   == UpdateMarketState(UpdateDisputeRound(d, m), {m}, "AWAITING_NEXT_WINDOW")
      counted == UpdateMarketFeeWindow([moved EXCEPT !.crowdsourcers[c].completed = 1],
                                       d.markets[m].universe, m, now, TRUE)
  IN UpdateTentativeWinningPayout(UpdateIncompleteCrowdsourcers(counted, m), m)

DisputeCrowdsourcerCompleted(d, c, now) ==
  LET m       == MarketOf[c]
      moved   == UpdateMarketState([d EXCEPT !.crowdsourcers[c].completed = 1],
                                   {m}, "AWAITING_NEXT_WINDOW")
      counted == UpdateMarketFeeWindow(UpdateDisputeRound(moved, m),
                                       d.markets[m].universe, m, now, TRUE)
  IN UpdateTentativeWinningPayout(UpdateIncompleteCrowdsourcers(counted, m), m)

\* Mutant: expects the state before the completion.
CanUndoDispute(d, c) == CanRollBack(d, MarketOf[c], "CROWDSOURCING_DISPUTE")

CanUndoCompletion(d, c) == CanRollBack(d, MarketOf[c], "AWAITING_NEXT_WINDOW")
\* Mutant: leaves the tentative winner as it is.
CompletedRemovalKeepsWinner(d, c, now) ==
  LET m     == MarketOf[c]
      moved == RollbackMarketState(RollbackCrowdsourcerCompletion(d, c), m)
  IN RollbackIncompleteCrowdsourcers(
       UpdateMarketFeeWindow(UpdateDisputeRound(moved, m), d.markets[m].universe, m, now, FALSE), m)

DisputeCrowdsourcerCompletedRemoval(d, c, now) ==
  LET m       == MarketOf[c]
      moved   == RollbackMarketState(RollbackCrowdsourcerCompletion(d, c), m)
      counted == UpdateMarketFeeWindow(UpdateDisputeRound(moved, m),
                                       d.markets[m].universe, m, now, FALSE)
  IN UpdateTentativeWinningPayout(RollbackIncompleteCrowdsourcers(counted, m), m)

(***************************************************************************)
(* Finalization, fork and migration.                                       *)
(***************************************************************************)
\* Adds to the counters of every market of the universe but one.
Owing(row, migration, disavowal) ==
  [row EXCEPT !.needsMigration = @ + migration, !.needsDisavowal = @ + disavowal]
CountOthers(d, universe, m, migration, disavowal) ==
  [d EXCEPT !.markets = [x \in DOMAIN @ |->
     IF x # m /\ @[x].universe = universe
     THEN Owing(@[x], migration, disavowal) ELSE @[x]]]

MarketFinalized(d, m) ==
  LET final == UpdateMarketState(d, {m}, "FINALIZED")
  IN IF d.markets[m].forking = 1 THEN CountOthers(final, d.markets[m].universe, m, 1, 0)
     ELSE final

CanUndoFinalization(d, m) == CanRollBack(d, m, "FINALIZED")
\* Mutant: leaves the other markets waiting to migrate.
FinalizedRemovalKeepsMigration(d, m) == RollbackMarketState(d, m)

MarketFinalizedRemoval(d, m) ==
  [RollbackMarketState(d, m) EXCEPT !.markets = [x \in DOMAIN @ |->
     IF @[x].universe = d.markets[m].universe
     THEN [@[x] EXCEPT !.needsMigration = 0] ELSE @[x]]]

UncompleteNonforkingCrowdsourcers(d, universe, m) ==
  LET others == MarketsIn(d, universe) \ {m}
  IN [d EXCEPT
        !.crowdsourcers = [c \in DOMAIN @ |->
           IF MarketOf[c] \in others THEN [@[c] EXCEPT !.completed = 0] ELSE @[c]],
        !.markets = [x \in DOMAIN @ |->
           IF x \in others
           THEN [@[x] EXCEPT !.disputeRounds = IF x \in DOMAIN d.reports THEN 0 ELSE None]
           ELSE @[x]]]


\* The reverted markets' payouts: none wins, and all are tentative, since the update
\* that is to mark the payout of the initial report ignores the join that names it.
RevertPayouts(d, markets) ==
  [d EXCEPT !.payouts = [k \in DOMAIN @ |->
     IF k[1] \in markets THEN [winning |-> FALSE, tentative |-> TRUE] ELSE @[k]]]

\* Mutant: reverts only the markets that are being disputed.
ForkRevertsDisputedOnly(d, universe, m) ==
  LET forking  == UpdateMarketState([d EXCEPT !.markets[m].forking = 1], {m}, "FORKING")
      flagged  == [CountOthers(forking, universe, m, 0, 1) EXCEPT !.forked = @ \cup {universe}]
      reverted == {x \in MarketsIn(flagged, universe) : StateOf(flagged, x) = "CROWDSOURCING_DISPUTE"}
      waiting  == UpdateMarketState(flagged, reverted, "AWAITING_FORK_MIGRATION")
  IN UncompleteNonforkingCrowdsourcers(RevertPayouts(waiting, reverted), universe, m)

UniverseForked(d, universe, m) ==
  LET forking  == UpdateMarketState([d EXCEPT !.markets[m].forking = 1], {m}, "FORKING")
      flagged  == [CountOthers(forking, universe, m, 0, 1) EXCEPT !.forked = @ \cup {universe}]
      reverted == {x \in MarketsIn(flagged, universe) : StateOf(flagged, x) \in
                     {"AWAITING_FINALIZATION", "CROWDSOURCING_DISPUTE", "AWAITING_NEXT_WINDOW"}}
      waiting  == UpdateMarketState(flagged, reverted, "AWAITING_FORK_MIGRATION")
  IN UncompleteNonforkingCrowdsourcers(RevertPayouts(waiting, reverted), universe, m)

ForkingMarkets(d, universe) == {m \in MarketsIn(d, universe) : d.markets[m].forking = 1}
UniverseForkedRemoval(d, universe, m) ==
  [CountOthers([d EXCEPT !.markets[m].forking = 0], universe, m, 0, -1)
     EXCEPT !.forked = @ \ {universe}]

Disavow(d, m, n) ==
  [d EXCEPT !.crowdsourcers = [c \in DOMAIN @ |->
     IF MarketOf[c] = m THEN Disavowed(@[c], n) ELSE @[c]]]

\* advanceToAwaitingNextWindow takes a market with a fee window for a reported one.
MarketMigrated(d, m, now) ==
  LET next  == IF d.markets[m].feeWindow # None THEN "AWAITING_NEXT_WINDOW" ELSE "OPEN_REPORTING"
      moved == UpdateMarketState(
                 d, IF StateOf(d, m) = "AWAITING_FORK_MIGRATION" THEN {m} ELSE {}, next)
  IN Disavow([UpdateMarketFeeWindow(moved, Child, m, now, TRUE) EXCEPT
                !.markets[m].universe = Child,
                !.markets[m].needsMigration = @ - 1, !.markets[m].needsDisavowal = @ - 1],
             m, 1)

CanUndoMigration(d, m) == CanRollBack(d, m, "AWAITING_NEXT_WINDOW")
MarketMigratedRemoval(d, m) ==
  Disavow([RollbackMarketState(d, m) EXCEPT
             !.markets[m].universe = Genesis,
             !.markets[m].needsMigration = @ + 1, !.markets[m].needsDisavowal = @ + 1],
          m, -1)

MarketParticipantsDisavowed(d, m) ==
  Disavow([d EXCEPT !.markets[m].needsDisavowal = @ - 1], m, 1)

\* Mutant: the disavowal is not owed again.
DisavowedRemovalForgets(d, m) == Disavow(d, m, -1)

MarketParticipantsDisavowedRemoval(d, m) ==
  Disavow([d EXCEPT !.markets[m].needsDisavowal = @ + 1], m, -1)

\* The participant is the initial reporter of a market or a crowdsourcer.  (The throw
\* for one that is neither is left out: participants are logged before.)
ReportingParticipantDisavowed(d, participant, flag) ==
  IF participant \in DOMAIN d.reports
  THEN [d EXCEPT !.reports[participant].disavowed = flag]
  ELSE [d EXCEPT !.crowdsourcers[participant].disavowed = flag]
=============================================================================
