-------------------------- MODULE MarketReporting ---------------------------
(***************************************************************************)
(* The life of markets from creation to finalization as the log            *)
(* processors follow it, block by block, with the time of each block, and  *)
(* with blocks taken back, latest first, when the chain is reorganised.    *)
(*                                                                         *)
(* A block carries at most one log here: one with more is a run of blocks  *)
(* of the same time, taken back in reverse.  The Augur contracts are       *)
(* outside the repository: a log may come whenever what the handlers read  *)
(* of the contracts, and the contracts' own rounds, allow it.              *)
(***************************************************************************)
EXTENDS ReportingTables

CONSTANTS
  Prepared,     \* fee windows created before the markets
  Windows,      \* fee windows that may be created later
  ForkBonds,    \* crowdsourcers whose completion forks the universe
  Times,        \* block times
  MaxBlocks,    \* bound on the length of the chain
  MaxRemovals   \* bound on the blocks taken back

ASSUME RunAssumption ==
  /\ Prepared \cup Windows \subseteq Universe \X Nat /\ IsFiniteSet(Prepared) /\ ForkBonds \subseteq Crowdsourcer
  /\ Times \subseteq Nat \ {0} /\ MaxBlocks \in Nat /\ MaxRemovals \in Nat

VARIABLES
  chain,     \* the blocks: time, log and, only for the properties, whether their
             \* time changed the tables and the tables their log found
  db,        \* the tables
  head,      \* blockHeadTimestamp: the time of the block added last, in memory
  halted,    \* a log processor threw: the process has ended
  removals,  \* how many blocks were taken back
  unwound    \* the kinds of log taken back, and "time" if a block's time had
             \* changed the tables: only the properties read it

vars == <<chain, db, head, halted, removals, unwound>>

NoLog == [kind |-> "none"]
MarketLog(kind, m) == [kind |-> kind, market |-> m]
ReportLog(m, p)    == [kind |-> "InitialReportSubmitted", market |-> m, payout |-> p]
CrowdLog(kind, c)  == [kind |-> kind, crowdsourcer |-> c]
WindowLog(w)       == [kind |-> "FeeWindowCreated", window |-> w]
ParticipantLog(x)  == [kind |-> "ReportingParticipantDisavowed", participant |-> x]

(***************************************************************************)
(* The contracts, as far as the chain's logs tell.                         *)
(***************************************************************************)
Now == IF chain = <<>> THEN 0 ELSE Final(chain).time
Has(log) == \E i \in 1..Len(chain) : chain[i].log = log

Created(m)   == Has(MarketLog("MarketCreated", m))
Reported(m)  == \E i \in 1..Len(chain) :
                  chain[i].log.kind = "InitialReportSubmitted" /\ chain[i].log.market = m
Finalized(m) == Has(MarketLog("MarketFinalized", m))
Migrated(m)  == Has(MarketLog("MarketMigrated", m))
Completed(c) == Has(CrowdLog("DisputeCrowdsourcerCompleted", c))
Forking      == {m \in Market : Has(MarketLog("UniverseForked", m))}

HomeOf(m)   == IF Migrated(m) THEN Child ELSE Genesis
InForked(m) == Forking # {} /\ ~Migrated(m)
Exists(w)   == w \in Prepared \/ Has(WindowLog(w))

\* The logs that start a round of market m, and the window of the last one.
StartsRound(log, m) ==
  \/ log.kind \in {"InitialReportSubmitted", "MarketMigrated"} /\ log.market = m
  \/ log.kind = "DisputeCrowdsourcerCompleted" /\ MarketOf[log.crowdsourcer] = m
RoundStart(m) ==
  LET starts == {i \in 1..Len(chain) : StartsRound(chain[i].log, m)}
  IN CHOOSE i \in starts : \A j \in starts : j <= i
RoundWindow(m) == WindowAt(HomeOf(m), chain[RoundStart(m)].time + Duration)
InRound(m, time) == LET w == RoundWindow(m) IN StartOf(w) < time /\ time < EndOf(w)
RoundOver(m, time) == time > EndOf(RoundWindow(m))

ThisRound(kind, c) ==
  \E i \in RoundStart(MarketOf[c])..Len(chain) : chain[i].log = CrowdLog(kind, c)

ChainStakeOn(m, p) ==
  LET done == {c \in Crowdsourcer : MarketOf[c] = m /\ PayoutOf[c] = p /\ Completed(c)}
      sum[S \in SUBSET done] ==
        IF S = {} THEN 0 ELSE LET c == CHOOSE c \in S : TRUE IN Size[c] + sum[S \ {c}]
  IN sum[done] + (IF Has(ReportLog(m, p)) THEN InitialStake ELSE 0)

\* The payout that wins if nobody disputes it: that of the round's start.
Leading(m) ==
  LET stake == [p \in Payout |-> ChainStakeOn(m, p)]
  IN CHOOSE p \in Payout : \A q \in Payout : stake[q] <= stake[p]

\* A bond must raise its payout to twice the stake on all others.
IsBond(c) ==
  LET m == MarketOf[c]
      others[P \in SUBSET Payout] ==
        IF P = {} THEN 0
        ELSE LET p == CHOOSE p \in P : TRUE IN ChainStakeOn(m, p) + others[P \ {p}]
  IN /\ PayoutOf[c] # Leading(m)
     /\ Size[c] = 2 * others[Payout \ {PayoutOf[c]}] - ChainStakeOn(m, PayoutOf[c])

\* The completion of a bond that large and the fork are one transaction.
ForkDue ==
  /\ chain # <<>> /\ \E c \in ForkBonds : Final(chain).log = CrowdLog("DisputeCrowdsourcerCompleted", c)
  /\ Forking = {}

\* The reporting states the contracts leave open for a market.  At the very
\* second a window ends it may have been seen active, or never.
ContractStates(m) ==
  IF Finalized(m) THEN {"FINALIZED"}
  ELSE IF m \in Forking THEN {"FORKING"}
  ELSE IF ~Reported(m) THEN
    {IF Now > EndTime[m] + DesignatedDuration THEN "OPEN_REPORTING"
     ELSE IF Now > EndTime[m] THEN "DESIGNATED_REPORTING" ELSE "PRE_REPORTING"}
  ELSE IF InForked(m) THEN {"AWAITING_FORK_MIGRATION"}
  ELSE IF RoundOver(m, Now) THEN {"AWAITING_FINALIZATION"}
  ELSE IF InRound(m, Now) THEN {"CROWDSOURCING_DISPUTE"}
  ELSE IF Now = EndOf(RoundWindow(m)) THEN {"AWAITING_NEXT_WINDOW", "CROWDSOURCING_DISPUTE"}
  ELSE {"AWAITING_NEXT_WINDOW"}

(***************************************************************************)
(* A block is added: its time is advanced to and its log processed, or the *)
(* log processor throws, the transaction rolls back and the process ends.  *)
(***************************************************************************)
Mining(t) == /\ ~halted /\ Len(chain) < MaxBlocks
             /\ t \in Times /\ t >= Now /\ (ForkDue => t = Now)

Extend(t, log, tables) ==
  /\ LET found == AdvanceTime(db, t)
     IN chain' = Append(chain, [time |-> t, log |-> log, moved |-> found # db, before |-> found])
  /\ db' = tables /\ head' = t
  /\ UNCHANGED <<halted, removals, unwound>>

Throw == halted' = TRUE /\ UNCHANGED <<chain, db, head, removals, unwound>>

\* A block without a log matters only for its time.
AddBlock(t) == /\ Mining(t) /\ ~ForkDue /\ t > Now
               /\ Extend(t, NoLog, AdvanceTime(db, t))

AddMarketCreated(t, m) ==
  /\ Mining(t) /\ ~ForkDue /\ ~Created(m) /\ Forking = {} /\ t < EndTime[m]
  /\ Extend(t, MarketLog("MarketCreated", m), MarketCreated(AdvanceTime(db, t), m))

AddFeeWindowCreated(t, w) ==
  /\ Mining(t) /\ ~ForkDue /\ ~Exists(w)
  /\ w \in {WindowAt(w[1], t), WindowAt(w[1], t + Duration)}
  /\ w[1] = Child => Forking # {}
  /\ Extend(t, WindowLog(w), FeeWindowCreated(AdvanceTime(db, t), w, t))

NextWindowExists(m, t) == Exists(WindowAt(HomeOf(m), t + Duration))

AddInitialReportSubmitted(t, m, p) ==
  /\ Mining(t) /\ ~ForkDue /\ Created(m) /\ ~Reported(m) /\ t > EndTime[m]
  /\ NextWindowExists(m, t)
  /\ Extend(t, ReportLog(m, p), InitialReportSubmitted(AdvanceTime(db, t), m, p, t))

\* Disputes are open in the round's window only, and not in a forked universe.
Disputable(t, c) ==
  LET m == MarketOf[c]
  IN /\ Mining(t) /\ ~ForkDue /\ Reported(m) /\ InRound(m, t)
     /\ ~Finalized(m) /\ ~InForked(m)

\* Of two CURRENT windows the query may return either.
AddDisputeCrowdsourcerCreated(t, c) ==
  /\ Disputable(t, c) /\ ~Has(CrowdLog("DisputeCrowdsourcerCreated", c)) /\ IsBond(c)
  /\ \A x \in Crowdsourcer :
       MarketOf[x] = MarketOf[c] /\ ThisRound("DisputeCrowdsourcerCreated", x)
         => PayoutOf[x] # PayoutOf[c]
  /\ LET d == AdvanceTime(db, t)
         current == Current(d, HomeOf(MarketOf[c]))
     IN \/ /\ current = {} /\ Throw
        \/ \E w \in current :
             Extend(t, CrowdLog("DisputeCrowdsourcerCreated", c), DisputeCrowdsourcerCreated(d, c, w))

AddDisputeCrowdsourcerContribution(t, c) ==
  /\ Disputable(t, c) /\ ThisRound("DisputeCrowdsourcerCreated", c)
  /\ ~ThisRound("DisputeCrowdsourcerContribution", c)
  /\ Extend(t, CrowdLog("DisputeCrowdsourcerContribution", c),
            DisputeCrowdsourcerContribution(AdvanceTime(db, t), c, Size[c]))

AddDisputeCrowdsourcerCompleted(t, c) ==
  /\ Disputable(t, c) /\ ThisRound("DisputeCrowdsourcerContribution", c)
  /\ ~Completed(c) /\ NextWindowExists(MarketOf[c], t)
  /\ Extend(t, CrowdLog("DisputeCrowdsourcerCompleted", c),
            DisputeCrowdsourcerCompleted(AdvanceTime(db, t), c, t))

AddMarketFinalized(t, m) ==
  /\ Mining(t) /\ ~ForkDue /\ ~Finalized(m)
  /\ \/ m \in Forking
     \/ Reported(m) /\ ~InForked(m) /\ RoundOver(m, t)
  /\ Extend(t, MarketLog("MarketFinalized", m), MarketFinalized(AdvanceTime(db, t), m))

AddUniverseForked(t, m) ==
  /\ Mining(t) /\ ForkDue /\ m = MarketOf[Final(chain).log.crowdsourcer]
  /\ Extend(t, MarketLog("UniverseForked", m), UniverseForked(AdvanceTime(db, t), Genesis, m))

\* Markets migrate when the fork is decided.
AddMarketMigrated(t, m) ==
  /\ Mining(t) /\ Created(m) /\ m \notin Forking /\ \E f \in Forking : Finalized(f)
  /\ ~Migrated(m) /\ ~Finalized(m)
  /\ Exists(WindowAt(Child, t + Duration))
  /\ Extend(t, MarketLog("MarketMigrated", m), MarketMigrated(AdvanceTime(db, t), m, t))

AddMarketParticipantsDisavowed(t, m) ==
  /\ Mining(t) /\ Created(m) /\ InForked(m) /\ ~Finalized(m) /\ m \notin Forking
  /\ ~Has(MarketLog("MarketParticipantsDisavowed", m))
  /\ Extend(t, MarketLog("MarketParticipantsDisavowed", m),
            MarketParticipantsDisavowed(AdvanceTime(db, t), m))

\* The participants of the forking market, when they move to a child universe.
AddReportingParticipantDisavowed(t, x) ==
  /\ Mining(t)
  /\ \/ x \in Forking
     \/ x \in Crowdsourcer /\ MarketOf[x] \in Forking /\ Completed(x)
  /\ ~Has(ParticipantLog(x))
  /\ Extend(t, ParticipantLog(x), ReportingParticipantDisavowed(AdvanceTime(db, t), x, 1))

(***************************************************************************)
(* The last block is taken back: its log is undone, time is not.           *)
(***************************************************************************)
Removing(log) ==
  /\ ~halted /\ removals < MaxRemovals /\ chain # <<>> /\ Final(chain).log = log

Retract(tables) ==
  /\ chain' = SubSeq(chain, 1, Len(chain) - 1)
  /\ db' = tables /\ removals' = removals + 1
  /\ unwound' = unwound \cup {Final(chain).log.kind}
                        \cup (IF Final(chain).moved THEN {"time"} ELSE {})
                        \cup (IF head # Final(chain).time THEN {"head"} ELSE {})
  /\ UNCHANGED <<head, halted>>

RemoveBlock == Removing(NoLog) /\ Retract(db)

RemoveMarketCreated(m) ==
  /\ Removing(MarketLog("MarketCreated", m)) /\ Retract(MarketCreatedRemoval(db, m))

RemoveFeeWindowCreated(w) ==
  /\ Removing(WindowLog(w)) /\ Retract(FeeWindowCreatedRemoval(db, w))

RemoveInitialReportSubmitted(m, p) ==
  /\ Removing(ReportLog(m, p))
  /\ IF CanUndoReport(db, m) THEN Retract(InitialReportSubmittedRemoval(db, m, head)) ELSE Throw

RemoveDisputeCrowdsourcerCreated(c) ==
  /\ Removing(CrowdLog("DisputeCrowdsourcerCreated", c))
  /\ Retract(DisputeCrowdsourcerCreatedRemoval(db, c))

RemoveDisputeCrowdsourcerContribution(c) ==
  /\ Removing(CrowdLog("DisputeCrowdsourcerContribution", c))
  /\ Retract(DisputeCrowdsourcerContributionRemoval(db, c, Size[c]))

RemoveDisputeCrowdsourcerCompleted(c) ==
  /\ Removing(CrowdLog("DisputeCrowdsourcerCompleted", c))
  /\ IF CanUndoCompletion(db, c)
     THEN Retract(DisputeCrowdsourcerCompletedRemoval(db, c, head)) ELSE Throw

RemoveMarketFinalized(m) ==
  /\ Removing(MarketLog("MarketFinalized", m))
  /\ IF CanUndoFinalization(db, m) THEN Retract(MarketFinalizedRemoval(db, m)) ELSE Throw

RemoveUniverseForked(m) ==
  /\ Removing(MarketLog("UniverseForked", m))
  /\ IF ForkingMarkets(db, Genesis) = {} THEN Throw
     ELSE \E f \in ForkingMarkets(db, Genesis) : Retract(UniverseForkedRemoval(db, Genesis, f))

RemoveMarketMigrated(m) ==
  /\ Removing(MarketLog("MarketMigrated", m))
  /\ IF CanUndoMigration(db, m) THEN Retract(MarketMigratedRemoval(db, m)) ELSE Throw

RemoveMarketParticipantsDisavowed(m) ==
  /\ Removing(MarketLog("MarketParticipantsDisavowed", m))
  /\ Retract(MarketParticipantsDisavowedRemoval(db, m))

RemoveReportingParticipantDisavowed(x) ==
  /\ Removing(ParticipantLog(x)) /\ Retract(ReportingParticipantDisavowed(db, x, 0))

Init ==
  /\ chain = <<>> /\ head = 0 /\ halted = FALSE /\ removals = 0 /\ unwound = {}
  /\ db = [EmptyTables EXCEPT !.windows = [w \in Prepared |-> "FUTURE"]]

AddLog(t) ==
  \/ AddBlock(t)
  \/ \E m \in Market : \/ AddMarketCreated(t, m) \/ AddMarketFinalized(t, m)
                       \/ AddUniverseForked(t, m) \/ AddMarketMigrated(t, m)
                       \/ AddMarketParticipantsDisavowed(t, m)
                       \/ \E p \in Payout : AddInitialReportSubmitted(t, m, p)
  \/ \E w \in Windows : AddFeeWindowCreated(t, w)
  \/ \E c \in Crowdsourcer : \/ AddDisputeCrowdsourcerCreated(t, c)
                             \/ AddDisputeCrowdsourcerContribution(t, c)
                             \/ AddDisputeCrowdsourcerCompleted(t, c)
  \/ \E x \in Market \cup Crowdsourcer : AddReportingParticipantDisavowed(t, x)

RemoveLog ==
  \/ RemoveBlock
  \/ \E m \in Market : \/ RemoveMarketCreated(m) \/ RemoveMarketFinalized(m)
                       \/ RemoveUniverseForked(m) \/ RemoveMarketMigrated(m)
                       \/ RemoveMarketParticipantsDisavowed(m)
                       \/ \E p \in Payout : RemoveInitialReportSubmitted(m, p)
  \/ \E w \in Windows : RemoveFeeWindowCreated(w)
  \/ \E c \in Crowdsourcer : \/ RemoveDisputeCrowdsourcerCreated(c)
                             \/ RemoveDisputeCrowdsourcerContribution(c)
                             \/ RemoveDisputeCrowdsourcerCompleted(c)
  \/ \E x \in Market \cup Crowdsourcer : RemoveReportingParticipantDisavowed(x)

Next == (\E t \in Times : AddLog(t)) \/ RemoveLog

Spec == Init /\ [][Next]_vars

-----------------------------------------------------------------------------
\* The tables hold rows of their schema: no stake is negative, no state unknown.
TypeOK ==
  /\ TablesOK(db) /\ head \in Nat /\ halted \in BOOLEAN /\ removals \in 0..MaxRemovals
  /\ Len(chain) <= MaxBlocks

\* A removal of one of these kinds is known to leave the tables astray: its
\* processor does not undo what the addition did.  "time" is the removal of a
\* block whose time had moved the tables, "head" one that found a later time
\* in blockHeadTimestamp.  The properties hold as long as none has happened.
Undone(kinds) == unwound \cap kinds # {}

\* The reporting state of a market is the one its contract is in, whatever
\* mixture of logs, block times and removals led there, with one exception: a
\* market that migrated before it was reported has a fee window by that, and when
\* the window ends before a report the tables take it to await finalization.
StateIsTrue ==
  ~Undone({"time", "head", "UniverseForked", "InitialReportSubmitted"}) =>
    \A m \in DOMAIN db.markets :
      StateOf(db, m) \in IF Migrated(m) /\ ~Reported(m) /\ RoundOver(m, Now)
                         THEN {"AWAITING_FINALIZATION"} ELSE ContractStates(m)

\* updateActiveFeeWindows gives every fee window the state it has at the time of
\* the last block, though it sees only the changes, and leaves at most one
\* window of a universe CURRENT: the crowdsourcers are filed under the first
\* CURRENT one found.  (The tables keep their types throughout.)
WindowsFollowTime ==
  /\ TypeOK
  /\ ~Undone({"time"}) =>
       /\ \A w \in DOMAIN db.windows :
            /\ db.windows[w] = "PAST" <=> EndOf(w) < Now
            /\ StartOf(w) < Now /\ Now < EndOf(w) => db.windows[w] = "CURRENT"
            /\ db.windows[w] = "CURRENT" => StartOf(w) < Now
       /\ \A u \in Universe : Cardinality(Current(db, u)) <= 1

\* A fork reverts the markets that have a report but are not final, other than its own.
Reverted(m) ==
  \E n \in 1..Len(chain) :
    /\ chain[n].log.kind = "UniverseForked" /\ chain[n].log.market # m
    /\ \E i \in 1..n : chain[i].log.kind = "InitialReportSubmitted" /\ chain[i].log.market = m
    /\ ~\E i \in 1..n : chain[i].log = MarketLog("MarketFinalized", m)

\* The payout marked as tentatively winning is the one with most stake on the
\* chain, and it alone is marked as winning, from when the market awaits
\* finalization: completions and their removals recount it, the end of a fee window
\* copies it.  A market that a fork reverts has every payout marked instead, first
\* as tentatively winning and after its window as winning; and no payout of the
\* market that forks is ever marked as winning.
Marked(m, mark(_)) == {p \in Payout : <<m, p>> \in DOMAIN db.payouts /\ mark(db.payouts[<<m, p>>])}
LeaderIsKnown ==
  ~Undone({"time", "head", "InitialReportSubmitted", "UniverseForked"}) =>
    \A m \in DOMAIN db.markets : Reported(m) =>
      LET leaders == IF Reverted(m) THEN Marked(m, LAMBDA row : TRUE) ELSE {Leading(m)}
          decided == StateOf(db, m) \in {"AWAITING_FINALIZATION", "FINALIZED"} /\ m \notin Forking
      IN /\ Marked(m, LAMBDA row : row.tentative) = leaders
         /\ Marked(m, LAMBDA row : row.winning) = IF decided THEN leaders ELSE {}

\* markets.disputeRounds of a reported market is the number of its completed
\* crowdsourcers on the chain, also after removals of completions.  A fork of
\* another market sets it to 0, for good even if the fork is taken back; and
\* crowdsourcers of two rounds filed under one window, after a block time was
\* taken back, lose their completions together.
RoundsCounted ==
  ~Undone({"time", "UniverseForked"}) =>
    \A m \in DOMAIN db.markets : Reported(m) /\ Forking \subseteq {m} =>
      db.markets[m].disputeRounds =
        Cardinality({c \in Crowdsourcer : MarketOf[c] = m /\ Completed(c)})

\* A crowdsourcer is completed, open or failed as on the chain: it fails when
\* another of its round completes, which disavows it too, or when the fee window
\* it is filed under, that of its round, ends.  Its stake is what was contributed.
\* All that until a fork, which settles crowdsourcers by rules of its own.
CrowdsourcersSettled ==
  ~Undone({"time", "DisputeCrowdsourcerCompleted", "UniverseForked"}) /\ Forking = {} =>
    \A c \in DOMAIN db.crowdsourcers :
      LET row == db.crowdsourcers[c]
          open == ThisRound("DisputeCrowdsourcerCreated", c)
      IN /\ row.completed = IF Completed(c) THEN 1
                            ELSE IF open /\ Now <= EndOf(row.feeWindow) THEN None ELSE 0
         /\ row.disavowed = IF Completed(c) \/ open THEN 0 ELSE 1
         /\ open => row.feeWindow = RoundWindow(MarketOf[c])
         /\ row.staked = IF Has(CrowdLog("DisputeCrowdsourcerContribution", c)) THEN Size[c] ELSE 0

\* Taking blocks back makes a log processor throw, which ends the process, only
\* after a block whose time had moved the tables, or a fork, was taken back; or,
\* while the universe is forked, at an initial report or a migration: these put
\* the market into states their removals do not expect.
HaltsOnlyOnUndoneTime ==
  halted => \/ Undone({"time", "UniverseForked"})
            \/ /\ Forking # {}
               /\ Final(chain).log.kind \in {"InitialReportSubmitted", "MarketMigrated"}

\* What rollbackMarketState asserts when the last block is taken back: the
\* market's latest state is the one the block's log had put it in.
RollbackFindsItsState ==
  chain # <<>> =>
    LET log == Final(chain).log
    IN /\ \A m \in Market, p \in Payout : log = ReportLog(m, p) => CanUndoReport(db, m)
       /\ \A c \in Crowdsourcer :
            log = CrowdLog("DisputeCrowdsourcerCompleted", c) => CanUndoCompletion(db, c)
       /\ \A m \in Market : log = MarketLog("MarketFinalized", m) => CanUndoFinalization(db, m)

\* Taking back a block with one of these logs, and nothing else so far, leaves
\* the tables as its log had found them, but for the payout row that the first
\* crowdsourcer on a payout leaves behind.  It is not so of the other logs.
Invertible == {"none", "MarketCreated", "FeeWindowCreated", "DisputeCrowdsourcerCreated",
               "DisputeCrowdsourcerContribution", "MarketFinalized",
               "MarketParticipantsDisavowed", "ReportingParticipantDisavowed"}
UndoIsExact ==
  [][(Len(chain') < Len(chain) /\ unwound' \subseteq Invertible \cup {"head"}) =>
       [db' EXCEPT !.payouts = <<>>] = [Final(chain).before EXCEPT !.payouts = <<>>]]_vars

\* The flags of a fork and the debts it leaves are the chain's, also after the fork
\* is taken back.  A market owes a migration when the fork it was left out of is
\* decided, until it is done.  The disavowal of its crowdsourcers is owed from the
\* fork on, and both the disavowal and the migration count it down: a market that
\* is disavowed and then migrates ends with -1, which the getters take for a debt.
DebtsOfTheFork ==
  /\ Genesis \in db.forked <=> Forking # {}
  /\ \A m \in DOMAIN db.markets :
       LET count(truth) == IF truth THEN 1 ELSE 0
       IN /\ db.markets[m].forking = count(m \in Forking)
          /\ db.markets[m].needsMigration =
               count((\E f \in Forking : Finalized(f)) /\ m \notin Forking /\ ~Migrated(m))
          /\ db.markets[m].needsDisavowal =
               count(Forking # {} /\ m \notin Forking) - count(Migrated(m))
                 - count(Has(MarketLog("MarketParticipantsDisavowed", m)))
=============================================================================
