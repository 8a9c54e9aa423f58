---------------------------- MODULE MCMarketFork ----------------------------
\* Two markets; the crowdsourcer c1 of the first is large enough to fork the universe,
\* and filled but for the log of its completion.  The second market has a report
\* as old as the first's, which c2 may dispute, or none.
EXTENDS MarketReporting

MCEndTime  == [m \in Market |-> 2]
MCMarketOf == [c \in Crowdsourcer |-> IF c = "c1" THEN "m1" ELSE "m2"]
MCPayoutOf == [c \in Crowdsourcer |-> "p2"]
MCSize     == [c \in Crowdsourcer |-> 2]
MCPrepared == {<<"genesis", n>> : n \in 1..3}
MCWindows  == {<<"child", 3>>}

\* A block of that time and log after the state s, with the tables it leaves.
Start == [chain |-> <<>>, db |-> [EmptyTables EXCEPT !.windows = [w \in Prepared |-> "FUTURE"]]]
Mined(s, t, log, process(_)) ==
  LET found == AdvanceTime(s.db, t)
  IN [chain |-> Append(s.chain, [time |-> t, log |-> log, moved |-> found # s.db, before |-> found]),
      db |-> process(found)]

CreatedIn(s, m)  == Mined(s, 1, MarketLog("MarketCreated", m), LAMBDA d : MarketCreated(d, m))
ReportedIn(s, m) == Mined(s, 3, ReportLog(m, "p1"), LAMBDA d : InitialReportSubmitted(d, m, "p1", 3))
FilledIn(s) ==
  LET w == WindowAt(Genesis, 7)
      opened == Mined(s, 7, CrowdLog("DisputeCrowdsourcerCreated", "c1"),
                      LAMBDA d : DisputeCrowdsourcerCreated(d, "c1", w))
  IN Mined(opened, 7, CrowdLog("DisputeCrowdsourcerContribution", "c1"),
           LAMBDA d : DisputeCrowdsourcerContribution(d, "c1", Size["c1"]))

First  == ReportedIn(CreatedIn(CreatedIn(Start, "m1"), "m2"), "m1")
Starts == {FilledIn(First), FilledIn(ReportedIn(First, "m2"))}

ForkInit ==
  /\ \E s \in Starts : chain = s.chain /\ db = s.db
  /\ head = 7 /\ halted = FALSE /\ removals = 0 /\ unwound = {}

ForkSpec == ForkInit /\ [][Next]_vars
=============================================================================
