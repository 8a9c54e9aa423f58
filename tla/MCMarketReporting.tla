--------------------------- MODULE MCMarketReporting ------------------------
EXTENDS MarketReporting

MCEndTime  == [m \in Market |-> 2]
MCMarketOf == [c \in Crowdsourcer |-> "m1"]
\* c1 and c2 compete in the first round; c3 answers c1 in the second.
MCPayoutOf == [c \in Crowdsourcer |-> CASE c = "c1" -> "p2" [] c = "c2" -> "p3" [] c = "c3" -> "p1"]
MCSize     == [c \in Crowdsourcer |-> IF c = "c3" THEN 3 ELSE 2]
MCPrepared == {<<"genesis", n>> : n \in 1..3}
=============================================================================
