----------------------------- MODULE MCOrderBook ----------------------------
EXTENDS OrderBook

\* Two orders share a list, so that one can be missing from an answer that is
\* not empty; o1 can be filled in unequal parts.
MCSideOf == [o \in Order |-> IF o = "o3" THEN "sell" ELSE "buy"]
MCAmount == [o \in Order |-> IF o = "o1" THEN 3 ELSE 1]
=============================================================================
