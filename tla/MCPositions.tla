---------------------------- MODULE MCPositions ----------------------------
EXTENDS Portfolio

\* A scalar market from 360 to 1800, four ticks; 360 is divided by every number of
\* shares the averages of three fills meet.
Quote(o, p, n) == [outcome |-> o, price |-> p, amount |-> n]
MCQuotes == {Quote(0, 1440, 1), Quote(1, 720, 1), Quote(1, 1440, 2)}
MCPayouts == <<(0 :> 1) @@ (1 :> 3)>>
Traders == Permutations(Account)
=============================================================================
