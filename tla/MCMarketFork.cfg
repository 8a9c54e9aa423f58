SPECIFICATION ForkSpec
CONSTANTS
  Market = {"m1", "m2"}
  Payout = {"p1", "p2"}
  Crowdsourcer = {"c1", "c2"}
  Universe = {"genesis", "child"}
  Genesis = "genesis"
  Child = "child"
  EndTime <- MCEndTime
  MarketOf <- MCMarketOf
  PayoutOf <- MCPayoutOf
  Size <- MCSize
  InitialStake = 1
  Duration = 3
  DesignatedDuration = 1
  None = None
  Prepared <- MCPrepared
  Windows <- MCWindows
  ForkBonds = {"c1"}
  Times = {3,7,13}
  MaxBlocks = 13
  MaxRemovals = 1
INVARIANTS
  
  DebtsOfTheFork
  StateIsTrue
PROPERTIES
  UndoIsExact
CHECK_DEADLOCK FALSE
