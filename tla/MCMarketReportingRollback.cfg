SPECIFICATION Spec
CONSTANTS
  Market = {"m1"}
  Payout = {"p1", "p2"}
  Crowdsourcer = {"c1", "c3"}
  Universe = {"genesis", "child"}
  Genesis = "genesis"
  Child = "child"
  EndTime <- MCEndTime
  MarketOf <- MCMarketOf
  PayoutOf <- MCPayoutOf
  Size <- MCSize
  InitialStake = 1
  Duration = 3
  DesignatedDuration = 1
  None = None
  Prepared <- MCPrepared
  Windows = {}
  ForkBonds = {}
  Times = {1,3,7,9,10}
  MaxBlocks = 8
  MaxRemovals = 2
INVARIANTS
  RollbackFindsItsState
CHECK_DEADLOCK FALSE
