SPECIFICATION Spec
CONSTANTS
  Account = {a1, a2}
  NumOutcomes = 2
  MinPrice = 360
  MaxPrice = 1800
  Quotes <- MCQuotes
  NumTicks = 4
  Payouts <- MCPayouts
  GenesisTime = 10
  Day = 1
  DefaultBuckets = 30
  MaxBlocks = 3
  MaxLogs = 4
  MaxFills = 3
SYMMETRY Traders
INVARIANTS
  ProfitIsCashflow
  FrozenIsEscrow
  PortfolioIsCashflow
  BucketsAreThePast
CHECK_DEADLOCK FALSE
