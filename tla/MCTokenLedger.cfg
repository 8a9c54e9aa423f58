SPECIFICATION Spec
CONSTANTS
  Account = {alice, bob}
  Market = {"m1", "m2"}
  FirstMarkets = {"m1"}
  CategoryOf <- MCCategoryOf
  UniverseOf <- MCUniverseOf
  NumTicks <- MCNumTicks
  Moves <- MCMoves
  StartRep = 1
  Bond = 1
  MaxBlocks = 3
  MaxRemovals = 2
SYMMETRY Symmetry
CHECK_DEADLOCK FALSE
INVARIANTS LedgerFollowsChain OpenInterestIsSupply HistoryExplainsHoldings
  HistoryListsTheChain
PROPERTY CategoriesFollowMarkets
