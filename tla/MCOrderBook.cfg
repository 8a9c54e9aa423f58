SPECIFICATION Spec
CONSTANTS
  Order = {"o1", "o2"}
  Side = {"buy"}
  SideOf <- MCSideOf
  Amount <- MCAmount
  HandoffBlocks = 1
  MaxReorg = 1
  MaxReorgs = 1
  MaxHeight = 3
  MaxLogs = 2
  MaxLost = 1
INVARIANTS
  BookFollowsChain
  VolumeCountsFills
  HaltsOnlyOnTwins
  HiddenOnlyIfGone
  MetricsFresh
CHECK_DEADLOCK FALSE
