SPECIFICATION Spec
CONSTANTS
  Block <- MCBlock
  Number <- MCNumber
  Chains <- MCChains
  LogBlocks <- MCLogBlocks
  Genesis = "g"
  UploadBlock = 3
  HandoffBlocks = 2
  MaxReorg = 2
  BlocksPerChunk = 2
  MaxRestarts = 1
  None = None
INVARIANTS
  OneBranch
CHECK_DEADLOCK FALSE
