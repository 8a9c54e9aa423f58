SPECIFICATION FairSpec
CONSTANTS
  Block <- MCBlock
  Number <- MCNumber
  Chains <- MCChains
  LogBlocks <- MCLogBlocks
  Genesis = "g"
  UploadBlock = 3
  HandoffBlocks = 2
  MaxReorg = 2
  BlocksPerChunk = 2
  MaxRestarts = 2
  None = None
INVARIANTS
  TypeOK
  EffectsMatchRows
  TasksPaired
  DatabaseIsEarlierStream
  NoSilentGap
PROPERTIES
  WritesSerially
  CatchesUp

CHECK_DEADLOCK FALSE
