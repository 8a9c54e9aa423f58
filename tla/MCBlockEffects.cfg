SPECIFICATION Spec
CONSTANTS
  Client = {alice, bob}
  Subscription = {s1, s2}
  Override = {101, 102}
  BlockLogs <- MCBlockLogs
  MaxBlocks = 3
  MaxRemovals = 1
  MaxStops = 2
SYMMETRY Symmetry
CHECK_DEADLOCK FALSE
INVARIANTS OverrideIsCurrent SubscribersAreTold
