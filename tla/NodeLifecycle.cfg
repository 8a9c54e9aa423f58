SPECIFICATION FairSpec
CONSTANTS
  Owners = {"runServer", "app"}
  MaxSystemRetries = 2
  MaxSessions = 4
  MaxLaunches = 2
  MaxMonitorFailures = 1
  MaxCalls = 1
  MaxFiles = 7
  MaxUpload = 2
INVARIANTS
  OneWriter
  WritesTheDatabase
  StoppedIsClosed
  RetriesBounded
  MigrationIsFree
PROPERTIES
  UpOrExits
CHECK_DEADLOCK FALSE
