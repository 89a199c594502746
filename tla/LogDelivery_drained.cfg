SPECIFICATION DeliverySpec
CONSTANTS
  MaxLogs = 3
  BatchSize = 3
  MaxLogFile = 1
  NoFile = NoFile
  Empty = Empty
  Garbage <- MCGarbage
  Restarts <- BenignDrained
  DiskMayFail = FALSE
  AckDuringBatch = FALSE
  MaxConn = 2
  Handlers = {1, 2}
  Ids = {}
  Events <- MCEvents
  Peer <- MCPeer
  Misread <- MCMisread
  MaxLines = 0
  DiskFaults = {}
  MaxFlight = 1
  Overlap = FALSE
  Spills = FALSE
  ServerCrashes = FALSE
INVARIANTS
  DoneIsStored
CHECK_DEADLOCK FALSE
