SPECIFICATION DeliverySpec
CONSTANTS
  MaxLogs = 2
  BatchSize = 2
  MaxLogFile = 1
  NoFile = NoFile
  Empty = Empty
  Garbage <- MCGarbage
  Restarts <- NoRestart
  DiskMayFail = FALSE
  AckDuringBatch = FALSE
  MaxConn = 2
  Handlers = {1, 2}
  Ids = {}
  Events <- MCEvents
  Peer <- MCPeer
  Misread = {2}
  MaxLines = 0
  DiskFaults = {"write"}
  MaxFlight = 2
  Overlap = FALSE
  Spills = TRUE
  ServerCrashes = TRUE
INVARIANTS
  DeliveryTypeOK StoredInOrder DamagedByLossOnly
PROPERTIES
  ImplementsReliableLog
CHECK_DEADLOCK FALSE
