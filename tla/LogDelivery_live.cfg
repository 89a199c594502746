SPECIFICATION FairDeliverySpec
CONSTANTS
  MaxLogs = 2
  BatchSize = 2
  MaxLogFile = 1
  NoFile = NoFile
  Empty = Empty
  Garbage <- MCGarbage
  Restarts <- BenignOnly
  DiskMayFail = FALSE
  AckDuringBatch = FALSE
  MaxConn = 2
  Handlers = {1, 2}
  Ids = {}
  Events <- MCEvents
  Peer <- MCPeer
  Misread <- MCMisread
  MaxLines = 0
  DiskFaults = {}
  MaxFlight = 1
  Overlap = FALSE
  Spills = FALSE
  ServerCrashes = FALSE
INVARIANTS
  DoneIsStored
PROPERTIES
  ImplementsReliableLog EveryLogArrives
CHECK_DEADLOCK FALSE
