SPECIFICATION MCSpec
CONSTANTS
  MaxLogs = 3
  BatchSize = 2
  MaxLogFile = 2
  NoFile = NoFile
  Empty = Empty
  Garbage <- MCGarbage
  Restarts <- AllRestarts
  DiskMayFail = TRUE
  AckDuringBatch = TRUE
  B = 4
INVARIANTS
  TypeOK EventOrder NoLogLost QueueContiguous BatchesWhole LinesKeepLogs

