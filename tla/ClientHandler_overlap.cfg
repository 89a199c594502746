SPECIFICATION HandlerSpec
CONSTANTS
  Handlers <- TwoHandlers
  Ids <- FewIds
  Events <- OneClient
  Peer <- PeerSame
  DiskFaults <- OpenWrite
  Misread <- MCMisread
  MaxLines = 4
  Spills = TRUE
  ServerCrashes = TRUE
INVARIANTS
  NoHole
