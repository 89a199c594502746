SPECIFICATION FairConnectionSpec
CONSTANTS
  MaxSock = 2
  Senders = {1, 2}
  MaxBreaks = 1
  MaxWire = 2
  MaxTries = 0
  MaxDelay = 2
INVARIANTS
  ConnectionTypeOK ConnectedIsReal MidMessageSocketKept OutOfStepByOverlapOnly
PROPERTIES
  Reconnects
