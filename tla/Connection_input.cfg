SPECIFICATION FairConnectionSpec
CONSTANTS
  MaxSock = 3
  Senders = {1}
  MaxBreaks = 1
  MaxWire = 2
  MaxTries = 0
  MaxDelay = 1
PROPERTIES
  InputIsRead
