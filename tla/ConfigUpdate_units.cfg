SPECIFICATION ConfigSpec
CONSTANTS
  c1 = c1
  c2 = c2
  p1 = p1
  p2 = p2
  Clients = {c1, c2}
  HostOf <- OneHost
  Users = {c1, c2}
  UserOf <- OwnUser
  Ports = {p1, p2}
  Contents = {5}
  Default = 1
  U = 2
  W = 16
  MaxConns = 2
  MaxCommands = 2
  MaxKills = 1
  MaxFileFails = 1
SYMMETRY HostSymmetry
INVARIANTS
  FileMeansConfig
CHECK_DEADLOCK FALSE
