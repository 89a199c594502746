SPECIFICATION NetworkSpec
CONSTANTS
  Platforms = {"linux", "windows"}
  Pids = {p1, p2}
  NoPid = noPid
  Ports = {port1, port2}
  NoPort = noPort
  Ips = {ip1}
  AnyIp = anyIp
  LongInodes = {2}
  MaxSockets = 2
  MaxPackets = 2
  MaxBoth = 3
  MaxDisk = 1
  TracedPids = {p1}
  W = 16
SYMMETRY Symmetry
INVARIANTS
  NetworkTypeOK EachPacketOnce NoPacketLoggedTwice ChargedRight
  DiskNotUnderReported
CHECK_DEADLOCK FALSE
