SPECIFICATION RegistrySpec
CONSTANTS
  N = 5
  Unit <- Units
  Size <- Sizes
  Configs <- FromServer
  Default <- ByDefault
  Initial <- AtFirst
  MaxSets = 2
  MaxKills = 2
  MaxFails = 2
INVARIANTS
  RegistryTypeOK NeverMixed StartKeepsThresholds
PROPERTIES
  DefaultOnlyIfCut
CHECK_DEADLOCK FALSE
