SPECIFICATION MCSpec
CONSTANTS
  p1 = p1
  p2 = p2
  k = k
  Pids = {p1, p2, k}
  Kernel = {k}
  MaxPrograms = 3
  MaxUse = 1
  W = 4
SYMMETRY PidSymmetry
INVARIANTS
  ProcessTableTypeOK TablesAgree WrongOnlyAfterReuse NoneMissed ShownAreLargest AlarmsRight
