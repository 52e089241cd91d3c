SPECIFICATION SemSpec
CONSTANTS
  p1 = p1
  p2 = p2
  p3 = p3
  Procs = {p1, p2, p3}
  Names = {"a", "b", "c"}
  MaxSems = 2
  MaxProcesses = 3
  InitialValues = {0, 1}
  Usage = "opener"
  Meddle = FALSE
  MaxValue = 2
  MaxDebt = 3
  MaxOpens = 3
SYMMETRY Symmetry
INVARIANTS SemTypeOK NoLostWaiter ValueCountsWaiters OpenCountExact
CHECK_DEADLOCK FALSE
