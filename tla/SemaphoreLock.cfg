SPECIFICATION FairSemSpec
CONSTANTS
  p1 = p1
  p2 = p2
  p3 = p3
  Procs = {p1, p2, p3}
  Names = {"a", "b"}
  MaxSems = 2
  MaxProcesses = 3
  InitialValues = {1, 2}
  Usage = "lock"
  Meddle = FALSE
  MaxValue = 2
  MaxDebt = 3
  MaxOpens = 3
INVARIANTS HeldBitsTrue Conservation Exclusion
CHECK_DEADLOCK FALSE
PROPERTY WaiterServed
