SPECIFICATION Spec
CONSTANTS
  MaxProcesses = 4
  MinPriority = 1
  MaxPriority = 2
  DefaultPriority = 1
  AgingInterval = 1
  MaxAgingBonus = 1
  MaxPid = 4
  UserPids = {2, 3, 4}
  NicePriorities = {0, 3, 257}
  Meddle = FALSE
INVARIANTS TypeOK RunQueueExact RunQueueSorted CpuOwned UniquePids NoDanglingWaiter OneWait
PROPERTIES ChildDeathWakes IdleOnlyWhenNobodyReady
