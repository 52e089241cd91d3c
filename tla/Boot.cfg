SPECIFICATION BootSpec
CONSTANTS
  MaxProcesses = 3
  MinPriority = 1
  MaxPriority = 2
  DefaultPriority = 2
  AgingInterval = 1
  MaxAgingBonus = 1
  MaxPid = 3
  UserPids = {2, 3}
  NicePriorities = {1}
  Meddle = TRUE
PROPERTY ShellStartsInInit
