SPECIFICATION BootSpec
CONSTANTS
  MaxProcesses = 3
  MinPriority = 1
  MaxPriority = 2
  DefaultPriority = 2
  AgingInterval = 1
  MaxAgingBonus = 1
  MaxPid = 2
  UserPids = {2}
  NicePriorities = {1}
  Meddle = FALSE

PROPERTY ShellBoots
