SPECIFICATION SpecLive
CONSTANTS
  MaxProcesses = 64
  MinPriority = 1
  MaxPriority = 5
  DefaultPriority = 3
  AgingInterval = 50
  MaxAgingBonus = 4
  MaxPid = 3
  UserPids = {}
  NicePriorities = {}
  Meddle = FALSE
PROPERTY NoStarvation
