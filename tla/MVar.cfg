SPECIFICATION MVarSpec
CONSTANTS
  Writers = {"w1", "w2"}
  Readers = {"r1", "r2"}
  Procs = {"w1", "w2", "r1", "r2"}
  Names = {"e", "f"}
  MaxSems = 2
  MaxProcesses = 4
  InitialValues = {0, 1}
  Usage = "any"
  Meddle = FALSE
  MaxValue = 4
  MaxDebt = 4
  MaxOpens = 4
  Killable = {"open_empty", "open_full", "access", "post"}
INVARIANT OneAtATime
PROPERTIES ImplementsBuffer EveryoneServed
CHECK_DEADLOCK FALSE
