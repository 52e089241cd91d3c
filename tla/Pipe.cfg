SPECIFICATION Spec
CONSTANTS
  p1 = p1
  p2 = p2
  p3 = p3
  Procs = {p1, p2, p3}
  MAX_PIPES = 2
  PIPE_BUFFER_SIZE = 2
  Stream = 4
  Names = {"fifo"}
  MAX_FDS = 4
  Counts = {0, 1, 3}
CHECK_DEADLOCK FALSE
SYMMETRY Symmetry
INVARIANTS ReferencesExact PipesReclaimed StreamInOrder SleepersCanBeWoken NoLostWakeup
