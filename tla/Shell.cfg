SPECIFICATION Spec
CONSTANTS
  Procs = {"sh", "left", "right", "single"}
  MAX_PIPES = 2
  PIPE_BUFFER_SIZE = 1
  Stream = 1
  Names = {}
  MAX_FDS = 5
  BUFF_LENGTH = 1
  TTY_LINE_SIZE = 2
  Keys = {"newline", "letter", "backspace"}
  PrintSize = 2
INVARIANTS ShellTypeOK KeyboardHasOwner NothingLeft
PROPERTIES ShellComesBack PipelineEnds
