SPECIFICATION Spec
CONSTANTS
  Procs = {"sh", "left", "right", "single"}
  MAX_PIPES = 1
  PIPE_BUFFER_SIZE = 1
  Stream = 1
  Names = {}
  MAX_FDS = 4
  BUFF_LENGTH = 1
  TTY_LINE_SIZE = 2
  Keys = {"newline", "letter"}
  PrintSize = 2
INVARIANT ShellHearsKeys
