SPECIFICATION ReleaseSpec
CONSTANTS
  a = a
  b = b
  Commits = {a, b}
  Edited = Edited
  Altered = Altered
  None = None
  MaxCommands = 5
  MaxMishaps = 2
CHECK_DEADLOCK FALSE
INVARIANTS
  ShellIsOfCommit
