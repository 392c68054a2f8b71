SPECIFICATION SetupSpec
CONSTANTS
  Ready = 3
  Windows = {u, v}
  Values = {x, y}
  MaxWrites = 3
  MaxLost = 1
  None = None
CHECK_DEADLOCK FALSE
PROPERTIES
  SavesUndoNothing
