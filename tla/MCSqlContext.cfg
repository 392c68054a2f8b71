SPECIFICATION Spec
CONSTANTS
  None = None
  u = u
  v = v
  q1 = q1
  q2 = q2
  x = x
  y = y
  Windows = {u, v}
  Queries = {q1}
  Contents = {x, y}
  Most <- Editing
  MaxWrites = 1
  MaxApprovals = 2
  MaxCloses = 0
  MaxCalls = 6
  MaxFaults = 0
CHECK_DEADLOCK FALSE
PROPERTY ContextSavesAreSeen
