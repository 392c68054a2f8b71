SPECIFICATION FairSpec
CONSTANTS
  None = None
  u = u
  v = v
  q1 = q1
  q2 = q2
  x = x
  y = y
  Windows = {u}
  Queries = {q1, q2}
  Contents = {x, y}
  Most <- Everything
  MaxWrites = 1
  MaxApprovals = 2
  MaxCloses = 1
  MaxCalls = 3
  MaxFaults = 1
CHECK_DEADLOCK FALSE
INVARIANTS
  SqlInv
  RunsAsPreviewed
PROPERTIES
  SavesOverSeen
  PanelUnlocks
