SPECIFICATION LockSpec
CONSTANTS
  None = None
  Processes = {p, q, r}
  Rivalry = {1, 2}
  MaxTakes = 1
  MaxDeaths = 1
CHECK_DEADLOCK FALSE
INVARIANT
  GivenBack
