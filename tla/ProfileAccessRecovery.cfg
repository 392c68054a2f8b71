SPECIFICATION AccessSpec
CONSTANTS
  None = None
  Windows = {u, v}
  Profiles = {p, q}
  MaxGeneration = 3
  MaxMishaps = 2
CHECK_DEADLOCK FALSE
INVARIANT RecoveryIsOffered
