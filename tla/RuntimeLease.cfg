SPECIFICATION LeaseSpec
CONSTANTS
  None = None
  Launchers = {p1, p2, p3}
  Rivalry = {1, 2}
  Mortal = {p1, p2, p3}
CHECK_DEADLOCK FALSE
INVARIANT LeaseInv
PROPERTIES
  ServerKeepsLease
  LostOnlyToPassedCheck
