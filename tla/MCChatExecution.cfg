SPECIFICATION FairSpec
CONSTANTS
  t1 = t1
  t2 = t2
  r1 = r1
  r2 = r2
  r3 = r3
  home = home
  away = away
  None = None
  Turns = {t1, t2}
  Requests = {r1, r2, r3}
  Profiles = {home, away}
  TurnOf <- TurnsOfThree
  HomeOf <- HomesOfTwo
  MaxFailures = 2
  MaxCrashes = 1
INVARIANTS
  ChatInv
  PendingIsReachable
  AnswersKeepDocuments
PROPERTY ProfileChangesResume
