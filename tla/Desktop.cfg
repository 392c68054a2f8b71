SPECIFICATION FairSpec
CONSTANTS
  MaxLaunches = 2
  MaxMishaps = 2
CHECK_DEADLOCK FALSE
INVARIANTS
  DesktopInv
  NothingLeftRunning
PROPERTIES
  LeaseOutlivesServer
  QuitEnds
  SecondLaunchSeesWindow
