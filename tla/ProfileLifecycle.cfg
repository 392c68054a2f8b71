SPECIFICATION LifecycleSpec
CONSTANTS
  NoProfile = NoProfile
  Default = default
  Profiles = {personal, trial}
  Testing = {trial}
  Operations = {"default-migration", "create", "restore", "reset", "delete"}
  Staleness = 0
  MaxGeneration = 6
CHECK_DEADLOCK FALSE
INVARIANTS
  LifecycleInv
  WorkStaysHome
PROPERTIES
  KeptUntilCommitted
  ImplementsProfileStore
