SPECIFICATION LifecycleSpec
CONSTANTS
  NoProfile = NoProfile
  Default = default
  Profiles = {personal, trial}
  Testing = {trial}
  Operations = {"default-migration", "create", "restore", "reset", "delete"}
  Staleness = 0
  MaxGeneration = 4
CHECK_DEADLOCK FALSE
INVARIANT RecoveryResolves
