SPECIFICATION Spec
CONSTANTS
  p1 = p1
  p2 = p2
  default = default
  personal = personal
  trial = trial
  own = own
  work = work
  None = None
  Processes = {p1, p2}
  Default = default
  Profiles = {personal, trial}
  Names = {own, work}
  MaxProfiles = 2
  MaxGeneration = 4
  MaxDamage = 1
SYMMETRY Swaps
CHECK_DEADLOCK FALSE
INVARIANTS
  RegistryInv
PROPERTIES
  ReadsAreCurrent
  ImplementsRegistryHistory
