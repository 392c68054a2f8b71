SPECIFICATION PartsSpec
SYMMETRY Alike
CONSTANTS
  f = f
  g = g
  s = s
  w = w
  u = u
  v = v
  x = x
  y = y
  None = None
  Paths = {u, v}
  Contents = {f, g, s}
  Extracted <- MCExtracted
  Retention = 2
  MaxEdits = 2
  MaxJobs = 3
  MaxMishaps = 1
  Ready = 3
  Windows = {u, v}
  Values = {x, y}
  MaxWrites = 3
  MaxLost = 1
  Turns = {u, v}
  Ratings = {x, y}
  MaxRatings = 2
  MaxReads = 2
  MaxOpens = 1
  MaxFailures = 1
  Unrated = Unrated
  NoRow = NoRow
  c1 = c1
  c2 = c2
  Commits = {c1, c2}
  Edited = Edited
  Altered = Altered
  MaxCommands = 5
  MaxDisturbances = 1
  MaxGeneration = 3
  MaxAccidents = 2
  Absent = Absent
  Malformed = Malformed
  Torn = Torn
  Another = Another
  MaxChanges = 2
  MaxCopies = 2
  TreeFiles = {f, g}
  TreeStores = {f}
  MaxCrashes = 1
  MaxMemories = 3
  MaxCalls = 3
  Processes = {u, v, w}
  Rivalry = {1, 2}
  MaxTakes = 1
  MaxDeaths = 1
  Suite <- MCSuite
  Sheets <- MCSheets
  MinimumPasses = 2
  CapabilityPasses = 1
  Repeats = 2
  MaxRuns = 3
CHECK_DEADLOCK FALSE
INVARIANTS
  VaultInv
  RecordsInv
  ProfilesInv
  ReleaseInv
PROPERTIES
  UndoneOnlyAfterRefusal
