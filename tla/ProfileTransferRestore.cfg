SPECIFICATION TransferSpec
CONSTANTS
  Files = {f, g}
  Stores = {f}
  Absent = Absent
  Malformed = Malformed
  Torn = Torn
  Another = Another
  None = None
  MaxEdits = 3
  MaxCopies = 2
  MaxCrashes = 1
CHECK_DEADLOCK FALSE
INVARIANT EveryBackupRestores
