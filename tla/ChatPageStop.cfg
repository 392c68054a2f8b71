SPECIFICATION Spec
CONSTANTS
  None = None
  Conversations = {a, b}
  Saved = {a}
  MaxSends = 2
  Impatient = TRUE
  MaxEpoch = 1
  MaxRevision = 1
  MaxFailures = 1
CHECK_DEADLOCK FALSE
INVARIANT UnknownBlocksSend
