SPECIFICATION FairSpec
CONSTANTS
  None = None
  Conversations = {a, b}
  Saved = {a}
  MaxSends = 2
  Impatient = FALSE
  MaxEpoch = 1
  MaxRevision = 1
  MaxFailures = 1
CHECK_DEADLOCK FALSE
INVARIANTS
  PageInv
  DraftsAreUnanswered
PROPERTY Unlocks
