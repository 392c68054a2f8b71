SPECIFICATION MemoriesSpec
CONSTANTS
  Windows = {u}
  Texts <- MCTexts
  Kinds = {"fact", "preference"}
  None = None
  Subject <- MCSubject
  Exports <- MCExports
  MaxMemories = 3
  MaxCalls = 4
CHECK_DEADLOCK FALSE
INVARIANT OnlyReviewedIsImported
