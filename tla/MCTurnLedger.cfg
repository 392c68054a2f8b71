SPECIFICATION Spec
CONSTANTS
  c1 = c1
  t1 = t1
  t2 = t2
  t3 = t3
  None = None
  Conversations = {c1}
  Turns = {t1, t2, t3}
  Home <- OneConversation
  Requests = {r1}
  Contexts = {k1}
  Answers = {a1}
  Windows = {w1, w2}
  MaxImported = 1
SYMMETRY SymmetricTurns
INVARIANTS
  LedgerInv
  HistoryIsAnswers
  AnsweredFromSeen
  TimelineShowsHistory
PROPERTIES
  ReceiptsStand
  ImplementsChatHistory
