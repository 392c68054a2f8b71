SPECIFICATION FairGateSpec
CONSTANTS
  g1 = g1
  g2 = g2
  g3 = g3
  g4 = g4
  g5 = g5
  m1 = m1
  m2 = m2
  NoQueue = NoQueue
  Generations = {g1, g2, g3, g4, g5}
  Models = {m1, m2}
  ModelOf <- ModelsOfFive
  MaxActive = 1
  MaxQueued = 2
CHECK_DEADLOCK FALSE
INVARIANT GateInv
PROPERTIES
  WaitersAreAnswered
  ImplementsFifoGate
