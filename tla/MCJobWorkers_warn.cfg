CONSTANTS
  g1 = g1
  j1 = j1
  j2 = j2
  m1 = m1
  m2 = m2
  m3 = m3
  m4 = m4
  m5 = m5
  b1 = b1
  NoMsg = NoMsg
  Proc <- PairProc
  JobWorker <- PairJobWorker
  JobBudget <- PairBudget
  Msg <- ThreeMsg
  Buffer <- NoBuffer
  BufferGroup <- OneGroup
  SlotCount = 5
  MaxOwners = 7
  JobPipeCapacity = 1
  ResultPipeCapacity = 1
  MaxStops = 1
  KillInWindow = FALSE
SPECIFICATION Spec
INVARIANTS
  ReleasedMessageIsNotRead
