CONSTANTS
  g1 = g1
  j1 = j1
  j2 = j2
  m1 = m1
  m2 = m2
  m3 = m3
  m4 = m4
  m5 = m5
  b1 = b1
  NoMsg = NoMsg
  Proc <- TrioProc
  JobWorker <- TrioJobWorker
  JobBudget <- TrioBudget
  Msg <- FourMsg
  Buffer <- NoBuffer
  BufferGroup <- OneGroup
  SlotCount = 5
  MaxOwners = 7
  JobPipeCapacity = 2
  ResultPipeCapacity = 1
  MaxStops = 0
  KillInWindow = FALSE
SPECIFICATION Spec
INVARIANTS
  RunningJobIsSafe
  AssertionsHold
  IdleWorkersListen
SYMMETRY TrioSymmetry
