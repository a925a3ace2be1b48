SPECIFICATION Spec
CONSTANTS
  Jobs = {j1}
  Poison = {p1}
  Workers = {w1, w2}
  MaxDeliver = 3
  Faults <- NoOverlap
  NoMsg = NoMsg
  j1 = j1
  p1 = p1
  w1 = w1
  w2 = w2
SYMMETRY WorkerSymmetry
INVARIANTS
  AckedIsTerminal
  AckedIsAudited
  OneWorkerPerMessage
  SuccessWasExecuted
  RefusedNeverRuns
CHECK_DEADLOCK FALSE
