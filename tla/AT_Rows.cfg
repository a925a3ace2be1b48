SPECIFICATION TrailFairSpec
CONSTANTS
  Jobs = {j1}
  Poison = {}
  Workers = {w1, w2}
  MaxDeliver = 2
  Faults <- StoreAnswers
  SinkDeliver = 2
  SinkFaults <- SinkFaultKinds
  NoMsg = NoMsg
  j1 = j1
  w1 = w1
  w2 = w2
INVARIANTS
  RowMatchesRecord
  AckedIsInTable
PROPERTIES
  AckedGetsRow
  StoredJobEnds
CHECK_DEADLOCK FALSE
