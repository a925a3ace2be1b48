SPECIFICATION TrailSpec
CONSTANTS
  Jobs = {j1}
  Poison = {}
  Workers = {w1}
  MaxDeliver = 2
  Faults <- OnlySave
  SinkDeliver = 2
  SinkFaults <- NoSinkFaults
  NoMsg = NoMsg
  j1 = j1
  w1 = w1
  w2 = w2
INVARIANTS
  AckedRowMatchesRecord
CHECK_DEADLOCK FALSE
