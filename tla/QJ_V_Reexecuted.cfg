SPECIFICATION FairSpec
CONSTANTS
  Jobs = {j1}
  Poison = {}
  Workers = {w1, w2}
  MaxDeliver = 3
  Faults <- LoadAndAudit
  NoMsg = NoMsg
  j1 = j1
  p1 = p1
  w1 = w1
  w2 = w2
PROPERTIES
  TerminalIsNotExecuted
CHECK_DEADLOCK FALSE
