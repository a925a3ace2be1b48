SPECIFICATION FairSpec
CONSTANTS
  Jobs = {j1}
  Poison = {p1}
  Workers = {w1, w2}
  MaxDeliver = 2
  Faults <- HonestStore
  NoMsg = NoMsg
  j1 = j1
  p1 = p1
  w1 = w1
  w2 = w2
INVARIANTS
  ServesLastResult
PROPERTIES
  TerminalIsFinal
  TerminalIsNotExecuted
  KeepsPromise
  DeliveryEnds
CHECK_DEADLOCK FALSE
