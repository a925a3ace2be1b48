SPECIFICATION ServicesFairSpec
CONSTANTS
  Faults = {"fail", "crash"}
  Fallbacks = {"meta", "cm"}
  Production = FALSE
  MaxStarts = 3
  Running = {"meta", "cm", "qe"}
INVARIANTS ResourcesOutliveUsers AdvertisedAccepts
PROPERTIES StartEnds StopEnds
CHECK_DEADLOCK FALSE
