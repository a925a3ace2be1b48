SPECIFICATION ServicesSpec
CONSTANTS
  Faults = {}
  Fallbacks = {"meta", "cm", "qe"}
  Production = TRUE
  Running = {"gw"}
  MaxStarts = 1
PROPERTY RequestsAreDrained
CHECK_DEADLOCK FALSE
