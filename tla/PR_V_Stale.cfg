SPECIFICATION RoutingFairSpec
CONSTANTS
  Plugins = {v1}
  Managers = {m1}
  Calls = {}
  TypeOf <- SameName
  Builtins <- OneBuiltin
  RouteFaults <- OnlyLost
  MaxFaults = 1
  MaxInFlight = 1
  NoPlugin = NoPlugin
  Builtin = Builtin
  v1 = v1
  v2 = v2
  m1 = m1
  c1 = c1
PROPERTIES
  DegradedIsWithdrawn
