SPECIFICATION RoutingFairSpec
CONSTANTS
  Plugins = {v1, v2}
  Managers = {m1}
  Calls = {c1}
  TypeOf <- SameName
  Builtins <- OneBuiltin
  RouteFaults <- RouteFaultKinds
  MaxFaults = 2
  MaxInFlight = 1
  NoPlugin = NoPlugin
  Builtin = Builtin
  v1 = v1
  v2 = v2
  m1 = m1
  c1 = c1
INVARIANTS
  ThreeFailuresDegrade
  RoutedWasHealthy
  NoCallOutlivesRoute
  EachItsOwnContract
PROPERTIES
  HealthyIsRouted
