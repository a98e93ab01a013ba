SPECIFICATION Spec
CONSTANTS
  NDDC = 2
  Scenarios <- MCScenarios
  Lossy = TRUE
  Up = 2
  Down = 1
  MaxStep = 3
CHECK_DEADLOCK FALSE
INVARIANT KeyedInPlace
PROPERTIES Served Released
