SPECIFICATION Spec
CONSTANTS
  Programs <- MCPrograms
  Globals = {1, 2, 3, 4}
  PoolSize = 12
  MaxLevel = 3
  MaxValues = 12
  IntBits = 4
  CapacityDelta = 4
  MaxMembers = 50
INVARIANTS CallsKeepTheirVariables EndsAsItMeans
PROPERTIES StopEndsScript NothingActsOnCutResult
CHECK_DEADLOCK FALSE
