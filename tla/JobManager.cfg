SPECIFICATION Spec
CONSTANTS
  Jobs = {j1, j2}
  Workers = {w1, w2}
  Priorities = {0, 1}
  HardwareConcurrency = 4
  UIntMod = 16
  StartId = 14
INVARIANTS
  JobsOwnedOnce
  IdsDistinct
  JobHasWorker
PROPERTIES
  CancelJobsReturns
  EveryJobAnswered
CHECK_DEADLOCK FALSE
