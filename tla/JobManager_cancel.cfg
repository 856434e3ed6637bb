SPECIFICATION Spec
CONSTANTS
  Jobs = {j1}
  Workers = {w1}
  Priorities = {1}
  HardwareConcurrency = 4
  UIntMod = 16
  StartId = 14
INVARIANT
  CancelledStaysSilent
CHECK_DEADLOCK FALSE
