SPECIFICATION JQSpec
CONSTANTS
  j1 = j1
  j2 = j2
  j3 = j3
  Jobs = {j1, j2, j3}
  Workers = {w1, w2}
  Priorities = {1}
  Priority = 1
  HardwareConcurrency = 4
  UIntMod = 16
  StartId = 14
  Users = {u1}
  Canceller = c
  Key <- MCKey
  m_jobsAtOnce = 1
  m_lifo = FALSE
INVARIANTS
  QueueHoldsLiveJobs
  BacklogMoves
  CompletedInOrder
PROPERTIES
  QueueCallsReturn
CHECK_DEADLOCK FALSE
