SPECIFICATION WorkerSpec
CONSTANTS
  Producers = {p1, p2, s}
  Consumers = {c1}
  Stopper = s
  QueueSize = 2
  CounterMod = 8
  Start = 7
  Remap <- MCRemap
  SPSC = FALSE
  MaxPush = 1
  SpinLimit = 1
  NIL = NIL
INVARIANTS
  DrainBeforeStop
PROPERTIES
  StopEndsThread
CHECK_DEADLOCK FALSE
