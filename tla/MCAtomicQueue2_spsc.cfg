SPECIFICATION Spec
CONSTANTS
  Producers = {p1}
  Consumers = {c1}
  QueueSize = 2
  CounterMod = 8
  Start = 7
  Remap <- MCRemap
  SPSC = TRUE
  MaxPush = 6
  NIL = NIL
INVARIANTS
  SingleProducerOrder
CHECK_DEADLOCK FALSE
