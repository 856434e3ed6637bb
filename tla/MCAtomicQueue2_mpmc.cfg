SPECIFICATION Spec
CONSTANTS
  Producers = {p1, p2}
  Consumers = {c1, c2}
  QueueSize = 2
  CounterMod = 8
  Start = 7
  Remap <- MCRemap
  SPSC = FALSE
  MaxPush = 2
  NIL = NIL
INVARIANTS
  SlotExclusive
  QuiescentConsistent
PROPERTY
  AtomicQueueSpec
CHECK_DEADLOCK FALSE
