SPECIFICATION MPSCFairSpec
CONSTANTS
  Producers = {p1, p2}
  Consumers = {c1}
  QueueSize = 2
  CounterMod = 8
  Start = 7
  Remap <- MCRemap
  SPSC = FALSE
  MaxPush = 1
  SpinLimit = 1
  NIL = NIL
PROPERTY EveryPushPopped
