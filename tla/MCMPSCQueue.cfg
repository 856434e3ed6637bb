SPECIFICATION MPSCFairSpec
CONSTANTS
  Producers = {p1, p2}
  Consumers = {c1}
  QueueSize = 2
  CounterMod = 8
  Start = 7
  Remap <- MCRemap
  SPSC = FALSE
  MaxPush = 2
  SpinLimit = 1
  NIL = NIL
INVARIANTS
  InFlight
  TicketWindow
  NoMissedNotify
  OrderUnlessLapped
PROPERTIES
  ExactlyOnceSpec
  NextPushWakes
  PoppedUnlessAsleep
