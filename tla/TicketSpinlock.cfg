SPECIFICATION FairSpec
CONSTANTS
  Threads = {t1, t2, t3, t4}
  CounterMod = 6
  Start = 4
INVARIANTS
  TicketsInOrder
  MutualExclusion
PROPERTIES
  FairMutex
  NoStarvation
