CONSTANTS
    c1 = c1
    c2 = c2
    c3 = c3
    Conns = {c1, c2, c3}
    Configs <- MCConfigs
    MaxThreads = 2
    NumberOfEventsPerHandle = 2
    PipeCapacity = 1
    BufferSize = 2
    InboxCapacity = 1
SPECIFICATION Spec
CHECK_DEADLOCK FALSE
INVARIANTS
    StartedWhenReady
    NotifierFound
PROPERTIES
    DispatchSpec
    StartReturns
    StopEndsLoops
    
