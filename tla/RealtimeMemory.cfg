SPECIFICATION FairSpec
CONSTANTS
    Threads = {t1, t2, t3}
    Requests = {1, 4}
    Granularity = 2
    LimitBits = 7
    InitialLimits <- MCLimits
    Privileged = FALSE
INVARIANTS
  MemoryConsistent
  LimitNotStale
PROPERTIES
  RaiseMakesRoom
  AllocateReturns
