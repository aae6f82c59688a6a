SPECIFICATION FairSpec
CONSTANTS
  Threads = {t1, t2, t3}
  Context = ctx
  Nobody = nobody
  Destructor = "from_thread"
CHECK_DEADLOCK FALSE
INVARIANTS
  NothingFreedEarly
  FlagsProtocolKept
  NothingLeaks
PROPERTIES
  FinalizeReturns
