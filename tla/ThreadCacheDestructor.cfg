SPECIFICATION Spec
CONSTANTS
  Threads = {t1, t2}
  Context = ctx
  Nobody = nobody
  Destructor = "from_context"
CHECK_DEADLOCK FALSE
INVARIANT NothingLeaks
