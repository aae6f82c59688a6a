SPECIFICATION Spec
CONSTANTS
  Futures = {f1, f2, f3, f4, f5, f6}
  NULL = null
  PAGE_CAPACITY = 2
  LOCAL_FUTURE_POINTER_PAGES = 2
  Threads = {t1, t2, t3}
  STORAGE_LENGTH = 1
  Destructor = "from_thread"
SYMMETRY Symmetry
CHECK_DEADLOCK FALSE
INVARIANTS
  CachesKeepShape
  EachFutureInOnePlace
PROPERTIES
  HoardingBounded
