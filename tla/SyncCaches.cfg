SPECIFICATION Spec
CONSTANTS
    EVENT_CACHE_CAPACITY = 2
    Threads = {t1, t2}
    Futures = {f1, f2}
    Fds <- MCFds
SYMMETRY Symmetry
VIEW View
INVARIANTS
  OneOwner
  InpollsExact
PROPERTIES
  ImplementsStacks
