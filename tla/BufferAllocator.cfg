SPECIFICATION Spec
CONSTANTS
    BITS_PER_WORD = 4
    UDIPE_MAX_BUFFERS = 9
    PageSize = 2
    Cpusets <- MCCpusets
    Callbacks <- MCCallbacks
CHECK_DEADLOCK FALSE
INVARIANTS
  AllocatorConsistent
  BitArraysAgree
PROPERTIES
  ImplementsPool
