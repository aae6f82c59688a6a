SPECIFICATION FairSpec
CONSTANTS
  MAX_DOWNSTREAM_COUNT = 3
  Clients = {c1, c2}
  Upstreams = {u1, u2}
  Latch = latch
  WaitKinds = {"wait_some", "wait_max"}
  MAX_JOIN_INPOLL_IDENTIFIERS = 2
CHECK_DEADLOCK FALSE
INVARIANTS
  LockProtectsState
  OutcomeJustified
  NobodyStranded
  CountNeverShort
  CallsConsistent
PROPERTIES
  ResultIsFinal
  WaitReturns
