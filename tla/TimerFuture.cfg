SPECIFICATION FairSpec
CONSTANTS
  MAX_DOWNSTREAM_COUNT = 3
  Clients = {c1, c2, c3}
CHECK_DEADLOCK FALSE
INVARIANTS
  OutcomeJustified
  CallsConsistent
PROPERTIES
  ReadyWaitsReturn
