SPECIFICATION FairSpec
CONSTANTS
  MAX_DOWNSTREAM_COUNT = 2
  Clients = {c1, c2}
  Workers = {w1}
  Payloads = {p1, p2}
  NoPayload = none
INVARIANTS
  TypeOK
  AssertsHold
  DownstreamCountExact
  CancelVerdictStands
  WaitVerdictsRight
PROPERTIES
  ImplementsPromise
  WaitReturns
