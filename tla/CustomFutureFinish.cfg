SPECIFICATION FairSpec
CONSTANTS
  MAX_DOWNSTREAM_COUNT = 2
  Clients = {c1, c2}
  Workers = {w1}
  Payloads = {p1}
  NoPayload = none
PROPERTY FinishReturns
