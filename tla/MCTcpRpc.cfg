CONSTANTS
  c1 = c1
  c2 = c2
  k1 = k1
  k2 = k2
  Clients <- MCClients
  Calls = {c1, c2}
  Conns = {k1, k2}
  Retries = {0, 2}
  Limiters = {TRUE, FALSE}
SPECIFICATION FairSpec
INVARIANTS
  TypeOK
  AtMostOnce
  AnswerIsOwn
  RetryNeverHelps
PROPERTIES
  CallReturns
  WriterEnds
CHECK_DEADLOCK FALSE
