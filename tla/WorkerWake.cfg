SPECIFICATION FairSpec
CONSTANTS
  Workers = {w1, w2}
  Callers = {c1, c2}
  Nobody = Nobody
  Stale = Stale
  QueueLimit = 1
  MaxRequests = 2
  MaxFaults = 2
  MaxDeaths = 1
INVARIANTS
  WorkerIsReached
  NoLostWakeup
  RequestsArePosted
PROPERTIES
  RequestsEnd
  SendersReturn
