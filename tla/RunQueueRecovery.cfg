\* A worker and a request for the same prompt share a quota of one run; one of them may be killed.
SPECIFICATION FairSpec
CONSTANTS
  w1 = w1  w2 = w2  i1 = i1  i2 = i2  r1 = r1  r2 = r2
  pairA = pairA  client = client  persona1 = persona1  persona2 = persona2
  Workers = {w1}
  Requests = {r1}
  Items = {i1}
  Pairs = {pairA}
  Personas = {persona1}
  Clients = {client}
  PairOf <- OnePair
  PersonaOf <- SamePersona
  Priority <- SamePriority
  ClientOf <- OneClient
  Manual = Manual
  Nobody = Nobody
  DryRun = {}
  Backoff <- EvenSteps
  BillingRetry = 2
  Lease = 1
  Grace = 4
  Cutoff = 2
  MaxPass = 1
  QuotaWindow = 1
  DailyLimit = 1
  MaxClock = 7
  ArriveBy = 0
  CrashBy = 1
  MaxCrashes = 1
  MaxRuns = 4
  Cancellable = {i1}
INVARIANTS
  
  QuotaHolds
  CalledAgainOnlyAfterFailure
PROPERTIES
  
  PendingRunsResolve

