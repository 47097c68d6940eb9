\* A worker and a dry-running one, two items of one prompt and model, one kill; a settled
\* item may be retried.
SPECIFICATION Spec
CONSTANTS
  w1 = w1  w2 = w2  i1 = i1  i2 = i2  r1 = r1  r2 = r2
  pairA = pairA  client = client  persona1 = persona1  persona2 = persona2
  Workers = {w1, w2}
  Requests = {}
  Items = {i1, i2}
  Pairs = {pairA}
  Personas = {persona1, persona2}
  Clients = {client}
  PairOf <- OnePair
  PersonaOf <- SamePersona
  Priority <- SamePriority
  ClientOf <- OneClient
  Manual = Manual
  Nobody = Nobody
  DryRun = {w2}
  Backoff <- OneStep
  BillingRetry = 2
  Lease = 1
  Grace = 2
  Cutoff = 1
  MaxPass = 1
  QuotaWindow = 9
  DailyLimit = 9
  MaxClock = 2
  ArriveBy = 0
  CrashBy = 1
  MaxCrashes = 1
  MaxRuns = 4
  Cancellable = {}
INVARIANT
  ClaimExclusive
PROPERTY
  ImplementsOccurrence
