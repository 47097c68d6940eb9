\* One worker, two open pages, one budget, two months.
SPECIFICATION FairSpec
CONSTANTS
  Null = Null
  Workers = {w1}
  Pages = {p1, p2}
  Clients = {c1}
  Endings = {x1}
  Providers = {}
  StaleAfter = 1
  Retention = 2
  Cooldown = 2
  BillingCooldown = 4
  JoinTimeout = 1
  MaxWrite = 0
  Day = 1
  Month = 2
  MaxClock = 4
  MaxStarts = 2
  MaxTroubles = 1
  MaxEvents = 2
  MaxRows = 2
INVARIANTS CleanStopsAreQuiet 
PROPERTIES NoFalseAlarm BudgetIsReported
CHECK_DEADLOCK FALSE
