\* Two runs, two forms; a clock of two ticks a day that starts at the end of a month.
SPECIFICATION Spec
CONSTANTS
  Null = Null
  m1 = m1  m2 = m2
  c1 = c1  c2 = c2
  s1 = s1  s2 = s2
  acme = acme  www = www  user = user
  Models = {m1, m2}
  Admins = {a1}
  Components <- MCComponents
  Samples <- MCSamples
  Edits <- MCEdits
  Asks <- MCAsks
  FirstModels <- MCFirstModels
  FirstPrompts <- MCFirstPrompts
  SetClient <- MCSetClient
  Normalized <- MCNormalized
  Start <- MCStart
  Ranges = {"7d", "90d", "all"}
  Day = 2
  Judgements <- MCJudgements
  MaxJobs = 2
  RecentLimit = 2
  LeagueLimit = 2
  MaxRuns = 2
  MaxForms = 2
INVARIANTS TablesAddUp SpendingIsOne EveryRunIsShownOnce LeagueAddsUp
CHECK_DEADLOCK FALSE
