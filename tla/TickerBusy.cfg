\* One ticker; requests overlap with its passes, and the worker postpones a row.
SPECIFICATION FairSpec
CONSTANTS
  w1 = w1  w2 = w2  e1 = e1  s1 = s1  c1 = c1  c2 = c2  odd = odd  even = even
  Workers = {w1}
  Editors = {e1}
  Schedules = {s1}
  Combos = {c1}
  Rules = {odd, even}
  Fires <- TwoRules
  Limits <- TwoLimits
  Fanouts <- OnlyOne
  NoSchedule = NoSchedule
  Grace = 1
  QueueCap = 2
  MissedCap = 1
  MaxClock = 4
  MaxEdits = 3
  MaxKills = 1
  MaxDeferrals = 1
  MaxPass = 1
  Overlapping = TRUE
PROPERTY
  DueIsHandled
CHECK_DEADLOCK FALSE
