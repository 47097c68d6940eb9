\* Two tickers, one schedule, requests that do not overlap with ticker passes.
SPECIFICATION Spec
CONSTANTS
  w1 = w1  w2 = w2  e1 = e1  s1 = s1  c1 = c1  c2 = c2  odd = odd  even = even
  Workers = {w1, w2}
  Editors = {e1}
  Schedules = {s1}
  Combos = {c1, c2}
  Rules = {odd, even}
  Fires <- TwoRules
  Limits <- TwoLimits
  Fanouts <- OneOrTwo
  NoSchedule = NoSchedule
  Grace = 1
  QueueCap = 2
  MissedCap = 1
  MaxClock = 5
  MaxEdits = 3
  MaxKills = 1
  MaxDeferrals = 0
  MaxPass = 1
  Overlapping = FALSE
INVARIANTS
  WindowOnce
  NothingSkipped
PROPERTIES
  AnnouncementsAreKept
  
CHECK_DEADLOCK FALSE
