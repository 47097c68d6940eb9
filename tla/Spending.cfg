\* Two administrators, two forms, one run; a free model, a new one, and two edits that
\* may give a component the same new price.
SPECIFICATION SpendingSpec
CONSTANTS
  Null = Null
  m1 = m1  m2 = m2
  a1 = a1  a2 = a2
  Models = {m1, m2}
  Admins = {a1, a2}
  Components <- MCComponents
  Samples <- MCSamples
  Edits <- MCEdits
  FirstModels <- MCFirstModels
  Start = 2
  MaxRuns = 1
  MaxForms = 2
SYMMETRY Symmetry
INVARIANTS TwinsAgree HistorySpansTell
PROPERTY PastCostsStay
CHECK_DEADLOCK FALSE
