\* Two workers; a button job next to capture jobs; an exception or a crash.
SPECIFICATION Spec
CONSTANTS
  w1 = w1  w2 = w2  w3 = w3  k1 = k1  k2 = k2  judged = judged  quoted = quoted
  Workers = {w1, w2}
  Clickers = {k1}
  Responses = {judged, quoted}
  Citations = {1, 2, 3}
  CitedBy <- OneAndTwo
  Answers <- Pages
  Judged = {judged}
  AutoVerify = {judged}
  Lease = 2
  Backoff <- ShortBackoff
  CaptureBudget = 0
  Budget = 1
  Overrun = 1
  MaxJobs = 2
  MaxArrival = 1
  MaxClock = 4
  MaxFaults = 1
  Overlapping = FALSE
INVARIANTS
  JobHeldByOne
  OneVerdictPerJob
  
PROPERTY
  NeverPaidTwice
SYMMETRY WorkersAreAlike
CHECK_DEADLOCK FALSE
