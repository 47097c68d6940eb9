\* Dumps of two days, one snapshot kept, and two failures or kills anywhere.
SPECIFICATION Spec
CONSTANTS
  Dev = Dev
  Absent = Absent
  RetentionDays = 0
  KeepDays = 0
  StaleDays = 0
  MaxClock = 1
  MaxFaults = 2
  SnapshotKeep = 1
  MaxSnapshots = 2
  MaxWork = 1

  
PROPERTIES
  QuietMeansRecent
  NothingIsLost
CHECK_DEADLOCK FALSE
