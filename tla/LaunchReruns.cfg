SPECIFICATION Spec
CONSTANTS
  Null = Null
  Ids = {1}
  Emails = {ann}
  Worker = {w1}
  Jobs = {"join", "launch"}
  OneDay = 2
  ThirtyDays = 2
  Window = 2
  BatchSize = 1
  MaxMinted = 3
  MaxSignups = 1
  MaxTime = 2
  MaxAborts = 0
  MaxLaunchRuns = 3
INVARIANTS LaunchMailOnce
CHECK_DEADLOCK FALSE
