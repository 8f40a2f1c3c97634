SPECIFICATION Spec
CONSTANTS
  Null = Null
  Ids = {1}
  Emails = {ann}
  Worker = {w1, w2}
  Jobs = {"join", "unsubscribe", "maintenance"}
  OneDay = 1
  ThirtyDays = 2
  Window = 1
  BatchSize = 1
  MaxMinted = 3
  MaxSignups = 3
  MaxTime = 2
  MaxAborts = 0
  MaxLaunchRuns = 0
PROPERTIES OnlyDueRowsPurged
CHECK_DEADLOCK FALSE
