SPECIFICATION Spec
CONSTANTS
  Null = Null
  Ids = {1}
  Emails = {ann}
  Worker = {w1}
  Jobs = {"join", "unsubscribe"}
  OneDay = 1
  ThirtyDays = 2
  Window = 1
  BatchSize = 1
  MaxMinted = 3
  MaxSignups = 3
  MaxTime = 2
  MaxAborts = 0
  MaxLaunchRuns = 1
INVARIANTS FreshConfirmationKey
CHECK_DEADLOCK FALSE
