SPECIFICATION FairSpec
CONSTANTS
  Null = Null
  Ids = {1}
  Emails = {ann}
  Worker = {w1}
  Jobs = {"join", "maintenance"}
  OneDay = 1
  ThirtyDays = 2
  Window = 1
  BatchSize = 1
  MaxMinted = 3
  MaxSignups = 1
  MaxTime = 2
  MaxAborts = 1
  MaxLaunchRuns = 1
PROPERTIES PendingConfirmationSettles
CHECK_DEADLOCK FALSE
