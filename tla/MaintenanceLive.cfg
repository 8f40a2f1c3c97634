SPECIFICATION FairSpec
CONSTANTS
  Null = Null
  Ids = {1, 2}
  Emails = {ann, bob}
  Worker = {w1}
  Jobs = {"join", "unsubscribe", "maintenance"}
  OneDay = 1
  ThirtyDays = 2
  Window = 1
  BatchSize = 1
  MaxMinted = 8
  MaxSignups = 2
  MaxTime = 3
  MaxAborts = 1
  MaxLaunchRuns = 1
PROPERTIES DueConfirmationRetried DueRowPurged
CHECK_DEADLOCK FALSE
