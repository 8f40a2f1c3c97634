SPECIFICATION LaunchSpec
CONSTANTS
  Null = Null
  Ids = {1, 2}
  Emails = {ann, bob}
  Worker = {w1, w2}
  Jobs = {"unsubscribe", "maintenance", "launch"}
  OneDay = 1
  ThirtyDays = 2
  Window = 1
  BatchSize = 2
  MaxMinted = 2
  MaxSignups = 0
  MaxTime = 2
  MaxAborts = 0
  MaxLaunchRuns = 1
PROPERTIES AnonymizedForGood
CHECK_DEADLOCK FALSE
