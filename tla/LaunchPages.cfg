SPECIFICATION FairLaunchSpec
CONSTANTS
  Null = Null
  Ids = {1, 2, 3}
  Emails = {ann, bob, cyd}
  Worker = {w1, w2}
  Jobs = {"unsubscribe", "launch"}
  OneDay = 1
  ThirtyDays = 2
  Window = 1
  BatchSize = 2
  MaxMinted = 4
  MaxSignups = 0
  MaxTime = 0
  MaxAborts = 1
  MaxLaunchRuns = 2
INVARIANTS LinkManagesOwnRow
PROPERTIES RunReachesEveryone LaunchRunEnds
CHECK_DEADLOCK FALSE
