SPECIFICATION Spec
CONSTANTS
  Null = Null
  Ids = {1, 2}
  Emails = {ann}
  Worker = {w1}
  Jobs = {"join", "unsubscribe", "maintenance", "launch"}
  OneDay = 1
  ThirtyDays = 2
  Window = 1
  BatchSize = 1
  MaxMinted = 4
  MaxSignups = 3
  MaxTime = 3
  MaxAborts = 1
  MaxLaunchRuns = 2
INVARIANTS AttemptsWithinPolicy LaunchMailOnce
PROPERTIES ImplementsLifecycle
CHECK_DEADLOCK FALSE
