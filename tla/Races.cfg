SPECIFICATION RacesSpec
CONSTANTS
  Null = Null
  Ids = {1, 2}
  Emails = {ann, bob}
  Worker = {w1, w2}
  Jobs = {"join", "unsubscribe", "maintenance", "launch"}
  OneDay = 1
  ThirtyDays = 2
  Window = 1
  BatchSize = 1
  MaxMinted = 3
  MaxSignups = 3
  MaxTime = 2
  MaxAborts = 3
  MaxLaunchRuns = 1
SYMMETRY WorkerSymmetry
CONSTRAINT Scenes
INVARIANTS TypeOK OneCurrentRowPerEmail RowsCoherent IInv RacingJoinsMakeOneSignup
CHECK_DEADLOCK FALSE
