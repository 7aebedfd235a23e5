CONSTANTS
  NoJob = NoJob
  NoFire = NoFire
  MaxTime = 4
  MaxBack = 0
  Periods = {1, 2}
  MaxWrites = 2
  MaxStarts = 1
  Fires = {f1, f2}
  MaxFailures = 0
  EditsWhileStarting = FALSE
SPECIFICATION Spec
PROPERTY SubmittedOnce
CHECK_DEADLOCK FALSE
