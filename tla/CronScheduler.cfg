CONSTANTS
  NoJob = NoJob
  NoFire = NoFire
  MaxTime = 3
  MaxBack = 1
  Periods = {1}
  MaxWrites = 2
  MaxStarts = 1
  Fires = {f1, f2}
  MaxFailures = 1
  EditsWhileStarting = FALSE
SPECIFICATION FairSpec
INVARIANTS ArmedAsRecorded AcceptedIsRecorded
PROPERTIES SubmittedOnceIfTaken DueIsAnswered
CHECK_DEADLOCK FALSE
