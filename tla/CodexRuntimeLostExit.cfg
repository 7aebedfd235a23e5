\* A child that dies while a restart is on its way to "ready".
SPECIFICATION Spec
CONSTANTS
  Attempts = 3
  Resumes = 0
INVARIANTS
  ServedOrRestarting
CHECK_DEADLOCK FALSE
