\* Two processes, and the pidfile of the one that died first.
SPECIFICATION Spec
CONSTANTS
  Nobody = Nobody
  Procs = {1, 2}
  Restarts = {}
  Attempts = 3
INVARIANTS
  OneServer
CHECK_DEADLOCK FALSE
