\* As in the other run: what the docs say of the recovery.
SPECIFICATION Spec
CONSTANTS
  a1 = a1
  a2 = a2
  Agents = {a1, a2}
  Scripts <- TwoCallsOrALog
  Slots = 1
  MaxFailures = 2
  MaxCrashes = 1
INVARIANT RecoveryConverts
CHECK_DEADLOCK FALSE
