\* Two submissions that wake the entity, are push-backs or come from a Workflow that
\* takes and gives back the lock; one host stop or close followed by a second one; a
\* publication may be queued behind a write.
SPECIFICATION HostSpec
CONSTANTS
  o1 = o1
  o2 = o2
  ch1 = ch1
  ch2 = ch2
  l1 = l1
  l2 = l2
  l3 = l3
  Ops = {o1, o2}
  Kinds = {"send", "push", "locked"}
  MaxWrites = 1
  MaxStops = 2
SYMMETRY Symmetric
INVARIANTS
  RuntimeIsHeld
  McpGoneBeforeTeardown
  ClosedMeansGone
  NoReportOfStoppedTurn
  LockExcludesMutation
PROPERTIES
  LastWordBeforeRevoke
  DisplaysAreTold
CHECK_DEADLOCK FALSE
