\* Two calls for one slot; two failures; one death of the host.
SPECIFICATION BoundedSpec
CONSTANTS
  a1 = a1
  a2 = a2
  Agents = {a1, a2}
  Slots = 1
  MaxFailures = 2
  MaxCrashes = 1
  Scripts <- TwoCallsOrALog
INVARIANTS
  TerminalAsJournaled
  NothingOutlivesTheRun
  ReportedOnceAndTruly
PROPERTIES
  RunsEnd
CHECK_DEADLOCK FALSE
