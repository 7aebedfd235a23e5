SPECIFICATION HostSpec
CONSTANTS
  q1 = q1
  q2 = q2
  c1 = c1
  c2 = c2
  c3 = c3
  c4 = c4
  n1 = n1
  n2 = n2
  Shared = shared
  NoOwner = nobody
  Creates = {1, 2}
  Submits = {s1}
  Dissolves = {d1}
  Requests = {q1, q2}
  Askings <- RepeatedOrNot
  Services = {t1, t2}
  MaxMishaps = 1
  CollectionCalls = {c1, c2, c3, c4}
  KindOf <- Mixed
  MaxServices = 3
  ReopenWritesFail = FALSE
  Channels = {1, 2, 3}
  MaxWork = 2
  MaxFailures = 2
  ToolCallers = {1}
  Tools <- Called
  MaxGens = 2
  Names = {n1, n2}
  CheckoutCalls = {1, 2}
  MaxOps = 3
  MaxSurprises = 1
INVARIANTS
  OneTeamOneOwner
  RevokedToolsAreGone
  RuntimesAreSwept
  ClosedHostRunsNothing
PROPERTIES
  DissolvesAndClosesEnd
  ClosedStaysClosed
  WorkIsSafe
CHECK_DEADLOCK FALSE
