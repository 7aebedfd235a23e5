SPECIFICATION PartSpec
CONSTANTS
  s1 = s1
  s2 = s2
  s3 = s3
  t1 = t1
  m1 = m1
  m2 = m2
  a1 = a1
  a2 = a2
  b1 = b1
  k1 = k1
  k2 = k2
  u1 = u1
  n1 = n1
  x1 = x1
  w1 = w1
  Nothing = Nothing
  Attempts = 3
  Resumes = 0
  CodexSubs = {s1, s2, s3}
  Turns = {t1, t2}
  ClaudeSubs = {s1, s2}
  Sessions = 2
  Messages = {m1, m2}
  TargetOf <- CameFrom
  Cards = 2
  Room = 2
  Activities = 2
  Chat = c1
  Topics = {t1}
  Settlements = {m2}
  ByHand = {a1}
  Fresh = {f1, f2}
  Edits = 2
  Rounds = {k1}
  Clicks = {m1, m2}
  Senders = {s1, s2}
  Tokens = {k1, k2}
  MaxPending = 1
  Procs = {p1, p2}
  Restarts = {k1}
  Reclaims = 3
  Submitters = {a1, a2, b1}
  Keys = {k1, k2}
  KeyOf <- Sources
  SourceWindow = 1
  Ops = {u1, n1, x1, w1}
  KindOfOp <- Changes
  MaxCrashes = 1
  Native <- Lines
  CodexLines = 3
  CodexBytes = 2
  ClaudeLines = 5
  ClaudeBytes = 4
  Limit = 1
INVARIANTS
  RuntimesAreAccounted
  SubmittersHearTheEnd
  CardsTellTheTurn
  RoutesHaveOneOwner
  AnsweredOnce
  ClosedSessionIsQuiet
  OneServerAnswers
  PagesTellWhatHappened
PROPERTIES
  RuntimesKeepTheContract
  SerialSpec
CHECK_DEADLOCK FALSE
