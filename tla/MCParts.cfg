SPECIFICATION PartsSpec
CONSTANTS
  m1 = m1
  m2 = m2
  m3 = m3
  m4 = m4
  r1 = r1
  r2 = r2
  t1 = t1
  t2 = t2
  o1 = o1
  o2 = o2
  c1 = c1
  c2 = c2
  c3 = c3
  n1 = n1
  n2 = n2
  NoToken = NoToken
  TokenOf <- Titled
  RecipientOf <- Addressed
  Tokens = {t1, t2}
  Recipients = {r1, r2}
  Reports = {m1, m2, m3}
  Attempts = 3
INVARIANTS
  NewsReadOnce
PROPERTIES
  HostSettles
  EdgesSettle
CHECK_DEADLOCK FALSE
