CONSTANTS
  Calls = {c1, c2}
  KindOf <- AllSends
  MaxServices = 2
  ReopenWritesFail = TRUE
SPECIFICATION Spec
INVARIANT SweptClean
CHECK_DEADLOCK FALSE
