SPECIFICATION Spec
CONSTANTS
  Threads = {t1, t2}
  Slots = {s1, s2, s3}
  Ids = {i1, i2}
  NULL = NULL
  Kinds = {"page", "ajax", "kill"}
  ForeignCookies = FALSE
  SessionsIdle = FALSE
  LongUptime = FALSE
  MaxRequests = 3
SYMMETRY Symmetry
INVARIANTS OneRequestPerSession
