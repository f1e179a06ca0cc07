SPECIFICATION Spec
CONSTANTS
  Threads = {t1}
  Slots = {s1, s2, s3, s4}
  Ids = {i1, i2, i3}
  NULL = NULL
  Kinds = {"page", "plain", "upload", "ajax", "refresh", "refreshNoConn", "kill"}
  ForeignCookies = TRUE
  SessionsIdle = TRUE
  LongUptime = TRUE
  MaxRequests = 4
SYMMETRY SlotsAndIds
INVARIANTS  RegistrySound
PROPERTIES ImplementsService
