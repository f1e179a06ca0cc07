SPECIFICATION NamedFairSpec
CONSTANTS
  Threads = {1, 2}
  Slots = {11, 12, 13}
  Ids = {21, 22}
  NULL = NULL
  Kinds = {"page", "refreshNoConn"}
  ForeignCookies = FALSE
  SessionsIdle = FALSE
  LongUptime = FALSE
  MaxRequests = 3
INVARIANTS TypeOK SerialUnlessDestroyed UnfinishedHasOwner CSHeldOnlyInside 
 
