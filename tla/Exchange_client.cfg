SPECIFICATION Spec
CONSTANTS
  Requests <- ThreeRequests
  Contexts = {c1, c2}
  Sizes = {1}
  Lacks = {0}
  Chunk = 2
  NULL = NULL
  FOREIGN = FOREIGN
  MaxPrints = 1
INVARIANT AnswerToItsClient
CHECK_DEADLOCK FALSE
