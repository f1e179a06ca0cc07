SPECIFICATION Spec
CONSTANTS
  Requests <- TwoRequests
  Contexts = {c1, c2}
  Sizes = {1}
  Lacks = {0, 4}
  Chunk = 2
  NULL = NULL
  FOREIGN = FOREIGN
  MaxPrints = 2
INVARIANTS TypeOK BufferHolds OneWholeAnswer ErrorFitsPage FieldsFound
PROPERTY EveryRequestEnds
CHECK_DEADLOCK FALSE
