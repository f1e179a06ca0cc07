SPECIFICATION Spec
CONSTANTS
  NULL = NULL
  IntModulus = 8
  Exact = 10
  Behind <- Leftovers
  Inputs <- AllInputs
INVARIANTS TypeOK StaysInside 
PROPERTY EveryCallEnds
