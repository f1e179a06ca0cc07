SPECIFICATION Spec
CONSTANTS
  NULL = NULL
  IntModulus = 8
  Exact = 10
  Behind <- Leftovers
  Inputs <- FalseStarts
INVARIANT LikeMatches
