SPECIFICATION Spec
CONSTANTS
  Functions = {f, g, t}
  Trigger = t
  OnBlock = f
  ItsConn = c2
  HomeOf <- Homes
  Declares = {g, t}
  Values = {v1, v2}
  Conns = {c1, c2}
  NULL = NULL
  MaxDepth = 3
  MaxNest = 2
  MaxSteps = 5
INVARIANTS TypeOK ActiveOfFunction ActiveWhenOpen ReturnedValueArrives DepthCountsFrames
PROPERTIES ReturnUnwinds
CHECK_DEADLOCK FALSE
