SPECIFICATION StartSpec
CONSTANTS
  NBlocks = 3
  Conns = {c1, c2}
  ConnOf <- TwoAndOne
  Writable = {1, 2}
  KeyShown = {1}
  Triggers <- SomeTriggers
  RowIdItem <- SecondIsRowId
  Before <- InOrder
  Rows = {r1, r2}
  NewIds = {n1}
  ReadOnlyIds = {x1}
  Items = {i1, i2}
  FirstItem = i1
  SecondItem = i2
  AutoItems = {i2}
  Values = {v1}
  NULL = NULL
  FirstRow = r1
  FirstValue = v1
  MaxSteps = 3
SYMMETRY Symmetry
INVARIANTS TypeOK FlushedBefore
PROPERTIES FlushWritesHome RejectionRestores ReadOnlyTables ImplementsStore
CHECK_DEADLOCK FALSE
