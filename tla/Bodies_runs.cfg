SPECIFICATION Spec
CONSTANTS
  N = 3
  Bodies <- Programs
  Points <- Breakpoints
  MaxLeft = 2
INVARIANTS TypeOK RunsChosenSides IfsMatched LinesAnnounced StepsAsCommanded
