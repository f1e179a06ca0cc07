SPECIFICATION Spec
CONSTANTS
  f = f
  g = g
  x = x
  y = y
  bi = bi
  bj = bj
  ci = ci
  p = p
  q = q
  b = b
  c = c
  Functions = {f, g}
  Variables = {x, y}
  Items = {bi, bj, ci}
  ParamsOf <- Params
  Pages = {p, q}
  Controller = Controller
  GlobalsOf <- Declared
  Blocks = {b, c}
  BlockOf <- Owner
  DataBlocks <- Data
  Inputs <- Shown
  Controls <- Ctl
  Values = {v1, v2}
  NULL = NULL
  Absent = Absent
  Defaults <- Start
  MaxDepth = 2
  MaxSteps = 5
SYMMETRY Symmetry
INVARIANTS TypeOK WritesStay ControlsOfRequest SessionKept
CHECK_DEADLOCK FALSE
