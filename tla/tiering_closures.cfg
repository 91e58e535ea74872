\* A function that declares another is called again by itself.
SPECIFICATION Spec
CHECK_DEADLOCK FALSE
CONSTANTS
  main = main
  hole = hole
  f = f
  inner = inner
  g = g
  Block = {main, hole, f, inner, g}
  Main = main
  Hole = hole
  NoBlock = NoBlock
  FunctionBlocks <- MCFunctionBlocks
  Threshold = 1
  NoJIT = FALSE
  MaxFrames = 4
  MaxEnvironments = 9
INVARIANTS
  FunctionsKeepTheirScope
