\* Every order of checking, evaluating, calling and compiling; the process ends.
SPECIFICATION Spec
CHECK_DEADLOCK FALSE
CONSTANTS
  main = main
  hole = hole
  f = f
  inner = inner
  g = g
  Block = {main, hole, f, inner, g}
  Main = main
  Hole = hole
  NoBlock = NoBlock
  FunctionBlocks <- MCFunctionBlocks
  Threshold = 1
  NoJIT = FALSE
  MaxFrames = 4
  MaxEnvironments = 10
INVARIANTS
  BlockIsCurrent
  CompiledOnce
  CodeHasItsFunctions
  ScopesAreLexical
