SPECIFICATION Spec
CONSTANTS
  MaxArgs = 2
  MaxParams = 1
  MaxParts = 2
  LocalBytes <- MCLocalBytes
  Variadic = {FALSE, TRUE}
  Shapes <- Exprs
  MaxFuncs = 1
  MaxDepth = 3
  MaxLabels = 0
INVARIANTS
  CallsOnBoundary
