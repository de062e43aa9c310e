SPECIFICATION Spec
CONSTANTS
  MaxArgs = 0
  MaxParams = 0
  MaxParts = 0
  LocalBytes <- MCOneFrame
  Variadic = {FALSE}
  Shapes <- MCLabelShapes
  MaxFuncs = 1
  MaxDepth = 2
  MaxLabels = 1
INVARIANTS
  UsesSeeValue
