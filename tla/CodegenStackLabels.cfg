SPECIFICATION Spec
CONSTANTS
  MaxArgs = 0
  MaxParams = 0
  MaxParts = 2
  LocalBytes <- MCOneFrame
  Variadic = {FALSE}
  Shapes <- MCLabelShapes
  MaxFuncs = 1
  MaxDepth = 3
  MaxLabels = 1
INVARIANTS
  LabelHeights
  JumpsHaveOneTarget
  TestsSeeTruth
