SPECIFICATION Spec
CONSTANTS
  a = a
  b = b
  Names <- MCNames
  Sizes = {1, 2}
  ParamSizes = {4, 12}
  EnumLists <- MCEnumLists
  MaxParams = 2
  MaxFuncs = 1
  MaxDepth = 3
  MaxLabels = 2
  MaxBytes = 2
INVARIANTS TypeOK SlotsDisjoint JumpTargets ScopesNested LabelsUnique
PROPERTY ImplementsSlots
