SPECIFICATION Spec
CONSTANTS
  FuncNames <- MCFuncNames
  VarNames = {x, y}
  Types <- MCTypes
  Builtins <- MCBuiltins
  MaxDecls = 3
  MaxParams = 1
INVARIANTS
  TypeOK
  DeclarationsAgree
  CallsStillMatch
  ReferencesAgree
  StorageOnce
