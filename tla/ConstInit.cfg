SPECIFICATION Spec
CONSTANTS
  VarType <- MCVarType
  ExternType <- MCExternType
  EnumValue <- MCEnumValue
  StringLen <- MCStringLen
  Targets <- MCTargets
  Numbers = {0, 1}
  MaxLeaves = 3
  MaxShift = 4
INVARIANTS FoldsAsC DataAsC 
