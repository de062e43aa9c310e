SPECIFICATION Spec
CONSTANTS
  VarTypes <- MCVarTypes
  Targets <- MCTargets
  MaxStack = 3
INVARIANTS ResultsHold MisreadsOnly RefusesOnly
