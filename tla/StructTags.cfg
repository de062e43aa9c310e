SPECIFICATION Spec
CONSTANTS
  Tags = {t, u}
  NoTag = none
  MaxStructs = 4
  MaxAliases = 2
  MaxBodies = 3
  MaxNesting = 1
SYMMETRY TagSymmetry
INVARIANTS
  TypeOK
  CompletedAsKnown
  NeverOtherFields
  OneBodyEach
