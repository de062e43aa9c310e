SPECIFICATION Spec
CONSTANTS
  Items = {a, b}
  Null = null
  Junk = junk
  Capacity = 2
  NodeWords = 2
  MaxLen = 5
INVARIANTS
  TypeOK
PROPERTIES
  ImplementsStack
  StraysOnlyWhenFull
