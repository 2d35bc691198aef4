SPECIFICATION Spec
CONSTANTS
  Declarations <- MCDeclarations
  Indices <- MCIndices
  MaxSelects = 2
INVARIANTS
  TypeOK
  
  InsideWire
  SharedBitsAreShared
  BitsAsDeclared
  MemoriesAreIndexed
CHECK_DEADLOCK FALSE
