SPECIFICATION Spec
CONSTANTS
  Types <- MCTypes
  Height = 3
  Arrays <- MCArrays
INVARIANTS
  TypeOK
  SelectIsMember
  UnevenUnionsRejected
PROPERTIES
  AccessesNarrow
CHECK_DEADLOCK FALSE
