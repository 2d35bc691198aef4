SPECIFICATION Spec
CONSTANTS
  none = none
  short = short
  long = long
  u1 = u1
  u2 = u2
  u3 = u3
  u4 = u4
  u5 = u5
  Units <- MCUnits
  Defs <- MCDefs
  Enums <- MCEnums
  Params = {short, long}
  NoUnit = none
  NoParams = none
  Package = "builtin"
  Boxed = {"box"}
  Undefined = {"undefined"}
  Hashed = {long}
  Sources <- MCSources
INVARIANTS
  TypeOK
  CellsAreFaithful
  EveryModuleMade
  VariablesResolve
CHECK_DEADLOCK FALSE
