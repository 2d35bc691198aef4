SPECIFICATION Spec
CONSTANTS
  Options = {}
  Surelogs = {"systemverilog"}
  Uhdm = "uhdm"
  Files = {"a"}
  NoFile = "none"
  UserMacros = {"A"}
  Interactive = TRUE
  MaxDefaults = 0
  MaxDepth = 0
  MaxDefines = 3
  MaxArgs = 1
PROPERTY
  UndefinedAsDocumented
CHECK_DEADLOCK FALSE
