SPECIFICATION Spec
CONSTANTS
  Options = {"-defer", "-link"}
  Surelogs = {"systemverilog", "verilog_with_uhdm"}
  Uhdm = "uhdm"
  Files = {"a"}
  NoFile = "none"
  UserMacros = {"YOSYS"}
  Interactive = TRUE
  MaxDefaults = 1
  MaxDepth = 1
  MaxDefines = 2
  MaxArgs = 2
INVARIANTS
  TypeOK
  NoStaleTops
  
PROPERTIES
  SettingsAreScopes
  UndefinedIsGone
CHECK_DEADLOCK FALSE
