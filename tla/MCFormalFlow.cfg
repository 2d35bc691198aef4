SPECIFICATION Spec
CONSTANTS
  t1 = t1
  t2 = t2
  Tests <- MCTests
  Suite <- MCTests
  Logs <- MCLogs
  FreshBuild = TRUE
INVARIANTS
  TypeOK
  HonestSuccess
  PassIsProved
PROPERTY
  VerdictReached
CHECK_DEADLOCK FALSE
