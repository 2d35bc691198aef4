SPECIFICATION Spec
CONSTANTS
  Programs <- MCPrograms
  Height = 6
  Kinds = {"for", "repeat", "while"}
  Iterations = 2
  InnerIterations = 2
  OuterCases = {1, 2}
  InnerCases = {3}
  MaxItems = 2
INVARIANTS
  EffectsAgree
  LeaveTogether
  NoJumpLeft
CHECK_DEADLOCK FALSE
