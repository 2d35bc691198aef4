SPECIFICATION Spec
CONSTANTS
  Programs <- MCTwoJumps
  Height = 6
  Kinds = {"for", "repeat", "while"}
  Iterations = 2
  InnerIterations = 2
  OuterCases = {1, 2}
  InnerCases = {3}
  MaxItems = 2
INVARIANT
  NoJumpLeft
CHECK_DEADLOCK FALSE
