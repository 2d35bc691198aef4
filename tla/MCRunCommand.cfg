SPECIFICATION RunSpec
CONSTANTS
  Pipes = {"stdout", "stderr"}
  Timeouts = {TRUE, FALSE}
  Capacity = 2
  ReadMax = 2
  MaxChunks = 3
INVARIANTS
  RunTypeOK
  OutputComplete
PROPERTIES
  Returns
  FullPipesDrain
  ReturnsWhenAllEnded
CHECK_DEADLOCK FALSE
