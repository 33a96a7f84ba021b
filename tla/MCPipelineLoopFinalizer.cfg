SPECIFICATION FairSpec
CONSTANTS
  Pipelines = {p1}
  W = 3
  Flushes = {4}
  Ctrls = {"simple"}
  KeepAlive = FALSE
PROPERTY StopReturns
CHECK_DEADLOCK FALSE
