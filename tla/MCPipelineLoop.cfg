SPECIFICATION FairSpec
CONSTANTS
  Pipelines = {p1, p2}
  W = 2
  Flushes = {1, 2, 3}
  Ctrls = {"simple", "custom", "nil"}
  KeepAlive = TRUE
INVARIANTS ReturnsFlushed StopsWithinFlush
PROPERTIES FlushEvery StopReturns
CHECK_DEADLOCK FALSE
