SPECIFICATION FairSpec
CONSTANTS
  Callers = {c1, c2}
  Lcores = {0, 1}
  BadLcore = 9
  lcoreJobsBuffer = 1
  AsyncCap = 1
  PanicAsErr = FALSE
  Ops = {"init", "exec", "stop"}
  Fns = {"ok", "loop", "panic"}
  MaxCalls = 2
  None = None
PROPERTIES CallReturns InitReturns
CHECK_DEADLOCK FALSE
