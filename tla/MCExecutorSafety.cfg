SPECIFICATION Spec
CONSTANTS
  Callers = {c1, c2}
  Lcores = {0, 1}
  BadLcore = 9
  lcoreJobsBuffer = 1
  AsyncCap = 1
  PanicAsErr = TRUE
  Ops = {"once", "exec", "async", "stop", "cleanup"}
  Fns = {"ok", "panic"}
  MaxCalls = 2
  None = None
SYMMETRY CallerSymmetry
INVARIANTS InitComplete QuietAfterStop ReportNeverBlocks ResultFaithful
CHECK_DEADLOCK FALSE
