SPECIFICATION Spec
CONSTANTS
  PortIds = {0, 1}
  LcoresWorker <- ThreeWorkers
  Sockets = {0, 1}
  QueueCounts = {0, 1, 2}
  HairpinCounts = {0, 1}
INVARIANTS AllQueuesServed StartedReady PolledReady
CHECK_DEADLOCK FALSE
