SPECIFICATION Spec
CONSTANTS
  Producers = {p1}
  Consumers = {c1}
  Mbufs = {m1, m2}
  Counts = {2, 8}
  Word = 16
  Line = 8
  MaxBatch = 2
  NoMbuf = NoMbuf
  Clients = {}
  Deferred = {}
  NoObject = NoObject
  MaxIDs = 0
INVARIANTS SlotsInMemory
CHECK_DEADLOCK FALSE
