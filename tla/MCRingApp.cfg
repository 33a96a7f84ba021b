SPECIFICATION Spec
CONSTANTS
  Producers = {p1, p2}
  Consumers = {c1}
  Mbufs = {m1, m2}
  Counts = {2, 7}
  Word = 4
  MaxBatch = 2
  Line = 8
  NoMbuf = NoMbuf
  Clients = {w1, w2}
  Deferred = {w2}
  NoObject = NoObject
  MaxIDs = 2
INVARIANTS MbufsAccounted
PROPERTIES IsFifo ReadsOwn Delivered
CHECK_DEADLOCK FALSE
