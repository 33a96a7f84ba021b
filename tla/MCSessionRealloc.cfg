SPECIFICATION Spec
CONSTANTS
  b = b
  g = g
  t1 = t1
  t2 = t2
  Goroutines = {b, g}
  Builder = b
  Threads = {t1, t2}
  Locked = {g}
  HomeOf <- Homes
  Addrs = {a1, a2, a3}
  MaxLost = 1
  NULL = NULL
  Nobody = Nobody
  Errnos = {2, 1001}
  RteErrnos = {1001}
  MaxPorts = 1
  Keys = {k}
  MaxPackets = 1
SYMMETRY AddrSymmetry
PROPERTY SessionRemembers
CHECK_DEADLOCK FALSE
