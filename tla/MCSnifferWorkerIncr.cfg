SPECIFICATION Spec
CONSTANTS
  Workers = {w1}
  Mbufs = {m1, m2}
  burstSize = 2
  TxSize = 2
  Kinds = {"arp request", "arp reply"}
  MaxPackets = 2
INVARIANT CountsReceived
