SPECIFICATION FairSpec
CONSTANTS
  Workers = {w1, w2}
  Mbufs = {m1, m2, m3}
  burstSize = 2
  TxSize = 2
  Kinds = {"arp request", "arp reply", "short solicitation"}
  MaxPackets = 3
INVARIANTS OneOwner OrderKept
PROPERTY ReturnsToPool
