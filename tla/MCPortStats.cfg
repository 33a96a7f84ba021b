SPECIFICATION StatsSpec
CONSTANTS
  NPorts = 2
  Fields = {ipackets}
  MaxCount = 3
  MaxResets = 1
INVARIANTS FirstPortSound XstatsSound
