SPECIFICATION StatsSpec
CONSTANTS
  NPorts = 2
  Fields = {ipackets}
  MaxCount = 3
  MaxResets = 0
INVARIANT BasicSound
