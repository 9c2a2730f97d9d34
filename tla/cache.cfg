SPECIFICATION CacheSpec
CONSTANTS
  Reader = {r1, r2}
  Writer = {w1}
  MaxWrites = 1
  MaxVersion = 2
  MaxFaults = 3
INVARIANT CacheTypeOK
PROPERTIES KeepsFresh OldValuesGo
