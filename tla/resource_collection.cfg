SPECIFICATION Spec
CONSTANTS
  i1 = i1
  i2 = i2
  Namespace = {"n1", "n2"}
  Pod = {"p"}
  Worlds <- MCWorlds
  Threshold <- MCThreshold
  Calendar <- MCCalendar
  Hours = 2
  Minutes = 2
  Lookback = 8
  Grace = 1
  MaxTime = 3
  MaxRestarts = 2
  MaxFaults = 1
SYMMETRY Symmetry
INVARIANTS
  TypeOK
  CompletedIsRight
  SucceededSawAll
  AgingNeverHeals
  NoSpikeFromHistory
