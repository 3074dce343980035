SPECIFICATION FairSpec
CONSTANTS
  Plan = {p1}
  Run = {r1, r2}
  Process = {x1}
  Starter = {s1, s2}
  Editor = {e1}
  NoPlan = NoPlan
  Overlap = FALSE
  MayMiss = {r2}
  MaxCrashes = 1
INVARIANTS
  QueuedIsScheduled
PROPERTIES
  QueuedRunsEnd
