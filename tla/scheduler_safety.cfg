SPECIFICATION EditsSpec
CONSTANTS
  Plan = {p1}
  Run = {r1, r2}
  Process = {x1}
  Starter = {s1, s2}
  Editor = {e1, e2}
  NoPlan = NoPlan
  Overlap = FALSE
  MayMiss = {r1, r2}
  MaxCrashes = 1
SYMMETRY ThreadSymmetry
INVARIANTS
  TypeOK
  NoReentry
  RunningIsOwned
  JobsMatchPlans
PROPERTIES
  ImplementsSlots
  TerminalIsFinal
