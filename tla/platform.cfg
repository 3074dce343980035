SPECIFICATION Spec
CONSTANTS
  Hooks <- MCHooks
  AutoMigrate = TRUE
  Client = {c1, c2}
  Session = {s1, s2}
  IdleTime = 2
  AbsoluteTime = 3
  Limit = 1
  Window = 1
  MaxTime = 2
  MaxDenied = 1
  MaxFaults = 2
SYMMETRY Symmetry
INVARIANTS
  TypeOK
  ReadyMeansRunning
  AttemptsBounded
PROPERTIES
  RevokedIsFinal
