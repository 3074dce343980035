SPECIFICATION Spec
CONSTANTS
  Plan = {p1, p2}
  Issue = {i1}
  Severity = {1}
  Channel = {1}
  PlanChannels <- AllChannels
  Window = {w1}
  Covers <- CoversAll
  MaxTime = 2
  Span = 1
  Threshold = 1
  MaxAttempts = 2
  Breaks = FALSE
  MaxEvents = 3
  MaxFaults = 0
INVARIANT
  SummarySentOnce
