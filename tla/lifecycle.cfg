SPECIFICATION Spec
CONSTANTS
  pod = pod
  comp = comp
  workload = workload
  required = required
  ns = ns
  podScope = podScope
  cluster = cluster
  Issue = {pod, comp}
  Check = {workload, required}
  Scope = {ns, podScope, cluster}
  CheckOf <- MCCheckOf
  Sees <- MCSees
  RunScopes <- MCRunScopes
  GlobalCheck = required
  GlobalScope = cluster
  Severity = {1}
  Run = {r1}
  User = {u1}
INVARIANTS
  TypeOK
  OpenHasEvidence
  EventsMatchStatus
PROPERTIES
  RecoveryJustified
  MembershipFollowsCoverage
  IgnoredStaysIgnored
