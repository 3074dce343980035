SPECIFICATION BoundedFairSpec
CONSTANTS
  pod = pod
  node = node
  comp = comp
  workload = workload
  nodeHealth = nodeHealth
  required = required
  ns = ns
  cluster = cluster
  Issue = {pod, node}
  Check = {workload, nodeHealth, required}
  Scope = {ns, cluster}
  CheckOf <- MCCheckOf
  Sees <- MCSees
  RunScopes <- MCRunScopes
  GlobalCheck = required
  GlobalScope = cluster
  Severity = {1}
  Run = {r1, r2}
  User = {u1}
  NamespaceScope = {ns}
  NamespaceCheck = {workload}
  ListingCheck = {workload}
  Plans <- ClusterAndNamespacePlan
  Fixable = {pod, node}
  Vanishing = {ns}
  ListingMayFail = TRUE
PROPERTIES
  FixedLeavesLists
  FaultStaysListed
