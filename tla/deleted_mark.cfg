SPECIFICATION Spec
CONSTANTS
  p1 = p1
  p2 = p2
  n1 = n1
  n2 = n2
  Recording = {r1}
  NoRecording = NoRecording
  Namespace = {n1, n2}
  Pod = {p1, p2}
  NamespaceOf <- TwoNamespaces
  Stopper = {s1}
  AutoStopper = {a1}
  Limits = {1, 2}
  GlobalBytes = 2
  MaxLines = 1
INVARIANT
  DeletedMarkIsTrue
