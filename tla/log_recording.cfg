SPECIFICATION FairSpec
CONSTANTS
  p1 = p1
  p2 = p2
  n1 = n1
  n2 = n2
  Recording = {r1}
  NoRecording = NoRecording
  Namespace = {n1}
  Pod = {p1}
  NamespaceOf <- OnePod
  Stopper = {s1}
  AutoStopper = {a1}
  Limits = {1, 2}
  GlobalBytes = 2
  MaxLines = 1
INVARIANTS
  TypeOK
  TotalsMatchLines
  FullIsEnded
  AtMostOneLate
  StreamsAreStoppable
PROPERTIES
  RecordingEnds
  StreamsEnd
