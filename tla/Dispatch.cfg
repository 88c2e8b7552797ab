SPECIFICATION FairSpec
CONSTANTS
  s1 = s1
  s2 = s2
  n1 = n1
  n2 = n2
  n3 = n3
  w1 = w1
  w2 = w2
  Subs = {s1, s2}
  Nodes = {n1, n2, n3}
  Writers = {a1}
  Workers = {w1, w2}
  ObservesPanics = {s1, s2}
  Instances <- SmallPools
  None = None
INVARIANTS
  QueueDepthExact
  CallsAreDue
  Backpressure
PROPERTIES
  EveryTaskRuns
  ShutdownCompletes
CHECK_DEADLOCK FALSE
