SPECIFICATION Spec
CONSTANTS
  Replicas = {r1, r2, r3}
  Nodes = {n1}
  MaxWrites = 2
  MaxClock = 3
  MaxInbox = 1
  MayViolate = TRUE
SYMMETRY Symmetry
INVARIANTS
  VersionsTruthful
  ClockIdentifiesCopy
PROPERTIES
  RegressIsExplained
CHECK_DEADLOCK FALSE
