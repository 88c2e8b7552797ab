SPECIFICATION FairSpec
CONSTANTS
  Replicas = {r1, r2}
  Nodes = {n1}
  MaxWrites = 2
  MaxClock = 9
  MaxInbox = 3
  MayViolate = FALSE
PROPERTY
  Converges
CHECK_DEADLOCK FALSE
