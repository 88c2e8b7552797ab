SPECIFICATION FairSpec
CONSTANTS
  Targets = {t1}
  Checkouts = {c1, c2, c3}
  Proposals = {p1, p2}
  Callers = {k1, k2}
  Sensitivity = {TRUE}
  None = None
PROPERTIES SnapshotLockReleased
CHECK_DEADLOCK FALSE
