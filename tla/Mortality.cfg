SPECIFICATION MortalSpec
CONSTANTS
  Nodes = {n1, n2}
  Regions = {r1}
  DefaultRegion = r1
  Fabric = Fabric
  Threads = {t1, t2}
  FabricScopeEnabled = TRUE
  MaxEdits = 1
  MaxTriggers = 3
  Nil = Nil
SYMMETRY Symmetry
CONSTRAINT LastDyingAlone
INVARIANTS
  LockedByItsEditor
  ArchiveComplete
PROPERTY TerminationHolds
CHECK_DEADLOCK FALSE
