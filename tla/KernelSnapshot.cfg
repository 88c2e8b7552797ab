SPECIFICATION Spec
CONSTANTS
  Machine <- PciMachine
  Inventories <- MCInventories
  BlockFields = 45
  FlushEvery = 2
  Probes <- ProbedLbas
  Lines = {1}
  Blobs <- MCBlobs
  MaxVersions = 3
  ReadErrors = TRUE
  WriteErrors = TRUE
  FlushErrors = TRUE
INVARIANTS
  SnapshotDurable
  NeverStale
  FabricsSound
CHECK_DEADLOCK FALSE
