SPECIFICATION Spec
CONSTANTS
  Machine <- PciMachine
  Inventories <- MCInventories
  BlockFields = 60
  FlushEvery = 2
  Probes <- ProbedLbas
  Lines = {1}
  Blobs <- MCBlobs
  MaxVersions = 3
  ReadErrors = FALSE
  WriteErrors = FALSE
  FlushErrors = FALSE
INVARIANT CrashKeepsSnapshot
CHECK_DEADLOCK FALSE
