SPECIFICATION Spec
CONSTANTS
  MaxIds = 2
  Ids <- MCIds
  Contents <- MCContents
  Kinds = {"RelatedTo", "DependsOn"}
  Systemic <- MCSystemic
  RelatedTo = "RelatedTo"
  Accepted <- MCAccepted
  Numeral <- MCNumeral
  Plain <- MCPlain
  Metas <- MCMetas
  Clauses <- MCClauses
  Limit = 1
  Commands = {c1}
  MinContextEdges = 2
  MaxClock = 4
  MaxOps = 2
  MaxSaves = 2
INVARIANTS
  FabricAgrees
  IndexNamesItsOwner
  KeptUnlessExposed
CHECK_DEADLOCK FALSE
