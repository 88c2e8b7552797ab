CONSTANTS
  Agents = {a1, a2}
  Contents = {c1, c2}
  Immediate = {c2}
  Pressing = {c2}
  Menus <- MCMenus
  MaxIds = 8
  MaxCalls = 3
  MaxTerminations = 1
SPECIFICATION Spec
SYMMETRY MCSymmetry
INVARIANTS
  ReplaySound
  CollisionsAreMarked
  DecisionsSound
  CheckFailsByTwin
  MergeIsMutual
  EvidenceLinked
  UnclaimedHasTwin
CHECK_DEADLOCK FALSE
