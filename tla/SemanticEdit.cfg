SPECIFICATION FairSpec
CONSTANTS
  Targets = {t1}
  Checkouts = {c1, c2, c3}
  Proposals = {p1, p2}
  Callers = {k1, k2}
  Sensitivity = {FALSE, TRUE}
  None = None
INVARIANTS
  RoundIsClosed
  OneVoicePerCheckout
  SnapshotsAreTheRecord
PROPERTIES
  OutcomesAreFinal
  ReleasedInNormal
  EveryDecisionDispatched
  ImplementsConsensusRound
CHECK_DEADLOCK FALSE
