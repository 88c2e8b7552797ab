SPECIFICATION Spec
CONSTANTS
  t1 = t1
  t2 = t2
  Threads = {t1, t2}
  Regions <- OneRegion
  Specializations <- Kinds
  Menus <- AllMenus
  Warmup = 2
  StreakRequired = 3
  WindowSize = 1
  ExpectedInterval = 1
  Scale = 60
  ConvergenceN = 2
  ConvergenceWindow = 1
  EscalationM = 2
  EscalationWindow = 1
  DisabledRevertAfter = 1
SYMMETRY Symmetry
INVARIANTS
  NoConvergenceMissed
  CountedOnce
  TerminationNeedsDamage
  BuiltInsBehindBridge
PROPERTIES
  ConstantBaselineStays
CHECK_DEADLOCK FALSE
