SPECIFICATION Spec
CONSTANTS
  Lines <- MCLines
  Actions <- MCActions
  Results <- MCResults
  Surprises <- MCSurprises
  Threshold = 1
  FeWindow = 2
  SurpriseLog = 1
  Bump = 4
  MetaEvery = 6
  MaxObservations = 2
  LongestAnswer = 2
  MaxRenders = 2
  MaxFaults = 1
  MaxCrashes = 2
INVARIANTS
  LearningKept
  CausalAccounts
PROPERTIES
  RiskGetsSaved
  ScreenCatchesUp
