SPECIFICATION MCSpec
CHECK_DEADLOCK FALSE
CONSTANTS
  c1 = c1
  c2 = c2
  Clients = {c1, c2}
  Ops <- OverrideOps
  Scores = {90}
  ManualStatuses <- ByHand
  MaxFaults = 1
INVARIANTS
  ScoresComeFromSessions
  DecisionAndCompositeAgree
  DecisionMissesOnlyInBetween
PROPERTIES
  VerdictStands
  OverrideSurvivesEvaluation
  SubmissionIsDecided
