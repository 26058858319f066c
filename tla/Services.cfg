SPECIFICATION MCSpec
CHECK_DEADLOCK FALSE
INVARIANTS
  FanoutIsComplete
  OneMailPerEvent
  ViewsAreExact
  WorkspaceKeepsItems
  LabelsFollowScores
  ApplicationsHaveTheirResume
  StaleOnlyByOverlap
  LimitIsExact
  StaleIsReported
  TenantsAgree
  TrailIsComplete
  AnswersAreUsable
PROPERTIES
  ScoresRise
  WorkIsFinished
