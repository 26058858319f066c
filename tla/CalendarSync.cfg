SPECIFICATION MCSpec
CHECK_DEADLOCK FALSE
CONSTANTS
  None = None
  r1 = r1
  r2 = r2
  r3 = r3
  w1 = w1
  w2 = w2
  Requests = {r1, r2, r3}
  Changes = {"schedule", "reschedule", "cancel", "resume", "delete"}
  Workers = {w1, w2}
  MaxAttempts = 2
  MaxFaults = 0
  MaxCrashes = 1
INVARIANTS
  OneWorkerOneEvent
  OneWorkerStatusIsTrue
PROPERTIES
  NeverGoesBack
  PendingResolves
