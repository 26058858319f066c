SPECIFICATION Spec
CHECK_DEADLOCK FALSE
CONSTANTS
  None = None
  Requests = {r1, r2}
  Changes = {"schedule", "reschedule"}
  Workers = {w1}
  MaxAttempts = 2
  MaxFaults = 0
  MaxCrashes = 0
INVARIANT EditsReachCalendar
