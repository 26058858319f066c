SPECIFICATION Spec
CONSTANTS
  w1 = w1
  w2 = w2
  j1 = j1
  j2 = j2
  j3 = j3
  k1 = k1
  k2 = k2
  None = None
  Workers = {w1, w2}
  Jobs = {j1, j2, j3}
  Publishing = {}
  Cancellable = {j3}
  KeyOf <- SharedKey
  Priority <- J3First
  MaxAttempts <- TwoTries
  MaxFaults = 1
INVARIANTS
  TypeOK
  QueueInvariant
  OneWorkerPerJob
  AttemptBudget
  EffectAtMostOncePerCommit
  IdempotentSubmission
PROPERTIES
  CancelledForGood
  ImplementsLifecycle
