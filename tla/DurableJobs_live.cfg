SPECIFICATION FairSpec
CONSTANTS
  w1 = w1
  w2 = w2
  j1 = j1
  j2 = j2
  j3 = j3
  k1 = k1
  k2 = k2
  None = None
  Workers = {w1, w2}
  Jobs = {j1, j2}
  Publishing = {j2}
  Cancellable = {}
  KeyOf <- OwnKeys
  Priority <- Equal
  MaxAttempts <- TwoTries
  MaxFaults = 1
PROPERTIES
  EverySubmittedJobSettles
  PublishedJobsSettle
