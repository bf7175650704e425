SPECIFICATION FairSpec
CONSTANTS
  Workers = {w1, w2}
  j1 = j1
  j2 = j2
  j3 = j3
  Jobs = {j1, j2}
  InlineJobs = {}
  UnregisteredJobs = {}
  MaxAttempts = 2
  Lease = 2
  MaxLag = 1
  Timely = TRUE
  Faults <- LossFaults
  MaxFaults = 2
INVARIANT OneWorkerPerJob
PROPERTIES
  LedgerSpec
  EveryJobSettles
