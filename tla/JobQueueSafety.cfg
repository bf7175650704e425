SPECIFICATION Spec
CONSTANTS
  Workers = {w1, w2}
  j1 = j1
  j2 = j2
  j3 = j3
  Jobs = {j1, j2, j3}
  InlineJobs = {j2}
  UnregisteredJobs = {j3}
  MaxAttempts = 2
  Lease = 1
  MaxLag = 1
  Timely = FALSE
  Faults <- AllFaults
  MaxFaults = 1
SYMMETRY WorkerSymmetry
INVARIANTS
  TypeOK
  AttemptsAreCharged
  FailureMeansExhausted
  RowsTellTheWorker
PROPERTY SettledNeverReopens
