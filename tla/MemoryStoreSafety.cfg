SPECIFICATION Spec
CONSTANTS
  Ids = {m1, m2}
  Contents = {a, b}
  Requests = {r1, r2}
  Limit = 2
  Chunk = 1
  Batch = 2
  MaxRequests = 3
  Faults <- AllFaults
  MaxFaults = 1
SYMMETRY Symmetry
INVARIANTS
  TypeOK
  RowsAreSearchable
  StoresAgree
  TrailIsComplete
PROPERTY DeletedStaysDeleted
