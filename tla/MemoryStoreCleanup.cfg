SPECIFICATION Spec
CONSTANTS
  Ids = {m1, m2}
  Contents = {a}
  Requests = {r1, r2}
  Limit = 1
  Chunk = 1
  Batch = 1
  MaxRequests = 3
  Faults = {}
  MaxFaults = 0
SYMMETRY Symmetry
INVARIANT StoresAgree
