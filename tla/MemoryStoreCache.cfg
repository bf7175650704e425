SPECIFICATION Spec
CONSTANTS
  Ids = {m1, m2}
  Contents = {a, b}
  Requests = {r1, r2}
  Limit = 1
  Chunk = 1
  Batch = 2
  MaxRequests = 2
  Faults = {}
  MaxFaults = 0
SYMMETRY Symmetry
INVARIANT CacheFollowsWrites
