SPECIFICATION Spec
CONSTANTS
  a1 = a1
  a2 = a2
  a3 = a3
  b1 = b1
  b2 = b2
  c1 = c1
  c2 = c2
  d1 = d1
  d2 = d2
  retire = retire
  k1 = k1
  admin = admin
  e1 = e1
  e2 = e2
  e3 = e3
  Calls <- MCCalls
  Keys = {k1, admin}
  Plenty = {admin}
  Scopes <- MCScopes
  KeyOf <- MCKeyOf
  Asks <- MCAsks
  Door <- MCDoor
  Retires <- MCRetires
  Limit = 1
  Window = 2
  Delay = 1
  MaxClock = 3
  MaxTroubles = 1
  Memories = {m1}
  Users = {b1, b2}
  Reviewers = {a1, a2, a3}
  MaxReviews = 4
  MaxUpsets = 1
  Ids = {c1, c2}
  Requests = {b1, b2}
  MaxRequests = 3
  MaxFaults = 1
  Ingests = {b1, b2}
  MemoryIds = {c1, c2}
  Facts = {e1, e2, e3}
  Batches <- MCBatches
  Likeness <- MCLikeness
  Contrary <- MCContrary
  Nothing = Nothing
  MaxCuts = 1
  Hosts = {b1, b2}
  Lookups = {c1, c2}
  Identifiers = {x, y}
  Names = {n1}
  NoName = NoName
SYMMETRY Symmetry
INVARIANTS
  TypeOK
  DoorsHold
  LimitIsExact
  AuditedOrLost
  ReviewsHold
  OnlyFailuresOverfill
  FiresOnce
  EventsMatchFires
  DuplicatesAreDropped
  SupersessionsHold
  MapsAgree
CHECK_DEADLOCK FALSE
