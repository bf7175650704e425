SPECIFICATION Spec
CONSTANTS
  b1 = b1
  b2 = b2
  c1 = c1
  c2 = c2
  t1 = t1
  t2 = t2
  r1 = r1
  Servers = {b1, b2}
  Tenants = {t1, t2}
  Default = t1
  Releases = {0, 13}
  MaxMishaps = 1
  Places = {1, 2, 3}
  BatchSize = 2
  MaxText = 2
  MaxWrites = 2
  MaxStumbles = 1
  Owners = {t1, t2}
  Records = {r1}
  OwnerOf <- MCOwnerOf
  TableOf <- MCTableOf
  LastTable = 2
  Nobody = Nobody
  Retain = 1
  MaxDay = 2
  MaxSlips = 1
  Sessions = {s1}
  Messages = {x1, x2, x3}
  Removals = {b1, b2}
  Traits = {q1}
  Runs = {w1}
  NoSession = NoSession
  MaxEdits = 1
  TenantIds = {t1, t2}
  DefaultTenantId = t1
  Reflections = {g1}
  Syntheses = {b1, b2}
  Points = {1, 2, 3}
  Stories = {c1, c2}
  ArcIds = {b1, b2}
  Lookback = 1
  Scroll = 2
  Shown = 1
  NoStory = NoStory
  MaxBreaks = 1
SYMMETRY Symmetry
INVARIANTS
  TypeOK
  OrderlyUpgradesWork
  ReembeddingHolds
  BackupsHold
  ExchangesHold
  
CHECK_DEADLOCK FALSE
