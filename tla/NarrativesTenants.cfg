SPECIFICATION NarrativesSpec
CONSTANTS
  TenantIds = {t1, t2}
  DefaultTenantId = t1
  Reflections = {g1}
  Syntheses = {b1}
  Points = {1, 2, 3}
  Stories = {c1, c2}
  ArcIds = {a1}
  Lookback = 20
  Scroll = 80
  Shown = 10
  NoStory = NoStory
  MaxBreaks = 0
INVARIANTS
  RecentAreNewest
CHECK_DEADLOCK FALSE
