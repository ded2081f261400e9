SPECIFICATION Spec
CONSTANTS
  NoItem = NoItem
  Cursor = Cursor
  t1 = t1
  t2 = t2
  k1 = k1
  k2 = k2
  Thread = {t1, t2}
  Keys = {k1, k2}
  Class = {1}
  PerSlab <- PerSlab1
  PageLimit = 0
  SizeClass <- OneClass
  SearchItems = 2
  UpdateInterval = 1
  TailRepairTime = 100
  TimeRange = 256
  EvictToFree = TRUE
  Values = {0, 1}
  Initial = {0}
  Delta <- Other
  Exptimes = {0}
  TouchTimes = {1}
  ScrubStep = 1
  MaxTime = 2
  MaxCas = 2
  MaxScrubs = 1
  MaxLeaks = 1
SYMMETRY Symmetry
INVARIANTS
  RefcountExact
  LinksAgree
PROPERTIES
  ImplementsStore
  FlushedGone
CHECK_DEADLOCK FALSE
