SPECIFICATION FairSpec
CHECK_DEADLOCK FALSE
CONSTANTS
  c1 = c1
  c2 = c2
  h1 = h1
  h2 = h2
  p1 = p1
  p2 = p2
  p3 = p3
  NoCaller = NoCaller
  NoPage = NoPage
  Callers = {c1, c2}
  Hosts = {h1, h2}
  Pages = {p1, p2, p3}
  Enabled = TRUE
  PoolSize = 1
  PerHostLimit = 1
  PagesAge = TRUE
  MaxBrowser = 2
  MaxDeaths = 1
INVARIANTS
  TypeOK
  SlotsMatch
  PagesExclusive
  NoPageLeak
PROPERTIES
  RenderEnds
