SPECIFICATION Spec
CHECK_DEADLOCK FALSE
SYMMETRY WorkerSymmetry
CONSTANTS
  j1 = j1
  j2 = j2
  a = a
  b = b
  c = c
  d = d
  e = e
  w1 = w1
  w2 = w2
  s1 = s1
  s2 = s2
  NoJob = NoJob
  NoUrl = NoUrl
  NoId = NoId
  Jobs = {j1, j2}
  Urls = {a, b, c, d}
  Request <- CrawlAndBatch
  Canon <- MCCanon
  MaxTaskId = 5
  MaxFaults = 1
  Limits = {}
  DedupeCache = TRUE
  Workers = {w1, w2}
  Links <- FanOut
  SitemapLinks <- NoLinks
  Nofollow = {c}
  Redirect <- RedirectAtoB
  MaxRetries = 0
  MaxTasks = 0
  IncludeSitemaps = FALSE
  RespectNofollow = TRUE
  HeartbeatsKeepUp = TRUE
  Sweepers = {}
INVARIANTS
  SeenHasDocument
  DoneCoversLinks
  TasksAreDiscovered
  DoneHasDocument
