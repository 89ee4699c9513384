SPECIFICATION Spec
CHECK_DEADLOCK FALSE
SYMMETRY WorkerSymmetry
CONSTANTS
  j1 = j1
  j2 = j2
  a = a
  b = b
  c = c
  d = d
  e = e
  w1 = w1
  w2 = w2
  s1 = s1
  s2 = s2
  NoJob = NoJob
  NoUrl = NoUrl
  NoId = NoId
  Jobs = {j1, j2}
  Urls = {a, b, c}
  Request <- MapAndInvalid
  Canon <- MCCanon
  MaxTaskId = 3
  MaxFaults = 1
  Limits = {}
  DedupeCache = FALSE
  Workers = {w1, w2}
  Links <- Chain
  SitemapLinks <- SitemapC
  Nofollow = {}
  Redirect <- NoRedirect
  MaxRetries = 0
  MaxTasks = 3
  IncludeSitemaps = TRUE
  RespectNofollow = FALSE
  HeartbeatsKeepUp = FALSE
  Sweepers = {}
INVARIANTS
  DoneCoversLinks
  TasksAreDiscovered
